-------------------------------- MODULE Parts --------------------------------
(***************************************************************************)
(* The structures that Buffers, Data and Lists put side by side have       *)
(* nothing to do with each other: a behaviour uses one of them, and the    *)
(* others stay as they are at first.                                       *)
(***************************************************************************)
CONSTANT NUL    \* the byte that ends a C string
VARIABLE part   \* the one that is used
=============================================================================
