------------------------------- MODULE Buffers -------------------------------
(***************************************************************************)
(* The byte buffers of spe_buf.c, by themselves.                           *)
(***************************************************************************)
EXTENDS Parts

CONSTANTS Junk, W, Letters, Keys, MaxText, MaxArg, ReadLen, Lower(_), Upper(_)

VARIABLES buf, last

B == INSTANCE Buf WITH Bytes <- Letters

ASSUME BuffersAssumption == B!BufAssumption

BuffersNext == UNCHANGED part /\ part = "buf" /\ B!Next

BuffersSpec == B!Init /\ [][BuffersNext]_<<part, buf, last>>
----------------------------------------------------------------------------
\* A buffer is the string of bytes the calls make of it, inside its memory
\* (spe_buf.c).  That it takes a step only when it is the part used spares TLC
\* the others.
BufferIsString ==
  [](part = "buf" => B!InBounds) /\ B!String!Init /\ [][part = "buf" /\ B!String!Next]_(B!String!vars)
=============================================================================
