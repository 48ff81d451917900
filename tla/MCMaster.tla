------------------------------ MODULE MCMaster ------------------------------
(* Small instances of Master. *)
EXTENDS Master

TheSigs == {Chld, Term}
=============================================================================
