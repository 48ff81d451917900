------------------------------- MODULE MCTpool -------------------------------
(* Small instances of Tpool. *)
EXTENDS Tpool, TLC

CONSTANTS s1, s2

TwoSubmitters == {s1, s2}
=============================================================================
