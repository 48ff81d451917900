------------------------------ MODULE MCSignal ------------------------------
(* Small instances of SignalLoop. *)
EXTENDS SignalLoop, TLC

CONSTANTS chld, term, int

TwoSigs   == {chld, term}
ThreeSigs == {chld, term, int}

\* No signal is told from another.
Symmetry == Permutations(ThreeSigs)
=============================================================================
