------------------------------ MODULE MCAccept ------------------------------
(* Small instances of Accept. *)
EXTENDS Accept, TLC

CONSTANTS w1, w2, w3

TwoWorkers   == {w1, w2}
ThreeWorkers == {w1, w2, w3}

\* No worker is told from another.
Symmetry == Permutations(ThreeWorkers)
============================================================================
