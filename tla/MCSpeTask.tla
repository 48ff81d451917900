----------------------------- MODULE MCSpeTask -----------------------------
(* Small instances of SpeTask. *)
EXTENDS SpeTask, TLC

CONSTANTS t1, t2, listen

MCTasks == {t1, t2, listen}
MCFast  == {listen}

\* t1 and t2 are interchangeable; `listen` is the fast task.
Symmetry == Permutations({t1, t2})
============================================================================
