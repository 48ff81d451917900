----------------------------- MODULE SortedQueue -----------------------------
(***************************************************************************)
(* What a red-black tree of timers stands for: the timers in the order of  *)
(* their keys, and in that of insertion where keys are equal.              *)
(***************************************************************************)
EXTENDS Integers, Sequences, SequencesExt

CONSTANTS Nodes, Key(_)

VARIABLE queue

Init == queue = <<>>

Insert(n) ==
  LET before == SelectSeq(queue, LAMBDA m : Key(m) <= Key(n))
  IN n \notin Range(queue) /\ queue' = InsertAt(queue, Len(before) + 1, n)

Erase(n) == n \in Range(queue) /\ queue' = Remove(queue, n)

Replace(victim, new) ==
  /\ victim \in Range(queue) /\ new \notin Range(queue)
  /\ queue' = [i \in DOMAIN queue |-> IF queue[i] = victim THEN new ELSE queue[i]]

Next == \E n \in Nodes : Insert(n) \/ Erase(n) \/ \E m \in Nodes : Replace(m, n)

Spec == Init /\ [][Next]_queue
=============================================================================
