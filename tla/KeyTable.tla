------------------------------ MODULE KeyTable ------------------------------
(***************************************************************************)
(* What the map of spe_map.c stands for: its entries in the order they     *)
(* were made.  Same(q, n) says that a search for q finds an entry made     *)
(* under the name n.                                                       *)
(***************************************************************************)
EXTENDS Integers, Sequences, SequencesExt, FiniteSetsExt

CONSTANTS Names, Objects, Same(_, _), Nobody

VARIABLES
  entries,   \* name and object of each, the oldest first
  said       \* the last call, its argument, its answer and what was released

vars == <<entries, said>>

Init == entries = <<>> /\ said = <<"create">>

Call(call, arg, answer, released) == said' = <<call, arg, answer, released>>

\* The newest entry a search finds, 0 if there is none.
Found(q) ==
  LET at == {i \in DOMAIN entries : Same(q, entries[i].name)}
  IN IF at = {} THEN 0 ELSE Max(at)

Set(q, obj) ==
  /\ obj \notin {entries[i].obj : i \in DOMAIN entries}
  /\ \/ /\ Found(q) = 0
        /\ entries' = Append(entries, [name |-> q, obj |-> obj])
        /\ Call("set", q, "ok", {})
     \/ Found(q) # 0 /\ UNCHANGED entries /\ Call("set", q, "conflict", {})
     \/ Found(q) = 0 /\ UNCHANGED entries /\ Call("set", q, "error", {})

Get(q) ==
  /\ UNCHANGED entries
  /\ Call("get", q, IF Found(q) = 0 THEN Nobody ELSE entries[Found(q)].obj, {})

\* The object of an entry that goes is released.
Del(q) ==
  IF Found(q) = 0 THEN UNCHANGED entries /\ Call("del", q, FALSE, {})
  ELSE /\ entries' = RemoveAt(entries, Found(q))
       /\ Call("del", q, TRUE, {entries[Found(q)].obj})

Clean ==
  /\ entries' = <<>>
  /\ Call("clean", Nobody, TRUE, {entries[i].obj : i \in DOMAIN entries})

Following ==
  /\ UNCHANGED entries
  /\ \E i \in 0..Len(entries) :
       Call("next", IF i = 0 THEN Nobody ELSE entries[i].obj,
            IF i = Len(entries) THEN Nobody ELSE entries[i + 1].obj, {})

Next ==
  \/ \E q \in Names : Get(q) \/ Del(q) \/ \E obj \in Objects : Set(q, obj)
  \/ Clean \/ Following

Spec == Init /\ [][Next]_vars
=============================================================================
