------------------------------ MODULE ListSpec ------------------------------
(***************************************************************************)
(* What the lists of spe_list.h stand for: to each head belongs a sequence *)
(* of entries, no entry is in two places, and each call does to the        *)
(* sequences what its name says.                                           *)
(***************************************************************************)
EXTENDS Integers, Sequences, SequencesExt

CONSTANTS Heads, Nodes

VARIABLES
  seqs,   \* the entries at each head
  last    \* the last call, its arguments and its answer

vars == <<seqs, last>>

Init == seqs = [h \in Heads |-> <<>>] /\ last = <<"none">>

Of(n)    == CHOOSE h \in Heads : n \in Range(seqs[h])
Place(n) == CHOOSE i \in DOMAIN seqs[Of(n)] : seqs[Of(n)][i] = n
Linked   == UNION {Range(seqs[h]) : h \in Heads}
Idle     == Nodes \ Linked
Less(n)  == [seqs EXCEPT ![Of(n)] = RemoveAt(@, Place(n))]

Say(call, args) == last' = <<call>> \o args

Add(n, h) ==
  /\ \/ Say("add", <<n, h>>) /\ seqs' = [seqs EXCEPT ![h] = <<n>> \o @]
     \/ Say("add_tail", <<n, h>>) /\ seqs' = [seqs EXCEPT ![h] = @ \o <<n>>]
  /\ n \in Idle

\* An entry that is in no list may be deleted once more.
Delete(n) == Say("del", <<n>>) /\ seqs' = IF n \in Linked THEN Less(n) ELSE seqs

Move(n, h) ==
  /\ \/ Say("move", <<n, h>>) /\ seqs' = [Less(n) EXCEPT ![h] = <<n>> \o @]
     \/ Say("move_tail", <<n, h>>) /\ seqs' = [Less(n) EXCEPT ![h] = @ \o <<n>>]
  /\ n \in Linked

\* new stands where old stood.
Replace(old, new) ==
  /\ Say("replace", <<old, new>>)
  /\ old \in Linked /\ new \in Idle
  /\ seqs' = [seqs EXCEPT ![Of(old)][Place(old)] = new]

RotateLeft(h) ==
  /\ Say("rotate_left", <<h>>)
  /\ seqs' = [seqs EXCEPT ![h] = IF @ = <<>> THEN @ ELSE Tail(@) \o <<Head(@)>>]

\* All entries of one head go to one end of the other.
Splice(l, h) ==
  /\ l # h
  /\ \/ Say("splice", <<l, h>>) /\ seqs' = [seqs EXCEPT ![l] = <<>>, ![h] = seqs[l] \o @]
     \/ Say("splice_tail", <<l, h>>) /\ seqs' = [seqs EXCEPT ![l] = <<>>, ![h] = @ \o seqs[l]]

\* The entries up to e, or none if e is the head, go to an empty head.
CutPosition(l, h, e) ==
  LET k == IF e = h THEN 0 ELSE Place(e)
  IN /\ Say("cut", <<l, h, e>>)
     /\ l # h /\ seqs[l] = <<>> /\ e \in Range(seqs[h]) \cup {h}
     /\ seqs' = [seqs EXCEPT ![l] = SubSeq(seqs[h], 1, k),
                             ![h] = SubSeq(@, k + 1, Len(@))]

Ask(h) ==
  \E answer \in BOOLEAN :
    /\ \/ Say("empty", <<h, answer>>) /\ answer = (seqs[h] = <<>>)
       \/ Say("singular", <<h, answer>>) /\ answer = (Len(seqs[h]) = 1)
       \/ \E n \in Nodes : /\ Say("is_last", <<n, h, answer>>)
                           /\ n \in Range(seqs[h]) /\ answer = (Last(seqs[h]) = n)
    /\ UNCHANGED seqs
AskUnhashed(n) ==
  \E answer \in BOOLEAN :
    Say("unhashed", <<n, answer>>) /\ answer = (n \in Idle) /\ UNCHANGED seqs

\* Of the hash lists only.
InsertBefore(n, next) ==
  /\ Say("add_before", <<n, next>>)
  /\ n \in Idle /\ next \in Linked
  /\ seqs' = [seqs EXCEPT ![Of(next)] = InsertAt(@, Place(next), n)]
InsertAfter(prev, n) ==
  /\ Say("add_after", <<prev, n>>)
  /\ n \in Idle /\ prev \in Linked
  /\ seqs' = [seqs EXCEPT ![Of(prev)] = InsertAt(@, Place(prev) + 1, n)]

Next ==
  \/ \E n \in Nodes, h \in Heads : Add(n, h) \/ Move(n, h)
  \/ \E n \in Nodes : Delete(n) \/ AskUnhashed(n)
  \/ \E m, n \in Nodes : Replace(m, n) \/ InsertBefore(m, n) \/ InsertAfter(m, n)
  \/ \E h \in Heads : RotateLeft(h) \/ Ask(h)
  \/ \E l, h \in Heads : Splice(l, h) \/ \E e \in Nodes \cup {h} : CutPosition(l, h, e)

Spec == Init /\ [][Next]_vars
=============================================================================
