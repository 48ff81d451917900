-------------------------------- MODULE List --------------------------------
(***************************************************************************)
(* spe_list.h, the rings: two pointers in every entry and in every head.   *)
(*                                                                         *)
(* An operation is a sequence of stores; most of them come in pairs that   *)
(* make two entries neighbours (Link).  An entry deleted keeps NULLs, or   *)
(* with _init is alone in a ring; what one replaced, or a head whose       *)
(* entries were spliced away without the _init, points to is not kept      *)
(* (Forget): nothing may follow it until it is initialized or put into a   *)
(* ring again.                                                             *)
(***************************************************************************)
EXTENDS Integers, Sequences, FiniteSets

CONSTANTS
  Heads, Nodes,
  NULL

\* Heads and entries are different, and none is NULL.
ListAssumption ==
  /\ IsFiniteSet(Heads) /\ IsFiniteSet(Nodes)
  /\ NULL \notin Heads \cup Nodes /\ Heads \cap Nodes = {}

VARIABLES
  ring,   \* next and prev of heads and entries
  said    \* history: the last call, its arguments and its answer

vars == <<ring, said>>
All  == Heads \cup Nodes

INIT_LIST_HEAD(r, e) == [r EXCEPT !.next[e] = e, !.prev[e] = e]

Init ==
  /\ ring = [next |-> [e \in All |-> IF e \in Heads THEN e ELSE NULL],
             prev |-> [e \in All |-> IF e \in Heads THEN e ELSE NULL]]
  /\ said = <<"none">>

Forget(r, e) == [r EXCEPT !.next[e] = NULL, !.prev[e] = NULL]
Sound(h) == ring.next[h] # NULL

Link(r, a, b) == [r EXCEPT !.next[a] = b, !.prev[b] = a]

\* A slip forgets one of the four stores.
AddLinksBack(r, new, prev, next) == Link([r EXCEPT !.next[new] = next, !.prev[new] = prev], prev, new)
AddLinks(r, new, prev, next) == Link(Link(r, new, next), prev, new)

DelLinks(r, e) == Link(r, r.prev[e], r.next[e])

SpliceLinks(r, l, prev, next) == Link(Link(r, prev, r.next[l]), r.prev[l], next)

\* __list_cut_position
CutLinks(r, l, h, e) ==
  LET first == r.next[e]
  IN Link(Link(Link(r, l, r.next[h]), e, l), h, first)

Empty(h)    == ring.next[h] = h
Singular(h) == ~Empty(h) /\ ring.next[h] = ring.prev[h]

\* The entries from a head on, as a loop over the list sees them.
Walk(r, h) ==
  LET at[k \in 0..Cardinality(All)] ==
        IF k = 0 THEN r.next[h]
        ELSE IF at[k - 1] \in Nodes THEN r.next[at[k - 1]] ELSE at[k - 1]
  IN [k \in 1..Cardinality({i \in DOMAIN at : at[i] \in Nodes}) |-> at[k - 1]]

Seqs == [h \in Heads |-> Walk(ring, h)]

Linked(n) == ring.next[n] \notin {n, NULL}

Does(r, call, args) == ring' = r /\ said' = <<call>> \o args

list_add(n, h) ==
  ~Linked(n) /\ Sound(h) /\ Does(AddLinks(ring, n, h, ring.next[h]), "add", <<n, h>>)
list_add_tail(n, h) ==
  ~Linked(n) /\ Sound(h) /\ Does(AddLinks(ring, n, ring.prev[h], h), "add_tail", <<n, h>>)

list_del(n) ==
  /\ Linked(n)
  /\ Does(Forget(DelLinks(ring, n), n), "del", <<n>>)
list_del_init(n) == Sound(n) /\ Does(INIT_LIST_HEAD(DelLinks(ring, n), n), "del", <<n>>)

list_move(n, h) ==
  /\ Linked(n) /\ Sound(h)
  /\ LET r == DelLinks(ring, n) IN Does(AddLinks(r, n, h, r.next[h]), "move", <<n, h>>)
list_move_tail(n, h) ==
  /\ Linked(n) /\ Sound(h)
  /\ LET r == DelLinks(ring, n) IN Does(AddLinks(r, n, r.prev[h], h), "move_tail", <<n, h>>)

\* The stores in their order; with _init the old entry is then alone.
Replaced(old, new) ==
  LET r == Link(ring, new, ring.next[old]) IN Link(r, r.prev[old], new)
list_replace(old, new) ==
  /\ Linked(old) /\ ~Linked(new)
  /\ Does(Forget(Replaced(old, new), old), "replace", <<old, new>>)
list_replace_init(old, new) ==
  /\ Linked(old) /\ ~Linked(new)
  /\ Does(INIT_LIST_HEAD(Replaced(old, new), old), "replace", <<old, new>>)

list_rotate_left(h) ==
  /\ Sound(h)
  /\ IF Empty(h) THEN Does(ring, "rotate_left", <<h>>)
     ELSE LET n == ring.next[h]
              r == DelLinks(ring, n)
          IN Does(AddLinks(r, n, r.prev[h], h), "rotate_left", <<h>>)

\* e is an entry of h or h itself; l has nothing to lose.
list_cut_position(l, h, e) ==
  /\ l # h /\ Sound(h) /\ Seqs[l] = <<>>
  /\ e = h \/ \E i \in DOMAIN Seqs[h] : Seqs[h][i] = e
  /\ Does(IF Empty(h) \/ (Singular(h) /\ ring.next[h] # e /\ h # e) THEN ring
          ELSE IF e = h THEN INIT_LIST_HEAD(ring, l)
          ELSE CutLinks(ring, l, h, e), "cut", <<l, h, e>>)

Splice(l, h, prev, next, call, init) ==
  /\ l # h /\ Sound(l) /\ Sound(h)
  /\ LET r == SpliceLinks(ring, l, prev, next)
     IN Does(IF Empty(l) THEN ring ELSE IF init THEN INIT_LIST_HEAD(r, l) ELSE Forget(r, l),
             call, <<l, h>>)

list_splice(l, h)           == Splice(l, h, h, ring.next[h], "splice", FALSE)
list_splice_tail(l, h)      == Splice(l, h, ring.prev[h], h, "splice_tail", FALSE)
list_splice_init(l, h)      == Splice(l, h, h, ring.next[h], "splice", TRUE)
list_splice_tail_init(l, h) == Splice(l, h, ring.prev[h], h, "splice_tail", TRUE)

Reinit(h) ==
  ~Sound(h) /\ ring' = INIT_LIST_HEAD(ring, h) /\ UNCHANGED said

list_empty(h)       == Sound(h) /\ Does(ring, "empty", <<h, Empty(h)>>)
list_empty_careful(h) ==
  Sound(h) /\ Does(ring, "empty", <<h, Empty(h) /\ ring.prev[h] = ring.next[h]>>)
list_is_singular(h) == Sound(h) /\ Does(ring, "singular", <<h, Singular(h)>>)
list_is_last(n, h) ==
  /\ \E i \in DOMAIN Seqs[h] : Seqs[h][i] = n
  /\ Does(ring, "is_last", <<n, h, ring.next[n] = h>>)

Next ==
  \/ \E n \in Nodes, h \in Heads :
       \/ list_add(n, h) \/ list_add_tail(n, h)
       \/ list_move(n, h) \/ list_move_tail(n, h) \/ list_is_last(n, h)
  \/ \E n \in Nodes : list_del(n) \/ list_del_init(n)
  \/ \E old, new \in Nodes : list_replace(old, new) \/ list_replace_init(old, new)
  \/ \E h \in Heads :
       \/ list_rotate_left(h) \/ Reinit(h)
       \/ list_empty(h) \/ list_empty_careful(h) \/ list_is_singular(h)
  \/ \E l, h \in Heads :
       \/ list_splice(l, h) \/ list_splice_tail(l, h)
       \/ list_splice_init(l, h) \/ list_splice_tail_init(l, h)
       \/ \E e \in Nodes \cup {h} : list_cut_position(l, h, e)

Spec == Init /\ [][Next]_vars
----------------------------------------------------------------------------
\* Whatever order the calls come in, the loops over the rings find the
\* sequences of entries that the calls make, and the questions are answered
\* for them (spe_list.h:31-319).
Sequence == INSTANCE ListSpec WITH seqs <- Seqs, last <- said
ListsAreSequences == Sequence!Spec
=============================================================================
