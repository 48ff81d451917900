-------------------------------- MODULE Hlist --------------------------------
(***************************************************************************)
(* spe_list.h, the lists of the hash map: a head with one pointer, and in  *)
(* every entry the next one and the place of the pointer to itself, which  *)
(* is `first' of a head or `next' of the entry before it.                  *)
(***************************************************************************)
EXTENDS Integers, Sequences, FiniteSets

CONSTANTS
  Heads, Nodes,
  NULL

\* Pointers point to entries or are NULL.
ListAssumption == IsFiniteSet(Nodes) /\ NULL \notin Nodes /\ NULL \notin {"first", "next"} \X (Heads \cup Nodes)

VARIABLES
  chain,   \* first of the heads, next and pprev of the entries
  told     \* history: the last call, its arguments and its answer

vars == <<chain, told>>

First(h) == <<"first", h>>
After(n) == <<"next", n>>

Init ==
  /\ chain = [first |-> [h \in Heads |-> NULL], next |-> [n \in Nodes |-> NULL],
              pprev |-> [n \in Nodes |-> NULL]]
  /\ told = <<"none">>

\* *at = n, and n knows the place, if it is one.
Store(c, at, n) ==
  IF at[1] = "first" THEN [c EXCEPT !.first[at[2]] = n] ELSE [c EXCEPT !.next[at[2]] = n]
Place(c, at, n) ==
  IF n = NULL THEN Store(c, at, n) ELSE [Store(c, at, n) EXCEPT !.pprev[n] = at]

Unhashed(n) == chain.pprev[n] = NULL

\* A slip: the entry behind keeps the place of the one that went.
StoreOnly(c, n) == Store(c, c.pprev[n], c.next[n])
Unlinked(c, n)  == Place(c, c.pprev[n], c.next[n])

\* The entries from a head on, as a loop over the list sees them.
Walk(c, h) ==
  LET at[k \in 0..Cardinality(Nodes)] ==
        IF k = 0 THEN c.first[h]
        ELSE IF at[k - 1] = NULL THEN NULL ELSE c.next[at[k - 1]]
  IN [k \in 1..Cardinality({i \in DOMAIN at : at[i] # NULL}) |-> at[k - 1]]
Seqs == [h \in Heads |-> Walk(chain, h)]

Does(c, call, args) == chain' = c /\ told' = <<call>> \o args

hlist_del(n) ==
  /\ ~Unhashed(n)
  /\ Does([Unlinked(chain, n) EXCEPT !.next[n] = NULL, !.pprev[n] = NULL], "del", <<n>>)
hlist_del_init(n) == hlist_del(n) \/ (Unhashed(n) /\ Does(chain, "del", <<n>>))

hlist_add_head(n, h) ==
  /\ Unhashed(n)
  /\ Does(Place(Place(chain, After(n), chain.first[h]), First(h), n), "add", <<n, h>>)

hlist_add_before(n, next) ==
  /\ Unhashed(n) /\ ~Unhashed(next)
  /\ LET at == chain.pprev[next]
     IN Does(Place(Place(chain, After(n), next), at, n), "add_before", <<n, next>>)

\* The entry added is the second.
hlist_add_after(n, next) ==
  /\ ~Unhashed(n) /\ Unhashed(next)
  /\ Does(Place(Place(chain, After(next), chain.next[n]), After(n), next),
          "add_after", <<n, next>>)

\* The new head has nothing to lose.
hlist_move_list(old, new) ==
  /\ old # new /\ chain.first[new] = NULL
  /\ Does(Store(Place(chain, First(new), chain.first[old]), First(old), NULL),
          "splice", <<old, new>>)

hlist_empty(h)    == Does(chain, "empty", <<h, chain.first[h] = NULL>>)
hlist_unhashed(n) == Does(chain, "unhashed", <<n, Unhashed(n)>>)

Next ==
  \/ \E n \in Nodes : hlist_del(n) \/ hlist_del_init(n) \/ hlist_unhashed(n)
  \/ \E n \in Nodes, h \in Heads : hlist_add_head(n, h)
  \/ \E m, n \in Nodes : hlist_add_before(m, n) \/ hlist_add_after(m, n)
  \/ \E g, h \in Heads : hlist_move_list(g, h)
  \/ \E h \in Heads : hlist_empty(h)

Spec == Init /\ [][Next]_vars
----------------------------------------------------------------------------
\* The places entries remember stay true in whatever order they come and go:
\* the chains are the sequences the calls make of them (spe_list.h:574-640).
Sequence == INSTANCE ListSpec WITH seqs <- Seqs, last <- told
ListsAreSequences == Sequence!Spec
=============================================================================
