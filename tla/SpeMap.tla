------------------------------- MODULE SpeMap -------------------------------
(***************************************************************************)
(* spe_map.c: a table of chains by hash value, the newest item first, and  *)
(* one list of all items, the newest last.                                 *)
(*                                                                         *)
(* An item keeps the first KeyMax characters of the name it was made       *)
(* under, but stands in the chain that the whole name hashes to, and       *)
(* searches compare with the whole name.                                   *)
(***************************************************************************)
EXTENDS Integers, Sequences, SequencesExt, FiniteSetsExt

CONSTANTS
  Names,     \* strings used as keys
  KeyMax,    \* SPE_MAP_KEYLEN - 1
  Buckets,   \* indices of the chains
  Hash(_),   \* genhashvalue() % size
  Objects,   \* what is stored; an item is known by its object
  Nobody,    \* NULL
  MaxItems   \* bound

\* A name is a string, and hashes to one of the chains.
MapAssumption ==
  /\ KeyMax \in Nat
  /\ \A name \in Names : name \in Seq(Range(name)) /\ Hash(name) \in Buckets

VARIABLE map
\* chain, list, Len: of the speMap_t
\* said: history, the last call, its argument, its answer and what was released

Init ==
  map = [chain |-> [b \in Buckets |-> <<>>], list |-> <<>>, Len |-> 0,
         said |-> <<"create">>]

Kept(name) == SubSeq(name, 1, IF Len(name) < KeyMax THEN Len(name) ELSE KeyMax)

\* speMapSearch: an item of the chain, as a set of at most one.
Search(key) ==
  LET c  == map.chain[Hash(key)]
      at == {i \in DOMAIN c : Kept(c[i].name) = key}
  IN IF at = {} THEN {} ELSE {c[Min(at)]}

Does(m, call, arg, answer, released) ==
  map' = [m EXCEPT !.said = <<call, arg, answer, released>>]

SpeMapGet(key) ==
  LET found == Search(key)
  IN Does(map, "get", key, IF found = {} THEN Nobody ELSE (CHOOSE i \in found : TRUE).obj, {})

\* A slip: an item more for a key that is there.
ConflictNever(key) == FALSE
Conflict(key) == Search(key) # {}

SpeMapSet(key, obj) ==
  /\ \A i \in DOMAIN map.list : map.list[i].obj # obj
  /\ LET item == [name |-> key, obj |-> obj]
     IN IF Conflict(key) THEN Does(map, "set", key, "conflict", {})
        ELSE \/ Does(map, "set", key, "error", {})
             \/ /\ map.Len < MaxItems
                /\ Does([map EXCEPT !.list = Append(@, item),
                                    !.chain[Hash(key)] = <<item>> \o @, !.Len = @ + 1],
                        "set", key, "ok", {})

\* speMapItemDestroy calls the map's handler with the object.
SpeMapDel(key) ==
  IF Search(key) = {} THEN Does(map, "del", key, FALSE, {})
  ELSE LET item == CHOOSE i \in Search(key) : TRUE
       IN Does([map EXCEPT !.list = RemoveFirst(@, item), !.Len = @ - 1,
                           !.chain = [b \in Buckets |-> RemoveFirst(@[b], item)]],
               "del", key, TRUE, {item.obj})

\* What is left of a list without the items in gone.
Left(list, gone) ==
  LET upto[i \in 0..Len(list)] ==
        IF i = 0 THEN <<>>
        ELSE IF list[i] \in gone THEN upto[i - 1] ELSE Append(upto[i - 1], list[i])
  IN upto[Len(list)]

\* Chain by chain; SpeMapDestroy does the same.
SpeMapClean ==
  LET gone == UNION {Range(map.chain[b]) : b \in Buckets}
  IN Does([map EXCEPT !.chain = [b \in Buckets |-> <<>>], !.Len = 0,
                      !.list = Left(@, gone)],
          "clean", Nobody, TRUE, {i.obj : i \in gone})

\* The item behind the i-th one; behind none, the first.
SpeMapNext(i) ==
  Does(map, "next", IF i = 0 THEN Nobody ELSE map.list[i].obj,
       IF i = Len(map.list) THEN Nobody ELSE map.list[i + 1].obj, {})

Next ==
  \/ \E key \in Names :
       SpeMapGet(key) \/ SpeMapDel(key) \/ \E obj \in Objects : SpeMapSet(key, obj)
  \/ SpeMapClean
  \/ \E i \in 0..Len(map.list) : SpeMapNext(i)

Spec == Init /\ [][Next]_map
----------------------------------------------------------------------------
Fits(name) == Kept(name) = name
Items      == Range(map.list)

\* Every item is in the list and in one chain, and counted; of the names that
\* fit each has one item at most, and a name that does not fit is never found,
\* whatever was stored under it (spe_map.c:13-23, 91-136).
Tidy ==
  /\ map.Len = Len(map.list)
  /\ IsInjective(map.list)
  /\ \A b \in Buckets : Range(map.chain[b]) = {i \in Items : Hash(i.name) = b}
  /\ \A i, j \in Items : Fits(i.name) /\ i.name = j.name => i = j
  /\ \A name \in Names : ~Fits(name) => Search(name) = {}

\* For names that fit the map is a function; what is stored under a longer
\* name is counted, listed and released, but found only by its first part, and
\* only if the two hash alike.
Same(q, name) == q = Kept(name) /\ Hash(q) = Hash(name)
Table == INSTANCE KeyTable WITH entries <- map.list, said <- map.said
MapIsTable == []Tidy /\ Table!Spec
=============================================================================
