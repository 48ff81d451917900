-------------------------------- MODULE Lists --------------------------------
(***************************************************************************)
(* The two kinds of lists of spe_list.h, each by itself.                   *)
(***************************************************************************)
EXTENDS Parts

CONSTANTS Heads, Nodes, NULL

VARIABLES ring, said, chain, told

L == INSTANCE List
H == INSTANCE Hlist

ASSUME ListsAssumption == L!ListAssumption /\ H!ListAssumption

listvars == <<ring, said, chain, told>>

ListsInit == L!Init /\ H!Init

ListsNext ==
  /\ UNCHANGED part
  /\ \/ part = "list"  /\ L!Next /\ UNCHANGED <<chain, told>>
     \/ part = "hlist" /\ H!Next /\ UNCHANGED <<ring, said>>

ListsSpec == ListsInit /\ [][ListsNext]_<<part, listvars>>
----------------------------------------------------------------------------
\* The lists are the sequences that the calls make of them (spe_list.h).  That
\* a list takes a step only when it is the part used spares TLC the others.
ListsAreSequences ==
  /\ L!Sequence!Init /\ [][part = "list" /\ L!Sequence!Next]_(L!Sequence!vars)
  /\ H!Sequence!Init /\ [][part = "hlist" /\ H!Sequence!Next]_(H!Sequence!vars)
=============================================================================
