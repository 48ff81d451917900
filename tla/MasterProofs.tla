---------------------------- MODULE MasterProofs ----------------------------
(***************************************************************************)
(* Theorems about the master, for any number of workers, slots, failing    *)
(* forks and crashes: spe_workers lists its children, each once, the ends  *)
(* of the socket pairs are open where they are needed, and signals are     *)
(* used as SignalLoop says, so that the theorems of SignalProofs hold.     *)
(*                                                                         *)
(* A fork and what waitpid makes free are first looked at as changes of a  *)
(* table, of the descriptors and of the set of children (Lists, EndsAt).   *)
(***************************************************************************)
EXTENDS Master, FiniteSetTheorems, QueueLemmas

USE DEF queuevars

\* The table T lists the workers in C, each once.
Lists(T, C) ==
  /\ T \in [Slots -> 0..MaxForks]
  /\ \A i \in Slots : T[i] # 0 => T[i] \in C
  /\ \A c \in C : \E i \in Slots : T[i] = c
  /\ \A i, j \in Slots : T[i] # 0 /\ T[i] = T[j] => i = j

Used(T) == {i \in Slots : T[i] # 0}

\* The master has its ends open for the workers in C, and others only for
\* workers older than themselves, which R are running.
EndsAt(E, C, R) ==
  /\ E \in [Pids -> SUBSET (Pids \cup {Boss})]
  /\ \A p \in Pids : Boss \in E[p] <=> p \in C
  /\ \A p \in Pids : \A q \in E[p] \ {Boss} : q > p /\ q \in R

----------------------------------------------------------------------------
(* Tables and descriptors.                                                 *)

LEMMA Constants ==
  /\ MaxForks \in Nat /\ Procs \in Nat /\ SPE_MAX_WORKER \in Nat /\ MaxFails \in Nat
  /\ MaxCrashes \in Nat /\ MaxKills \in Nat /\ MaxForks >= Procs + MaxCrashes
  /\ Boss \notin Pids
  BY MasterAssumption DEF Pids

LEMMA UsedFinite ==
  ASSUME NEW T
  PROVE  IsFiniteSet(Used(T)) /\ Cardinality(Used(T)) \in Nat
<1>1. IsFiniteSet(Slots)
  BY Constants, FS_Interval DEF Slots
<1>2. IsFiniteSet(Used(T))
  BY <1>1, FS_Subset DEF Used
<1> QED BY <1>2, FS_CardinalityType

\* get_slot finds a free slot.
LEMMA SlotFound ==
  ASSUME NEW T, FreeSlots(T) # {}
  PROVE  get_slot(T) \in Slots /\ T[get_slot(T)] = 0
<1>1. FreeSlots(T) \subseteq Nat
  BY Constants DEF FreeSlots, Slots
<1>2. \E i \in FreeSlots(T) : \A j \in FreeSlots(T) : i <= j
  BY <1>1, LeastNatural
<1>3. get_slot(T) \in FreeSlots(T)
  BY <1>2 DEF get_slot
<1> QED BY <1>3 DEF FreeSlots

\* A worker takes a free slot.
LEMMA TakeSlot ==
  ASSUME NEW T, NEW C \in SUBSET Pids, Lists(T, C),
         NEW i \in Slots, T[i] = 0, NEW q \in Pids, q \notin C
  PROVE  /\ Lists([T EXCEPT ![i] = q], C \cup {q})
         /\ Cardinality(Used([T EXCEPT ![i] = q])) = Cardinality(Used(T)) + 1
<1> DEFINE U == [T EXCEPT ![i] = q]
<1>1. q \in 0..MaxForks /\ q # 0 /\ T \in [Slots -> 0..MaxForks]
  BY Constants DEF Pids, Lists
<1>2. U \in [Slots -> 0..MaxForks] /\ U[i] = q /\ \A j \in Slots \ {i} : U[j] = T[j]
  BY <1>1
<1>3. \A j \in Slots : U[j] # 0 => U[j] \in C \cup {q}
  BY <1>2 DEF Lists
<1>4. \A c \in C \cup {q} : \E j \in Slots : U[j] = c
  <2> SUFFICES ASSUME NEW c \in C \cup {q} PROVE \E j \in Slots : U[j] = c
    OBVIOUS
  <2>1. CASE c = q
    BY <2>1, <1>2
  <2>2. CASE c \in C
    <3>1. PICK j \in Slots : T[j] = c
      BY <2>2 DEF Lists
    <3>2. c # 0
      BY <2>2, Constants DEF Pids
    <3> QED BY <3>1, <3>2, <1>2
  <2> QED BY <2>1, <2>2
<1>5. \A j, k \in Slots : U[j] # 0 /\ U[j] = U[k] => j = k
  BY <1>1, <1>2 DEF Lists
<1>6. Used(U) = Used(T) \cup {i} /\ i \notin Used(T)
  BY <1>1, <1>2 DEF Used
<1>7. Cardinality(Used(U)) = Cardinality(Used(T)) + 1
  <2> DEFINE S == Used(T)
  <2>1. IsFiniteSet(S)
    BY UsedFinite
  <2> HIDE DEF S
  <2>2. i \notin S => Cardinality(S \cup {i}) = Cardinality(S) + 1
    BY <2>1, FS_AddElement
  <2> QED BY <1>6, <2>2 DEF S
<1> QED BY <1>2, <1>3, <1>4, <1>5, <1>7 DEF Lists

\* spe_worker_reset frees the slot of a worker.
LEMMA SlotFreed ==
  ASSUME NEW C \in SUBSET Pids, Lists(workers, C), NEW p \in C
  PROVE  /\ Lists(Without(p), C \ {p})
         /\ Cardinality(Used(Without(p))) = Cardinality(Used(workers)) - 1
         /\ FreeSlots(Without(p)) # {}
<1> DEFINE U == Without(p)
<1>1. PICK i \in Slots : workers[i] = p
  BY DEF Lists
<1>2. p # 0 /\ workers \in [Slots -> 0..MaxForks]
  BY Constants DEF Pids, Lists
<1>3. U \in [Slots -> 0..MaxForks] /\ U[i] = 0 /\ \A j \in Slots \ {i} : U[j] = workers[j]
  BY <1>1, <1>2, Constants DEF Without, Lists
<1>4. \A j \in Slots : U[j] # 0 => U[j] \in C \ {p}
  BY <1>1, <1>2, <1>3 DEF Lists
<1>5. \A c \in C \ {p} : \E j \in Slots : U[j] = c
  BY <1>1, <1>3 DEF Lists
<1>6. \A j, k \in Slots : U[j] # 0 /\ U[j] = U[k] => j = k
  BY <1>3 DEF Lists
<1>7. Used(U) = Used(workers) \ {i} /\ i \in Used(workers)
  BY <1>1, <1>2, <1>3 DEF Used
<1>8. Cardinality(Used(U)) = Cardinality(Used(workers)) - 1
  <2> IsFiniteSet(Used(workers))
    BY UsedFinite
  <2> Cardinality(Used(workers) \ {i}) = Cardinality(Used(workers)) - 1
    BY <1>7, FS_RemoveElement
  <2> QED BY <1>7
<1>9. i \in FreeSlots(U)
  BY <1>3 DEF FreeSlots
<1> QED BY <1>3, <1>4, <1>5, <1>6, <1>8, <1>9 DEF Lists

\* A fork puts the new worker in the table, opens an end for it and gives it
\* the ends that are open for the others.
LEMMA ForkEffect ==
  ASSUME NEW T, NEW E, NEW C \in SUBSET Pids, NEW R \in SUBSET Pids,
         Lists(T, C), EndsAt(E, C, R), ForkWith(T, E),
         forks \in Nat, forks + 1 \in Pids, \A c \in C \cup R : c <= forks
  PROVE  /\ forks' = forks + 1
         /\ Lists(workers', C \cup {forks + 1})
         /\ Cardinality(Used(workers')) = Cardinality(Used(T)) + 1
         /\ EndsAt(holders', C \cup {forks + 1}, R \cup {forks + 1})
<1> DEFINE p == forks + 1
<1>1. p \notin C /\ p \notin R /\ p \in Pids /\ p > forks
  OBVIOUS
<1>2. /\ forks' = p /\ FreeSlots(T) # {}
      /\ workers' = [T EXCEPT ![get_slot(T)] = p]
      /\ holders' = [q \in Pids |->
                       (IF q = p THEN {Boss} ELSE E[q])
                         \cup (IF q \in Inherited(T) THEN {p} ELSE {})]
  BY DEF ForkWith
<1>3. Lists(workers', C \cup {p}) /\ Cardinality(Used(workers')) = Cardinality(Used(T)) + 1
  <2> DEFINE i == get_slot(T)
  <2>1. i \in Slots /\ T[i] = 0
    BY <1>2, SlotFound
  <2>2. workers' = [T EXCEPT ![i] = p]
    BY <1>2
  <2> HIDE DEF i
  <2> QED BY <1>1, <2>1, <2>2, TakeSlot
<1>4. \A q \in Pids : q \in Inherited(T) => q \in C
  <2> SUFFICES ASSUME NEW q \in Pids, NEW i \in Slots, T[i] = q PROVE q \in C
    BY DEF Inherited
  <2> QED BY Constants DEF Pids, Lists
<1>5. \A q \in Pids : q \in Inherited(T) => p > q
  BY <1>1, <1>4 DEF Pids
<1>6. holders' \in [Pids -> SUBSET (Pids \cup {Boss})]
  BY <1>1, <1>2 DEF EndsAt
<1>7. \A q \in Pids : Boss \in holders'[q] <=> q \in C \cup {p}
  BY <1>1, <1>2, Constants DEF EndsAt
<1>8. \A q \in Pids : \A r \in holders'[q] \ {Boss} : r > q /\ r \in R \cup {p}
  BY <1>1, <1>2, <1>5 DEF EndsAt
<1> QED BY <1>2, <1>3, <1>6, <1>7, <1>8 DEF EndsAt

----------------------------------------------------------------------------
(* The invariant.                                                          *)

Children == Living \cup Zombies
Reaped == {p \in Pids : worker[p] = "gone"}
Ended == Zombies \cup Reaped

\* Table, descriptors and children agree; workers are numbered as forked.
TableInv ==
  /\ \A p \in Pids : worker[p] = "none" <=> p > forks
  /\ at # "gone" => Lists(workers, Children) /\ told = {}
  /\ EndsAt(holders, IF at = "gone" THEN {} ELSE Children, Living)
  /\ leaked <= fails

\* What is forked, lost and reaped adds up: only crashes end workers while
\* the master is there, so that there is a number left for every fork.
CountInv ==
  at # "gone" =>
    /\ Cardinality(Ended) <= crashes /\ crashes <= MaxCrashes
    /\ forks <= Procs + Cardinality(Reaped)
    /\ at = "boot" => fails = 0 /\ forks <= Procs /\ Cardinality(Used(workers)) = forks
    /\ at # "boot" => Cardinality(Used(workers)) + fails = Procs

IInv == TypeOK /\ TableInv /\ CountInv

LEMMA PidsFinite ==
  ASSUME NEW S \in SUBSET Pids
  PROVE  IsFiniteSet(S) /\ Cardinality(S) \in Nat
<1>1. IsFiniteSet(Pids)
  BY Constants, FS_Interval DEF Pids
<1>2. IsFiniteSet(S)
  BY <1>1, FS_Subset
<1> QED BY <1>2, FS_CardinalityType

LEMMA InitInvariant == Init => IInv
<1> SUFFICES ASSUME Init PROVE IInv
  OBVIOUS
<1>1. /\ at = "boot" /\ workers = [i \in Slots |-> 0] /\ worker = [p \in Pids |-> "none"]
      /\ holders = [p \in Pids |-> {}] /\ told = {} /\ asked = FALSE
      /\ forks = 0 /\ fails = 0 /\ leaked = 0 /\ crashes = 0 /\ kills = 0
  BY DEF Init
<1>2. Living = {} /\ Children = {} /\ Ended = {} /\ Reaped = {} /\ Used(workers) = {}
  BY <1>1 DEF Living, Zombies, Children, Ended, Reaped, Used
<1>3. TypeOK
  <2>1. workers \in [Slots -> 0..MaxForks] /\ forks \in 0..MaxForks
    BY <1>1, Constants
  <2>2. worker \in [Pids -> {"none", "run", "zombie", "gone"}]
        /\ holders \in [Pids -> SUBSET (Pids \cup {Boss})]
    BY <1>1
  <2>3. told \subseteq Pids /\ {fails, leaked, crashes, kills} \subseteq Nat
    BY <1>1
  <2>5. asked \in BOOLEAN
    BY <1>1, Zenon
  <2>4. at \in {"boot", "register", "loop", "asleep", "signals", "reap", "stop", "gone"}
    BY <1>1
  <2> HIDE <1>1
  <2> QED BY <2>1, <2>2, <2>3, <2>4, <2>5 DEF TypeOK
<1>4. TableInv
  BY <1>1, <1>2, Constants DEF TableInv, Lists, EndsAt, Pids
<1>5. CountInv
  BY <1>1, <1>2, Constants, FS_EmptySet DEF CountInv
<1> QED BY <1>3, <1>4, <1>5 DEF IInv

\* Steps that leave table, workers and descriptors alone.
LEMMA QuietStep ==
  ASSUME IInv,
         UNCHANGED <<workers, worker, holders, told, forks, failures, counters>>,
         at' \in {"boot", "register", "loop", "asleep", "signals", "reap", "stop", "gone"},
         asked' \in BOOLEAN, at = "gone" <=> at' = "gone",
         at' = "boot" => at = "boot",
         at = "boot" /\ at' # "boot" => forks >= Procs
  PROVE  IInv'
<1>1. /\ Living' = Living /\ Zombies' = Zombies /\ Reaped' = Reaped /\ Used(workers') = Used(workers)
      /\ workers' = workers /\ worker' = worker /\ holders' = holders /\ told' = told
      /\ forks' = forks /\ fails' = fails /\ leaked' = leaked /\ crashes' = crashes /\ kills' = kills
  BY DEF Living, Zombies, Reaped, Used, failures, counters
<1>2. TypeOK'
  BY <1>1 DEF IInv, TypeOK
<1>3. TableInv'
  BY <1>1 DEF IInv, TableInv, Children, Lists, EndsAt
<1>4. CountInv'
  BY <1>1, Constants DEF IInv, TypeOK, CountInv, Ended
<1> QED BY <1>2, <1>3, <1>4 DEF IInv

\* The end of the master.
LEMMA ExitStep ==
  ASSUME IInv, MasterExits, workers' \in [Slots -> 0..MaxForks], told' \subseteq Pids,
         asked' = asked, forks' = forks, {fails', leaked', crashes', kills'} \subseteq Nat,
         leaked' <= fails'
  PROVE  IInv'
<1>1. /\ at' = "gone" /\ holders' = [p \in Pids |-> holders[p] \ {Boss}]
      /\ worker' = [p \in Pids |-> IF worker[p] = "zombie" THEN "gone" ELSE worker[p]]
  BY DEF MasterExits
<1>2. Living' = Living
  BY <1>1 DEF Living
<1>3. TypeOK'
  BY <1>1 DEF IInv, TypeOK
<1>4. EndsAt(holders', {}, Living)
  BY <1>1 DEF IInv, TypeOK, TableInv, EndsAt
<1>5. TableInv'
  BY <1>1, <1>2, <1>4 DEF IInv, TypeOK, TableInv
<1> QED BY <1>1, <1>3, <1>5 DEF IInv, CountInv

LEMMA BootForkStep == IInv /\ BootFork => IInv'
<1> SUFFICES ASSUME IInv, BootFork PROVE IInv'
  OBVIOUS
<1>1. /\ at = "boot" /\ forks < Procs /\ told' = told /\ asked' = asked
      /\ crashes' = crashes /\ kills' = kills
  BY DEF BootFork, counters
<1>2. CASE /\ ForkFails(workers) /\ MasterExits /\ UNCHANGED <<workers, forks>>
  <2>1. {fails', leaked', crashes', kills'} \subseteq Nat /\ leaked' <= fails'
    BY <1>1, <1>2 DEF ForkFails, IInv, TypeOK, TableInv, failures
  <2> QED BY <1>1, <1>2, <2>1, ExitStep DEF IInv, TypeOK
<1>3. CASE /\ ForkWith(workers, holders) /\ UNCHANGED <<at, failures>>
           /\ worker' = [worker EXCEPT ![forks + 1] = "run"]
  <2> DEFINE p == forks + 1
  <2>1. forks \in Nat /\ p \in Pids /\ fails' = fails /\ leaked' = leaked /\ at' = at
    BY <1>1, <1>3, Constants DEF IInv, TypeOK, Pids, failures
  <2>2. /\ Living' = Living \cup {p} /\ Zombies' = Zombies /\ Reaped' = Reaped
        /\ \A q \in Children : q <= forks
        /\ p \notin Children
    BY <1>3, <2>1 DEF IInv, TypeOK, TableInv, Living, Zombies, Reaped, Children, Pids
  <2>3. /\ forks' = p
        /\ Lists(workers', Children \cup {p})
        /\ Cardinality(Used(workers')) = Cardinality(Used(workers)) + 1
        /\ EndsAt(holders', Children \cup {p}, Living \cup {p})
    <3>1. Children \in SUBSET Pids /\ Living \in SUBSET Pids /\ Living \subseteq Children
      BY DEF Children, Living, Zombies
    <3>2. Lists(workers, Children) /\ EndsAt(holders, Children, Living)
      BY <1>1 DEF IInv, TableInv
    <3> QED BY <1>3, <2>1, <2>2, <3>1, <3>2, ForkEffect
  <2>4. Children' = Children \cup {p}
    BY <2>2 DEF Children
  <2>5. TypeOK'
    BY <1>1, <1>3, <2>1, <2>3, Constants DEF IInv, TypeOK, Lists, EndsAt, Pids
  <2>6. \A q \in Pids : worker'[q] = "none" <=> q > forks'
    BY <1>3, <2>1, <2>3 DEF IInv, TypeOK, TableInv, Pids
  <2>7. TableInv'
    BY <1>1, <2>1, <2>2, <2>3, <2>4, <2>6 DEF IInv, TableInv
  <2>8. CountInv'
    <3>1. Cardinality(Reaped) \in Nat
      BY PidsFinite DEF Reaped
    <3>2. Ended' = Ended
      BY <2>2 DEF Ended
    <3>3. /\ Cardinality(Ended) <= crashes /\ crashes <= MaxCrashes
          /\ fails = 0 /\ Cardinality(Used(workers)) = forks
      BY <1>1 DEF IInv, CountInv
    <3> QED BY <1>1, <2>1, <2>2, <2>3, <3>1, <3>2, <3>3, Constants DEF CountInv
  <2> QED BY <2>5, <2>7, <2>8 DEF IInv
<1> QED BY <1>2, <1>3 DEF BootFork

\* One dead worker is reaped, and another forked, if that does not fail.
LEMMA ReapOneStep == IInv /\ ReapOne => IInv'
<1> SUFFICES ASSUME IInv, ReapOne PROVE IInv'
  OBVIOUS
<1>1. PICK p \in Zombies :
        \/ /\ ForkWith(Without(p), EndClosed(p))
           /\ worker' = [worker EXCEPT ![p] = "gone", ![forks + 1] = "run"]
           /\ UNCHANGED failures
        \/ /\ ForkFails(Without(p))
           /\ workers' = Without(p) /\ holders' = EndClosed(p)
           /\ worker' = [worker EXCEPT ![p] = "gone"]
           /\ UNCHANGED forks
  BY DEF ReapOne
<1>2. /\ at = "reap" /\ at' = at /\ told' = told /\ asked' = asked
      /\ crashes' = crashes /\ kills' = kills
  BY DEF ReapOne, counters
<1>3. p \in Pids /\ worker[p] = "zombie"
  BY DEF Zombies
<1>4. /\ Children \in SUBSET Pids /\ Living \in SUBSET Pids /\ p \in Children
      /\ Reaped \in SUBSET Pids /\ Ended \in SUBSET Pids /\ Children \ {p} \in SUBSET Pids
      /\ p \notin Living /\ p \notin Reaped /\ p \in Ended
  BY <1>3 DEF Children, Living, Zombies, Reaped, Ended
<1>5. /\ Lists(Without(p), Children \ {p})
      /\ Cardinality(Used(Without(p))) = Cardinality(Used(workers)) - 1
      /\ FreeSlots(Without(p)) # {}
  BY <1>2, <1>4, SlotFreed DEF IInv, TableInv
<1>6. EndsAt(EndClosed(p), Children \ {p}, Living)
  <2>1. EndsAt(holders, Children, Living)
    BY <1>2 DEF IInv, TableInv
  <2>2. EndClosed(p) = [holders EXCEPT ![p] = @ \ {Boss}]
    BY DEF EndClosed
  <2>3. \A q \in Pids : EndClosed(p)[q] = IF q = p THEN holders[q] \ {Boss} ELSE holders[q]
    BY <1>3, <2>1, <2>2 DEF EndsAt
  <2>4. EndClosed(p) \in [Pids -> SUBSET (Pids \cup {Boss})]
    BY <1>3, <2>1, <2>2 DEF EndsAt
  <2> HIDE <2>2
  <2> QED BY <2>1, <2>3, <2>4 DEF EndsAt
<1>7. /\ forks \in Nat /\ crashes \in Nat /\ fails \in Nat /\ leaked \in Nat /\ leaked <= fails
      /\ Cardinality(Ended) <= crashes /\ crashes <= MaxCrashes
      /\ forks <= Procs + Cardinality(Reaped)
      /\ Cardinality(Used(workers)) + fails = Procs
  BY <1>2 DEF IInv, TypeOK, TableInv, CountInv
<1>8. Cardinality(Reaped) \in Nat /\ Cardinality(Ended) \in Nat /\ Cardinality(Used(workers)) \in Nat
  BY <1>4, PidsFinite, UsedFinite
<1>9. Cardinality(Reaped) < MaxCrashes
  <2>1. Reaped \subseteq Ended \ {p} /\ IsFiniteSet(Ended)
    BY <1>4, PidsFinite DEF Ended
  <2>2. IsFiniteSet(Ended \ {p}) /\ Cardinality(Ended \ {p}) = Cardinality(Ended) - 1
    BY <1>4, <2>1, FS_RemoveElement
  <2>3. Cardinality(Reaped) <= Cardinality(Ended \ {p})
    BY <2>1, <2>2, FS_Subset
  <2> QED BY <1>7, <1>8, <2>2, <2>3, Constants
<1>10. Cardinality(Reaped \cup {p}) = Cardinality(Reaped) + 1
  BY <1>4, PidsFinite, FS_AddElement
<1>11. forks + 1 \in Pids /\ forks < MaxForks
  BY <1>7, <1>8, <1>9, Constants DEF Pids
<1>12. CASE /\ ForkWith(Without(p), EndClosed(p)) /\ UNCHANGED failures
            /\ worker' = [worker EXCEPT ![p] = "gone", ![forks + 1] = "run"]
  <2> DEFINE q == forks + 1
  <2>1. \A r \in Children \cup Living : r <= forks
    BY <1>7 DEF IInv, TypeOK, TableInv, Living, Zombies, Children, Pids
  <2>2. worker[q] = "none" /\ q # p /\ fails' = fails /\ leaked' = leaked
    BY <1>3, <1>7, <1>11, <1>12 DEF IInv, TypeOK, TableInv, failures, Pids
  <2>3. worker' \in [Pids -> {"none", "run", "zombie", "gone"}]
    BY <1>12 DEF IInv, TypeOK
  <2>4. /\ worker'[p] = "gone" /\ worker'[q] = "run"
        /\ \A r \in Pids \ {p, q} : worker'[r] = worker[r]
    BY <1>3, <1>11, <1>12, <2>2 DEF IInv, TypeOK
  <2>5. /\ Living' = Living \cup {q} /\ Zombies' = Zombies \ {p}
        /\ Reaped' = Reaped \cup {p}
    BY <1>3, <1>11, <2>2, <2>4 DEF Living, Zombies, Reaped
  <2>6. Children' = (Children \ {p}) \cup {q} /\ Ended' = Ended
    BY <1>3, <1>4, <2>5 DEF Children, Ended
  <2>7. /\ forks' = q
        /\ Lists(workers', Children')
        /\ Cardinality(Used(workers')) = Cardinality(Used(Without(p))) + 1
        /\ EndsAt(holders', Children', Living')
    BY <1>4, <1>5, <1>6, <1>7, <1>11, <1>12, <2>1, <2>5, <2>6, ForkEffect
  <2>8. \A r \in Pids : worker'[r] = "none" <=> r > forks'
    BY <1>3, <1>7, <1>11, <2>2, <2>4, <2>7 DEF IInv, TableInv, Pids
  <2>9. TypeOK'
    BY <1>2, <1>7, <1>11, <2>2, <2>3, <2>7, Constants DEF IInv, TypeOK, Lists, EndsAt
  <2>10. TableInv'
    BY <1>2, <1>7, <2>2, <2>7, <2>8 DEF IInv, TableInv
  <2>11. CountInv'
    BY <1>2, <1>5, <1>7, <1>8, <1>10, <2>2, <2>5, <2>6, <2>7, Constants DEF CountInv
  <2> QED BY <2>9, <2>10, <2>11 DEF IInv
<1>13. CASE /\ ForkFails(Without(p)) /\ UNCHANGED forks
            /\ workers' = Without(p) /\ holders' = EndClosed(p)
            /\ worker' = [worker EXCEPT ![p] = "gone"]
  <2>1. fails' = fails + 1 /\ leaked' \in {leaked, leaked + 1}
    BY <1>5, <1>13 DEF ForkFails
  <2>2. /\ worker' \in [Pids -> {"none", "run", "zombie", "gone"}]
        /\ worker'[p] = "gone" /\ \A r \in Pids \ {p} : worker'[r] = worker[r]
    BY <1>3, <1>13 DEF IInv, TypeOK
  <2>3. /\ Living' = Living /\ Zombies' = Zombies \ {p}
        /\ Reaped' = Reaped \cup {p}
    BY <1>3, <2>2 DEF Living, Zombies, Reaped
  <2>4. Children' = Children \ {p} /\ Ended' = Ended
    BY <1>3, <1>4, <2>3 DEF Children, Ended
  <2>5. Lists(workers', Children') /\ EndsAt(holders', Children', Living')
    BY <1>5, <1>6, <1>13, <2>3, <2>4
  <2>6. \A r \in Pids : worker'[r] = "none" <=> r > forks'
    BY <1>3, <1>13, <2>2 DEF IInv, TableInv
  <2>7. TypeOK'
    BY <1>2, <1>7, <1>13, <2>1, <2>2, <2>5 DEF IInv, TypeOK, Lists, EndsAt
  <2>8. TableInv'
    BY <1>2, <1>7, <2>1, <2>5, <2>6 DEF IInv, TableInv
  <2>9. CountInv'
    BY <1>2, <1>5, <1>7, <1>8, <1>10, <1>13, <2>1, <2>3, <2>4, Constants DEF CountInv
  <2> QED BY <2>7, <2>8, <2>9 DEF IInv
<1> QED BY <1>1, <1>12, <1>13

\* A worker ends while the master is gone, or crashes.
LEMMA EndsStep ==
  ASSUME IInv, NEW p \in Pids, worker[p] = "run", Ends(p),
         crashes' \in Nat, at # "gone" => crashes' <= MaxCrashes /\ crashes' = crashes + 1
  PROVE  IInv'
<1>1. /\ worker' = [worker EXCEPT ![p] = IF at = "gone" THEN "gone" ELSE "zombie"]
      /\ holders' = [q \in Pids |-> holders[q] \ {p}]
      /\ at' = at /\ workers' = workers /\ told' = told /\ asked' = asked /\ forks' = forks
      /\ fails' = fails /\ leaked' = leaked /\ kills' = kills
  BY DEF Ends, failures
<1>2. /\ worker' \in [Pids -> {"none", "run", "zombie", "gone"}]
      /\ worker'[p] = (IF at = "gone" THEN "gone" ELSE "zombie")
      /\ \A r \in Pids \ {p} : worker'[r] = worker[r]
  BY <1>1 DEF IInv, TypeOK
<1>3. Living' = Living \ {p}
  BY <1>2 DEF Living
<1>4. at # "gone" => Zombies' = Zombies \cup {p} /\ Reaped' = Reaped /\ p \in Living
  BY <1>2 DEF Living, Zombies, Reaped
<1>5. at # "gone" => Children' = Children /\ Ended' = Ended \cup {p} /\ p \notin Ended
  BY <1>3, <1>4 DEF Children, Ended, Zombies, Reaped
<1>6. EndsAt(holders', IF at = "gone" THEN {} ELSE Children', Living')
  <2> DEFINE C == IF at = "gone" THEN {} ELSE Children
  <2>1. EndsAt(holders, C, Living)
    BY DEF IInv, TableInv
  <2>2. (IF at = "gone" THEN {} ELSE Children') = C
    BY <1>5
  <2>3. holders' \in [Pids -> SUBSET (Pids \cup {Boss})]
    BY <1>1, <2>1 DEF EndsAt
  <2>4. \A q \in Pids : Boss \in holders'[q] <=> q \in C
    BY <1>1, <2>1, Constants DEF EndsAt
  <2>5. \A q \in Pids : \A r \in holders'[q] \ {Boss} : r > q /\ r \in Living'
    BY <1>1, <1>3, <2>1 DEF EndsAt
  <2> HIDE DEF C
  <2> QED BY <2>2, <2>3, <2>4, <2>5 DEF EndsAt
<1>7. \A r \in Pids : worker'[r] = "none" <=> r > forks'
  BY <1>1, <1>2 DEF IInv, TableInv
<1>8. TypeOK'
  BY <1>1, <1>2, <1>6 DEF IInv, TypeOK, EndsAt
<1>9. TableInv'
  BY <1>1, <1>5, <1>6, <1>7 DEF IInv, TableInv
<1>10. CountInv'
  <2> SUFFICES ASSUME at # "gone" PROVE CountInv'
    BY <1>1 DEF CountInv
  <2>1. IsFiniteSet(Ended) /\ Cardinality(Ended) \in Nat
    BY PidsFinite DEF Ended, Zombies, Reaped
  <2>2. Cardinality(Ended') = Cardinality(Ended) + 1
    BY <1>5, <2>1, FS_AddElement
  <2>3. Cardinality(Ended) <= crashes /\ crashes \in Nat
    BY DEF IInv, TypeOK, CountInv
  <2> QED BY <1>1, <1>4, <2>1, <2>2, <2>3 DEF IInv, CountInv
<1> QED BY <1>8, <1>9, <1>10 DEF IInv

\* While the master is there no worker is told to stop, or sees the end of its
\* socket pair: the master has the other end.
LEMMA NoneStops ==
  ASSUME IInv, at # "gone", NEW p \in Pids, worker[p] = "run"
  PROVE  ~Seen(p)
<1>1. p \in Children
  BY DEF Children, Living
<1>2. Boss \in holders[p] /\ told = {}
  BY <1>1 DEF IInv, TableInv, EndsAt
<1> QED BY <1>2 DEF Seen

\* Every step of master, workers, kernel and operator keeps the invariant.
LEMMA NextInvariant == IInv /\ [Next]_vars => IInv'
<1> SUFFICES ASSUME IInv, [Next]_vars PROVE IInv'
  OBVIOUS
<1>1. asked \in BOOLEAN
  BY DEF IInv, TypeOK
<1>2. at \in {"boot", "register", "loop", "asleep", "signals", "reap", "stop", "gone"}
  BY DEF IInv, TypeOK
<1>3. ASSUME BootFork PROVE IInv'
  BY <1>3, BootForkStep
<1>4. ASSUME MasterRegister PROVE IInv'
  BY <1>4, <1>1, <1>2, QuietStep DEF MasterRegister
<1>5. ASSUME Suspend PROVE IInv'
  BY <1>5, <1>1, <1>2, QuietStep DEF Suspend
<1>6. ASSUME MasterSignals PROVE IInv'
  BY <1>6, <1>1, <1>2, QuietStep DEF MasterSignals
<1>7. ASSUME ReapOne PROVE IInv'
  BY <1>7, ReapOneStep
<1>8. ASSUME ReapDone PROVE IInv'
  BY <1>8, <1>1, <1>2, QuietStep DEF ReapDone
<1>9. ASSUME StopTest PROVE IInv'
  <2>1. CASE Term \in flags
    <3>1. workers' \in [Slots -> 0..MaxForks] /\ told' \subseteq Pids
      BY <1>9, <2>1, Constants DEF StopTest, IInv, TypeOK, InUse, Pids
    <3>2. /\ MasterExits /\ asked' = asked /\ forks' = forks
          /\ fails' = fails /\ leaked' = leaked /\ crashes' = crashes /\ kills' = kills
      BY <1>9, <2>1 DEF StopTest, failures, counters
    <3> QED BY <3>1, <3>2, ExitStep DEF IInv, TypeOK, TableInv
  <2>2. CASE Term \notin flags
    BY <1>9, <2>2, <1>1, <1>2, QuietStep DEF StopTest
  <2> QED BY <2>1, <2>2
<1>10. ASSUME NEW s \in Sigs, MasterDeliver(s) PROVE IInv'
  BY <1>10, <1>1, <1>2, QuietStep DEF MasterDeliver
<1>11. ASSUME MasterHandler PROVE IInv'
  BY <1>11, <1>1, <1>2, QuietStep DEF MasterHandler, mastervars, failures, counters
<1>12. ASSUME Ask PROVE IInv'
  BY <1>12, <1>1, <1>2, QuietStep DEF Ask
<1>13. ASSUME SendTerm PROVE IInv'
  BY <1>13, <1>1, <1>2, QuietStep DEF SendTerm, mastervars, failures, counters
<1>14. ASSUME Kill PROVE IInv'
  <2>1. /\ MasterExits /\ asked' = asked /\ forks' = forks /\ workers' = workers /\ told' = told
        /\ fails' = fails /\ leaked' = leaked /\ crashes' = crashes /\ kills' = kills + 1
    BY <1>14 DEF Kill, failures
  <2> QED BY <2>1, ExitStep DEF IInv, TypeOK, TableInv
<1>15. ASSUME NEW p \in Pids, WorkerStops(p) PROVE IInv'
  <2>1. worker[p] = "run" /\ Seen(p) /\ Ends(p) /\ crashes' = crashes
    BY <1>15 DEF WorkerStops
  <2>2. at = "gone" /\ at' = at
    BY <2>1, NoneStops DEF Ends
  <2> QED BY <2>1, <2>2, EndsStep DEF IInv, TypeOK
<1>16. ASSUME NEW p \in Pids, WorkerCrash(p) PROVE IInv'
  <2>1. /\ worker[p] = "run" /\ Ends(p) /\ crashes < MaxCrashes /\ crashes' = crashes + 1
        /\ crashes \in Nat
    BY <1>16 DEF WorkerCrash, IInv, TypeOK
  <2> QED BY <2>1, EndsStep, Constants
<1>17. ASSUME UNCHANGED vars PROVE IInv'
  BY <1>17, <1>1, <1>2, QuietStep DEF vars, mastervars, failures, counters
<1> QED BY <1>3, <1>4, <1>5, <1>6, <1>7, <1>8, <1>9, <1>10, <1>11, <1>12, <1>13, <1>14, <1>15,
           <1>16, <1>17 DEF Next, Main

\* Table, descriptors, children and their numbers stay as IInv says.
THEOREM Invariance == Spec => []IInv
  BY InitInvariant, NextInvariant, PTL DEF Spec

\* Every variable keeps its type; no worker is forked beyond the number that
\* the crashes allow (spe.c, spe_worker.c).
THEOREM TypeCorrect == Spec => []TypeOK
<1>1. IInv => TypeOK
  BY DEF IInv
<1> QED BY <1>1, Invariance, PTL

\* spe_workers lists each child that was not reaped once and nothing else,
\* and has an entry less for each fork that failed (spe_worker.c:33-38, 78-87).
THEOREM TableRight == Spec => []TableFollows
<1>1. IInv => TableFollows
  <2> SUFFICES ASSUME IInv PROVE TableFollows
    OBVIOUS
  <2>1. SlotsAreChildren
    <3> SUFFICES ASSUME at # "gone" PROVE /\ {workers[i] : i \in InUse} = Children
                                          /\ \A i, j \in InUse : workers[i] = workers[j] => i = j
      BY DEF SlotsAreChildren, Children
    <3>1. Lists(workers, Children) /\ 0 \notin Children
      BY DEF IInv, TableInv, Children, Living, Zombies, Pids
    <3> QED BY <3>1 DEF Lists, InUse
  <2>2. InUse = Used(workers)
    BY DEF InUse, Used
  <2>3. NoWorkerLost
    BY <2>2 DEF IInv, CountInv, NoWorkerLost
  <2> QED BY <2>1, <2>3 DEF TableFollows
<1> QED BY <1>1, Invariance, PTL

\* The master has an end open for each child it has in the table, and for no
\* other; a worker has such ends of older workers only (spe_worker.c:45-71, 82).
THEOREM EndsRight == Spec => []EndsFollow
<1>1. IInv => EndsFollow
  <2> SUFFICES ASSUME IInv PROVE EndsFollow
    OBVIOUS
  <2>1. ASSUME NEW p \in Pids
        PROVE  Boss \in holders[p] <=> at # "gone" /\ \E i \in Slots : workers[i] = p
    <3>1. p # 0
      BY DEF Pids
    <3>2. Boss \in holders[p] <=> at # "gone" /\ p \in Children
      BY DEF IInv, TableInv, EndsAt
    <3>3. at # "gone" => (p \in Children <=> \E i \in Slots : workers[i] = p)
      BY <3>1 DEF IInv, TableInv, Lists
    <3> QED BY <3>2, <3>3
  <2>2. HeldByYounger
    BY DEF IInv, TableInv, EndsAt, HeldByYounger, Living
  <2> QED BY <2>1, <2>2 DEF EndsFollow, LeaksByFailedForks, IInv, TableInv
<1> QED BY <1>1, Invariance, PTL
----------------------------------------------------------------------------
(* The signals.                                                            *)

SP == INSTANCE SignalProofs

USE DEF SP!queuevars, Signals!queuevars

\* Handlers are registered once and before there is anything in the queue for
\* them; in the main line outside spe_signal_process nothing is processed.
SignalUse ==
  /\ at \notin {"signals", "gone"} => pos = -1
  /\ at = "boot" => handled = {}
  /\ at \in {"boot", "register"} =>
       /\ handled \subseteq {Chld}
       /\ \A k \in 1..Len(frames) : frames[k].sig = Chld
       /\ \A i \in 0..MAX_SIGNAL - 1 : signal_queue[i] \in {Chld, None}
  /\ at = "boot" => signal_queue_len = 0 /\ frames = <<>> 

SigInv == SP!IInv /\ SignalUse

\* The assumption about the signals, as SP has it.
LEMMA SameAssumption ==
  /\ SP!IsFiniteSet(Sigs) /\ None \notin Sigs
  /\ MAX_SIGNAL \in Nat /\ SP!Cardinality(Sigs) <= MAX_SIGNAL
  /\ MaxCount \in Nat \ {0} /\ Nests \in BOOLEAN
<1>1. SP!IsFiniteSet(Sigs) = IsFiniteSet(Sigs)
  BY DEF SP!IsFiniteSet, IsFiniteSet
<1>2. SP!Cardinality(Sigs) = Cardinality(Sigs)
  BY DEF SP!Cardinality, Cardinality, SP!IsFiniteSet, IsFiniteSet
<1> QED BY <1>1, <1>2, SignalAssumption

\* What the modules have in common is the same in all of them.
LEMMA SameActions ==
  /\ sigvars = SP!sigvars /\ sigvars = Signals!sigvars
  /\ \A s \in Sigs : /\ Raise(s) = SP!Raise(s) /\ Raise(s) = Signals!Raise(s)
                     /\ Deliver(s) = SP!Deliver(s) /\ Deliver(s) = Signals!Deliver(s)
                     /\ Register(s) = SP!Register(s) /\ Register(s) = Signals!Register(s)
                     /\ Ignore(s) = SP!Ignore(s) /\ Ignore(s) = Signals!Ignore(s)
  /\ CommonHandler = SP!CommonHandler /\ CommonHandler = Signals!CommonHandler
  /\ spe_signal_process = SP!spe_signal_process
  /\ spe_signal_process = Signals!spe_signal_process
  /\ Queued = SP!Queued /\ Queued = Signals!Queued
  /\ SP!TakeFlags = Signals!TakeFlags
<1>1. sigvars = SP!sigvars /\ sigvars = Signals!sigvars
  BY DEF sigvars, SP!sigvars, Signals!sigvars
<1>2. ASSUME NEW s \in Sigs
      PROVE  /\ Raise(s) = SP!Raise(s) /\ Raise(s) = Signals!Raise(s)
             /\ Deliver(s) = SP!Deliver(s) /\ Deliver(s) = Signals!Deliver(s)
             /\ Register(s) = SP!Register(s) /\ Register(s) = Signals!Register(s)
             /\ Ignore(s) = SP!Ignore(s) /\ Ignore(s) = Signals!Ignore(s)
  BY DEF Raise, SP!Raise, Signals!Raise, Deliver, SP!Deliver, Signals!Deliver,
         Register, SP!Register, Signals!Register, Ignore, SP!Ignore, Signals!Ignore
<1>3. CommonHandler = SP!CommonHandler /\ CommonHandler = Signals!CommonHandler
  BY DEF CommonHandler, SP!CommonHandler, Signals!CommonHandler, Put, SP!Put, Signals!Put,
         TakenBack, SP!TakenBack, Signals!TakenBack
<1>4. /\ spe_signal_process = SP!spe_signal_process
      /\ spe_signal_process = Signals!spe_signal_process
  BY DEF spe_signal_process, SP!spe_signal_process, Signals!spe_signal_process,
         ProcessBegin, SP!ProcessBegin, Signals!ProcessBegin, ProcessEnd, SP!ProcessEnd,
         Signals!ProcessEnd, ProcessOne, SP!ProcessOne, Signals!ProcessOne,
         CountTaken, SP!CountTaken, Signals!CountTaken
<1>5. Queued = SP!Queued /\ Queued = Signals!Queued
  BY DEF Queued, SP!Queued, Signals!Queued
<1>6. SP!TakeFlags = Signals!TakeFlags
  BY DEF SP!TakeFlags, Signals!TakeFlags
<1> QED BY <1>1, <1>2, <1>3, <1>4, <1>5, <1>6

LEMMA SignalsInduct == SP!IInv /\ [SP!Next]_SP!sigvars => SP!IInv'
  BY SameAssumption, SP!TypeStep, SP!StackStep, SP!SlotsStep, SP!SettledStep DEF SP!IInv

\* A step of the master is one of a program that uses signals so, or none.
LEMMA SignalStep == SigInv /\ [Next]_vars => [Signals!Next]_Signals!sigvars
<1> SUFFICES ASSUME SigInv, [Next]_vars PROVE [Signals!Next]_sigvars
  BY DEF sigvars, Signals!sigvars
<1>0. /\ Sigs = {Chld, Term} /\ Chld # Term /\ None \notin Sigs /\ MAX_SIGNAL \in Nat
      /\ signal_queue_len \in 0..MAX_SIGNAL
  BY SignalAssumption, MasterAssumption DEF SigInv, SP!IInv, SP!TypeOK
<1>1. \A s \in Sigs : Raise(s) \/ Deliver(s) => Signals!Next
  BY SameActions DEF Signals!Next
<1>2. ASSUME MasterRegister PROVE Signals!Next
  <2>1. CASE at = "boot" /\ Register(Chld)
    <3>1. Queued = {} /\ handled = {}
      BY <2>1, <1>0 DEF SigInv, SignalUse, Queued
    <3> QED BY <2>1, <3>1, <1>0, SameActions DEF Signals!Next
  <2>2. CASE at = "register" /\ Register(Term)
    <3>1. Term \notin Queued /\ Term \notin handled
      BY <2>2, <1>0 DEF SigInv, SignalUse, Queued
    <3> QED BY <2>2, <3>1, <1>0, SameActions DEF Signals!Next
  <2> QED BY <1>2, <2>1, <2>2 DEF MasterRegister
<1>3. ASSUME MasterSignals PROVE [Signals!Next]_sigvars
  BY <1>3, SameActions DEF MasterSignals, Signals!Next
<1>4. ASSUME ReapDone PROVE Signals!Next
  <2>1. pos = -1
    BY <1>4 DEF ReapDone, SigInv, SignalUse
  <2>2. Signals!TakeFlags
    BY <1>4, <2>1 DEF ReapDone, MainLine, FlagsAfterReap, Signals!TakeFlags
  <2> QED BY <2>2 DEF Signals!Next
<1>5. ASSUME MasterHandler PROVE Signals!Next
  BY <1>5, SameActions DEF MasterHandler, Signals!Next
<1>6. ASSUME NEW p \in Pids, Ends(p) PROVE [Signals!Next]_sigvars
  <2>1. CASE Chld \in handled /\ at # "gone"
    <3>1. Raise(Chld)
      BY <1>6, <2>1 DEF Ends, Raise
    <3> QED BY <3>1, <1>0, <1>1
  <2>2. CASE ~(Chld \in handled /\ at # "gone")
    BY <1>6, <2>2 DEF Ends, sigvars
  <2> QED BY <2>1, <2>2
<1>7. ASSUME BootFork \/ Suspend \/ ReapOne \/ StopTest \/ Ask \/ Kill \/ UNCHANGED vars
      PROVE  UNCHANGED sigvars
  BY <1>7 DEF BootFork, Suspend, ReapOne, StopTest, Ask, Kill, vars
<1>8. ASSUME SendTerm PROVE Signals!Next
  BY <1>8, <1>0, <1>1 DEF SendTerm
<1>9. ASSUME NEW s \in Sigs, MasterDeliver(s) PROVE Signals!Next
  BY <1>9, <1>1 DEF MasterDeliver
<1> QED BY <1>2, <1>3, <1>4, <1>5, <1>6, <1>7, <1>8, <1>9
        DEF Next, Main, WorkerStops, WorkerCrash

LEMMA UseStep == SigInv /\ [Next]_vars => SignalUse'
<1> SUFFICES ASSUME SigInv, [Next]_vars PROVE SignalUse'
  OBVIOUS
<1>0. /\ Sigs = {Chld, Term} /\ Chld # Term /\ MAX_SIGNAL \in Nat
      /\ frames \in Seq(Frame) /\ pending \subseteq handled
      /\ signal_queue \in [0..MAX_SIGNAL - 1 -> Sigs \cup {None}]
  BY SignalAssumption, MasterAssumption DEF SigInv, SP!IInv, SP!TypeOK, Frame, SP!Frame
<1>1. SignalUse
  BY DEF SigInv
<1>2. ASSUME UNCHANGED <<handled, frames, signal_queue, signal_queue_len, pos>>, at' = at
      PROVE  SignalUse'
  BY <1>1, <1>2 DEF SignalUse
<1>3. ASSUME at' \notin {"boot", "register"}, at' \notin {"signals", "gone"} => pos' = -1
      PROVE  SignalUse'
  BY <1>3 DEF SignalUse
<1>4. ASSUME BootFork PROVE SignalUse'
  BY <1>4, <1>2, <1>3 DEF BootFork, MasterExits, sigvars
<1>5. ASSUME MasterRegister PROVE SignalUse'
  <2>1. CASE at = "boot" /\ Register(Chld) /\ at' = "register"
    BY <1>1, <2>1 DEF SignalUse, Register
  <2>2. CASE at = "register" /\ Register(Term) /\ at' = "loop"
    BY <1>1, <1>3, <2>2 DEF SignalUse, Register
  <2> QED BY <1>5, <2>1, <2>2 DEF MasterRegister
<1>6. ASSUME Suspend \/ ReapOne \/ ReapDone \/ StopTest PROVE SignalUse'
  BY <1>1, <1>3, <1>6 DEF Suspend, ReapOne, ReapDone, StopTest, MasterExits, SignalUse, sigvars
<1>7. ASSUME MasterSignals PROVE SignalUse'
  <2>1. at' \in {"reap", "signals"} /\ (at' = "reap" => pos' = -1)
    BY <1>7 DEF MasterSignals, sigvars
  <2> QED BY <1>3, <2>1
<1>8. ASSUME MasterHandler PROVE SignalUse'
  <2>1. CASE at = "boot"
    BY <1>1, <1>8, <2>1 DEF SignalUse, MasterHandler, CommonHandler
  <2>2. CASE at = "register"
    <3> DEFINE n == Len(frames)
    <3>1. /\ frames # <<>> /\ n \in Nat \ {0} /\ frames[n].sig = Chld
          /\ pos' = pos /\ at' = at /\ handled' = handled
      BY <1>0, <1>1, <1>8, <2>2, EmptySeq, LenProperties
         DEF MasterHandler, CommonHandler, mastervars, SignalUse
    <3>2. signal_queue' = signal_queue \/ \E j : signal_queue' = [signal_queue EXCEPT ![j] = Chld]
      BY <1>8, <3>1 DEF MasterHandler, CommonHandler
    <3>3. \A i \in 0..MAX_SIGNAL - 1 : signal_queue'[i] \in {Chld, None}
      BY <1>0, <1>1, <2>2, <3>2 DEF SignalUse
    <3>4. \A k \in 1..Len(frames') : frames'[k].sig = Chld
      <4>1. SP!TypeOK /\ SP!CommonHandler
        BY <1>8, SameActions DEF MasterHandler, SigInv, SP!IInv
      <4>2. /\ Len(frames') \in {n, n - 1} /\ \A k \in 1..n - 1 : frames'[k] = frames[k]
            /\ Len(frames') = n => frames'[n].sig = frames[n].sig
        BY <3>1, <4>1, SameAssumption, SP!HandlerEffect DEF SP!HandlerKeeps
      <4> HIDE DEF n
      <4>3. \A k \in 1..n - 1 : frames[k].sig = Chld
        BY <1>1, <2>2, <3>1 DEF SignalUse, n
      <4> QED BY <3>1, <4>2, <4>3
    <3> QED BY <1>1, <2>2, <3>1, <3>3, <3>4 DEF SignalUse
  <2>3. CASE at \notin {"boot", "register"}
    BY <1>1, <1>3, <1>8, <2>3 DEF MasterHandler, CommonHandler, mastervars, SignalUse
  <2> QED BY <2>1, <2>2, <2>3
<1>9. ASSUME NEW s \in Sigs, MasterDeliver(s) PROVE SignalUse'
  <2>0. /\ s \in pending /\ frames' = Append(frames, [sig |-> s, at |-> "test", slot |-> 0])
        /\ pos = -1 /\ pos' = pos /\ handled' = handled /\ signal_queue' = signal_queue
        /\ at' = IF at = "asleep" THEN "signals" ELSE at
    BY <1>9 DEF MasterDeliver, Deliver
  <2>1. CASE at = "boot"
    BY <1>0, <1>1, <2>0, <2>1 DEF SignalUse
  <2>2. CASE at = "register"
    <3>1. s = Chld
      BY <1>0, <1>1, <2>0, <2>2 DEF SignalUse
    <3>2. \A k \in 1..Len(frames') : frames'[k].sig = Chld
      BY <1>0, <1>1, <2>0, <2>2, <3>1, AppendProperties DEF SignalUse
    <3> QED BY <1>1, <2>0, <2>2, <3>2 DEF SignalUse
  <2>3. CASE at \notin {"boot", "register"}
    BY <1>3, <2>0, <2>3
  <2> QED BY <2>1, <2>2, <2>3
<1>10. ASSUME Ask \/ SendTerm \/ UNCHANGED vars PROVE SignalUse'
  BY <1>2, <1>10 DEF Ask, SendTerm, Raise, vars, mastervars, sigvars
<1>11. ASSUME Kill PROVE SignalUse'
  BY <1>3, <1>11 DEF Kill, MasterExits
<1>12. ASSUME NEW p \in Pids, Ends(p) PROVE SignalUse'
  BY <1>2, <1>12 DEF Ends
<1> QED BY <1>4, <1>5, <1>6, <1>7, <1>8, <1>9, <1>10, <1>11, <1>12
        DEF Next, Main, WorkerStops, WorkerCrash

LEMMA SigInit == Init => SigInv
<1> SUFFICES ASSUME Init PROVE SigInv
  OBVIOUS
<1>1. /\ at = "boot" /\ handled = {} /\ frames = <<>> /\ signal_queue_len = 0 /\ pos = -1
      /\ signal_queue = [i \in 0..MAX_SIGNAL - 1 |-> None] /\ SignalInit
  BY DEF Init, SignalInit
<1>2. SP!Init
  BY <1>1 DEF SignalInit, SP!Init, SP!SignalInit
<1>3. SP!IInv
  BY <1>2, SameAssumption, SP!InitInvariant
<1>4. Len(frames) = 0
  BY <1>1, EmptySeq
<1> QED BY <1>1, <1>3, <1>4 DEF SigInv, SignalUse

LEMMA SameNext ==
  /\ [Signals!Next]_Signals!sigvars => [SP!Next]_SP!sigvars
  /\ Signals!Init <=> SignalInit
<1>1. Signals!Init <=> SignalInit
  BY DEF Signals!Init, Signals!SignalInit, SignalInit
<1>2. Signals!Next => SP!Next
  BY SameActions DEF Signals!Next, SP!Next
<1>3. UNCHANGED Signals!sigvars => UNCHANGED SP!sigvars
  BY DEF Signals!sigvars, SP!sigvars
<1> QED BY <1>1, <1>2, <1>3

LEMMA SignalInvariance == Spec => []SigInv
<1>1. SigInv /\ [Next]_vars => SigInv'
  BY SignalStep, SameNext, SignalsInduct, UseStep DEF SigInv
<1> QED BY <1>1, SigInit, PTL DEF Spec

\* The master registers, catches and processes signals as SignalLoop does
\* (spe_worker.c:111-150, spe_signal.c).
THEOREM UsesSignalLoop == Spec => UsesSignals
<1>1. Init => Signals!Init
  BY SameNext DEF Init
<1>2. SigInv /\ [Next]_vars => [Signals!Next]_Signals!sigvars
  BY SignalStep
<1> QED BY <1>1, <1>2, SignalInvariance, PTL DEF Spec, UsesSignals, Signals!Spec

\* Whatever interrupts whatever, the master forgets a signal it caught only
\* when the entry of that signal is taken back by a handler it interrupted
\* (spe_signal.c:44-48, 81-92; spe.c:33-34).
THEOREM NoSignalForgotten == Spec => []LostOnlyOvertaken
<1>1. SP!Spec => []SP!LostOnlyOvertaken
  BY SameAssumption, SP!NoOtherLoss
<1>2. Init => SP!Init
  BY DEF Init, SignalInit, SP!Init, SP!SignalInit
<1>3. SigInv /\ [Next]_vars => [SP!Next]_SP!sigvars
  BY SignalStep, SameNext
<1>4. SP!LostOnlyOvertaken => LostOnlyOvertaken
  BY DEF SP!LostOnlyOvertaken, LostOnlyOvertaken, Signals!LostOnlyOvertaken,
         SP!ToProcess, Signals!ToProcess
<1> QED BY <1>1, <1>2, <1>3, <1>4, SignalInvariance, PTL DEF Spec, SP!Spec
=============================================================================
