----------------------------- MODULE TpoolProofs -----------------------------
(***************************************************************************)
(* Theorems about the thread pool, for any number of threads, submitters,  *)
(* calls and threads that cannot be made.                                  *)
(*                                                                         *)
(* Where a thread is (PlaceInv) and where a handler is (JobInv) rest on    *)
(* each other: a submitter gives a handler only to a thread that has none, *)
(* because the thread was in the free list.                                *)
(***************************************************************************)
EXTENDS Tpool, FiniteSetTheorems, QueueLemmas

USE DEF pool

\* Submitter s has taken thread t from the list and not given it the handler.
HasTaken(s, t) == At(s, "set") /\ call[s].thread = t
Listed == ToSet(freeList)

\* While the pool is not built only its own threads use it; what is stopped is
\* being shut down.
PoolInv ==
  /\ gTpool = "null" => built = 0
  /\ built < NumThreads =>
       /\ Listed \subseteq 1..built /\ deinit = 0
       /\ \A t \in Threads : handler[t] = None /\ pc[t] # "giveback"
       /\ \A s \in Submitters : call[s] = NoCall
  /\ \A t \in Threads : pc[t] = "none" <=> t > built
  /\ \A t \in Threads : stop[t] \/ pc[t] \in {"quit", "free"} => deinit > 0
  /\ gTpool = "freed" => deinit > 0

\* Where the threads of the pool are.
PlaceInv ==
  /\ IsInjective(freeList)
  /\ \A t \in Listed : handler[t] = None /\ pc[t] # "giveback"
  /\ \A t \in Threads : \A s \in Submitters :
       HasTaken(s, t) => t \notin Listed /\ handler[t] = None /\ pc[t] # "giveback"
  /\ \A t \in Threads : \A r, s \in Submitters : HasTaken(r, t) /\ HasTaken(s, t) => r = s
  /\ \A t \in Threads :
       \/ t > built \/ t \in Listed \/ handler[t] # None \/ pc[t] = "giveback"
       \/ \E s \in Submitters : HasTaken(s, t)
  /\ \A t \in Threads :
       /\ pc[t] = "test" => handler[t] # None \/ stop[t]
       /\ pc[t] \in {"run", "clear"} => handler[t] # None
       /\ pc[t] = "giveback" => handler[t] = None

\* The jobs somebody was told, or is about to be told, are taken.
Owed == {j \in Jobs : j \in accepted \/ \E s \in Submitters : call[s].job = j}

\* The handler of a thread, the call of a submitter, what has become of a job.
ThreadJob(t) ==
  LET j == handler[t] IN j # None =>
    /\ j <= jobs /\ once[j] = "none"
    /\ ran[j] = IF pc[t] = "clear" THEN 1 ELSE 0
    /\ \A u \in Threads : handler[u] = j => u = t
    /\ j \in Owed

CallJob(s) ==
  LET j == call[s].job IN
    IF At(s, "idle") THEN j = None
    ELSE /\ j \in Jobs /\ j <= jobs /\ j \notin accepted /\ once[j] = "none"
         /\ \A r \in Submitters : call[r].job = j => r = s
         /\ At(s, "set") => call[s].thread \in Threads
         /\ At(s, "signal") =>
              call[s].thread \in Threads /\ (ran[j] = 1 \/ \E t \in Threads : handler[t] = j)
         /\ ~At(s, "signal") => ran[j] = 0 /\ \A t \in Threads : handler[t] # j

JobFate(j) ==
  /\ once[j] \in {"run", "never"} => ran[j] = 0
  /\ once[j] \in {"quit", "gone"} => ran[j] = 1
  /\ once[j] # "none" => j \in accepted
  /\ ran[j] \in {0, 1}
  /\ j \in accepted /\ ran[j] = 0 =>
       once[j] # "none" \/ \E t \in Threads : handler[t] = j
  /\ ran[j] = 1 => j \in Owed

\* Where the handlers are, and which have run.
JobInv ==
  /\ \A t \in Threads : ThreadJob(t)
  /\ \A s \in Submitters : CallJob(s)
  /\ \A j \in accepted : j <= jobs
  /\ \A j \in Jobs : JobFate(j)

\* One call at a time finds a thread in the list when it has seen one.
ServeInv ==
  /\ ub = "no" \/ overlapped \/ built < NumThreads \/ deinit > 0
  /\ ~overlapped /\ gTpool = "live" =>
       \A s \in Submitters : At(s, "take") =>
         freeList # <<>> /\ \A r \in Submitters : At(r, "take") => r = s

IInv == TypeOK /\ PoolInv /\ PlaceInv /\ JobInv /\ ServeInv

----------------------------------------------------------------------------
LEMMA Constants ==
  /\ NumThreads \in Nat \ {0} /\ MaxJobs \in Nat /\ MaxFails \in Nat
  /\ Threads \subseteq Nat /\ Jobs \subseteq Nat
  /\ None \notin Threads /\ None \notin Jobs /\ Free \notin Threads
  /\ IsFiniteSet(Threads) /\ Cardinality(Threads) = NumThreads /\ IsFiniteSet(Jobs)
  BY TpoolAssumption, FS_Interval DEF Threads, Jobs

\* Threads and jobs that were counted and have not quit.
Counting == {t \in Threads : pc[t] \notin {"none", "free"}}
CountingOnce == {j \in Jobs : once[j] \in {"run", "quit", "never"}}

LEMMA CountingFinite ==
  /\ IsFiniteSet(Counting) /\ Cardinality(Counting) \in Nat
  /\ IsFiniteSet(CountingOnce) /\ Cardinality(CountingOnce) \in Nat
<1>1. IsFiniteSet(Counting) /\ IsFiniteSet(CountingOnce)
  BY Constants, FS_Subset DEF Counting, CountingOnce
<1> QED BY <1>1, FS_CardinalityType

LEMMA InitInvariant == Init => IInv
<1> SUFFICES ASSUME Init PROVE IInv
  OBVIOUS
<1>1. /\ gTpool = "null" /\ built = 0 /\ freeList = <<>> /\ lock = [t \in Threads |-> Free]
      /\ handler = [t \in Threads |-> None] /\ stop = [t \in Threads |-> FALSE]
      /\ pc = [t \in Threads |-> "none"] /\ once = [j \in Jobs |-> "none"]
      /\ call = [s \in Submitters |-> NoCall]
      /\ NoCall = [pc |-> "idle", job |-> None, thread |-> None]
      /\ deinit = 0 /\ signalled = FALSE /\ threadRun = 0 /\ jobs = 0 /\ accepted = {}
      /\ ran = [j \in Jobs |-> 0] /\ overlapped = FALSE /\ fails = 0 /\ ub = "no"
  BY DEF Init, NoCall
<1>2. CounterRight
  <2>1. Counting = {} /\ CountingOnce = {}
    BY <1>1 DEF Counting, CountingOnce
  <2>2. CounterRight <=> threadRun = Cardinality(Counting) + Cardinality(CountingOnce)
    BY DEF CounterRight, Counting, CountingOnce
  <2>3. threadRun = 0 /\ Cardinality(Counting) = 0 /\ Cardinality(CountingOnce) = 0
    BY <1>1, <2>1, FS_EmptySet
  <2> QED BY <2>2, <2>3
<1>3. TypeOK
  <2>1. freeList \in Seq(Threads)
    BY <1>1
  <2>2. /\ lock \in [Threads -> Threads \cup {Free}]
        /\ handler \in [Threads -> Jobs \cup {None}]
        /\ stop \in [Threads -> BOOLEAN]
        /\ pc \in [Threads -> ThreadPCs]
        /\ once \in [Jobs -> {"none", "run", "quit", "gone", "never"}]
        /\ ran \in [Jobs -> Nat]
    BY <1>1 DEF ThreadPCs
  <2>3. call \in [Submitters -> [pc : CallPCs, job : Jobs \cup {None},
                                 thread : Threads \cup {None}]]
    BY <1>1 DEF CallPCs
  <2>4. signalled \in BOOLEAN /\ overlapped \in BOOLEAN
    BY <1>1, Zenon
  <2>5. /\ deinit \in 0..NumThreads /\ jobs \in 0..MaxJobs /\ fails \in 0..MaxFails
        /\ built \in 0..NumThreads
    BY <1>1, Constants
  <2>6. gTpool \in {"null", "live", "freed"} /\ accepted \subseteq Jobs
        /\ ub \in {"no", "used the unfinished pool", "took the list for a thread",
                   "freed a part of the pool", "used the freed pool"}
    BY <1>1
  <2> QED BY <1>2, <2>1, <2>2, <2>3, <2>4, <2>5, <2>6 DEF TypeOK
<1>4. ToSet(freeList) = {} /\ IsInjective(freeList)
  BY <1>1 DEF ToSet, IsInjective
<1>5. PoolInv
  <2>1. \A t \in Threads : t > 0
    BY Constants DEF Threads
  <2> QED BY <1>1, <1>4, <2>1, Constants DEF PoolInv, Listed
<1>6. PlaceInv
  <2>1. \A t \in Threads : t > 0
    BY Constants DEF Threads
  <2> QED BY <1>1, <1>4, <2>1, Constants DEF PlaceInv, Listed, HasTaken, At
<1>7. JobInv
  BY <1>1, Constants DEF JobInv, ThreadJob, CallJob, JobFate, Owed, At
<1>8. ServeInv
  BY <1>1 DEF ServeInv
<1> QED BY <1>3, <1>5, <1>6, <1>7, <1>8 DEF IInv

----------------------------------------------------------------------------
(* The counter.                                                            *)

LEMMA CounterMeans ==
  CounterRight <=> threadRun = Cardinality(Counting) + Cardinality(CountingOnce)
  BY DEF CounterRight, Counting, CountingOnce

\* Nobody is counted and nobody quits.
LEMMA CounterKept ==
  ASSUME CounterRight, threadRun' = threadRun, Counting' = Counting, CountingOnce' = CountingOnce
  PROVE  CounterRight'
  BY CounterMeans DEF CounterRight, Counting, CountingOnce

LEMMA CounterStep == TypeOK /\ PoolInv /\ JobInv /\ [Next]_vars => CounterRight'
<1> SUFFICES ASSUME TypeOK, PoolInv, JobInv, [Next]_vars PROVE CounterRight'
  OBVIOUS
<1>1. /\ CounterRight /\ pc \in [Threads -> ThreadPCs]
      /\ once \in [Jobs -> {"none", "run", "quit", "gone", "never"}]
  BY DEF TypeOK
<1>2. /\ threadRun = Cardinality(Counting) + Cardinality(CountingOnce)
      /\ CounterRight' <=> threadRun' = Cardinality(Counting') + Cardinality(CountingOnce')
  BY <1>1, CounterMeans DEF CounterRight, Counting, CountingOnce
<1>3. ASSUME InitThread PROVE CounterRight'
  <2> DEFINE t == built + 1
  <2>1. /\ t \in Threads /\ pc[t] = "none" /\ threadRun' = threadRun + 1 /\ once' = once
        /\ \E p \in {"check", "never"} : pc' = [pc EXCEPT ![t] = p]
    <3>1. built \in 0..NumThreads /\ built < NumThreads
      BY <1>3 DEF InitThread, TypeOK
    <3>2. t \in Threads /\ t > built
      BY <3>1, Constants DEF Threads
    <3> QED BY <1>3, <3>2, Zenon DEF InitThread, PoolInv
  <2> HIDE DEF t
  <2>2. Counting' = Counting \cup {t} /\ t \notin Counting /\ CountingOnce' = CountingOnce
    BY <1>1, <2>1 DEF Counting, CountingOnce
  <2>3. Cardinality(Counting') = Cardinality(Counting) + 1
    BY <2>2, CountingFinite, FS_AddElement
  <2> QED BY <1>2, <2>1, <2>2, <2>3, CountingFinite
<1>4. ASSUME NEW t \in Threads,
             Check(t) \/ Sleep(t) \/ WakeUp(t) \/ TestStop(t) \/ Run(t) \/ Clear(t) \/ GiveBack(t)
                \/ FreeThread(t)
      PROVE  CounterRight'
  <2>1. /\ threadRun' = threadRun /\ once' = once
        /\ \/ pc' = pc
           \/ /\ pc[t] \in {"check", "sleepy", "asleep", "test", "run", "clear", "giveback"}
              /\ \E p \in ThreadPCs \ {"none", "free"} : pc' = [pc EXCEPT ![t] = p]
    BY <1>4 DEF Check, Sleep, WakeUp, TestStop, Run, Clear, GiveBack, FreeThread, shared,
                ThreadPCs, history
  <2>2. Counting' = Counting
    BY <1>1, <2>1 DEF Counting
  <2>3. CountingOnce' = CountingOnce
    BY <2>1 DEF CountingOnce
  <2> QED BY <1>1, <2>1, <2>2, <2>3, CounterKept
<1>5. ASSUME NEW t \in Threads, Quit(t) PROVE CounterRight'
  <2>1. /\ pc[t] = "quit" /\ pc' = [pc EXCEPT ![t] = "free"]
        /\ threadRun' = threadRun - 1 /\ once' = once
    BY <1>5 DEF Quit, CountedOut
  <2>2. Counting' = Counting \ {t} /\ t \in Counting /\ CountingOnce' = CountingOnce
    BY <1>1, <2>1 DEF Counting, CountingOnce
  <2>3. Cardinality(Counting') = Cardinality(Counting) - 1
    BY <2>2, CountingFinite, FS_RemoveElement
  <2> QED BY <1>2, <2>1, <2>2, <2>3, CountingFinite
<1>6. ASSUME NEW j \in Jobs, RunOnce(j) PROVE CounterRight'
  <2>1. /\ once[j] = "run" /\ once' = [once EXCEPT ![j] = "quit"]
        /\ pc' = pc /\ threadRun' = threadRun
    BY <1>6 DEF RunOnce, shared
  <2>2. Counting' = Counting /\ CountingOnce' = CountingOnce
    BY <1>1, <2>1 DEF Counting, CountingOnce
  <2> QED BY <1>1, <2>1, <2>2, CounterKept
<1>7. ASSUME NEW j \in Jobs, QuitOnce(j) PROVE CounterRight'
  <2>1. /\ once[j] = "quit" /\ once' = [once EXCEPT ![j] = "gone"]
        /\ threadRun' = threadRun - 1 /\ pc' = pc
    BY <1>7 DEF QuitOnce, CountedOut
  <2>2. CountingOnce' = CountingOnce \ {j} /\ j \in CountingOnce /\ Counting' = Counting
    BY <1>1, <2>1 DEF Counting, CountingOnce
  <2>3. Cardinality(CountingOnce') = Cardinality(CountingOnce) - 1
    BY <2>2, CountingFinite, FS_RemoveElement
  <2> QED BY <1>2, <2>1, <2>2, <2>3, CountingFinite
<1>8. ASSUME NEW s \in Submitters, DoOnce(s) PROVE CounterRight'
  <2>1. pc' = pc
    BY <1>8 DEF DoOnce
  <2>2. CASE UNCHANGED <<threadRun, once>>
    <3>1. Counting' = Counting /\ CountingOnce' = CountingOnce
      BY <2>1, <2>2 DEF Counting, CountingOnce
    <3> QED BY <1>1, <2>2, <3>1, CounterKept
  <2>3. CASE /\ threadRun' = threadRun + 1
             /\ \E p \in {"run", "never"} : once' = [once EXCEPT ![call[s].job] = p]
    <3> DEFINE j == call[s].job
    <3>1. j \in Jobs /\ once[j] = "none"
      BY <1>8 DEF DoOnce, JobInv, CallJob, At
    <3>2. CountingOnce' = CountingOnce \cup {j} /\ j \notin CountingOnce /\ Counting' = Counting
      BY <1>1, <2>1, <2>3, <3>1 DEF Counting, CountingOnce
    <3> HIDE DEF j
    <3>3. Cardinality(CountingOnce') = Cardinality(CountingOnce) + 1
      BY <3>2, CountingFinite, FS_AddElement
    <3> QED BY <1>2, <2>3, <3>2, <3>3, CountingFinite
  <2> QED BY <1>8, <2>2, <2>3 DEF DoOnce
<1>9. ASSUME \/ \E s \in Submitters : DoSignal(s)
             \/ DeinitSignal
      PROVE  CounterRight'
  <2>1. /\ threadRun' = threadRun /\ once' = once
        /\ \E t : pc' = [pc EXCEPT ![t] = IF @ = "asleep" THEN "check" ELSE @]
    BY <1>9 DEF DoSignal, DeinitSignal, Signal, shared
  <2>2. Counting' = Counting
    BY <1>1, <2>1 DEF Counting
  <2>3. CountingOnce' = CountingOnce
    BY <2>1 DEF CountingOnce
  <2> QED BY <1>1, <2>1, <2>2, <2>3, CounterKept
<1>10. ASSUME \/ \E s \in Submitters : DoBegin(s) \/ DoTake(s) \/ DoSet(s)
              \/ SpeTpoolInit \/ DeinitStop \/ DeinitFree \/ UseFreed \/ UNCHANGED vars
       PROVE  CounterRight'
  <2>1. threadRun' = threadRun /\ once' = once /\ pc' = pc
    BY <1>10 DEF SpeTpoolInit, DoBegin, DoTake, DoSet, DeinitStop, DeinitFree, UseFreed, vars, shared, history
  <2>2. Counting' = Counting /\ CountingOnce' = CountingOnce
    BY <2>1 DEF Counting, CountingOnce
  <2> QED BY <1>1, <2>1, <2>2, CounterKept
<1> QED BY <1>3, <1>4, <1>5, <1>6, <1>7, <1>8, <1>9, <1>10
        DEF Next, ThreadStep, OnceStep, CallStep

----------------------------------------------------------------------------
(* Types, and the state of the pool.                                       *)

LEMMA HeadType ==
  ASSUME TypeOK, freeList # <<>>
  PROVE  Head(freeList) \in Threads /\ Tail(freeList) \in Seq(Threads)
<1>1. freeList \in Seq(Threads)
  BY DEF TypeOK
<1> QED BY <1>1, TailElements

LEMMA TypeStep == IInv /\ [Next]_vars => TypeOK'
<1> SUFFICES ASSUME IInv, [Next]_vars PROVE TypeOK'
  OBVIOUS
<1>0. TypeOK /\ CounterRight'
  BY CounterStep DEF IInv
<1> DEFINE CallType == [pc : CallPCs, job : Jobs \cup {None}, thread : Threads \cup {None}]
<1>1. NoCall \in CallType
  BY DEF NoCall, CallPCs
<1>2. ASSUME SpeTpoolInit \/ InitThread PROVE TypeOK'
  <2>1. CASE SpeTpoolInit
    BY <1>0, <2>1 DEF SpeTpoolInit, TypeOK, shared, history
  <2>2. CASE InitThread
    <3>1. built' \in 0..NumThreads /\ built' \in Threads
      <4>1. built \in 0..NumThreads /\ built < NumThreads /\ built' = built + 1
        BY <1>0, <2>2 DEF InitThread, TypeOK
      <4> QED BY <4>1, Constants DEF Threads
    <3>2. freeList' \in Seq(Threads)
      BY <1>0, <2>2, <3>1, AppendProperties DEF InitThread, TypeOK
    <3>3. pc' \in [Threads -> ThreadPCs]
      <4>1. \E p \in {"check", "never"} : pc' = [pc EXCEPT ![built'] = p]
        BY <2>2, Zenon DEF InitThread
      <4> QED BY <1>0, <4>1 DEF TypeOK, ThreadPCs
    <3>4. fails' \in 0..MaxFails
      <4>1. /\ fails \in 0..MaxFails
            /\ fails' = fails \/ (fails < MaxFails /\ fails' = fails + 1)
        BY <1>0, <2>2 DEF InitThread, TypeOK
      <4> QED BY <4>1, Constants
    <3> QED BY <1>0, <2>2, <3>1, <3>2, <3>3, <3>4 DEF InitThread, TypeOK
  <2> QED BY <1>2, <2>1, <2>2
<1>3. ASSUME NEW t \in Threads, ThreadStep(t) \/ WakeUp(t) PROVE TypeOK'
  <2>1. ASSUME Check(t) \/ Sleep(t) \/ WakeUp(t) \/ TestStop(t) \/ Quit(t)
        PROVE  pc' \in [Threads -> ThreadPCs] /\ lock' \in [Threads -> Threads \cup {Free}]
    <3>1. pc \in [Threads -> ThreadPCs] /\ lock \in [Threads -> Threads \cup {Free}]
      BY <1>0 DEF TypeOK
    <3>2. CASE Check(t) \/ Sleep(t)
      BY <1>0, <3>1, <3>2 DEF Check, Sleep, ThreadPCs
    <3>3. CASE WakeUp(t) \/ TestStop(t) \/ Quit(t)
      <4>1. lock' = lock /\ \E x \in {"check", "quit", "run", "free"} : pc' = [pc EXCEPT ![t] = x]
        BY <3>3, Zenon DEF WakeUp, TestStop, Quit, shared
      <4> QED BY <3>1, <4>1 DEF ThreadPCs
    <3> QED BY <2>1, <3>2, <3>3
  <2>2. CASE Check(t) \/ Sleep(t) \/ WakeUp(t) \/ TestStop(t) \/ Quit(t)
    BY <1>0, <2>1, <2>2 DEF Check, Sleep, WakeUp, TestStop, Quit, TypeOK, shared, history
  <2>3. CASE Run(t)
    <3>1. pc' \in [Threads -> ThreadPCs]
      BY <1>0, <2>3 DEF Run, TypeOK, ThreadPCs
    <3>2. handler[t] \in Jobs
      BY <1>0, <2>3 DEF Run, IInv, PlaceInv, TypeOK
    <3>3. ran' \in [Jobs -> Nat]
      <4>1. ran \in [Jobs -> Nat] /\ ran' = [ran EXCEPT ![handler[t]] = @ + 1]
        BY <1>0, <2>3 DEF Run, TypeOK
      <4> QED BY <3>2, <4>1
    <3> QED BY <1>0, <2>3, <3>1, <3>3 DEF Run, TypeOK, shared
  <2>4. CASE Clear(t)
    <3>1. handler' \in [Threads -> Jobs \cup {None}] /\ pc' \in [Threads -> ThreadPCs]
      BY <1>0, <2>4 DEF Clear, TypeOK, ThreadPCs
    <3> QED BY <1>0, <2>4, <3>1 DEF Clear, TypeOK, history
  <2>5. CASE GiveBack(t)
    <3>1. freeList' \in Seq(Threads) /\ pc' \in [Threads -> ThreadPCs]
      BY <1>0, <2>5, AppendProperties DEF GiveBack, ListWith, TypeOK, ThreadPCs
    <3> QED BY <1>0, <2>5, <3>1 DEF GiveBack, TypeOK, history
  <2>6. CASE FreeThread(t)
    BY <1>0, <2>6 DEF FreeThread, TypeOK, shared, history
  <2> QED BY <1>3, <2>2, <2>3, <2>4, <2>5, <2>6 DEF ThreadStep
<1>4. ASSUME NEW j \in Jobs, OnceStep(j) PROVE TypeOK'
  <2>1. once' \in [Jobs -> {"none", "run", "quit", "gone", "never"}] /\ ran' \in [Jobs -> Nat]
    <3>1. CASE RunOnce(j)
      <4>1. /\ ran \in [Jobs -> Nat] /\ ran' = [ran EXCEPT ![j] = @ + 1]
            /\ once' = [once EXCEPT ![j] = "quit"]
        BY <1>0, <3>1 DEF RunOnce, TypeOK
      <4>2. ran' \in [Jobs -> Nat]
        BY <4>1
      <4> QED BY <1>0, <4>1, <4>2 DEF TypeOK
    <3>2. CASE QuitOnce(j)
      BY <1>0, <3>2 DEF QuitOnce, TypeOK, history
    <3> QED BY <1>4, <3>1, <3>2 DEF OnceStep
  <2> QED BY <1>0, <1>4, <2>1 DEF OnceStep, RunOnce, QuitOnce, TypeOK, shared, history
<1>5. ASSUME NEW s \in Submitters, DoBegin(s) PROVE TypeOK'
  <2>1. jobs' \in 0..MaxJobs /\ jobs + 1 \in Jobs
    <3>1. jobs \in 0..MaxJobs /\ jobs < MaxJobs /\ jobs' = jobs + 1
      BY <1>0, <1>5 DEF DoBegin, TypeOK
    <3> QED BY <3>1, Constants DEF Jobs
  <2>2. call' \in [Submitters -> CallType] /\ overlapped' \in BOOLEAN
    <3>1. CASE UNCHANGED <<call, overlapped>>
      BY <1>0, <3>1 DEF TypeOK
    <3>2. CASE /\ call' = [call EXCEPT ![s] = [pc |-> IF SeemsFree THEN "take" ELSE "once",
                                               job |-> jobs + 1, thread |-> None]]
               /\ overlapped' = (overlapped \/ (SeemsFree /\ \E r \in Submitters : At(r, "take")))
      <4>1. [pc |-> IF SeemsFree THEN "take" ELSE "once", job |-> jobs + 1, thread |-> None]
              \in CallType
        BY <2>1 DEF CallPCs
      <4>2. overlapped' \in BOOLEAN
        BY <3>2
      <4> QED BY <1>0, <3>2, <4>1, <4>2 DEF TypeOK
    <3> QED BY <1>5, <3>1, <3>2 DEF DoBegin
  <2>3. ub' = ub \/ ub' = "used the unfinished pool"
    BY <1>5 DEF DoBegin
  <2> QED BY <1>0, <1>5, <2>1, <2>2, <2>3 DEF DoBegin, TypeOK, shared
<1>6. ASSUME NEW s \in Submitters, DoTake(s) PROVE TypeOK'
  <2>1. CASE freeList = <<>>
    BY <1>0, <1>6, <2>1 DEF DoTake, TypeOK, history
  <2>2. CASE freeList # <<>>
    <3> DEFINE h == Head(freeList)
    <3>0. h \in Threads /\ Tail(freeList) \in Seq(Threads)
      BY <1>0, <2>2, HeadType
    <3>2. freeList' = Tail(freeList) /\ ub' = ub
          /\ call' = [call EXCEPT ![s].pc = "set", ![s].thread = h]
      BY <1>6, <2>2 DEF DoTake, ListWithoutFirst
    <3> HIDE DEF h
    <3>1. freeList' \in Seq(Threads) /\ call' \in [Submitters -> CallType] /\ ub' = ub
      <4>1. call \in [Submitters -> CallType]
        BY <1>0 DEF TypeOK
      <4>2. [call[s] EXCEPT !.pc = "set", !.thread = h] \in CallType
        BY <3>0, <4>1 DEF CallPCs
      <4>3. call' = [call EXCEPT ![s] = [call[s] EXCEPT !.pc = "set", !.thread = h]]
        BY <3>2
      <4>4. call' \in [Submitters -> CallType]
        BY <4>1, <4>2, <4>3
      <4> QED BY <3>0, <3>2, <4>4
    <3> QED BY <1>0, <1>6, <3>1 DEF DoTake, TypeOK, history
  <2> QED BY <2>1, <2>2
<1>7. ASSUME NEW s \in Submitters, DoSet(s) PROVE TypeOK'
  <2>1. handler' \in [Threads -> Jobs \cup {None}] /\ call' \in [Submitters -> CallType]
    <3>1. call \in [Submitters -> CallType] /\ handler \in [Threads -> Jobs \cup {None}]
      BY <1>0 DEF TypeOK
    <3>2. [call[s] EXCEPT !.pc = "signal"] \in CallType /\ call[s].job \in Jobs \cup {None}
      BY <3>1 DEF CallPCs
    <3>3. /\ call' = [call EXCEPT ![s] = [call[s] EXCEPT !.pc = "signal"]]
          /\ handler' = [handler EXCEPT ![call[s].thread] = call[s].job]
      BY <1>7 DEF DoSet
    <3> QED BY <3>1, <3>2, <3>3
  <2> QED BY <1>0, <1>7, <2>1 DEF DoSet, TypeOK, history
<1>8. ASSUME NEW s \in Submitters, DoSignal(s) PROVE TypeOK'
  <2>1. call' \in [Submitters -> CallType] /\ pc' \in [Threads -> ThreadPCs]
    BY <1>0, <1>1, <1>8 DEF DoSignal, Signal, AfterSignal, TypeOK, ThreadPCs
  <2>2. call[s].job \in Jobs
    BY <1>8 DEF DoSignal, IInv, JobInv, CallJob, At
  <2> QED BY <1>0, <1>8, <2>1, <2>2 DEF DoSignal, TypeOK, shared
<1>9. ASSUME NEW s \in Submitters, DoOnce(s) PROVE TypeOK'
  <2>1. call[s].job \in Jobs
    BY <1>9 DEF DoOnce, IInv, JobInv, CallJob, At
  <2>2. /\ call' \in [Submitters -> CallType] /\ accepted' \subseteq Jobs
        /\ once' \in [Jobs -> {"none", "run", "quit", "gone", "never"}]
        /\ fails' \in 0..MaxFails
    <3>1. call' \in [Submitters -> CallType]
      BY <1>0, <1>1, <1>9 DEF DoOnce, TypeOK
    <3>2. accepted' \in {accepted, accepted \cup {call[s].job}}
      BY <1>9 DEF DoOnce
    <3>3. \/ once' = once
          \/ \E p \in {"run", "never"} : once' = [once EXCEPT ![call[s].job] = p]
      BY <1>9 DEF DoOnce
    <3>4. fails' = fails \/ (fails < MaxFails /\ fails' = fails + 1)
      BY <1>9 DEF DoOnce
    <3>5. once' \in [Jobs -> {"none", "run", "quit", "gone", "never"}]
      BY <1>0, <3>3 DEF TypeOK
    <3>6. fails' \in 0..MaxFails
      <4>1. fails \in 0..MaxFails
        BY <1>0 DEF TypeOK
      <4> QED BY <3>4, <4>1, Constants
    <3> QED BY <1>0, <2>1, <3>1, <3>2, <3>5, <3>6 DEF TypeOK
  <2> QED BY <1>0, <1>9, <2>2 DEF DoOnce, TypeOK
<1>10. ASSUME DeinitStop \/ DeinitSignal \/ DeinitFree \/ UseFreed PROVE TypeOK'
  <2>1. deinit' \in 0..NumThreads /\ stop' \in [Threads -> BOOLEAN] /\ signalled' \in BOOLEAN
    <3>1. CASE DeinitStop
      <4>1. /\ deinit \in 0..NumThreads /\ deinit < NumThreads /\ deinit' = deinit + 1
            /\ stop' = [stop EXCEPT ![deinit'] = TRUE] /\ signalled' = TRUE
        BY <1>0, <3>1 DEF DeinitStop, TypeOK
      <4>2. deinit' \in 0..NumThreads
        BY <4>1, Constants
      <4>3. stop' \in [Threads -> BOOLEAN]
        BY <1>0, <4>1 DEF TypeOK
      <4>4. signalled' \in BOOLEAN
        BY <4>1, Zenon
      <4> QED BY <4>2, <4>3, <4>4
    <3>2. CASE DeinitSignal
      <4>1. signalled' \in BOOLEAN
        BY <3>2, Zenon DEF DeinitSignal
      <4> QED BY <1>0, <3>2, <4>1 DEF DeinitSignal, TypeOK, shared
    <3>3. CASE DeinitFree \/ UseFreed
      BY <1>0, <3>3 DEF DeinitFree, UseFreed, TypeOK, shared
    <3> QED BY <1>10, <3>1, <3>2, <3>3
  <2>2. pc' \in [Threads -> ThreadPCs]
    BY <1>0, <1>10
       DEF DeinitStop, DeinitSignal, DeinitFree, UseFreed, Signal, TypeOK, ThreadPCs
  <2> QED BY <1>0, <1>10, <2>1, <2>2
          DEF DeinitStop, DeinitSignal, DeinitFree, UseFreed, TypeOK, shared, history
<1>11. ASSUME UNCHANGED vars PROVE TypeOK'
  BY <1>0, <1>11 DEF vars, TypeOK
<1> QED BY <1>2, <1>3, <1>4, <1>5, <1>6, <1>7, <1>8, <1>9, <1>10, <1>11 DEF Next, CallStep

LEMMA Typed ==
  ASSUME TypeOK
  PROVE  /\ handler \in [Threads -> Jobs \cup {None}] /\ pc \in [Threads -> ThreadPCs]
         /\ stop \in [Threads -> BOOLEAN] /\ freeList \in Seq(Threads) /\ Listed \subseteq Threads
         /\ call \in [Submitters -> [pc : CallPCs, job : Jobs \cup {None},
                                     thread : Threads \cup {None}]]
         /\ once \in [Jobs -> {"none", "run", "quit", "gone", "never"}]
         /\ ran \in [Jobs -> Nat] /\ accepted \subseteq Jobs /\ jobs \in 0..MaxJobs
<1>1. freeList \in Seq(Threads)
  BY DEF TypeOK
<1>2. \A i \in 1..Len(freeList) : freeList[i] \in Threads
  BY <1>1, ElementOfSeq
<1>3. Listed \subseteq Threads
  BY <1>1, <1>2, LenProperties DEF Listed, ToSet
<1> HIDE <1>2
<1> QED BY <1>1, <1>3 DEF TypeOK

\* A thread has nothing to do, to clear or to give back before the pool is built.
LEMMA BusyWhenBuilt ==
  ASSUME TypeOK, PoolInv, PlaceInv, NEW t \in Threads, pc[t] \in {"run", "clear", "giveback"}
  PROVE  built = NumThreads
<1>1. handler[t] # None \/ pc[t] = "giveback"
  BY DEF PlaceInv
<1>2. built \in 0..NumThreads
  BY DEF TypeOK
<1> QED BY <1>1, <1>2, Constants DEF PoolInv
LEMMA PoolStep == IInv /\ [Next]_vars => PoolInv'
<1> SUFFICES ASSUME IInv, [Next]_vars PROVE PoolInv'
  OBVIOUS
<1>0. /\ TypeOK /\ PoolInv /\ PlaceInv /\ gTpool \in {"null", "live", "freed"}
      /\ pc \in [Threads -> ThreadPCs] /\ stop \in [Threads -> BOOLEAN] /\ deinit \in Nat
      /\ built \in Nat /\ built <= NumThreads /\ Listed \subseteq Threads
  <2>1. deinit \in 0..NumThreads /\ built \in 0..NumThreads
    BY DEF IInv, TypeOK
  <2>2. deinit \in Nat /\ built \in Nat /\ built <= NumThreads
    BY <2>1, Constants
  <2> QED BY <2>2, Typed DEF IInv, TypeOK
\* Nothing is done that needs the pool built, or it is.
<1>1. ASSUME gTpool' = gTpool, built' = built, deinit' = deinit, stop' = stop,
             \A t \in Threads :
               pc'[t] = pc[t] \/ (pc[t] # "none" /\ pc'[t] \notin {"none", "quit", "free"}),
             \/ built = NumThreads
             \/ /\ UNCHANGED <<freeList, handler, call>>
                /\ \A t \in Threads : pc'[t] = "giveback" => pc[t] = "giveback"
      PROVE  PoolInv'
  <2>1. built < NumThreads => Listed' = Listed
    BY <1>0, <1>1, Constants DEF Listed
  <2>2. \A t \in Threads : pc'[t] = "none" <=> t > built'
    BY <1>0, <1>1 DEF PoolInv
  <2>3. \A t \in Threads : stop'[t] \/ pc'[t] \in {"quit", "free"} => deinit' > 0
    BY <1>0, <1>1 DEF PoolInv
  <2>4. built' < NumThreads =>
          /\ Listed' \subseteq 1..built' /\ deinit' = 0
          /\ \A t \in Threads : handler'[t] = None /\ pc'[t] # "giveback"
          /\ \A s \in Submitters : call'[s] = NoCall
    <3>1. ASSUME built' < NumThreads PROVE built < NumThreads /\ built # NumThreads
      BY <1>0, <1>1, <3>1, Constants
    <3> QED BY <1>0, <1>1, <2>1, <3>1 DEF PoolInv
  <2> QED BY <1>0, <1>1, <2>2, <2>3, <2>4 DEF PoolInv
<1>2. ASSUME SpeTpoolInit PROVE PoolInv'
  <2>1. Listed' = Listed
    BY <1>2 DEF SpeTpoolInit, shared, Listed
  <2> QED BY <1>0, <1>2, <2>1 DEF SpeTpoolInit, PoolInv, shared
<1>3. ASSUME InitThread PROVE PoolInv'
  <2>1. /\ gTpool = "live" /\ gTpool' = gTpool /\ built < NumThreads /\ built' = built + 1
        /\ freeList' = Append(freeList, built')
        /\ \E p \in {"check", "never"} : pc' = [pc EXCEPT ![built'] = p]
        /\ UNCHANGED <<handler, call, deinit, stop>>
    BY <1>3, Zenon DEF InitThread, Alive
  <2>2. Listed' = Listed \cup {built'}
    <3>1. built' \in Threads /\ built' \notin Listed
      <4>1. built' \in Threads /\ built' \notin 1..built
        BY <1>0, <2>1, Constants DEF Threads
      <4> QED BY <1>0, <2>1, <4>1 DEF PoolInv
    <3>2. IsInjective(freeList) /\ freeList \in Seq(Threads)
      BY <1>0, Typed DEF PlaceInv
    <3> QED BY <2>1, <3>1, <3>2, AppendSet DEF Listed
  <2>3. Listed' \subseteq 1..built' /\ built' \in Nat
    BY <1>0, <2>1, <2>2 DEF PoolInv
  <2>4. \A t \in Threads : pc'[t] = "none" <=> t > built'
    <3>1. \A t \in Threads : t \in Nat
      BY Constants
    <3>2. \A t \in Threads : t # built' => pc'[t] = pc[t]
      BY <1>0, <2>1
    <3>3. built' \in Threads => pc'[built'] # "none"
      BY <1>0, <2>1
    <3> QED BY <1>0, <2>1, <3>1, <3>2, <3>3 DEF PoolInv
  <2>5. \A t \in Threads : stop'[t] \/ pc'[t] \in {"quit", "free"} => deinit' > 0
    BY <1>0, <2>1 DEF PoolInv
  <2>6. \A t \in Threads : handler'[t] = None /\ pc'[t] # "giveback"
    BY <1>0, <2>1 DEF PoolInv
  <2> QED BY <1>0, <2>1, <2>3, <2>4, <2>5, <2>6 DEF PoolInv
<1>4. ASSUME NEW t \in Threads,
             \/ Check(t) \/ Sleep(t) \/ WakeUp(t) \/ FreeThread(t)
      PROVE  PoolInv'
  <2>1. /\ gTpool' = gTpool /\ built' = built /\ deinit' = deinit /\ stop' = stop
        /\ UNCHANGED <<freeList, handler, call>>
    BY <1>4 DEF Check, Sleep, WakeUp, FreeThread, shared
  <2>2. \A u \in Threads :
          pc'[u] = pc[u] \/ (pc[u] # "none" /\ pc'[u] \notin {"none", "quit", "free"})
    BY <1>0, <1>4 DEF Check, Sleep, WakeUp, FreeThread
  <2>3. \A u \in Threads : pc'[u] = "giveback" => pc[u] = "giveback"
    BY <1>0, <1>4 DEF Check, Sleep, WakeUp, FreeThread
  <2> QED BY <1>1, <2>1, <2>2, <2>3
<1>5. ASSUME NEW t \in Threads, Run(t) \/ Clear(t) \/ GiveBack(t) PROVE PoolInv'
  <2>1. gTpool' = gTpool /\ built' = built /\ deinit' = deinit /\ stop' = stop
    BY <1>5 DEF Run, Clear, GiveBack, shared
  <2>2. \A u \in Threads :
          pc'[u] = pc[u] \/ (pc[u] # "none" /\ pc'[u] \notin {"none", "quit", "free"})
    BY <1>0, <1>5 DEF Run, Clear, GiveBack
  <2>3. built = NumThreads
    BY <1>5, BusyWhenBuilt DEF Run, Clear, GiveBack, IInv
  <2> QED BY <1>1, <2>1, <2>2, <2>3
<1>6. ASSUME NEW t \in Threads, TestStop(t) \/ Quit(t) PROVE PoolInv'
  <2>1. /\ gTpool' = gTpool /\ built' = built /\ deinit' = deinit /\ stop' = stop
        /\ UNCHANGED <<freeList, handler, call>>
        /\ stop[t] \/ pc[t] = "quit" \/ pc'[t] = "run"
        /\ pc[t] \in {"test", "quit"}
        /\ \E p \in {"run", "quit", "free"} : pc' = [pc EXCEPT ![t] = p]
    BY <1>0, <1>6 DEF TestStop, Quit, shared
  <2>2. Listed' = Listed
    BY <2>1 DEF Listed
  <2>3. \A u \in Threads : /\ pc'[u] = "none" <=> pc[u] = "none"
                           /\ pc'[u] = "giveback" => pc[u] = "giveback"
    BY <1>0, <2>1
  <2>4. \A u \in Threads : stop'[u] \/ pc'[u] \in {"quit", "free"} => deinit' > 0
    BY <1>0, <2>1 DEF PoolInv
  <2> QED BY <1>0, <2>1, <2>2, <2>3, <2>4 DEF PoolInv
<1>7. ASSUME NEW j \in Jobs, OnceStep(j) PROVE PoolInv'
  <2>1. /\ gTpool' = gTpool /\ built' = built /\ deinit' = deinit /\ stop' = stop /\ pc' = pc
        /\ UNCHANGED <<freeList, handler, call>>
    BY <1>7 DEF OnceStep, RunOnce, QuitOnce, shared
  <2> QED BY <1>1, <2>1
<1>8. ASSUME NEW s \in Submitters, DoBegin(s) PROVE PoolInv'
  <2>1. /\ gTpool' = gTpool /\ built' = built /\ deinit' = deinit /\ stop' = stop /\ pc' = pc
        /\ built = NumThreads \/ UNCHANGED <<freeList, handler, call>>
    BY <1>8 DEF DoBegin, shared, Ready
  <2> QED BY <1>1, <2>1
<1>9. ASSUME NEW s \in Submitters, CallStep(s) PROVE PoolInv'
  <2>1. gTpool' = gTpool /\ built' = built /\ deinit' = deinit /\ stop' = stop
    BY <1>9 DEF CallStep, DoTake, DoSet, DoSignal, DoOnce, shared
  <2>2. \A u \in Threads :
          pc'[u] = pc[u] \/ (pc[u] # "none" /\ pc'[u] \notin {"none", "quit", "free"})
    BY <1>0, <1>9 DEF CallStep, DoTake, DoSet, DoSignal, DoOnce, Signal
  <2>3. built = NumThreads
    <3>1. call[s].pc # "idle"
      BY <1>9 DEF CallStep, DoTake, DoSet, DoSignal, DoOnce, At
    <3>2. call[s] # NoCall
      BY <3>1 DEF NoCall
    <3> QED BY <1>0, <3>2, Constants DEF PoolInv
  <2> QED BY <1>1, <2>1, <2>2, <2>3
<1>10. ASSUME DeinitStop PROVE PoolInv'
  <2>1. /\ gTpool = "live" /\ gTpool' = gTpool /\ deinit' = deinit + 1 /\ pc' = pc
        /\ built = NumThreads /\ built' = built
    BY <1>10 DEF DeinitStop, Alive, Ready
  <2> QED BY <1>0, <2>1, Constants DEF PoolInv
<1>11. ASSUME DeinitSignal PROVE PoolInv'
  <2>1. /\ gTpool' = gTpool /\ built' = built /\ deinit' = deinit /\ stop' = stop
        /\ UNCHANGED <<freeList, handler, call>>
    BY <1>11 DEF DeinitSignal, shared
  <2>2. \A u \in Threads :
          pc'[u] = pc[u] \/ (pc[u] # "none" /\ pc'[u] \notin {"none", "quit", "free"})
    BY <1>0, <1>11 DEF DeinitSignal, Signal
  <2>3. \A u \in Threads : pc'[u] = "giveback" => pc[u] = "giveback"
    BY <1>0, <1>11 DEF DeinitSignal, Signal
  <2> QED BY <1>1, <2>1, <2>2, <2>3
<1>12. ASSUME DeinitFree PROVE PoolInv'
  <2>1. /\ gTpool' = "freed" /\ deinit = NumThreads /\ deinit' = deinit /\ built' = built
        /\ UNCHANGED <<handler, call, pc, stop>>
    BY <1>12 DEF DeinitFree, shared
  <2>2. built = NumThreads /\ deinit' > 0
    BY <1>0, <2>1, Constants DEF PoolInv
  <2> QED BY <1>0, <2>1, <2>2, Constants DEF PoolInv
<1>13. ASSUME UseFreed \/ UNCHANGED vars PROVE PoolInv'
  <2>1. /\ gTpool' = gTpool /\ built' = built /\ deinit' = deinit /\ stop' = stop /\ pc' = pc
        /\ UNCHANGED <<freeList, handler, call>>
    BY <1>13 DEF UseFreed, vars, shared
  <2> QED BY <1>1, <2>1
<1> QED BY <1>2, <1>3, <1>4, <1>5, <1>6, <1>7, <1>8, <1>9, <1>10, <1>11, <1>12, <1>13
        DEF Next, ThreadStep

----------------------------------------------------------------------------
(* Where the threads are.                                                  *)

\* No thread moves between the places.
LEMMA PlaceKept ==
  ASSUME TypeOK, PlaceInv, freeList' = freeList, handler' = handler,
         built' = built,
         \A t \in Threads, s \in Submitters : HasTaken(s, t)' <=> HasTaken(s, t),
         \A t \in Threads : stop[t] => stop'[t],
         \A t \in Threads : \/ pc'[t] = pc[t]
                            \/ /\ pc[t] # "giveback" /\ pc'[t] # "giveback"
                               /\ pc'[t] = "test" => handler[t] # None \/ stop[t]
                               /\ pc'[t] \in {"run", "clear"} => handler[t] # None
  PROVE  PlaceInv'
<1>1. Listed' = Listed /\ Listed \subseteq Threads
  BY Typed DEF Listed
<1>2. IsInjective(freeList')
  BY DEF PlaceInv
<1>3. \A t \in Listed' : handler'[t] = None /\ pc'[t] # "giveback"
  BY <1>1 DEF PlaceInv
<1>4. \A t \in Threads : \A s \in Submitters :
        HasTaken(s, t)' => t \notin Listed' /\ handler'[t] = None /\ pc'[t] # "giveback"
  BY <1>1 DEF PlaceInv
<1>5. \A t \in Threads : \A r, s \in Submitters : HasTaken(r, t)' /\ HasTaken(s, t)' => r = s
  BY DEF PlaceInv
<1>6. \A t \in Threads :
        \/ t > built' \/ t \in Listed' \/ handler'[t] # None \/ pc'[t] = "giveback"
        \/ \E s \in Submitters : HasTaken(s, t)'
  BY <1>1 DEF PlaceInv
<1>7. \A t \in Threads :
        /\ pc'[t] = "test" => handler'[t] # None \/ stop'[t]
        /\ pc'[t] \in {"run", "clear"} => handler'[t] # None
        /\ pc'[t] = "giveback" => handler'[t] = None
  BY DEF PlaceInv
<1> QED BY <1>2, <1>3, <1>4, <1>5, <1>6, <1>7 DEF PlaceInv

LEMMA PlaceStep == IInv /\ [Next]_vars => PlaceInv'
<1> SUFFICES ASSUME IInv, [Next]_vars PROVE PlaceInv'
  OBVIOUS
<1>0. TypeOK /\ PoolInv /\ PlaceInv /\ JobInv
  BY DEF IInv
<1>1. /\ handler \in [Threads -> Jobs \cup {None}] /\ pc \in [Threads -> ThreadPCs]
      /\ stop \in [Threads -> BOOLEAN] /\ freeList \in Seq(Threads) /\ Listed \subseteq Threads
      /\ call \in [Submitters -> [pc : CallPCs, job : Jobs \cup {None},
                                  thread : Threads \cup {None}]]
  BY <1>0, Typed
<1>2. call' = call => \A t \in Threads, s \in Submitters : HasTaken(s, t)' <=> HasTaken(s, t)
  BY DEF HasTaken, At
<1>3. ASSUME InitThread PROVE PlaceInv'
  <2> DEFINE t == built + 1
  <2>1. /\ freeList' = Append(freeList, t) /\ call' = call /\ handler' = handler
        /\ stop' = stop /\ built' = t /\ built < NumThreads
        /\ \E p \in {"check", "never"} : pc' = [pc EXCEPT ![t] = p]
    BY <1>3, Zenon DEF InitThread
  <2>2. t \in Threads /\ t \notin Listed /\ \A u \in Threads : u > built <=> u > t \/ u = t
    <3>1. built \in 0..NumThreads
      BY <1>0 DEF TypeOK
    <3>2. t \in Threads /\ t \notin 1..built /\ \A u \in Threads : u > built <=> u > t \/ u = t
      BY <2>1, <3>1, Constants DEF Threads
    <3> QED BY <1>0, <2>1, <3>2 DEF PoolInv
  <2>3. handler[t] = None /\ pc[t] # "giveback" /\ \A s \in Submitters : ~HasTaken(s, t)
    BY <1>0, <2>1, <2>2 DEF PoolInv, HasTaken, At, NoCall
  <2> HIDE DEF t
  <2>4. Listed' = Listed \cup {t} /\ IsInjective(freeList')
    BY <1>0, <1>1, <2>1, <2>2, AppendSet DEF Listed, PlaceInv
  <2>5. \A u \in Threads : IF u = t THEN pc'[u] \in {"check", "never"} ELSE pc'[u] = pc[u]
    BY <1>1, <2>1, <2>2
  <2> QED BY <1>0, <1>1, <1>2, <2>1, <2>2, <2>3, <2>4, <2>5 DEF PlaceInv
<1>4. ASSUME NEW t \in Threads,
             Check(t) \/ Sleep(t) \/ WakeUp(t) \/ TestStop(t) \/ Run(t) \/ Quit(t) \/ FreeThread(t)
      PROVE  PlaceInv'
  <2>1. /\ freeList' = freeList /\ handler' = handler /\ built' = built /\ call' = call
        /\ stop' = stop
    BY <1>4 DEF Check, Sleep, WakeUp, TestStop, Run, Quit, FreeThread, shared
  <2>2. \/ pc' = pc
        \/ /\ pc[t] # "giveback"
           /\ \E p \in ThreadPCs \ {"giveback"} :
                /\ pc' = [pc EXCEPT ![t] = p]
                /\ p = "test" => handler[t] # None \/ stop[t]
                /\ p \in {"run", "clear"} => handler[t] # None
    <3>1. CASE Check(t)
      BY <3>1 DEF Check, ThreadPCs
    <3>2. CASE Sleep(t) \/ WakeUp(t)
      BY <3>2 DEF Sleep, WakeUp, ThreadPCs
    <3>3. CASE TestStop(t)
      <4>1. pc[t] = "test" /\ (handler[t] # None \/ stop[t])
        BY <1>0, <3>3 DEF TestStop, PlaceInv
      <4>2. CASE stop[t]
        <5>1. pc' = [pc EXCEPT ![t] = "quit"]
          BY <3>3, <4>2 DEF TestStop
        <5>2. "quit" \in ThreadPCs \ {"giveback"} /\ "quit" \notin {"test", "run", "clear"}
          BY DEF ThreadPCs
        <5>3. pc[t] # "giveback"
          BY <4>1
        <5> QED BY <5>1, <5>2, <5>3
      <4>3. CASE ~stop[t]
        <5>1. pc' = [pc EXCEPT ![t] = "run"]
          BY <3>3, <4>3 DEF TestStop
        <5> QED BY <4>1, <4>3, <5>1 DEF ThreadPCs
      <4> QED BY <4>2, <4>3
    <3>4. CASE Run(t)
      <4>1. handler[t] # None
        BY <1>0, <3>4 DEF Run, PlaceInv
      <4> QED BY <3>4, <4>1 DEF Run, ThreadPCs
    <3>5. CASE Quit(t) \/ FreeThread(t)
      BY <3>5 DEF Quit, FreeThread, ThreadPCs
    <3> QED BY <1>4, <3>1, <3>2, <3>3, <3>4, <3>5
  <2>3. \A u \in Threads : \/ pc'[u] = pc[u]
                           \/ /\ pc[u] # "giveback" /\ pc'[u] # "giveback"
                              /\ pc'[u] = "test" => handler[u] # None \/ stop[u]
                              /\ pc'[u] \in {"run", "clear"} => handler[u] # None
    BY <1>1, <2>2
  <2> QED BY <1>0, <1>2, <2>1, <2>3, PlaceKept
<1>5. ASSUME NEW t \in Threads, Clear(t) PROVE PlaceInv'
  <2>1. /\ pc[t] = "clear" /\ handler' = [handler EXCEPT ![t] = None]
        /\ pc' = [pc EXCEPT ![t] = "giveback"] /\ freeList' = freeList /\ call' = call
        /\ built' = built /\ stop' = stop
    BY <1>5 DEF Clear, Alive
  <2>2. handler[t] # None /\ t \notin Listed /\ \A s \in Submitters : ~HasTaken(s, t)
    BY <1>0, <2>1 DEF PlaceInv
  <2>3. Listed' = Listed
    BY <2>1 DEF Listed
  <2>4. \A u \in Threads : IF u = t THEN handler'[u] = None /\ pc'[u] = "giveback"
                                    ELSE handler'[u] = handler[u] /\ pc'[u] = pc[u]
    BY <1>1, <2>1
  <2> QED BY <1>0, <1>1, <1>2, <2>1, <2>2, <2>3, <2>4 DEF PlaceInv
<1>6. ASSUME NEW t \in Threads, GiveBack(t) PROVE PlaceInv'
  <2>1. /\ pc[t] = "giveback" /\ freeList' = Append(freeList, t) /\ pc' = [pc EXCEPT ![t] = "check"]
        /\ handler' = handler /\ call' = call /\ built' = built /\ stop' = stop
    BY <1>6 DEF GiveBack, ListWith
  <2>2. handler[t] = None /\ t \notin Listed /\ \A s \in Submitters : ~HasTaken(s, t)
    BY <1>0, <2>1 DEF PlaceInv
  <2>3. Listed' = Listed \cup {t} /\ IsInjective(freeList')
    BY <1>0, <1>1, <2>1, <2>2, AppendSet DEF Listed, PlaceInv
  <2>4. \A u \in Threads : pc'[u] = IF u = t THEN "check" ELSE pc[u]
    BY <1>1, <2>1
  <2> QED BY <1>0, <1>1, <1>2, <2>1, <2>2, <2>3, <2>4 DEF PlaceInv
<1>7. ASSUME NEW s \in Submitters, DoBegin(s) PROVE PlaceInv'
  <2>1. /\ freeList' = freeList /\ handler' = handler /\ built' = built /\ pc' = pc
        /\ stop' = stop /\ call[s].pc = "idle"
        /\ call' = call \/ \E c : c.pc \in {"take", "once"} /\ call' = [call EXCEPT ![s] = c]
    <3> DEFINE c == [pc |-> IF SeemsFree THEN "take" ELSE "once", job |-> jobs + 1,
                     thread |-> None]
    <3>1. c.pc \in {"take", "once"}
      OBVIOUS
    <3>2. call' = call \/ call' = [call EXCEPT ![s] = c]
      BY <1>7 DEF DoBegin
    <3> HIDE DEF c
    <3>3. /\ freeList' = freeList /\ handler' = handler /\ built' = built /\ pc' = pc
          /\ stop' = stop /\ call[s].pc = "idle"
      BY <1>7 DEF DoBegin, shared, At
    <3> QED BY <3>1, <3>2, <3>3
  <2>2. \A t \in Threads, r \in Submitters : HasTaken(r, t)' <=> HasTaken(r, t)
    BY <1>1, <2>1 DEF HasTaken, At
  <2> QED BY <1>0, <2>1, <2>2, PlaceKept
<1>8. ASSUME NEW s \in Submitters, DoTake(s) PROVE PlaceInv'
  <2>0. /\ call[s].pc = "take" /\ handler' = handler /\ built' = built /\ pc' = pc /\ stop' = stop
    BY <1>8 DEF DoTake, At
  <2>1. CASE freeList = <<>>
    <3>1. freeList' = freeList /\ call' = call
      BY <1>8, <2>1 DEF DoTake
    <3> QED BY <1>0, <1>2, <2>0, <3>1, PlaceKept
  <2>2. CASE freeList # <<>>
    <3> DEFINE h == Head(freeList)
    <3>1. freeList' = Tail(freeList) /\ call' = [call EXCEPT ![s].pc = "set", ![s].thread = h]
      BY <1>8, <2>2 DEF DoTake, ListWithoutFirst
    <3>2. IsInjective(freeList)
      BY <1>0 DEF PlaceInv
    <3>3. h \in Listed /\ h \in Threads /\ Listed' = Listed \ {h} /\ IsInjective(freeList')
      BY <1>1, <2>2, <3>1, <3>2, TailSet DEF Listed
    <3> HIDE DEF h
    <3>4. \A t \in Threads, r \in Submitters :
            HasTaken(r, t)' <=> IF r = s THEN t = h ELSE HasTaken(r, t)
      BY <1>1, <3>1 DEF HasTaken, At
    <3>5. \A r \in Submitters : ~HasTaken(r, h)
      BY <1>0, <3>3 DEF PlaceInv
    <3>6. \A t \in Threads : ~HasTaken(s, t)
      BY <2>0 DEF HasTaken, At
    <3> QED BY <1>0, <1>1, <2>0, <3>3, <3>4, <3>5, <3>6 DEF PlaceInv
  <2> QED BY <2>1, <2>2
<1>9. ASSUME NEW s \in Submitters, DoSet(s) PROVE PlaceInv'
  <2> DEFINE t == call[s].thread
             j == call[s].job
  <2>1. /\ HasTaken(s, t) /\ handler' = [handler EXCEPT ![t] = j]
        /\ call' = [call EXCEPT ![s].pc = "signal"]
        /\ freeList' = freeList /\ built' = built /\ pc' = pc /\ stop' = stop
    BY <1>9 DEF DoSet, HasTaken
  <2>2. t \in Threads /\ j \in Jobs /\ j # None
    BY <1>0, <2>1, Constants DEF JobInv, CallJob, HasTaken, At
  <2> HIDE DEF t, j
  <2>3. \A u \in Threads : handler'[u] = IF u = t THEN j ELSE handler[u]
    BY <1>1, <2>1, <2>2
  <2>4. \A u \in Threads, r \in Submitters : HasTaken(r, u)' <=> r # s /\ HasTaken(r, u)
    BY <1>1, <2>1 DEF HasTaken, At
  <2>5. Listed' = Listed
    BY <2>1 DEF Listed
  <2>6. \A u \in Threads : HasTaken(s, u) => u = t
    BY <2>1 DEF HasTaken
  <2>7. t \notin Listed /\ pc[t] # "giveback" /\ \A r \in Submitters : HasTaken(r, t) => r = s
    BY <1>0, <2>1, <2>2 DEF PlaceInv
  <2> QED BY <1>0, <1>1, <2>1, <2>2, <2>3, <2>4, <2>5, <2>6, <2>7 DEF PlaceInv
<1>10. ASSUME NEW s \in Submitters, DoSignal(s) \/ DoOnce(s) PROVE PlaceInv'
  <2>1. /\ freeList' = freeList /\ handler' = handler /\ built' = built /\ stop' = stop
        /\ call[s].pc # "set" /\ call' = [call EXCEPT ![s] = NoCall]
    BY <1>10 DEF DoSignal, DoOnce, shared, At, AfterSignal
  <2>2. pc' = pc \/ \E t : pc' = [pc EXCEPT ![t] = IF @ = "asleep" THEN "check" ELSE @]
    BY <1>10 DEF DoSignal, DoOnce, Signal
  <2>3. \A t \in Threads, r \in Submitters : HasTaken(r, t)' <=> HasTaken(r, t)
    BY <1>1, <2>1 DEF HasTaken, At, NoCall
  <2>4. \A u \in Threads : pc'[u] = pc[u] \/ (pc[u] = "asleep" /\ pc'[u] = "check")
    BY <1>1, <2>2
  <2> QED BY <1>0, <2>1, <2>3, <2>4, PlaceKept
<1>11. ASSUME DeinitStop \/ DeinitSignal \/ DeinitFree PROVE PlaceInv'
  <2>1. /\ freeList' = freeList /\ handler' = handler /\ built' = built
        /\ call' = call
    BY <1>11 DEF DeinitStop, DeinitSignal, DeinitFree, Alive, shared
  <2>2. pc' = pc \/ \E t : pc' = [pc EXCEPT ![t] = IF @ = "asleep" THEN "check" ELSE @]
    BY <1>11 DEF DeinitStop, DeinitSignal, DeinitFree, Signal
  <2>3. \A u \in Threads : pc'[u] = pc[u] \/ (pc[u] = "asleep" /\ pc'[u] = "check")
    BY <1>1, <2>2
  <2>4. \A u \in Threads : stop[u] => stop'[u]
    BY <1>1, <1>11 DEF DeinitStop, DeinitSignal, DeinitFree, shared
  <2> QED BY <1>0, <1>2, <2>1, <2>3, <2>4, PlaceKept
<1>12. ASSUME \/ \E j \in Jobs : OnceStep(j)
              \/ SpeTpoolInit \/ UseFreed \/ UNCHANGED vars
       PROVE  PlaceInv'
  <2>1. /\ freeList' = freeList /\ handler' = handler /\ built' = built /\ pc' = pc
        /\ stop' = stop /\ call' = call
    BY <1>12 DEF SpeTpoolInit, OnceStep, RunOnce, QuitOnce, UseFreed, vars, shared
  <2> QED BY <1>0, <1>2, <2>1, PlaceKept
<1> QED BY <1>3, <1>4, <1>5, <1>6, <1>7, <1>8, <1>9, <1>10, <1>11, <1>12
        DEF Next, ThreadStep, CallStep

----------------------------------------------------------------------------
(* Where the handlers are.                                                 *)

\* No handler moves or runs.
LEMMA JobKept ==
  ASSUME JobInv, UNCHANGED <<handler, ran, once, call, accepted, jobs>>,
         \A t \in Threads : pc'[t] = "clear" <=> pc[t] = "clear"
  PROVE  JobInv'
  BY DEF JobInv, ThreadJob, CallJob, JobFate, Owed, At

\* The handler of a thread is the one it was, and so is what has become of it.
LEMMA ThreadJobKept ==
  ASSUME NEW t \in Threads, ThreadJob(t), handler'[t] = handler[t],
         handler[t] # None =>
           /\ handler[t] <= jobs' /\ once'[handler[t]] = once[handler[t]]
           /\ ran'[handler[t]] = ran[handler[t]] /\ (pc'[t] = "clear" <=> pc[t] = "clear")
           /\ \A u \in Threads : handler'[u] = handler[t] => handler[u] = handler[t]
           /\ handler[t] \in Owed => handler[t] \in Owed'
  PROVE  ThreadJob(t)'
  BY DEF ThreadJob

LEMMA JobStep == IInv /\ [Next]_vars => JobInv'
<1> SUFFICES ASSUME IInv, [Next]_vars PROVE JobInv'
  OBVIOUS
<1>0. TypeOK /\ PoolInv /\ PlaceInv /\ JobInv
  BY DEF IInv
<1>1. /\ handler \in [Threads -> Jobs \cup {None}] /\ pc \in [Threads -> ThreadPCs]
      /\ call \in [Submitters -> [pc : CallPCs, job : Jobs \cup {None},
                                  thread : Threads \cup {None}]]
      /\ once \in [Jobs -> {"none", "run", "quit", "gone", "never"}]
      /\ ran \in [Jobs -> Nat] /\ accepted \subseteq Jobs /\ jobs \in Nat
      /\ None \notin Jobs /\ Jobs \subseteq Nat
  <2>1. jobs \in 0..MaxJobs
    BY <1>0, Typed
  <2> QED BY <1>0, <2>1, Typed, Constants
<1>2. ASSUME UNCHANGED <<handler, ran, once, call, accepted, jobs>>,
             \A t \in Threads : pc'[t] = "clear" <=> pc[t] = "clear"
      PROVE  JobInv'
  BY <1>0, <1>2, JobKept
<1>3. ASSUME \/ SpeTpoolInit \/ InitThread \/ DeinitStop \/ DeinitSignal \/ DeinitFree \/ UseFreed \/ UNCHANGED vars
             \/ \E t \in Threads : Check(t) \/ Sleep(t) \/ WakeUp(t) \/ TestStop(t) \/ GiveBack(t)
                                      \/ Quit(t) \/ FreeThread(t)
      PROVE  JobInv'
  <2>1. CASE SpeTpoolInit \/ InitThread
    <3>1. UNCHANGED <<handler, ran, once, call, accepted, jobs>>
      BY <2>1 DEF SpeTpoolInit, InitThread, shared, history
    <3>2. pc' = pc \/ \E p \in {"check", "never"} : pc' = [pc EXCEPT ![built'] = p]
      BY <2>1, Zenon DEF SpeTpoolInit, InitThread
    <3>3. \A t \in Threads : pc[t] = "clear" => pc'[t] = "clear"
      <4>1. CASE SpeTpoolInit
        BY <4>1 DEF SpeTpoolInit
      <4>2. CASE InitThread
        <5>1. built < NumThreads
          BY <4>2 DEF InitThread
        <5>2. \A t \in Threads : pc[t] # "clear"
          BY <1>0, <5>1 DEF PoolInv, PlaceInv
        <5> QED BY <5>2
      <4> QED BY <2>1, <4>1, <4>2
    <3>4. \A t \in Threads : pc'[t] = "clear" => pc[t] = "clear"
      BY <1>1, <3>2
    <3> QED BY <1>2, <3>1, <3>3, <3>4
  <2>2. CASE DeinitStop \/ DeinitSignal \/ DeinitFree \/ UseFreed \/ UNCHANGED vars
    <3>1. UNCHANGED <<handler, ran, once, call, accepted, jobs>>
      BY <2>2 DEF DeinitStop, DeinitSignal, DeinitFree, UseFreed, vars, shared, history
    <3>2. pc' = pc \/ \E t : pc' = [pc EXCEPT ![t] = IF @ = "asleep" THEN "check" ELSE @]
      BY <2>2 DEF DeinitStop, DeinitSignal, DeinitFree, UseFreed, vars, Signal
    <3> QED BY <1>1, <1>2, <3>1, <3>2
  <2>3. ASSUME NEW t \in Threads,
               Check(t) \/ Sleep(t) \/ WakeUp(t) \/ TestStop(t) \/ GiveBack(t) \/ Quit(t) \/ FreeThread(t)
        PROVE  JobInv'
    <3>1. UNCHANGED <<handler, ran, once, call, accepted, jobs>>
      BY <2>3 DEF Check, Sleep, WakeUp, TestStop, GiveBack, Quit, FreeThread, shared, history
    <3>2. pc' = pc \/ (pc[t] # "clear" /\ \E p : p # "clear" /\ pc' = [pc EXCEPT ![t] = p])
      <4>1. CASE Check(t) \/ TestStop(t)
        BY <4>1 DEF Check, TestStop
      <4>2. CASE Sleep(t) \/ WakeUp(t) \/ GiveBack(t) \/ Quit(t) \/ FreeThread(t)
        BY <4>2 DEF Sleep, WakeUp, GiveBack, Quit, FreeThread
      <4> QED BY <2>3, <4>1, <4>2
    <3> QED BY <1>1, <1>2, <3>1, <3>2
  <2> QED BY <1>3, <2>1, <2>2, <2>3
<1>4. ASSUME NEW t \in Threads, Run(t) PROVE JobInv'
  <2> DEFINE j == handler[t]
  <2>1. /\ pc[t] = "run" /\ ran' = [ran EXCEPT ![j] = @ + 1] /\ pc' = [pc EXCEPT ![t] = "clear"]
        /\ UNCHANGED <<handler, once, call, accepted, jobs>>
    BY <1>4 DEF Run, shared
  <2>2. j \in Jobs /\ j # None
    BY <1>0, <1>1, <2>1 DEF PlaceInv
  <2>3. ran[j] = 0 /\ once[j] = "none"
    BY <1>0, <2>1, <2>2 DEF JobInv, ThreadJob
  <2>4. /\ ran'[j] = 1 /\ \A k \in Jobs \ {j} : ran'[k] = ran[k]
        /\ pc'[t] = "clear" /\ \A u \in Threads \ {t} : pc'[u] = pc[u]
    BY <1>1, <2>1, <2>2, <2>3
  <2>20. \A k \in Jobs : k \in Owed => k \in Owed'
    BY <2>1 DEF Owed
  <2>5. ASSUME NEW u \in Threads PROVE ThreadJob(u)'
    <3>1. ThreadJob(u) /\ ThreadJob(t) /\ handler[u] \in Jobs \cup {None}
      BY <1>0, <1>1 DEF JobInv
    <3>2. CASE u = t
      BY <2>1, <2>2, <2>4, <2>20, <3>1, <3>2 DEF ThreadJob
    <3>3. CASE u # t
      <4>1. handler[u] # None => handler[u] \in Jobs \ {j} /\ handler[u] <= jobs
        BY <2>2, <3>1, <3>3 DEF ThreadJob
      <4>2. handler[u] # None => ran'[handler[u]] = ran[handler[u]]
        BY <2>4, <4>1
      <4> QED BY <2>1, <2>4, <2>20, <3>1, <3>3, <4>1, <4>2, ThreadJobKept
    <3> QED BY <3>2, <3>3
  <2>6. \A s \in Submitters : CallJob(s)'
    BY <1>0, <1>1, <2>1, <2>2, <2>4 DEF JobInv, CallJob, At
  <2>7. \A k \in Jobs : JobFate(k)'
    BY <1>0, <1>1, <2>1, <2>2, <2>3, <2>4, <2>20 DEF JobInv, JobFate, ThreadJob
  <2> QED BY <1>0, <2>1, <2>5, <2>6, <2>7 DEF JobInv
<1>5. ASSUME NEW t \in Threads, Clear(t) PROVE JobInv'
  <2> DEFINE j == handler[t]
  <2>1. /\ pc[t] = "clear" /\ handler' = [handler EXCEPT ![t] = None]
        /\ pc' = [pc EXCEPT ![t] = "giveback"]
        /\ UNCHANGED <<ran, once, call, accepted, jobs>>
    BY <1>5 DEF Clear, history
  <2>2. j \in Jobs /\ j # None /\ ran[j] = 1
    BY <1>0, <1>1, <2>1 DEF PlaceInv, JobInv, ThreadJob
  <2>4. /\ handler'[t] = None /\ \A u \in Threads \ {t} : handler'[u] = handler[u]
        /\ pc'[t] = "giveback" /\ \A u \in Threads \ {t} : pc'[u] = pc[u]
    BY <1>1, <2>1
  <2>20. \A k \in Jobs : k \in Owed => k \in Owed'
    BY <2>1 DEF Owed
  <2>5. ASSUME NEW u \in Threads PROVE ThreadJob(u)'
    <3>1. ThreadJob(u) /\ handler[u] \in Jobs \cup {None}
      BY <1>0, <1>1 DEF JobInv
    <3>2. CASE u = t
      BY <2>4, <3>2 DEF ThreadJob
    <3>3. CASE u # t
      <4>1. handler[u] # None => handler[u] \in Jobs /\ handler[u] <= jobs
        BY <3>1 DEF ThreadJob
      <4> QED BY <1>1, <2>1, <2>4, <2>20, <3>1, <3>3, <4>1, ThreadJobKept
    <3> QED BY <3>2, <3>3
  <2>6. \A s \in Submitters : CallJob(s)'
    BY <1>0, <1>1, <2>1, <2>2, <2>4 DEF JobInv, CallJob, At
  <2>7. \A k \in Jobs : JobFate(k)'
    BY <1>0, <1>1, <2>1, <2>2, <2>4, <2>20 DEF JobInv, JobFate
  <2> QED BY <1>0, <2>1, <2>5, <2>6, <2>7 DEF JobInv
<1>6. ASSUME NEW j \in Jobs, OnceStep(j) PROVE JobInv'
  <2>1. /\ UNCHANGED <<handler, pc, call, accepted, jobs>>
        /\ once[j] # "none"
        /\ \/ once[j] = "run" /\ ran' = [ran EXCEPT ![j] = @ + 1] /\ once' = [once EXCEPT ![j] = "quit"]
           \/ once[j] = "quit" /\ ran' = ran /\ once' = [once EXCEPT ![j] = "gone"]
    BY <1>6 DEF OnceStep, RunOnce, QuitOnce, shared, history
  <2>2. j \in accepted /\ ran'[j] = 1 /\ once'[j] \in {"quit", "gone"}
    BY <1>0, <1>1, <2>1 DEF JobInv, JobFate
  <2>3. \A k \in Jobs \ {j} : ran'[k] = ran[k] /\ once'[k] = once[k]
    BY <1>1, <2>1
  <2>4. \A u \in Threads : handler[u] # j
    BY <1>0, <1>1, <2>1 DEF JobInv, ThreadJob
  <2>20. \A k \in Jobs : k \in Owed => k \in Owed'
    BY <2>1 DEF Owed
  <2>5. ASSUME NEW u \in Threads PROVE ThreadJob(u)'
    <3>1. ThreadJob(u) /\ handler[u] \in Jobs \cup {None}
      BY <1>0, <1>1 DEF JobInv
    <3>2. handler[u] # None => handler[u] \in Jobs \ {j} /\ handler[u] <= jobs
      BY <2>4, <3>1 DEF ThreadJob
    <3>3. handler[u] # None =>
            once'[handler[u]] = once[handler[u]] /\ ran'[handler[u]] = ran[handler[u]]
      BY <2>3, <3>2
    <3> QED BY <2>1, <2>20, <3>1, <3>2, <3>3, ThreadJobKept
  <2>6. ASSUME NEW s \in Submitters PROVE CallJob(s)'
    <3>1. call[s].pc # "idle" => call[s].job # j /\ call[s].job \in Jobs
      BY <1>0, <2>1 DEF JobInv, CallJob, At
    <3>2. /\ call[s].pc # "idle" =>
                ran'[call[s].job] = ran[call[s].job] /\ once'[call[s].job] = once[call[s].job]
          /\ CallJob(s)
      BY <1>0, <2>3, <3>1 DEF JobInv
    <3> QED BY <2>1, <3>2 DEF CallJob, At
  <2>7. \A k \in Jobs : JobFate(k)'
    <3>1. JobFate(j)'
      <4>1. j \in Owed'
        BY <2>1, <2>2 DEF Owed
      <4> QED BY <2>1, <2>2, <4>1 DEF JobFate
    <3>2. ASSUME NEW k \in Jobs \ {j} PROVE JobFate(k)'
      BY <1>0, <2>1, <2>3, <2>20, <3>2 DEF JobInv, JobFate
    <3> QED BY <3>1, <3>2
  <2> QED BY <1>0, <2>1, <2>5, <2>6, <2>7 DEF JobInv
<1>7. ASSUME NEW s \in Submitters, DoBegin(s) PROVE JobInv'
  <2> DEFINE j == jobs + 1
             c == [pc |-> IF SeemsFree THEN "take" ELSE "once", job |-> j, thread |-> None]
  <2>1. /\ UNCHANGED <<handler, pc, once, ran, accepted>> /\ jobs' = j /\ jobs < MaxJobs
        /\ call[s].pc = "idle" /\ (call' = call \/ call' = [call EXCEPT ![s] = c])
    BY <1>7 DEF DoBegin, shared, At
  <2>2. c.pc \in {"take", "once"} /\ c.job = j
    OBVIOUS
  <2>3. j \in Jobs /\ j > jobs /\ j # None
    BY <1>1, <2>1, Constants DEF Jobs
  <2>4. \A k \in Jobs : k <= jobs => k <= jobs' /\ k # j
    BY <1>1, <2>1
  <2>5. /\ \A u \in Threads : handler[u] # j
        /\ \A r \in Submitters : call[r].job # j
        /\ j \notin accepted
    BY <1>0, <1>1, <2>3, <2>4 DEF JobInv, ThreadJob, CallJob
  <2>6. once[j] = "none" /\ ran[j] = 0
    <3>1. JobFate(j) /\ j \notin Owed
      BY <1>0, <2>3, <2>5 DEF JobInv, Owed
    <3> HIDE DEF j
    <3> QED BY <2>5, <3>1 DEF JobFate
  <2>7. call[s].job = None
    BY <1>0, <2>1 DEF JobInv, CallJob, At
  <2> HIDE DEF j, c
  <2>8. CASE call' = call
    <3>20. \A k \in Jobs : k \in Owed => k \in Owed'
      BY <2>1, <2>8 DEF Owed
    <3>1. \A u \in Threads : ThreadJob(u)'
      BY <1>0, <1>1, <2>1, <2>4, <2>8, <3>20 DEF JobInv, ThreadJob
    <3>2. \A r \in Submitters : CallJob(r)'
      BY <1>0, <1>1, <2>1, <2>4, <2>8 DEF JobInv, CallJob, At
    <3>3. \A k \in Jobs : JobFate(k)'
      BY <1>0, <1>1, <2>1, <2>8, <3>20 DEF JobInv, JobFate
    <3>4. \A k \in accepted' : k <= jobs'
      BY <1>0, <1>1, <2>1, <2>4 DEF JobInv
    <3> QED BY <3>1, <3>2, <3>3, <3>4 DEF JobInv
  <2>9. CASE call' = [call EXCEPT ![s] = c]
    <3>0. call'[s] = c /\ \A r \in Submitters \ {s} : call'[r] = call[r]
      BY <1>1, <2>9
    <3>20. \A k \in Jobs : k \in Owed => k \in Owed'
      BY <1>1, <2>1, <2>7, <3>0 DEF Owed
    <3>1. \A u \in Threads : ThreadJob(u)'
      BY <1>0, <1>1, <2>1, <2>4, <3>20 DEF JobInv, ThreadJob
    <3>2. \A r \in Submitters : CallJob(r)'
      <4>1. CallJob(s)'
        BY <1>1, <2>1, <2>2, <2>3, <2>5, <2>6, <3>0 DEF CallJob, At
      <4>2. ASSUME NEW r \in Submitters \ {s} PROVE CallJob(r)'
        <5>1. CallJob(r) /\ call'[r] = call[r]
          BY <1>0, <3>0 DEF JobInv
        <5>2. call[r].job # j
          BY <2>5
        <5>3. call[r].pc # "idle" => call[r].job \in Jobs /\ call[r].job <= jobs'
          BY <1>1, <2>1, <2>4, <5>1 DEF CallJob, At
        <5>4. \A q \in Submitters : call'[q].job = call[r].job => q = s \/ call[q].job = call[r].job
          BY <3>0
        <5>5. call'[s].job # call[r].job
          BY <2>2, <3>0, <5>2
        <5> QED BY <2>1, <5>1, <5>3, <5>4, <5>5 DEF CallJob, At
      <4> QED BY <4>1, <4>2
    <3>3. \A k \in Jobs : JobFate(k)'
      BY <1>0, <1>1, <2>1, <3>20 DEF JobInv, JobFate
    <3>4. \A k \in accepted' : k <= jobs'
      BY <1>0, <1>1, <2>1, <2>4 DEF JobInv
    <3> QED BY <3>1, <3>2, <3>3, <3>4 DEF JobInv
  <2> QED BY <2>1, <2>8, <2>9
<1>8. ASSUME NEW s \in Submitters, DoTake(s) PROVE JobInv'
  <2>1. UNCHANGED <<handler, pc, once, ran, accepted, jobs>> /\ call[s].pc = "take"
    BY <1>8 DEF DoTake, history, At
  <2>2. CASE call' = call
    BY <1>2, <2>1, <2>2
  <2>3. CASE freeList # <<>> /\ call' = [call EXCEPT ![s].pc = "set", ![s].thread = Head(freeList)]
    <3> DEFINE h == Head(freeList)
    <3>1. h \in Threads
      BY <1>0, <2>3, HeadType
    <3> HIDE DEF h
    <3>2. /\ call'[s].pc = "set" /\ call'[s].thread = h /\ call'[s].job = call[s].job
          /\ \A r \in Submitters \ {s} : call'[r] = call[r]
      BY <1>1, <2>3 DEF h
    <3>3. \A r \in Submitters : call'[r].job = call[r].job
      BY <3>2
    <3>20. \A k \in Jobs : k \in Owed => k \in Owed'
      BY <2>1, <3>3 DEF Owed
    <3>4. \A u \in Threads : ThreadJob(u)'
      BY <1>0, <1>1, <2>1, <3>20 DEF JobInv, ThreadJob
    <3>5. \A r \in Submitters : CallJob(r)'
      <4>1. CallJob(s)'
        BY <1>0, <1>1, <2>1, <3>1, <3>2, <3>3 DEF JobInv, CallJob, At
      <4>2. ASSUME NEW r \in Submitters \ {s} PROVE CallJob(r)'
        BY <1>0, <1>1, <2>1, <3>2, <3>3 DEF JobInv, CallJob, At
      <4> QED BY <4>1, <4>2
    <3>6. \A k \in Jobs : JobFate(k)'
      BY <1>0, <1>1, <2>1, <3>20 DEF JobInv, JobFate
    <3> QED BY <1>0, <2>1, <3>4, <3>5, <3>6 DEF JobInv
  <2> QED BY <1>8, <2>2, <2>3 DEF DoTake
<1>9. ASSUME NEW s \in Submitters, DoSet(s) PROVE JobInv'
  <2> DEFINE t == call[s].thread
             j == call[s].job
  <2>1. /\ UNCHANGED <<pc, once, ran, accepted, jobs>> /\ HasTaken(s, t) /\ call[s].pc = "set"
        /\ handler' = [handler EXCEPT ![t] = j] /\ call' = [call EXCEPT ![s].pc = "signal"]
    BY <1>9 DEF DoSet, history, HasTaken, At
  <2>2. /\ t \in Threads /\ j \in Jobs /\ j # None /\ j <= jobs /\ once[j] = "none"
        /\ ran[j] = 0 /\ (\A u \in Threads : handler[u] # j)
        /\ \A r \in Submitters : call[r].job = j => r = s
    BY <1>0, <1>1, <2>1 DEF JobInv, CallJob, At
  <2>3. handler[t] = None /\ pc[t] # "clear"
    BY <1>0, <2>1, <2>2 DEF PlaceInv
  <2>4. /\ call'[s].pc = "signal" /\ call'[s].thread = t /\ call'[s].job = j
        /\ \A r \in Submitters \ {s} : call'[r] = call[r]
    BY <1>1, <2>1
  <2> HIDE DEF t, j
  <2>5. handler'[t] = j /\ \A u \in Threads \ {t} : handler'[u] = handler[u]
    BY <1>1, <2>1, <2>2
  <2>6. \A r \in Submitters : call'[r].job = call[r].job
    BY <2>4 DEF j
  <2>20. \A k \in Jobs : k \in Owed => k \in Owed'
    BY <2>1, <2>6 DEF Owed
  <2>21. j \in Owed'
    BY <2>2, <2>4 DEF Owed
  <2>7. \A u \in Threads : ThreadJob(u)'
    <3>1. ASSUME NEW u \in Threads, u = t PROVE ThreadJob(u)'
      <4>1. ran'[j] = 0 /\ once'[j] = "none" /\ j <= jobs' /\ pc'[t] # "clear"
        BY <2>1, <2>2, <2>3
      <4>2. \A v \in Threads : handler'[v] = j => v = u
        BY <2>2, <2>5, <3>1
      <4> QED BY <2>5, <2>21, <3>1, <4>1, <4>2 DEF ThreadJob
    <3>2. ASSUME NEW u \in Threads \ {t} PROVE ThreadJob(u)'
      <4>1. ThreadJob(u) /\ handler[u] \in Jobs \cup {None} /\ handler[u] # j
        BY <1>0, <1>1, <2>2 DEF JobInv
      <4>2. handler[u] # None => handler[u] \in Jobs /\ handler[u] <= jobs
        BY <4>1 DEF ThreadJob
      <4>3. \A v \in Threads : handler'[v] = handler[u] => handler[v] = handler[u]
        BY <2>5, <4>1
      <4> QED BY <2>1, <2>5, <2>20, <4>1, <4>2, <4>3, ThreadJobKept
    <3> QED BY <3>1, <3>2
  <2>8. \A r \in Submitters : CallJob(r)'
    <3>1. CallJob(s)'
      BY <1>0, <1>1, <2>1, <2>2, <2>4, <2>5, <2>6 DEF JobInv, CallJob, At, j
    <3>2. ASSUME NEW r \in Submitters \ {s} PROVE CallJob(r)'
      <4> DEFINE k == call[r].job
      <4>1. k # j
        BY <2>2
      <4>2. \A u \in Threads : k # None => (handler'[u] = k <=> handler[u] = k)
        BY <2>3, <2>5, <4>1
      <4> QED BY <1>0, <1>1, <2>1, <2>4, <2>6, <4>2 DEF JobInv, CallJob, At
    <3> QED BY <3>1, <3>2
  <2>9. \A k \in Jobs : JobFate(k)'
    BY <1>0, <1>1, <2>1, <2>3, <2>5, <2>20 DEF JobInv, JobFate
  <2> QED BY <1>0, <2>1, <2>7, <2>8, <2>9 DEF JobInv
<1>10. ASSUME NEW s \in Submitters, DoSignal(s) PROVE JobInv'
  <2> DEFINE j == call[s].job
  <2>1. /\ UNCHANGED <<handler, once, ran, jobs>> /\ call[s].pc = "signal"
        /\ accepted' = accepted \cup {j} /\ call' = [call EXCEPT ![s] = NoCall]
        /\ \E t : pc' = [pc EXCEPT ![t] = IF @ = "asleep" THEN "check" ELSE @]
    BY <1>10 DEF DoSignal, shared, At, AfterSignal, Signal
  <2>2. /\ j \in Jobs /\ j # None /\ j <= jobs /\ once[j] = "none"
        /\ (ran[j] = 1 \/ \E t \in Threads : handler[t] = j)
        /\ \A r \in Submitters : call[r].job = j => r = s
    BY <1>0, <1>1, <2>1 DEF JobInv, CallJob, At
  <2> HIDE DEF j
  <2>3. /\ call'[s].pc = "idle" /\ call'[s].job = None
        /\ \A r \in Submitters \ {s} : call'[r] = call[r]
    BY <1>1, <2>1 DEF NoCall
  <2>4. \A u \in Threads : pc'[u] = "clear" <=> pc[u] = "clear"
    BY <1>1, <2>1
  <2>5. \A r \in Submitters : call[r].job = j \/ call'[r].job = call[r].job
    BY <2>3 DEF j
  <2>20. \A k \in Jobs : k \in Owed => k \in Owed'
    BY <2>1, <2>5 DEF Owed
  <2>6. ASSUME NEW u \in Threads PROVE ThreadJob(u)'
    <3>1. ThreadJob(u) /\ handler[u] \in Jobs \cup {None}
      BY <1>0, <1>1 DEF JobInv
    <3>2. handler[u] # None => handler[u] \in Jobs /\ handler[u] <= jobs
      BY <3>1 DEF ThreadJob
    <3> QED BY <2>1, <2>4, <2>20, <3>1, <3>2, ThreadJobKept
  <2>7. \A r \in Submitters : CallJob(r)'
    <3>1. CallJob(s)'
      BY <2>3 DEF CallJob, At
    <3>2. ASSUME NEW r \in Submitters \ {s} PROVE CallJob(r)'
      <4>1. call[r].job # j
        BY <2>2
      <4>2. \A q \in Submitters : call'[q].job = call[r].job => call[r].job = None \/ q = s \/ call[q].job = call[r].job
        BY <2>5, <2>3
      <4>3. call[r].pc # "idle" => \A q \in Submitters : call'[q].job = call[r].job => q = r
        BY <1>0, <1>1, <2>3, <4>2 DEF JobInv, CallJob, At
      <4> QED BY <1>0, <1>1, <2>1, <2>3, <4>1, <4>3 DEF JobInv, CallJob, At
    <3> QED BY <3>1, <3>2
  <2>8. \A k \in Jobs : JobFate(k)'
    BY <1>0, <1>1, <2>1, <2>2, <2>20 DEF JobInv, JobFate
  <2>9. \A k \in accepted' : k <= jobs'
    BY <1>0, <2>1, <2>2 DEF JobInv
  <2> QED BY <2>6, <2>7, <2>8, <2>9 DEF JobInv
<1>11. ASSUME NEW s \in Submitters, DoOnce(s) PROVE JobInv'
  <2> DEFINE j == call[s].job
  <2>1. /\ UNCHANGED <<handler, pc, ran, jobs>> /\ call[s].pc = "once"
        /\ call' = [call EXCEPT ![s] = NoCall]
        /\ \/ UNCHANGED <<accepted, once>>
           \/ /\ accepted' = accepted \cup {j}
              /\ \E p \in {"run", "never"} : once' = [once EXCEPT ![j] = p]
    BY <1>11 DEF DoOnce, At
  <2>2. /\ j \in Jobs /\ j # None /\ j <= jobs /\ once[j] = "none" /\ ran[j] = 0
        /\ (\A u \in Threads : handler[u] # j)
        /\ \A r \in Submitters : call[r].job = j => r = s
    BY <1>0, <1>1, <2>1 DEF JobInv, CallJob, At
  <2> HIDE DEF j
  <2>3. /\ call'[s].pc = "idle" /\ call'[s].job = None
        /\ \A r \in Submitters \ {s} : call'[r] = call[r]
    BY <1>1, <2>1 DEF NoCall
  <2>4. /\ \A k \in Jobs \ {j} : once'[k] = once[k] /\ (k \in accepted' <=> k \in accepted)
        /\ \/ once'[j] = "none" /\ (j \in accepted' <=> j \in accepted)
           \/ once'[j] \in {"run", "never"} /\ j \in accepted'
    BY <1>1, <2>1, <2>2
  <2>5. \A r \in Submitters : call[r].job = j \/ call'[r].job = call[r].job
    BY <2>3 DEF j
  <2>20. \A k \in Jobs \ {j} : k \in Owed => k \in Owed'
    BY <2>4, <2>5 DEF Owed
  <2>6. ASSUME NEW u \in Threads PROVE ThreadJob(u)'
    <3>1. ThreadJob(u) /\ handler[u] \in Jobs \cup {None} /\ handler[u] # j
      BY <1>0, <1>1, <2>2 DEF JobInv
    <3>2. handler[u] # None => handler[u] \in Jobs \ {j} /\ handler[u] <= jobs
      BY <3>1 DEF ThreadJob
    <3>3. handler[u] # None => once'[handler[u]] = once[handler[u]]
      BY <2>4, <3>2
    <3> QED BY <2>1, <2>20, <3>1, <3>2, <3>3, ThreadJobKept
  <2>7. \A r \in Submitters : CallJob(r)'
    <3>1. CallJob(s)'
      BY <2>3 DEF CallJob, At
    <3>2. ASSUME NEW r \in Submitters \ {s} PROVE CallJob(r)'
      <4>1. call[r].job # j
        BY <2>2
      <4>2. \A q \in Submitters : call'[q].job = call[r].job => call[r].job = None \/ q = s \/ call[q].job = call[r].job
        BY <2>5, <2>3
      <4>3. call[r].pc # "idle" => \A q \in Submitters : call'[q].job = call[r].job => q = r
        BY <1>0, <1>1, <2>3, <4>2 DEF JobInv, CallJob, At
      <4> QED BY <1>0, <1>1, <2>1, <2>3, <2>4, <4>1, <4>3 DEF JobInv, CallJob, At
    <3> QED BY <3>1, <3>2
  <2>8. \A k \in Jobs : JobFate(k)'
    <3>1. ASSUME NEW k \in Jobs, k = j PROVE JobFate(k)'
      <4>1. ran'[j] = 0 /\ (j \in accepted => j \in accepted')
        BY <2>1, <2>2, <2>4
      <4>2. once'[j] = "none" => j \notin accepted'
        BY <1>0, <2>1, <2>2, <2>4 DEF JobInv, CallJob, At, j
      <4>3. once'[j] # "none" => once'[j] \in {"run", "never"} /\ j \in accepted'
        BY <2>4, <4>2
      <4> QED BY <3>1, <4>1, <4>2, <4>3 DEF JobFate
    <3>2. ASSUME NEW k \in Jobs \ {j} PROVE JobFate(k)'
      BY <1>0, <1>1, <2>1, <2>4, <2>20 DEF JobInv, JobFate
    <3> QED BY <3>1, <3>2
  <2>9. \A k \in accepted' : k <= jobs'
    BY <1>0, <2>1, <2>2 DEF JobInv
  <2> QED BY <2>6, <2>7, <2>8, <2>9 DEF JobInv
<1> QED BY <1>3, <1>4, <1>5, <1>6, <1>7, <1>8, <1>9, <1>10, <1>11
        DEF Next, ThreadStep, CallStep

----------------------------------------------------------------------------
(* What a call that saw a free thread finds.                               *)

\* Nobody has come to the list and the list has not become empty.
LEMMA ServeKept ==
  ASSUME ServeInv, freeList # <<>> => freeList' # <<>>, overlapped => overlapped',
         gTpool' = "live" => gTpool = "live", built' = built,
         deinit > 0 => deinit' > 0, ub' = ub \/ overlapped' \/ deinit' > 0,
         \A r \in Submitters : call'[r].pc = "take" => call[r].pc = "take"
  PROVE  ServeInv'
  BY DEF ServeInv, At

LEMMA ServeStep == IInv /\ [Next]_vars => ServeInv'
<1> SUFFICES ASSUME IInv, [Next]_vars PROVE ServeInv'
  OBVIOUS
<1>0. TypeOK /\ PoolInv /\ JobInv /\ ServeInv
  BY DEF IInv
<1>1. /\ call \in [Submitters -> [pc : CallPCs, job : Jobs \cup {None},
                                  thread : Threads \cup {None}]]
      /\ freeList \in Seq(Threads) /\ deinit \in Nat
  <2>1. deinit \in 0..NumThreads /\ freeList \in Seq(Threads)
    BY <1>0 DEF TypeOK
  <2> QED BY <1>0, <2>1, Typed, Constants
<1>2. ASSUME SpeTpoolInit \/ InitThread PROVE ServeInv'
  <2>1. built < NumThreads /\ ub' = "no" /\ call' = call
    <3>1. CASE SpeTpoolInit
      BY <1>0, <3>1, Constants DEF SpeTpoolInit, Sound, PoolInv
    <3>2. CASE InitThread
      BY <3>2 DEF InitThread, Alive, Sound
    <3> QED BY <1>2, <3>1, <3>2
  <2>2. \A s \in Submitters : call'[s].pc # "take"
    BY <1>0, <2>1 DEF PoolInv, NoCall
  <2> QED BY <2>1, <2>2 DEF ServeInv, At
<1>3. ASSUME NEW t \in Threads, ThreadStep(t) \/ WakeUp(t) PROVE ServeInv'
  <2>1. UNCHANGED <<call, overlapped, deinit, gTpool, built>>
    BY <1>3 DEF ThreadStep, Check, Sleep, WakeUp, TestStop, Run, Clear, GiveBack, Quit,
                FreeThread, shared, history
  <2>2. ub' = ub \/ deinit' > 0
    <3>1. CASE FreeThread(t)
      BY <1>0, <2>1, <3>1 DEF FreeThread, PoolInv
    <3>2. CASE ~FreeThread(t)
      BY <1>3, <3>2 DEF ThreadStep, Check, Sleep, WakeUp, TestStop, Run, Clear, GiveBack, Quit
    <3> QED BY <3>1, <3>2
  <2>3. freeList' = freeList \/ freeList' = Append(freeList, t)
    BY <1>3 DEF ThreadStep, Check, Sleep, WakeUp, TestStop, Run, Clear, GiveBack, Quit,
                FreeThread, shared, ListWith
  <2>4. freeList # <<>> => freeList' # <<>>
    BY <1>1, <2>3
  <2> QED BY <1>0, <2>1, <2>2, <2>4, ServeKept
<1>4. ASSUME NEW j \in Jobs, OnceStep(j) PROVE ServeInv'
  <2>1. UNCHANGED <<call, overlapped, deinit, gTpool, built, freeList, ub>>
    BY <1>4 DEF OnceStep, RunOnce, QuitOnce, shared, history
  <2> QED BY <1>0, <2>1, ServeKept
<1>5. ASSUME NEW s \in Submitters, DoBegin(s) PROVE ServeInv'
  <2> DEFINE c == [pc |-> IF SeemsFree THEN "take" ELSE "once", job |-> jobs + 1,
                   thread |-> None]
  <2>1. UNCHANGED <<deinit, gTpool, built, freeList>> /\ (ub' = ub \/ ~Ready)
    BY <1>5 DEF DoBegin, shared
  <2>2. CASE call' = call /\ overlapped' = overlapped /\ ub' = ub
    BY <1>0, <2>1, <2>2, ServeKept
  <2>4. CASE call' = call /\ overlapped' = overlapped /\ gTpool = "live" /\ ~Ready
    <3>1. built < NumThreads
      <4>1. built \in 0..NumThreads
        BY <1>0 DEF TypeOK
      <4> QED BY <2>4, <4>1, Constants DEF Ready
    <3> QED BY <1>0, <2>1, <2>4, <3>1 DEF ServeInv, At
  <2>3. CASE /\ call' = [call EXCEPT ![s] = c] /\ ub' = ub
             /\ overlapped' = (overlapped \/ (SeemsFree /\ \E r \in Submitters : At(r, "take")))
    <3>1. /\ call'[s] = c /\ \A r \in Submitters \ {s} : call'[r] = call[r]
      BY <1>1, <2>3
    <3>2. c.pc = IF SeemsFree THEN "take" ELSE "once"
      OBVIOUS
    <3> HIDE DEF c
    <3>3. CASE ~SeemsFree
      <4>1. overlapped => overlapped'
        BY <2>3
      <4>2. \A r \in Submitters : call'[r].pc = "take" => call[r].pc = "take"
        BY <3>1, <3>2, <3>3
      <4> QED BY <1>0, <2>1, <2>3, <4>1, <4>2, ServeKept
    <3>4. CASE SeemsFree
      <4>1. ~overlapped' => ~overlapped /\ \A r \in Submitters : call[r].pc # "take"
        BY <2>3, <3>4 DEF At
      <4>2. ~overlapped' => \A r \in Submitters : call'[r].pc = "take" => r = s
        BY <3>1, <4>1
      <4>3. freeList' # <<>>
        BY <2>1, <3>4 DEF SeemsFree
      <4> QED BY <1>0, <2>1, <2>3, <4>1, <4>2, <4>3 DEF ServeInv, At
    <3> QED BY <3>3, <3>4
  <2> QED BY <1>5, <2>2, <2>3, <2>4 DEF DoBegin
<1>6. ASSUME NEW s \in Submitters, DoTake(s) PROVE ServeInv'
  <2>1. /\ UNCHANGED <<deinit, gTpool, built, overlapped>> /\ call[s].pc = "take" /\ gTpool = "live"
    BY <1>6 DEF DoTake, history, At, Alive
  <2>2. ~overlapped => freeList # <<>> /\ \A r \in Submitters : call[r].pc = "take" => r = s
    BY <1>0, <2>1 DEF ServeInv, At
  <2>3. CASE freeList = <<>>
    BY <2>1, <2>2, <2>3 DEF ServeInv
  <2>4. CASE freeList # <<>>
    <3>1. ub' = ub /\ call' = [call EXCEPT ![s].pc = "set", ![s].thread = Head(freeList)]
      BY <1>6, <2>4 DEF DoTake
    <3>2. call'[s].pc = "set" /\ \A r \in Submitters \ {s} : call'[r] = call[r]
      BY <1>1, <3>1
    <3>3. ~overlapped' => \A r \in Submitters : call'[r].pc # "take"
      BY <2>1, <2>2, <3>2
    <3> QED BY <1>0, <2>1, <3>1, <3>3 DEF ServeInv, At
  <2> QED BY <2>3, <2>4
<1>7. ASSUME NEW s \in Submitters, DoSet(s) \/ DoSignal(s) \/ DoOnce(s) PROVE ServeInv'
  <2>1. /\ UNCHANGED <<deinit, gTpool, built, overlapped, freeList, ub>>
        /\ \/ call' = [call EXCEPT ![s].pc = "signal"]
           \/ call' = [call EXCEPT ![s] = NoCall]
    BY <1>7 DEF DoSet, DoSignal, DoOnce, history, shared, AfterSignal
  <2>2. \A r \in Submitters : call'[r].pc = "take" => call[r].pc = "take"
    BY <1>1, <2>1 DEF NoCall
  <2> QED BY <1>0, <2>1, <2>2, ServeKept
<1>8. ASSUME DeinitStop \/ DeinitSignal \/ DeinitFree \/ UseFreed \/ UNCHANGED vars PROVE ServeInv'
  <2>1. UNCHANGED <<call, overlapped, freeList, built>>
    BY <1>8 DEF DeinitStop, DeinitSignal, DeinitFree, UseFreed, vars, shared, history
  <2>2. (deinit > 0 => deinit' > 0) /\ (gTpool' = "live" => gTpool = "live")
    <3>1. CASE DeinitStop
      BY <1>1, <3>1 DEF DeinitStop, Alive
    <3>2. CASE DeinitSignal \/ DeinitFree
      BY <3>2 DEF DeinitSignal, DeinitFree, Alive
    <3>3. CASE UseFreed \/ UNCHANGED vars
      BY <3>3 DEF UseFreed, vars
    <3> QED BY <1>8, <3>1, <3>2, <3>3
  <2>3. ub' = ub \/ deinit' > 0
    BY <1>0, <1>8 DEF DeinitStop, DeinitSignal, DeinitFree, UseFreed, vars, PoolInv
  <2> QED BY <1>0, <2>1, <2>2, <2>3, ServeKept
<1> QED BY <1>2, <1>3, <1>4, <1>5, <1>6, <1>7, <1>8 DEF Next, CallStep

----------------------------------------------------------------------------
(* The invariant holds always.                                             *)

LEMMA NextInvariant == IInv /\ [Next]_vars => IInv'
  BY TypeStep, PoolStep, PlaceStep, JobStep, ServeStep DEF IInv

LEMMA Invariance == Spec => []IInv
<1>1. IInv /\ [Next]_vars => IInv'
  BY NextInvariant
<1> QED BY InitInvariant, <1>1, PTL DEF Spec

\* The variables have their types and threadRun (spe_tpool.c:44, 76, 95) is
\* the number of threads that were counted and have not quit.
THEOREM TypeCorrect == Spec => []TypeOK
<1>1. IInv => TypeOK
  BY DEF IInv
<1> QED BY Invariance, <1>1, PTL

----------------------------------------------------------------------------
\* Among any number of threads and calls none is lost from the free list and
\* none is in it twice, or in it while it still has a handler: what lines
\* 71-73 append, 113-119 take and 122-124 fill never mixes two handlers.
THEOREM PlacesRight == Spec => []ThreadsInOnePlace
<1>1. ASSUME IInv PROVE ThreadsInOnePlace
  <2> SUFFICES ASSUME Alive, NEW t \in 1..built PROVE OnePlace(t)
    BY DEF ThreadsInOnePlace
  <2> DEFINE listed == {i \in DOMAIN freeList : freeList[i] = t}
  <2>0. TypeOK /\ PlaceInv
    BY <1>1 DEF IInv
  <2>9. t \in Threads /\ ~(t > built)
    <3>1. built \in 0..NumThreads
      BY <2>0 DEF TypeOK
    <3> QED BY <3>1, Constants DEF Threads
  <2>1. listed # {} <=> t \in Listed
    BY DEF Listed, ToSet
  <2>2. TakenBy(t) # {} <=> \E s \in Submitters : HasTaken(s, t)
    BY DEF TakenBy, HasTaken
  <2>3. listed = {} \/ \E i : listed = {i}
    <3>1. \A i, k \in listed : i = k
      BY <2>0 DEF PlaceInv, IsInjective
    <3> QED BY <3>1
  <2>4. TakenBy(t) = {} \/ \E s : TakenBy(t) = {s}
    <3>1. \A r, s \in TakenBy(t) : r = s
      BY <2>0, <2>9 DEF PlaceInv, TakenBy, HasTaken
    <3> QED BY <3>1
  <2>5. listed = {} \/ TakenBy(t) = {}
    BY <2>0, <2>1, <2>2, <2>9 DEF PlaceInv
  <2>6. Cardinality(listed) \in {0, 1} /\ (listed = {} => Cardinality(listed) = 0)
    BY <2>3, FS_EmptySet, FS_Singleton
  <2>7. /\ Cardinality(TakenBy(t)) \in {0, 1}
        /\ (TakenBy(t) = {} => Cardinality(TakenBy(t)) = 0)
    BY <2>4, FS_EmptySet, FS_Singleton
  <2>8. Cardinality(listed) + Cardinality(TakenBy(t)) <= 1
    BY <2>5, <2>6, <2>7
  <2>10. listed \cup TakenBy(t) # {} <=> t \in Listed \/ \E s \in Submitters : HasTaken(s, t)
    BY <2>1, <2>2
  <2>11. listed \cup TakenBy(t) # {} => ~Busy(t) /\ ~Returns(t)
    BY <2>0, <2>9, <2>10 DEF PlaceInv, Busy, Returns
  <2>12. listed \cup TakenBy(t) = {} => Busy(t) \/ Returns(t)
    BY <2>0, <2>9, <2>10 DEF PlaceInv, Busy, Returns
  <2> QED BY <2>8, <2>11, <2>12 DEF OnePlace
<1> QED BY Invariance, <1>1, PTL

\* Whatever number of calls and threads, a handler runs at most once; one that
\* SpeTpoolDo has accepted (lines 126, 135) is kept by one thread until it runs.
THEOREM HandlersRight == Spec => []HandlersKept
<1>1. ASSUME IInv PROVE HandlersKept
  <2> SUFFICES ASSUME NEW j \in Jobs
               PROVE  /\ ran[j] <= 1
                      /\ j \in accepted /\ ran[j] = 0 =>
                           \/ Cardinality(Keepers(j)) = 1 /\ once[j] = "none"
                           \/ Keepers(j) = {} /\ once[j] \in {"run", "never"}
                      /\ ran[j] = 1 => j \in accepted \/ \E s \in Submitters : call[s].job = j
    BY DEF HandlersKept
  <2>1. TypeOK /\ JobInv /\ JobFate(j)
    BY <1>1 DEF IInv, JobInv
  <2>2. j # None
    BY Constants
  <2>3. ran[j] <= 1
    BY <2>1 DEF JobFate
  <2>4. ran[j] = 1 => j \in accepted \/ \E s \in Submitters : call[s].job = j
    BY <2>1 DEF JobFate, Owed
  <2>5. ASSUME j \in accepted, ran[j] = 0
        PROVE  \/ Cardinality(Keepers(j)) = 1 /\ once[j] = "none"
               \/ Keepers(j) = {} /\ once[j] \in {"run", "never"}
    <3>1. \A t \in Threads : handler[t] = j =>
            once[j] = "none" /\ \A u \in Threads : handler[u] = j => u = t
      BY <2>1, <2>2 DEF JobInv, ThreadJob
    <3>2. CASE once[j] = "none"
      <4>1. PICK t \in Threads : handler[t] = j
        BY <2>1, <2>5, <3>2 DEF JobFate
      <4>2. Keepers(j) = {t}
        BY <3>1, <4>1 DEF Keepers
      <4> QED BY <3>2, <4>2, FS_Singleton
    <3>3. CASE once[j] # "none"
      <4>1. Keepers(j) = {}
        BY <3>1, <3>3 DEF Keepers
      <4>2. once[j] \in {"run", "never"}
        <5>1. once[j] \in {"none", "run", "quit", "gone", "never"}
          BY <2>1 DEF TypeOK
        <5> QED BY <2>1, <2>5, <3>3, <5>1 DEF JobFate
      <4> QED BY <4>1, <4>2
    <3> QED BY <3>2, <3>3
  <2> QED BY <2>3, <2>4, <2>5
<1> QED BY Invariance, <1>1, PTL

\* As long as no two calls of SpeTpoolDo are between the test of line 113 and
\* the lock of line 115 at once, and the pool is not used before SpeTpoolInit
\* has returned nor shut down, nothing undefined is done, whatever the number
\* of threads and calls.
THEOREM ServesSoundly == Spec => []SoundWhileServing
<1>1. IInv => SoundWhileServing
  BY DEF IInv, ServeInv, SoundWhileServing, Sound
<1> QED BY Invariance, <1>1, PTL
==============================================================================
