-------------------------------- MODULE Tpool --------------------------------
(***************************************************************************)
(* spe_tpool.c: a pool of threads that run handlers for others.            *)
(*                                                                         *)
(* The threads of the pool are part of the pool's own memory; an idle one  *)
(* is in the free list.  SpeTpoolDo hands it a handler under the thread's  *)
(* lock and signals its condition; if the list was empty it makes a thread *)
(* for this one handler.  Submitters are whatever threads call SpeTpoolDo, *)
(* those that run a handler included.                                      *)
(*                                                                         *)
(* A step is one access to memory the threads share, or one section under  *)
(* a lock.  Taking from the free list and giving back are such sections;   *)
(* the lock of a thread is a variable, because a thread keeps it from its  *)
(* look at the handler until it sleeps.                                    *)
(*                                                                         *)
(* Where the code does what C leaves undefined, `ub' says what was done    *)
(* and the model ends there.                                               *)
(***************************************************************************)
EXTENDS Integers, Sequences, FiniteSets

CONSTANTS
  NumThreads,  \* threadNum, the threads of the pool
  Submitters,  \* threads that call SpeTpoolDo
  Free,        \* value of a lock nobody holds
  None,        \* no handler, no thread
  MaxJobs,     \* bound: calls of SpeTpoolDo
  MaxFails     \* bound: pthread_create calls that fail

Threads == 1..NumThreads
Jobs    == 1..MaxJobs

ASSUME TpoolAssumption ==
  /\ NumThreads \in Nat \ {0} /\ MaxJobs \in Nat /\ MaxFails \in Nat
  /\ None \notin Threads \cup Jobs /\ Free \notin Threads

VARIABLES
  gTpool,     \* NULL before SpeTpoolInit, live, or freed and NULL again
  built,      \* the threads SpeTpoolInit has made and put into the list, 1..built
  freeList,   \* the threads in the list, first to last
  lock,       \* of each thread: Free, or the thread itself holds it
  handler,    \* of each thread: a job or None
  stop,       \* of each thread
  pc,         \* where each thread of the pool is
  once,       \* where the thread made for one job is
  call,       \* of each submitter: its place in SpeTpoolDo, its job, the thread it took
  deinit,     \* place in SpeTpoolDeinit: the thread stopped last, 0 before
  signalled,  \* SpeTpoolDeinit has set stop of that thread and not signalled yet
  threadRun,  \* the counter
  jobs,       \* history: calls made
  accepted,   \* history: jobs SpeTpoolDo returned true for
  ran,        \* history: how often each job was run
  overlapped, \* history: two submitters were between test and lock at the same time
  fails,      \* history: threads that were not created
  ub          \* what undefined thing was done

pool    == <<gTpool, built>>
shared  == <<freeList, lock, handler, stop, threadRun>>
history == <<accepted, ran, fails, jobs, overlapped>>
vars == <<gTpool, built, freeList, lock, handler, stop, pc, once, call, deinit, signalled,
          threadRun, jobs, accepted, ran, overlapped, fails, ub>>

ThreadPCs == {"none", "check", "sleepy", "asleep", "test", "run", "clear", "giveback",
              "quit", "free", "never"}
CallPCs   == {"idle", "take", "set", "signal", "once"}
NoCall    == [pc |-> "idle", job |-> None, thread |-> None]

Init ==
  /\ gTpool = "null" /\ built = 0
  /\ freeList = <<>>
  /\ lock = [t \in Threads |-> Free]
  /\ handler = [t \in Threads |-> None]
  /\ stop = [t \in Threads |-> FALSE]
  /\ pc = [t \in Threads |-> "none"]
  /\ once = [j \in Jobs |-> "none"]
  /\ call = [s \in Submitters |-> NoCall]
  /\ deinit = 0 /\ signalled = FALSE
  /\ threadRun = 0
  /\ jobs = 0 /\ accepted = {} /\ ran = [j \in Jobs |-> 0]
  /\ overlapped = FALSE /\ fails = 0
  /\ ub = "no"

\* Nothing is modelled after undefined behaviour, and the pool's memory is there.
Sound == ub = "no"
Alive == Sound /\ gTpool = "live"

----------------------------------------------------------------------------
\* SpeTpoolInit.  The pool is there for everybody as soon as it is allocated,
\* before it has a list.
SpeTpoolInit ==
  /\ Sound /\ gTpool = "null"
  /\ gTpool' = "live"
  /\ UNCHANGED <<built, shared, pc, once, call, deinit, signalled, history, ub>>

\* A turn of its loop, which does not take the lock of the list (nobody else
\* may use the list yet, see DoBegin).  The thread is put into the list and
\* counted, whether pthread_create, whose result is not looked at, makes it.
InitThread ==
  /\ Alive /\ built < NumThreads
  /\ built' = built + 1
  /\ freeList' = Append(freeList, built')
  /\ threadRun' = threadRun + 1
  /\ \/ pc' = [pc EXCEPT ![built'] = "check"] /\ UNCHANGED fails
     \/ fails < MaxFails /\ fails' = fails + 1 /\ pc' = [pc EXCEPT ![built'] = "never"]
  /\ UNCHANGED <<gTpool, lock, handler, stop, once, call, deinit, signalled, jobs,
                 accepted, ran, overlapped, ub>>

Ready == gTpool = "live" /\ built = NumThreads

----------------------------------------------------------------------------
(* threadRoutine *)

\* Under the lock: with nothing to do the thread goes on to sleep, keeping
\* the lock until it does.
Check(t) ==
  /\ Alive /\ pc[t] = "check" /\ lock[t] = Free
  /\ IF handler[t] = None /\ ~stop[t]
     THEN pc' = [pc EXCEPT ![t] = "sleepy"] /\ lock' = [lock EXCEPT ![t] = t]
     ELSE pc' = [pc EXCEPT ![t] = "test"] /\ UNCHANGED lock
  /\ UNCHANGED <<pool, freeList, handler, stop, once, call, deinit, signalled,
                 threadRun, history, ub>>

\* pthread_cond_wait: the lock is given up and the thread sleeps, in one.
Sleep(t) ==
  /\ Alive /\ pc[t] = "sleepy"
  /\ pc' = [pc EXCEPT ![t] = "asleep"]
  /\ lock' = [lock EXCEPT ![t] = Free]
  /\ UNCHANGED <<pool, freeList, handler, stop, once, call, deinit, signalled,
                 threadRun, history, ub>>

\* It may wake up without a signal.
WakeUp(t) ==
  /\ Alive /\ pc[t] = "asleep"
  /\ pc' = [pc EXCEPT ![t] = "check"]
  /\ UNCHANGED <<pool, shared, once, call, deinit, signalled, history, ub>>

\* Line 66 reads stop after the lock is given up.
TestStop(t) ==
  /\ Alive /\ pc[t] = "test"
  /\ pc' = [pc EXCEPT ![t] = IF stop[t] THEN "quit" ELSE "run"]
  /\ UNCHANGED <<pool, shared, once, call, deinit, signalled, history, ub>>

Run(t) ==
  /\ Alive /\ pc[t] = "run"
  /\ ran' = [ran EXCEPT ![handler[t]] = @ + 1]
  /\ pc' = [pc EXCEPT ![t] = "clear"]
  /\ UNCHANGED <<pool, shared, once, call, deinit, signalled, jobs, accepted,
                 overlapped, fails, ub>>

\* Line 69, without the lock.
Clear(t) ==
  /\ Alive /\ pc[t] = "clear"
  /\ handler' = [handler EXCEPT ![t] = None]
  /\ pc' = [pc EXCEPT ![t] = "giveback"]
  /\ UNCHANGED <<pool, freeList, lock, stop, once, call, deinit, signalled,
                 threadRun, history, ub>>

\* A slip: a thread that is told to stop is not given back, yet goes on.
ListWithUnlessStopped(t) == IF stop[t] THEN freeList ELSE Append(freeList, t)
ListWith(t) == Append(freeList, t)

GiveBack(t) ==
  /\ Alive /\ pc[t] = "giveback"
  /\ freeList' = ListWith(t)
  /\ pc' = [pc EXCEPT ![t] = "check"]
  /\ UNCHANGED <<pool, lock, handler, stop, once, call, deinit, signalled,
                 threadRun, history, ub>>

\* A slip: nobody is counted out.
CountedOutNot == threadRun
CountedOut == threadRun - 1

Quit(t) ==
  /\ Alive /\ pc[t] = "quit"
  /\ threadRun' = CountedOut
  /\ pc' = [pc EXCEPT ![t] = "free"]
  /\ UNCHANGED <<pool, freeList, lock, handler, stop, once, call, deinit, signalled,
                 history, ub>>

\* free(thread): the thread is not a block of its own but a part of the pool.
FreeThread(t) ==
  /\ Alive /\ pc[t] = "free"
  /\ ub' = "freed a part of the pool"
  /\ UNCHANGED <<pool, shared, pc, once, call, deinit, signalled, history>>

----------------------------------------------------------------------------
(* threadRoutineOnce *)

RunOnce(j) ==
  /\ Sound /\ once[j] = "run"
  /\ ran' = [ran EXCEPT ![j] = @ + 1]
  /\ once' = [once EXCEPT ![j] = "quit"]
  /\ UNCHANGED <<pool, shared, pc, call, deinit, signalled, jobs, accepted,
                 overlapped, fails, ub>>

QuitOnce(j) ==
  /\ Alive /\ once[j] = "quit"
  /\ threadRun' = CountedOut
  /\ once' = [once EXCEPT ![j] = "gone"]
  /\ UNCHANGED <<pool, freeList, lock, handler, stop, pc, call, deinit, signalled,
                 history, ub>>

----------------------------------------------------------------------------
(* SpeTpoolDo *)

At(s, place) == call[s].pc = place

\* Line 113 looks at the list without the lock.  A slip does not look.
SeemsFreeAlways == TRUE
SeemsFree == freeList # <<>>

\* Without a pool the call is refused.  One that finds the pool while
\* SpeTpoolInit is still at it reads the list unlocked as it is written.
DoBegin(s) ==
  /\ Sound /\ At(s, "idle") /\ jobs < MaxJobs
  /\ jobs' = jobs + 1
  /\ \/ gTpool # "live" /\ UNCHANGED <<call, overlapped, ub>>
     \/ /\ gTpool = "live" /\ ~Ready
        /\ ub' = "used the unfinished pool"
        /\ UNCHANGED <<call, overlapped>>
     \/ /\ Ready /\ UNCHANGED ub
        /\ call' = [call EXCEPT ![s] = [pc |-> IF SeemsFree THEN "take" ELSE "once",
                                        job |-> jobs + 1, thread |-> None]]
        /\ overlapped' = (overlapped \/ (SeemsFree /\ \E r \in Submitters : At(r, "take")))
  /\ UNCHANGED <<pool, shared, pc, once, deinit, signalled, accepted, ran, fails>>

\* A slip: the thread stays in the list until it has its handler.
ListWithoutFirstIfBusy == IF handler[Head(freeList)] = None THEN freeList ELSE Tail(freeList)
ListWithoutFirst == Tail(freeList)

\* The first thread is taken out under the list's lock.  The head of an
\* empty list looks like an entry; what stands before it is used as a thread.
DoTake(s) ==
  /\ Alive /\ At(s, "take")
  /\ IF freeList = <<>>
     THEN /\ ub' = "took the list for a thread"
          /\ UNCHANGED <<freeList, call>>
     ELSE /\ freeList' = ListWithoutFirst
          /\ call' = [call EXCEPT ![s].pc = "set", ![s].thread = Head(freeList)]
          /\ UNCHANGED ub
  /\ UNCHANGED <<pool, lock, handler, stop, threadRun, pc, once, deinit, signalled,
                 history>>

\* A slip: the lock of the thread is not taken.
MayWriteAlways(t) == TRUE
MayWrite(t) == lock[t] = Free

DoSet(s) ==
  /\ Alive /\ At(s, "set") /\ MayWrite(call[s].thread)
  /\ handler' = [handler EXCEPT ![call[s].thread] = call[s].job]
  /\ call' = [call EXCEPT ![s].pc = "signal"]
  /\ UNCHANGED <<pool, freeList, lock, stop, threadRun, pc, once, deinit, signalled,
                 history, ub>>

\* pthread_cond_signal: it wakes the thread if it sleeps.
Signal(t) == pc' = [pc EXCEPT ![t] = IF @ = "asleep" THEN "check" ELSE @]

\* A slip: the call does not return when a thread has the job.
AfterSignalOn(s) == [call[s] EXCEPT !.pc = "once"]
AfterSignal(s) == NoCall

DoSignal(s) ==
  /\ Alive /\ At(s, "signal")
  /\ Signal(call[s].thread)
  /\ accepted' = accepted \cup {call[s].job}
  /\ call' = [call EXCEPT ![s] = AfterSignal(s)]
  /\ UNCHANGED <<pool, shared, once, deinit, signalled, jobs, ran, overlapped,
                 fails, ub>>

\* No thread is free: calloc fails and the call is refused, or a thread is
\* made for the job; if it is not, nobody looks.
DoOnce(s) ==
  /\ Alive /\ At(s, "once")
  /\ call' = [call EXCEPT ![s] = NoCall]
  /\ \/ UNCHANGED <<threadRun, accepted, once, fails>>
     \/ /\ threadRun' = threadRun + 1
        /\ accepted' = accepted \cup {call[s].job}
        /\ \/ once' = [once EXCEPT ![call[s].job] = "run"] /\ UNCHANGED fails
           \/ /\ fails < MaxFails /\ fails' = fails + 1
              /\ once' = [once EXCEPT ![call[s].job] = "never"]
  /\ UNCHANGED <<pool, freeList, lock, handler, stop, pc, deinit, signalled, jobs,
                 ran, overlapped, ub>>

----------------------------------------------------------------------------
(* SpeTpoolDeinit, called by the thread that called SpeTpoolInit *)

DeinitStop ==
  /\ Alive /\ Ready /\ deinit < NumThreads /\ ~signalled /\ lock[deinit + 1] = Free
  /\ deinit' = deinit + 1
  /\ stop' = [stop EXCEPT ![deinit'] = TRUE]
  /\ signalled' = TRUE
  /\ UNCHANGED <<pool, freeList, lock, handler, threadRun, pc, once, call, history, ub>>

DeinitSignal ==
  /\ Alive /\ signalled
  /\ Signal(deinit)
  /\ signalled' = FALSE
  /\ UNCHANGED <<pool, shared, once, call, deinit, history, ub>>

\* The loop at line 183 is not entered, for sleep_cnt is 0.  The memory is
\* freed and gTpool cleared.
DeinitFree ==
  /\ Alive /\ deinit = NumThreads /\ ~signalled
  /\ gTpool' = "freed"
  /\ UNCHANGED <<built, shared, pc, once, call, deinit, signalled, history, ub>>

\* Who goes on after that uses memory that is no longer there: a thread of the
\* pool that is not asleep, a single thread when it quits, a call under way.
UseFreed ==
  /\ Sound /\ gTpool = "freed"
  /\ \/ \E t \in Threads : pc[t] \notin {"asleep", "never"}
     \/ \E j \in Jobs : once[j] = "quit"
     \/ \E s \in Submitters : call[s].pc # "idle"
  /\ ub' = "used the freed pool"
  /\ UNCHANGED <<pool, shared, pc, once, call, deinit, signalled, history>>

----------------------------------------------------------------------------
ThreadStep(t) ==
  \/ Check(t) \/ Sleep(t) \/ TestStop(t) \/ Run(t) \/ Clear(t) \/ GiveBack(t)
  \/ Quit(t) \/ FreeThread(t)
OnceStep(j) == RunOnce(j) \/ QuitOnce(j)
CallStep(s) == DoTake(s) \/ DoSet(s) \/ DoSignal(s) \/ DoOnce(s)

Next ==
  \/ SpeTpoolInit \/ InitThread
  \/ \E t \in Threads : ThreadStep(t) \/ WakeUp(t)
  \/ \E j \in Jobs : OnceStep(j)
  \/ \E s \in Submitters : DoBegin(s) \/ CallStep(s)
  \/ DeinitStop \/ DeinitSignal \/ DeinitFree
  \/ UseFreed

\* Threads and calls under way are scheduled and handlers return; nobody has to
\* call, and nothing wakes a thread but a signal.
Fairness ==
  /\ \A t \in Threads : WF_vars(ThreadStep(t))
  /\ \A j \in Jobs : WF_vars(OnceStep(j))
  /\ \A s \in Submitters : WF_vars(CallStep(s))

Spec == Init /\ [][Next]_vars /\ Fairness
----------------------------------------------------------------------------
\* The counter is that of the threads that were counted and have not quit.
CounterRight ==
  threadRun = Cardinality({t \in Threads : pc[t] \notin {"none", "free"}})
              + Cardinality({j \in Jobs : once[j] \in {"run", "quit", "never"}})

\* The variables have their types, and the counter its value.
TypeOK ==
  /\ gTpool \in {"null", "live", "freed"} /\ built \in 0..NumThreads
  /\ freeList \in Seq(Threads)
  /\ lock \in [Threads -> Threads \cup {Free}]
  /\ handler \in [Threads -> Jobs \cup {None}]
  /\ stop \in [Threads -> BOOLEAN]
  /\ pc \in [Threads -> ThreadPCs]
  /\ once \in [Jobs -> {"none", "run", "quit", "gone", "never"}]
  /\ call \in [Submitters -> [pc : CallPCs, job : Jobs \cup {None},
                              thread : Threads \cup {None}]]
  /\ deinit \in 0..NumThreads /\ signalled \in BOOLEAN
  /\ jobs \in 0..MaxJobs /\ accepted \subseteq Jobs /\ ran \in [Jobs -> Nat]
  /\ overlapped \in BOOLEAN /\ fails \in 0..MaxFails
  /\ ub \in {"no", "used the unfinished pool", "took the list for a thread",
             "freed a part of the pool", "used the freed pool"}
  /\ CounterRight

\* Every thread of the pool is in one place: once in the free list, or taken
\* by one submitter, or busy with a handler, or on its way back; only a thread
\* that was told to stop leaves (the free list of spe_tpool.c:71-73, 113-119).
TakenBy(t) == {s \in Submitters : At(s, "set") /\ call[s].thread = t}
Busy(t)    == handler[t] # None
Returns(t) == pc[t] = "giveback"
OnePlace(t) ==
  LET listed == {i \in DOMAIN freeList : freeList[i] = t} IN
  /\ Cardinality(listed) + Cardinality(TakenBy(t)) <= 1
  /\ listed \cup TakenBy(t) # {} => ~Busy(t) /\ ~Returns(t)
  /\ listed \cup TakenBy(t) = {} => Busy(t) \/ Returns(t)
ThreadsInOnePlace == Alive => \A t \in 1..built : OnePlace(t)

\* No handler runs twice, none that was refused runs, and one that was accepted
\* and has not run yet is kept by exactly one thread: SpeTpoolDo may return
\* true in good conscience (spe_tpool.c:126, 135).
Keepers(j) == {t \in Threads : handler[t] = j}
HandlersKept ==
  Sound => \A j \in Jobs :
    /\ ran[j] <= 1
    /\ j \in accepted /\ ran[j] = 0 =>
         \/ Cardinality(Keepers(j)) = 1 /\ once[j] = "none"
         \/ Keepers(j) = {} /\ once[j] \in {"run", "never"}
    /\ ran[j] = 1 => j \in accepted \/ \E s \in Submitters : call[s].job = j

\* The code does nothing undefined unless two calls of SpeTpoolDo overlap or
\* the pool is not yet set up or is shut down (spe_tpool.c:113-127, 56-81).
SoundWhileServing == Sound \/ overlapped \/ built < NumThreads \/ deinit > 0

\* A handler that was accepted runs: no wake-up is lost between the thread's
\* look at its handler and its sleep.  Except: its thread was never created,
\* the pool is being shut down, or all is lost already.
AcceptedRuns ==
  \A j \in Jobs :
    j \in accepted ~>
      \/ ran[j] = 1
      \/ once[j] = "never" \/ \E t \in Keepers(j) : pc[t] = "never"
      \/ deinit > 0 \/ ~Sound
=============================================================================
