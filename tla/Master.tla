------------------------------- MODULE Master -------------------------------
(***************************************************************************)
(* spe.c and the master's side of spe_worker.c: the master forks the       *)
(* workers, forks another for each that dies, and stops them all when it   *)
(* is told to.  Signals reach it through spe_signal.c (module SpeSignal).  *)
(*                                                                         *)
(* Master and worker share a socket pair.  The master's end is inherited   *)
(* by the workers forked after it, who never close it: a worker sees the   *)
(* end of file that means "master exit, worker exit" only when the master  *)
(* and all those are gone.                                                 *)
(*                                                                         *)
(* Workers are numbered in the order of their forks.  Of a worker nothing  *)
(* is left here but how it ends.                                           *)
(***************************************************************************)
EXTENDS SpeSignal

CONSTANTS
  Chld, Term,      \* SIGCHLD; SIGTERM, for SIGINT and SIGUSR1 too
  Boss,            \* the master, as the holder of a descriptor
  Procs,           \* cycle.procs
  SPE_MAX_WORKER,  \* length of spe_workers
  MaxForks,        \* bound: workers forked in a behaviour
  MaxFails,        \* bound: forks that fail
  MaxCrashes,      \* bound: workers that end without being told to
  MaxKills         \* bound: master killed (0 or 1)

ASSUME MasterAssumption ==
  /\ Sigs = {Chld, Term} /\ Chld # Term
  /\ Boss \notin Nat
  /\ SPE_MAX_WORKER \in Nat /\ Procs \in Nat \ {0}
  /\ {MaxFails, MaxCrashes, MaxKills} \subseteq Nat
  /\ MaxForks \in Nat /\ MaxForks >= Procs + MaxCrashes

Pids == 1..MaxForks
Slots == 0..SPE_MAX_WORKER - 1

VARIABLES
  at,       \* where the master is
  workers,  \* spe_workers[].pid, 0 in a free slot
  worker,   \* each worker: not forked, running, dead and not reaped, gone
  holders,  \* who has the master's end of each worker's socket pair open
  told,     \* the workers WORKER_STOP was sent to
  asked,    \* has the operator decided to stop the program?
  forks,    \* history: workers forked so far
  fails,    \* history: forks that failed
  leaked,   \* socket pairs of forks that failed, never closed
  crashes, kills

mastervars == <<at, workers, worker, holders, told, asked, forks, fails, leaked, crashes, kills>>
counters == <<crashes, kills>>
failures == <<fails, leaked>>
vars == <<sigvars, mastervars>>

\* The master's main line runs only while no handler does.
MainLine == frames = <<>>

Living == {p \in Pids : worker[p] = "run"}
Zombies == {p \in Pids : worker[p] = "zombie"}
InUse == {i \in Slots : workers[i] # 0}

Init ==
  /\ SignalInit
  /\ at = "boot"
  /\ workers = [i \in Slots |-> 0]
  /\ worker = [p \in Pids |-> "none"]
  /\ holders = [p \in Pids |-> {}]
  /\ told = {} /\ asked = FALSE
  /\ forks = 0 /\ fails = 0 /\ leaked = 0 /\ crashes = 0 /\ kills = 0

----------------------------------------------------------------------------
\* The workers whose pair's other end a new worker has open: it closes only
\* that of its own.  A slip forgets to.
InheritedAll(table) == {table[i] : i \in Slots} \cup {forks + 1}
Inherited(table) == {table[i] : i \in Slots}

\* get_slot: the first free slot.  A slip takes the first.
FreeSlots(table) == {i \in Slots : table[i] = 0}
get_slot_first(table) == 0
get_slot(table) == CHOOSE i \in FreeSlots(table) : \A j \in FreeSlots(table) : i <= j

\* spe_worker_fork succeeds; `table` and `ends` are spe_workers and the
\* holders of the descriptors before.
ForkWith(table, ends) ==
  LET p == forks + 1
  IN /\ FreeSlots(table) # {}
     /\ forks' = p
     /\ workers' = [table EXCEPT ![get_slot(table)] = p]
     /\ holders' = [q \in Pids |->
                      (IF q = p THEN {Boss} ELSE ends[q])
                        \cup (IF q \in Inherited(table) THEN {p} ELSE {})]

\* spe_worker_fork fails: no slot, or no socket pair to be had, or no process,
\* and the socket pair stays open.
ForkFails(table) ==
  \/ FreeSlots(table) = {} /\ UNCHANGED failures
  \/ /\ FreeSlots(table) # {} /\ fails < MaxFails
     /\ fails' = fails + 1
     /\ leaked' \in {leaked, leaked + 1}

\* The master exits: its descriptors are closed, and its dead are reaped.
MasterExits ==
  /\ at' = "gone"
  /\ holders' = [p \in Pids |-> holders[p] \ {Boss}]
  /\ worker' = [p \in Pids |-> IF worker[p] = "zombie" THEN "gone" ELSE worker[p]]

\* main forks the workers, and gives up if it cannot.
BootFork ==
  /\ at = "boot" /\ forks < Procs
  /\ \/ /\ ForkWith(workers, holders)
        /\ worker' = [worker EXCEPT ![forks + 1] = "run"]
        /\ UNCHANGED <<at, failures>>
     \/ /\ ForkFails(workers)
        /\ MasterExits
        /\ UNCHANGED <<workers, forks>>
  /\ UNCHANGED <<told, asked, counters, sigvars>>

\* spe_master_process registers its handlers: reap_worker, then stop_worker.
MasterRegister ==
  /\ at \in {"boot", "register"}
  /\ \/ /\ at = "boot" /\ forks >= Procs
        /\ Register(Chld)
        /\ at' = "register"
     \/ /\ at = "register"
        /\ Register(Term)
        /\ at' = "loop"
  /\ UNCHANGED <<workers, worker, holders, told, asked, forks, failures, counters>>

\* sigsuspend: the master sleeps until a handler has returned.
Suspend ==
  /\ at = "loop" /\ MainLine
  /\ at' = "asleep"
  /\ UNCHANGED <<workers, worker, holders, told, asked, forks, failures, counters, sigvars>>

\* spe_signal_process: nothing to do, or step by step.
MasterSignals ==
  /\ at = "signals"
  /\ \/ /\ MainLine /\ pos = -1 /\ signal_queue_len = 0
        /\ at' = "reap"
        /\ UNCHANGED sigvars
     \/ /\ spe_signal_process
        /\ at' = IF pos >= 0 /\ pos' = -1 THEN "reap" ELSE at
  /\ UNCHANGED <<workers, worker, holders, told, asked, forks, failures, counters>>

\* spe_worker_reset: the slot of p is free again.  A slip marks it in a way
\* get_slot does not know.
WithoutMinus(p) == [i \in Slots |-> IF workers[i] = p THEN -1 ELSE workers[i]]
Without(p) == [i \in Slots |-> IF workers[i] = p THEN 0 ELSE workers[i]]
\* A slip leaves the master's end of its socket pair open.
EndOpen(p) == holders
EndClosed(p) == [holders EXCEPT ![p] = @ \ {Boss}]

\* One turn of the inner loop: waitpid finds a dead worker, whose slot is
\* freed and taken by a new worker, or by none if fork fails.
ReapOne ==
  /\ at = "reap" /\ MainLine /\ Chld \in flags
  /\ \E p \in Zombies :
       \/ /\ ForkWith(Without(p), EndClosed(p))
          /\ worker' = [worker EXCEPT ![p] = "gone", ![forks + 1] = "run"]
          /\ UNCHANGED failures
       \/ /\ ForkFails(Without(p))
          /\ workers' = Without(p) /\ holders' = EndClosed(p)
          /\ worker' = [worker EXCEPT ![p] = "gone"]
          /\ UNCHANGED forks
  /\ UNCHANGED <<at, told, asked, counters, sigvars>>

\* The flags after a round of reaping.  Slips clear them all, or set the flag.
FlagsCleared == {}
FlagSet == flags \cup {Chld}
FlagsAfterReap == flags \ {Chld}

\* waitpid finds none, and spe_reap_worker is cleared; or it was not set.
ReapDone ==
  /\ at = "reap" /\ MainLine
  /\ Chld \in flags => Zombies = {}
  /\ flags' = FlagsAfterReap
  /\ at' = "stop"
  /\ UNCHANGED <<workers, worker, holders, told, asked, forks, failures, counters>>
  /\ UNCHANGED <<pending, handled, frames, queuevars, cnt, pos, overtaken>>

\* spe_worker_stop and the end of the master; or the loop goes round.
StopTest ==
  /\ at = "stop" /\ MainLine
  /\ IF Term \in flags
     THEN /\ told' = {workers[i] : i \in InUse}
          /\ workers' = [i \in Slots |-> 0]
          /\ MasterExits
     ELSE /\ at' = "loop"
          /\ UNCHANGED <<told, workers, holders, worker>>
  /\ UNCHANGED <<asked, forks, failures, counters, sigvars>>

----------------------------------------------------------------------------
\* The kernel delivers a signal to the master, and wakes it.
MasterDeliver(s) ==
  /\ at # "gone"
  /\ Deliver(s)
  /\ at' = IF at = "asleep" THEN "signals" ELSE at
  /\ UNCHANGED <<workers, worker, holders, told, asked, forks, failures, counters>>

MasterHandler ==
  /\ at # "gone"
  /\ CommonHandler
  /\ UNCHANGED mastervars

\* The operator decides that the program shall stop, and sends SIGTERM as
\* long as it does not.
Ask ==
  /\ ~asked /\ asked' = TRUE
  /\ UNCHANGED <<at, workers, worker, holders, told, forks, failures, counters, sigvars>>

SendTerm ==
  /\ asked /\ at # "gone"
  /\ Raise(Term)
  /\ UNCHANGED mastervars

\* A worker ends.  The master gets SIGCHLD, if it has a handler for it
\* already; without a master the worker is reaped by init.
Ends(p) ==
  /\ worker' = [worker EXCEPT ![p] = IF at = "gone" THEN "gone" ELSE "zombie"]
  /\ holders' = [q \in Pids |-> holders[q] \ {p}]
  /\ pending' = IF at # "gone" /\ Chld \in handled THEN pending \cup {Chld} ELSE pending
  /\ UNCHANGED <<at, workers, told, asked, forks, failures, kills>>
  /\ UNCHANGED <<handled, frames, queuevars, cnt, pos, flags, overtaken>>

\* ... because it was told to, or its socket pair is at end of file
\* (worker_control_handler).
Seen(p) == p \in told \/ holders[p] = {}

WorkerStops(p) ==
  /\ worker[p] = "run" /\ Seen(p)
  /\ Ends(p)
  /\ UNCHANGED crashes

\* ... or for any other reason.
WorkerCrash(p) ==
  /\ worker[p] = "run" /\ crashes < MaxCrashes
  /\ crashes' = crashes + 1
  /\ Ends(p)

\* The master is killed.
Kill ==
  /\ at # "gone" /\ kills < MaxKills
  /\ kills' = kills + 1
  /\ MasterExits
  /\ UNCHANGED <<workers, told, asked, forks, failures, crashes, sigvars>>

----------------------------------------------------------------------------
Main == BootFork \/ MasterRegister \/ Suspend \/ MasterSignals \/ ReapOne \/ ReapDone \/ StopTest

Next ==
  \/ Main \/ MasterHandler \/ Ask \/ SendTerm \/ Kill
  \/ \E s \in Sigs : MasterDeliver(s)
  \/ \E p \in Pids : WorkerStops(p) \/ WorkerCrash(p)

Spec == Init /\ [][Next]_vars

\* Master and workers run, the kernel delivers, the operator insists, though
\* not so fast that the master stands still.
Fairness ==
  /\ SF_vars(Main) /\ WF_vars(MasterHandler) /\ WF_vars(SendTerm)
  /\ \A s \in Sigs : SF_vars(MasterDeliver(s))
  /\ \A p \in Pids : WF_vars(WorkerStops(p))

FairSpec == Spec /\ Fairness

----------------------------------------------------------------------------
\* Every variable has its type (those of SpeSignal: see UsesSignals).
TypeOK ==
  /\ at \in {"boot", "register", "loop", "asleep", "signals", "reap", "stop", "gone"}
  /\ workers \in [Slots -> 0..MaxForks]
  /\ worker \in [Pids -> {"none", "run", "zombie", "gone"}]
  /\ holders \in [Pids -> SUBSET (Pids \cup {Boss})]
  /\ told \subseteq Pids /\ asked \in BOOLEAN
  /\ forks \in 0..MaxForks /\ {fails, leaked, crashes, kills} \subseteq Nat

\* While the master is there, spe_workers lists each of its children that
\* were not reaped, once: each is found again when it dies, and no other is
\* sent WORKER_STOP.
SlotsAreChildren ==
  at # "gone" =>
    /\ {workers[i] : i \in InUse} = Living \cup Zombies
    /\ \A i, j \in InUse : workers[i] = workers[j] => i = j

\* No worker is lost but by a fork that failed.
NoWorkerLost ==
  at \notin {"boot", "gone"} => Cardinality(InUse) + fails = Procs

\* The master has its ends of the socket pairs open for the slots in use: it
\* leaks no descriptor when workers die and are replaced, but only when forks
\* fail.
LeaksByFailedForks ==
  /\ \A p \in Pids :
       Boss \in holders[p] <=> at # "gone" /\ \E i \in Slots : workers[i] = p
  /\ leaked <= fails

\* Only later workers keep the master's end open for a worker.  So no ring of
\* workers waits for each other when the master is gone.
HeldByYounger ==
  \A p \in Pids : \A q \in holders[p] \ {Boss} : q > p /\ worker[q] = "run"

\* The table is right: every child is in it once, and their number changes by
\* failed forks only (spe_worker.c:33-38, 78-87; spe.c:37-57).
TableFollows == SlotsAreChildren /\ NoWorkerLost

\* The ends of the socket pairs are open where they are needed, and elsewhere
\* only by what a fork inherits or leaves behind (spe_worker.c:45-71, 82).
EndsFollow == LeaksByFailedForks /\ HeldByYounger

\* The master uses the signals as SignalLoop does, and so has its properties.
Signals == INSTANCE SignalLoop
UsesSignals == Signals!Spec

\* The master forgets a signal it caught in one way only, that of
\* spe_signal.c:45, whatever it is doing (spe_signal.c:44, 88).
LostOnlyOvertaken == Signals!LostOnlyOvertaken

\* "master exit, worker exit": when the master is gone, told to stop or
\* killed, all workers end.
WorkersFollowMaster == at = "gone" ~> Living = {}

\* The operator can stop the program, if the signal is sent again and again.
StopsWhenAsked == asked ~> at = "gone"

\* "for new worker", "SpeWorker Restart": when a worker is dead and SIGCHLD is
\* on its way to the master, the worker is reaped, so that another takes its
\* place, unless the master ends.
AnnouncedAreReplaced ==
  \A p \in Pids : worker[p] = "zombie" /\ Chld \in pending ~> worker[p] = "gone"
=============================================================================
