------------------------------- MODULE Accept -------------------------------
(***************************************************************************)
(* spe_server.c and spe_shm.c: how the worker processes take turns at the  *)
(* listening sockets.                                                      *)
(*                                                                         *)
(* Each server has one mutex in memory shared by the processes.  In every  *)
(* turn of its loop (spe_worker_process) a worker tries each mutex without *)
(* waiting, polls the sockets whose mutex it got and unlocks.  The flag    *)
(* _accept_mutex_hold and the registration of the socket in the worker's   *)
(* own epoll instance outlive the turn: a worker that gets the mutex again *)
(* goes on as it was, one that does not takes its registration back.       *)
(*                                                                         *)
(* Shared between the processes are only the mutexes and the backlogs of   *)
(* the sockets, and a step below touches at most one of them: it stands    *)
(* for that access and the local code around it.                           *)
(***************************************************************************)
EXTENDS Integers, FiniteSets

CONSTANTS
  Workers,     \* the slots of the worker processes
  NumServers,  \* length of server_head
  Free,        \* value of a mutex nobody holds
  Gone,        \* value of a mutex whose holder was killed
  MaxClients,  \* bound: connections made in a behaviour
  MaxCrashes,  \* bound: workers killed in a behaviour
  MaxFails     \* bound: registrations that epoll_ctl refuses

Servers == 1..NumServers

ASSUME AcceptAssumption ==
  /\ NumServers \in Nat \ {0}
  /\ Free # Gone /\ Free \notin Workers /\ Gone \notin Workers
  /\ MaxClients \in Nat /\ MaxCrashes \in Nat /\ MaxFails \in Nat

VARIABLES
  mutex,     \* shared: _accept_mutex of each server
  backlog,   \* shared: connections waiting at each socket
  pc,        \* where each worker is in its loop
  next,      \* the server its pass over server_head has come to
  hold,      \* the servers with _accept_mutex_hold set, in each worker
  listen,    \* those whose socket is registered in its epoll instance
  ready,     \* the events epoll_wait returned that are not handled yet
  stop,      \* the command WORKER_STOP: not sent, sent, or seen
  arrived,   \* history: connections made so far
  crashes,   \* history: workers killed so far
  fails      \* history: registrations that failed so far

vars == <<mutex, backlog, pc, next, hold, listen, ready, stop, arrived, crashes, fails>>

PCs == {"preloop", "wait", "events", "postloop", "task", "done", "dead"}

----------------------------------------------------------------------------
\* spe_server_register, in the master, before it forks the workers: no flag
\* is set, and init_epoll makes a new epoll instance in each of them.
Init ==
  /\ mutex = [s \in Servers |-> Free]
  /\ backlog = [s \in Servers |-> 0]
  /\ pc = [w \in Workers |-> "preloop"]
  /\ next = [w \in Workers |-> 1]
  /\ hold = [w \in Workers |-> {}]
  /\ listen = [w \in Workers |-> {}]
  /\ ready = [w \in Workers |-> {}]
  /\ stop = [w \in Workers |-> "no"]
  /\ arrived = 0 /\ crashes = 0 /\ fails = 0

\* A slip: the pass ends one entry late.
AdvanceLate(w, after) ==
  /\ next' = [next EXCEPT ![w] = IF @ > NumServers THEN 1 ELSE @ + 1]
  /\ pc' = [pc EXCEPT ![w] = IF next[w] > NumServers THEN after ELSE @]

\* The pass over server_head goes on to the next server, or to pc `after`.
Advance(w, after) ==
  /\ next' = [next EXCEPT ![w] = IF @ = NumServers THEN 1 ELSE @ + 1]
  /\ pc' = [pc EXCEPT ![w] = IF next[w] = NumServers THEN after ELSE @]

\* What is registered after the mutex was not to be had.  A slip keeps the
\* socket registered.
ListenKept(w, s) == listen[w]
ListenLost(w, s) == IF s \in hold[w] THEN listen[w] \ {s} ELSE listen[w]

\* Does pthread_mutex_trylock succeed?  A slip takes the mutex of another.
TryLockBlind(w, s) == mutex[s] \in {Free} \cup Workers
TryLock(w, s) == mutex[s] = Free

\* spe_epoll_enable, only when the flag was not set.  Nobody looks at its result:
\* when epoll_ctl refuses, the flag is set and the socket not registered.
Registers(w, s) ==
  \/ /\ listen' = [listen EXCEPT ![w] = IF s \in hold[w] THEN @ ELSE @ \cup {s}]
     /\ UNCHANGED fails
  \/ /\ s \notin hold[w] /\ fails < MaxFails
     /\ fails' = fails + 1
     /\ UNCHANGED listen

\* spe_server_preloop, one server.
Preloop(w) ==
  /\ pc[w] = "preloop"
  /\ LET s == next[w]
     IN \/ /\ TryLock(w, s)
           /\ mutex' = [mutex EXCEPT ![s] = w]
           /\ hold' = [hold EXCEPT ![w] = @ \cup {s}]
           /\ Registers(w, s)
        \/ /\ ~TryLock(w, s)
           /\ hold' = [hold EXCEPT ![w] = @ \ {s}]
           /\ listen' = [listen EXCEPT ![w] = ListenLost(w, s)]
           /\ UNCHANGED <<mutex, fails>>
  /\ Advance(w, "wait")
  /\ UNCHANGED <<backlog, ready, stop, arrived, crashes>>

\* spe_epoll_process: epoll_wait returns every registered socket with a
\* connection, or nothing (after the time-out, or for other descriptors).
\* worker_control_handler reads the command that is there.
EpollWait(w) ==
  /\ pc[w] = "wait"
  /\ ready' = [ready EXCEPT ![w] = {s \in listen[w] : backlog[s] > 0}]
  /\ stop' = [stop EXCEPT ![w] = IF @ = "sent" THEN "seen" ELSE @]
  /\ pc' = [pc EXCEPT ![w] = "events"]
  /\ UNCHANGED <<mutex, backlog, next, hold, listen, arrived, crashes, fails>>

\* server_accept for one event: one connection leaves the backlog.  If there
\* is none, accept fails and the handler returns.  (What becomes of the
\* connection is a matter of spe_conn.c.)
ServerAccept(w) ==
  /\ pc[w] = "events"
  /\ \E s \in ready[w] :
       /\ ready' = [ready EXCEPT ![w] = @ \ {s}]
       /\ backlog' = [backlog EXCEPT ![s] = IF @ > 0 THEN @ - 1 ELSE @]
  /\ UNCHANGED <<mutex, pc, next, hold, listen, stop, arrived, crashes, fails>>

EventsDone(w) ==
  /\ pc[w] = "events" /\ ready[w] = {}
  /\ pc' = [pc EXCEPT ![w] = "postloop"]
  /\ UNCHANGED <<mutex, backlog, next, hold, listen, ready, stop, arrived, crashes, fails>>

\* Is the mutex unlocked?  Slips: always, or only after a turn with work.
UnlocksAll(w, s) == TRUE
UnlocksAfterWork(w, s) == s \in hold[w] /\ backlog[s] > 0
Unlocks(w, s) == s \in hold[w]

\* spe_server_postloop, one server.
Postloop(w) ==
  /\ pc[w] = "postloop"
  /\ LET s == next[w]
     IN mutex' = IF Unlocks(w, s) THEN [mutex EXCEPT ![s] = Free] ELSE mutex
  /\ Advance(w, "task")
  /\ UNCHANGED <<backlog, hold, listen, ready, stop, arrived, crashes, fails>>

\* Does the loop end?
Stops(w) == stop[w] = "seen"

\* spe_task_process and spe_signal_process, then the test of worker_stop.
\* The epoll instance goes with the process.
TaskProcess(w) ==
  /\ pc[w] = "task"
  /\ pc' = [pc EXCEPT ![w] = IF Stops(w) THEN "done" ELSE "preloop"]
  /\ listen' = IF Stops(w) THEN [listen EXCEPT ![w] = {}] ELSE listen
  /\ UNCHANGED <<mutex, backlog, next, hold, ready, stop, arrived, crashes, fails>>

----------------------------------------------------------------------------
\* The environment.

\* A client connects.
Connect(s) ==
  /\ arrived < MaxClients
  /\ arrived' = arrived + 1
  /\ backlog' = [backlog EXCEPT ![s] = @ + 1]
  /\ UNCHANGED <<mutex, pc, next, hold, listen, ready, stop, crashes, fails>>

\* The master sends WORKER_STOP (spe_worker_stop).
SendStop(w) ==
  /\ stop[w] = "no"
  /\ stop' = [stop EXCEPT ![w] = "sent"]
  /\ UNCHANGED <<mutex, backlog, pc, next, hold, listen, ready, arrived, crashes, fails>>

\* A worker is killed wherever it is.  A process-shared mutex that is not
\* robust stays as the dead process left it.
Crash(w) ==
  /\ crashes < MaxCrashes /\ pc[w] \notin {"done", "dead"}
  /\ crashes' = crashes + 1
  /\ pc' = [pc EXCEPT ![w] = "dead"]
  /\ ready' = [ready EXCEPT ![w] = {}]
  /\ listen' = [listen EXCEPT ![w] = {}]
  /\ mutex' = [s \in Servers |-> IF mutex[s] = w THEN Gone ELSE mutex[s]]
  /\ UNCHANGED <<backlog, next, hold, stop, arrived, fails>>

\* The master reaps it and forks a new worker (spe.c).
Restart(w) ==
  /\ pc[w] = "dead"
  /\ pc' = [pc EXCEPT ![w] = "preloop"]
  /\ next' = [next EXCEPT ![w] = 1]
  /\ hold' = [hold EXCEPT ![w] = {}]
  /\ UNCHANGED <<mutex, backlog, listen, ready, stop, arrived, crashes, fails>>

----------------------------------------------------------------------------
Turn(w) ==
  \/ Preloop(w) \/ EpollWait(w) \/ ServerAccept(w) \/ EventsDone(w)
  \/ Postloop(w) \/ TaskProcess(w)

Next ==
  \/ \E w \in Workers : Turn(w) \/ SendStop(w) \/ Crash(w) \/ Restart(w)
  \/ \E s \in Servers : Connect(s)

Spec == Init /\ [][Next]_vars

\* Every worker that runs goes on with its loop (no step of it waits for
\* another process), and the master replaces the workers it reaps.
Fairness == \A w \in Workers : WF_vars(Turn(w)) /\ WF_vars(Restart(w))

FairSpec == Spec /\ Fairness

----------------------------------------------------------------------------
\* Every variable has its type.
TypeOK ==
  /\ mutex \in [Servers -> Workers \cup {Free, Gone}]
  /\ backlog \in [Servers -> Nat]
  /\ pc \in [Workers -> PCs]
  /\ next \in [Workers -> Servers]
  /\ hold \in [Workers -> SUBSET Servers]
  /\ listen \in [Workers -> SUBSET Servers]
  /\ ready \in [Workers -> SUBSET Servers]
  /\ stop \in [Workers -> {"no", "sent", "seen"}]
  /\ arrived \in Nat /\ crashes \in Nat /\ fails \in Nat

\* Worker w is between its trylock and its unlock of the mutex of server s.
Inside(w, s) ==
  \/ pc[w] = "preloop" /\ s < next[w]
  \/ pc[w] \in {"wait", "events"}
  \/ pc[w] = "postloop" /\ next[w] <= s

\* _accept_mutex_hold says who holds the mutex, though it is not cleared by
\* the unlock: between trylock and unlock it is set iff the mutex is the
\* worker's own, and outside no worker holds the mutex.  In particular
\* spe_server_postloop never unlocks a mutex of another process.
HoldMeansLocked ==
  \A w \in Workers, s \in Servers :
    mutex[s] = w <=> Inside(w, s) /\ s \in hold[w]

\* Worker w waits for connections at the socket of server s.
Polls(w, s) == pc[w] \in {"wait", "events"} /\ s \in listen[w]

\* At no time do two workers poll the same listening socket.
OneAcceptor ==
  \A s \in Servers, v, w \in Workers : Polls(v, s) /\ Polls(w, s) => v = w

\* No thundering herd: when a worker comes to accept, the connection epoll
\* told it of is still there, no other worker took it.
AcceptFindsConnection ==
  \A w \in Workers : \A s \in ready[w] : backlog[s] > 0

\* What the accept mutex is for, crashes and failed registrations or not: one
\* worker at a time at each socket, and none is woken for nothing (spe_server.c:41-56).
OneAtATime == OneAcceptor /\ AcceptFindsConnection

\* Worker w has the flag set of a socket that it does not poll.
Deaf(w, s) == pc[w] \notin {"done", "dead"} /\ s \in hold[w] \ listen[w]

\* Every connection is accepted, though the mutex is only ever tried, by workers
\* that have other things to do, and though workers are killed at any place
\* and replaced.  Except: all workers were told to stop; one was killed between
\* trylock and unlock of this very mutex, which nobody gets again; or a worker
\* whose registration failed takes the mutex again and again and does not
\* poll, as long as it never misses it (spe_server.c:41-69).
AcceptedUnlessLocked ==
  \A s \in Servers :
    backlog[s] > 0 ~> \/ backlog[s] = 0 \/ mutex[s] = Gone
                      \/ \A w \in Workers : stop[w] # "no"
                      \/ \E w \in Workers : Deaf(w, s)
============================================================================
