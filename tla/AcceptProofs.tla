---------------------------- MODULE AcceptProofs ----------------------------
(***************************************************************************)
(* Theorems about the accept mutex, for every number of workers, servers,  *)
(* connections and crashes.                                                *)
(*                                                                         *)
(* _accept_mutex_hold survives the unlock, so that by itself it does not   *)
(* say who holds the mutex.  The inductive invariant ties it to the place  *)
(* of the worker in its turn (HoldMeansLocked), ties the registration of   *)
(* the socket to the flag (ListenFollows), and says of the events of a     *)
(* turn that the socket was registered for them (ReadyFollows).            *)
(***************************************************************************)
EXTENDS Accept, TLAPS

\* The registered sockets are among those marked as held; in a worker whose
\* loop is over nothing is registered.
ListenFollows ==
  \A w \in Workers :
    listen[w] \subseteq IF pc[w] \in {"done", "dead"} THEN {} ELSE hold[w]

\* Events are those of sockets the worker polls, and the connections are there.
ReadyFollows ==
  \A w \in Workers : \A s \in ready[w] :
    pc[w] = "events" /\ s \in listen[w] /\ backlog[s] > 0

\* A pass over server_head is complete when the loop goes on.
PassFollows ==
  \A w \in Workers : pc[w] \in {"wait", "events", "task"} => next[w] = 1

IInv ==
  /\ TypeOK /\ HoldMeansLocked /\ ListenFollows /\ PassFollows /\ ReadyFollows

----------------------------------------------------------------------------
\* Two workers that poll the same socket are the same.
LEMMA PollsAlone ==
  ASSUME HoldMeansLocked, ListenFollows
  PROVE  OneAcceptor
<1> SUFFICES ASSUME NEW s \in Servers, NEW v \in Workers, NEW w \in Workers,
                    Polls(v, s), Polls(w, s)
             PROVE  v = w
  BY DEF OneAcceptor
<1>1. mutex[s] = v /\ mutex[s] = w
  BY DEF HoldMeansLocked, ListenFollows, Polls, Inside
<1> QED BY <1>1

\* What spe_server_preloop does for one server: worker w takes the mutex, and
\* polls the socket if it can, or finds the mutex taken and does not.
LEMMA PreloopEffect ==
  ASSUME TypeOK, ListenFollows, NEW w \in Workers, Preloop(w)
  PROVE  /\ next[w] \in Servers /\ pc[w] = "preloop"
         /\ listen'[w] \subseteq hold'[w]
         /\ listen' = [listen EXCEPT ![w] = listen'[w]]
         /\ fails' \in Nat
         /\ \/ /\ mutex[next[w]] = Free
               /\ mutex' = [mutex EXCEPT ![next[w]] = w]
               /\ hold' = [hold EXCEPT ![w] = @ \cup {next[w]}]
            \/ /\ mutex[next[w]] # Free
               /\ mutex' = mutex
               /\ hold' = [hold EXCEPT ![w] = @ \ {next[w]}]
<1> USE DEF TypeOK
<1>1. next[w] \in Servers /\ pc[w] = "preloop" /\ listen[w] \subseteq hold[w]
  BY DEF Preloop, ListenFollows
<1>2. CASE mutex[next[w]] = Free
  <2>1. /\ mutex' = [mutex EXCEPT ![next[w]] = w]
        /\ hold' = [hold EXCEPT ![w] = @ \cup {next[w]}]
        /\ Registers(w, next[w])
    BY <1>2 DEF Preloop, TryLock
  <2>2. /\ listen' = [listen EXCEPT ![w] = listen'[w]] /\ fails' \in Nat
        /\ listen'[w] \subseteq listen[w] \cup {next[w]}
    BY <2>1 DEF Registers
  <2> QED BY <1>1, <1>2, <2>1, <2>2
<1>3. CASE mutex[next[w]] # Free
  <2>1. /\ mutex' = mutex /\ fails' = fails
        /\ hold' = [hold EXCEPT ![w] = @ \ {next[w]}]
        /\ listen' = [listen EXCEPT ![w] = ListenLost(w, next[w])]
    BY <1>3 DEF Preloop, TryLock
  <2>2. hold'[w] = hold[w] \ {next[w]} /\ listen'[w] = ListenLost(w, next[w])
    BY <2>1
  <2>3. ListenLost(w, next[w]) \subseteq hold[w] \ {next[w]}
    BY <1>1 DEF ListenLost
  <2> QED BY <1>1, <1>3, <2>1, <2>2, <2>3
<1> QED BY <1>1, <1>2, <1>3

\* Types are preserved.
LEMMA TypeStep == TypeOK /\ ListenFollows /\ [Next]_vars => TypeOK'
<1> SUFFICES ASSUME TypeOK, ListenFollows, [Next]_vars PROVE TypeOK'
  OBVIOUS
<1> USE AcceptAssumption DEF TypeOK, PCs
<1>1. ASSUME NEW w \in Workers, Preloop(w) PROVE TypeOK'
  <2>1. next' \in [Workers -> Servers] /\ pc' \in [Workers -> PCs]
    BY <1>1 DEF Preloop, Advance, Servers
  <2>2. /\ hold' \in [Workers -> SUBSET Servers]
        /\ mutex' \in [Servers -> Workers \cup {Free, Gone}]
    <3>1. next[w] \in Servers
      OBVIOUS
    <3>2. /\ \/ hold' = [hold EXCEPT ![w] = @ \cup {next[w]}]
             \/ hold' = [hold EXCEPT ![w] = @ \ {next[w]}]
          /\ mutex' = mutex \/ mutex' = [mutex EXCEPT ![next[w]] = w]
      BY <1>1 DEF Preloop
    <3>3. mutex' \in [Servers -> Workers \cup {Free, Gone}]
      BY <3>1, <3>2
    <3>4. hold' \in [Workers -> SUBSET Servers]
      BY <3>1, <3>2
    <3> QED BY <3>3, <3>4
  <2>3. listen' \in [Workers -> SUBSET Servers]
    <3>1. listen' = [listen EXCEPT ![w] = listen'[w]] /\ listen'[w] \subseteq hold'[w]
      BY <1>1, PreloopEffect
    <3>2. hold'[w] \in SUBSET Servers
      BY <2>2
    <3> QED BY <3>1, <3>2
  <2>4. fails' \in Nat
    BY <1>1, PreloopEffect
  <2> QED BY <1>1, <2>1, <2>2, <2>3, <2>4 DEF Preloop
<1>2. ASSUME NEW w \in Workers, EpollWait(w) PROVE TypeOK'
  BY <1>2 DEF EpollWait
<1>3. ASSUME NEW w \in Workers, ServerAccept(w) PROVE TypeOK'
  BY <1>3 DEF ServerAccept
<1>4. ASSUME NEW w \in Workers, EventsDone(w) PROVE TypeOK'
  BY <1>4 DEF EventsDone
<1>5. ASSUME NEW w \in Workers, Postloop(w) PROVE TypeOK'
  <2>1. next' \in [Workers -> Servers] /\ pc' \in [Workers -> PCs]
    BY <1>5 DEF Postloop, Advance, Servers
  <2>2. mutex' \in [Servers -> Workers \cup {Free, Gone}]
    BY <1>5 DEF Postloop
  <2> QED BY <1>5, <2>1, <2>2 DEF Postloop
<1>6. ASSUME NEW w \in Workers, TaskProcess(w) PROVE TypeOK'
  BY <1>6 DEF TaskProcess
<1>7. ASSUME NEW w \in Workers, SendStop(w) PROVE TypeOK'
  <2>1. stop' \in [Workers -> {"no", "sent", "seen"}]
    BY <1>7 DEF SendStop
  <2> QED BY <1>7, <2>1 DEF SendStop
<1>8. ASSUME NEW w \in Workers, Crash(w) PROVE TypeOK'
  <2>1. mutex' \in [Servers -> Workers \cup {Free, Gone}]
    BY <1>8 DEF Crash
  <2>2. crashes' \in Nat /\ pc' \in [Workers -> PCs]
    BY <1>8 DEF Crash
  <2>3. ready' \in [Workers -> SUBSET Servers] /\ listen' \in [Workers -> SUBSET Servers]
    BY <1>8 DEF Crash
  <2>4. UNCHANGED <<backlog, next, hold, stop, arrived, fails>>
    BY <1>8 DEF Crash
  <2> QED BY <2>1, <2>2, <2>3, <2>4
<1>9. ASSUME NEW w \in Workers, Restart(w) PROVE TypeOK'
  <2>1. pc' \in [Workers -> PCs] /\ next' \in [Workers -> Servers]
    BY <1>9 DEF Restart, Servers
  <2>2. hold' \in [Workers -> SUBSET Servers]
    BY <1>9 DEF Restart
  <2> QED BY <1>9, <2>1, <2>2 DEF Restart
<1>10. ASSUME NEW s \in Servers, Connect(s) PROVE TypeOK'
  BY <1>10 DEF Connect
<1>11. CASE UNCHANGED vars
  BY <1>11 DEF vars
<1> QED BY <1>1, <1>2, <1>3, <1>4, <1>5, <1>6, <1>7, <1>8, <1>9, <1>10, <1>11
     DEF Next, Turn

----------------------------------------------------------------------------
\* The flags, the registrations and the mutexes stay in step.
LEMMA LockStep == IInv /\ [Next]_vars => HoldMeansLocked' /\ ListenFollows' /\ PassFollows'
<1> SUFFICES ASSUME IInv, [Next]_vars
             PROVE  HoldMeansLocked' /\ ListenFollows' /\ PassFollows'
  OBVIOUS
<1> DEFINE Kept == HoldMeansLocked' /\ ListenFollows' /\ PassFollows'
<1> USE AcceptAssumption DEF IInv, TypeOK, HoldMeansLocked, ListenFollows, PassFollows, Inside
<1>1. ASSUME NEW w \in Workers, Preloop(w) PROVE Kept
  <2> DEFINE s == next[w]
  <2>1. /\ s \in Servers /\ pc[w] = "preloop" /\ listen'[w] \subseteq hold'[w]
        /\ listen' = [listen EXCEPT ![w] = listen'[w]]
        /\ \/ /\ mutex[s] = Free /\ mutex' = [mutex EXCEPT ![s] = w]
              /\ hold' = [hold EXCEPT ![w] = @ \cup {s}]
           \/ /\ mutex[s] # Free /\ mutex' = mutex
              /\ hold' = [hold EXCEPT ![w] = @ \ {s}]
    BY <1>1, PreloopEffect
  <2>2. /\ next' = [next EXCEPT ![w] = IF s = NumServers THEN 1 ELSE s + 1]
        /\ pc' = [pc EXCEPT ![w] = IF s = NumServers THEN "wait" ELSE "preloop"]
    BY <1>1, <2>1 DEF Preloop, Advance
  <2> HIDE DEF s
  <2>3. mutex[s] # w
    <3>1. s \in Int /\ ~Inside(w, s)
      BY <2>1 DEF s, Servers
    <3> HIDE DEF Inside
    <3> QED BY <2>1, <3>1
  <2>4. ASSUME NEW r \in Servers PROVE Inside(w, r)' <=> Inside(w, r) \/ r = s
    BY <2>1, <2>2 DEF s, Servers
  <2>5. \A v \in Workers, r \in Servers : v # w => (Inside(v, r)' <=> Inside(v, r))
    BY <2>1, <2>2
  <2>6. HoldMeansLocked'
    <3> HIDE DEF Inside
    <3>1. ASSUME NEW r \in Servers PROVE mutex'[r] = w <=> Inside(w, r)' /\ r \in hold'[w]
      <4>1. CASE r = s
        BY <2>1, <2>3, <2>4, <4>1
      <4>2. CASE r # s
        BY <2>1, <2>4, <4>2
      <4> QED BY <4>1, <4>2
    <3>2. ASSUME NEW r \in Servers, NEW v \in Workers, v # w
          PROVE  mutex'[r] = v <=> Inside(v, r)' /\ r \in hold'[v]
      BY <2>1, <2>5, <3>2
    <3> QED BY <3>1, <3>2
  <2>7. ListenFollows'
    <3>1. listen'[w] \subseteq hold'[w] /\ pc'[w] \notin {"done", "dead"}
      BY <2>1, <2>2
    <3>2. ASSUME NEW v \in Workers, v # w
          PROVE  listen'[v] = listen[v] /\ hold'[v] = hold[v] /\ pc'[v] = pc[v]
      BY <2>1, <2>2, <3>2
    <3> QED BY <3>1, <3>2
  <2>8. PassFollows'
    BY <2>1, <2>2
  <2> QED BY <2>6, <2>7, <2>8
<1>2. ASSUME NEW w \in Workers, EpollWait(w) \/ ServerAccept(w) PROVE Kept
  <2>1. /\ UNCHANGED <<mutex, hold, listen, next>>
        /\ \/ pc' = pc
           \/ pc[w] = "wait" /\ pc' = [pc EXCEPT ![w] = "events"]
    BY <1>2 DEF EpollWait, ServerAccept
  <2>2. CASE pc' = pc
    BY <2>1, <2>2
  <2>3. CASE pc[w] = "wait" /\ pc' = [pc EXCEPT ![w] = "events"]
    BY <2>1, <2>3
  <2> QED BY <2>1, <2>2, <2>3
<1>3. ASSUME NEW w \in Workers, EventsDone(w) PROVE Kept
  <2>1. /\ UNCHANGED <<mutex, hold, listen, next>>
        /\ pc[w] = "events" /\ pc' = [pc EXCEPT ![w] = "postloop"]
        /\ next[w] = 1
    BY <1>3 DEF EventsDone
  <2> QED BY <2>1 DEF Servers
<1>4. ASSUME NEW w \in Workers, Postloop(w) PROVE Kept
  <2> DEFINE s == next[w]
  <2>1. /\ s \in Servers /\ pc[w] = "postloop" /\ UNCHANGED <<hold, listen>>
        /\ mutex' = IF s \in hold[w] THEN [mutex EXCEPT ![s] = Free] ELSE mutex
        /\ next' = [next EXCEPT ![w] = IF s = NumServers THEN 1 ELSE s + 1]
        /\ pc' = [pc EXCEPT ![w] = IF s = NumServers THEN "task" ELSE "postloop"]
    BY <1>4 DEF Postloop, Advance, Unlocks
  <2> HIDE DEF s
  <2>2. ASSUME NEW r \in Servers PROVE Inside(w, r)' <=> Inside(w, r) /\ r # s
    BY <2>1 DEF s, Servers
  <2>3. Inside(w, s)
    BY <2>1 DEF s, Servers
  <2>4. \A v \in Workers, r \in Servers : v # w => (Inside(v, r)' <=> Inside(v, r))
    BY <2>1
  <2>5. s \in hold[w] <=> mutex[s] = w
    BY <2>1, <2>3
  <2>6. HoldMeansLocked'
    <3> HIDE DEF Inside
    <3>1. ASSUME NEW r \in Servers PROVE mutex'[r] = w <=> Inside(w, r)' /\ r \in hold'[w]
      <4>1. CASE r = s
        BY <2>1, <2>2, <2>5, <4>1
      <4>2. CASE r # s
        BY <2>1, <2>2, <4>2
      <4> QED BY <4>1, <4>2
    <3>2. ASSUME NEW r \in Servers, NEW v \in Workers, v # w
          PROVE  mutex'[r] = v <=> Inside(v, r)' /\ r \in hold'[v]
      <4>1. CASE r = s
        BY <2>1, <2>4, <2>5, <3>2, <4>1
      <4>2. CASE r # s
        BY <2>1, <2>4, <3>2, <4>2
      <4> QED BY <4>1, <4>2
    <3> QED BY <3>1, <3>2
  <2>7. ListenFollows'
    BY <2>1
  <2>8. PassFollows'
    BY <2>1
  <2> QED BY <2>6, <2>7, <2>8
<1>5. ASSUME NEW w \in Workers, TaskProcess(w) PROVE Kept
  <2>1. /\ UNCHANGED <<mutex, hold, next>> /\ pc[w] = "task" /\ next[w] = 1
        /\ \/ pc' = [pc EXCEPT ![w] = "done"] /\ listen' = [listen EXCEPT ![w] = {}]
           \/ pc' = [pc EXCEPT ![w] = "preloop"] /\ listen' = listen
    BY <1>5 DEF TaskProcess
  <2>2. \A v \in Workers, r \in Servers : Inside(v, r)' <=> Inside(v, r)
    BY <2>1 DEF Servers
  <2>3. HoldMeansLocked'
    <3> HIDE DEF Inside
    <3> QED BY <2>1, <2>2
  <2>4. PassFollows'
    BY <2>1
  <2>5. ListenFollows'
    <3>1. listen'[w] \subseteq IF pc'[w] \in {"done", "dead"} THEN {} ELSE hold[w]
      <4>1. listen[w] \subseteq hold[w]
        BY <2>1
      <4>2. CASE pc' = [pc EXCEPT ![w] = "done"] /\ listen' = [listen EXCEPT ![w] = {}]
        BY <4>2
      <4>3. CASE pc' = [pc EXCEPT ![w] = "preloop"] /\ listen' = listen
        BY <4>1, <4>3
      <4> QED BY <2>1, <4>2, <4>3
    <3>2. ASSUME NEW v \in Workers, v # w
          PROVE  listen'[v] = listen[v] /\ pc'[v] = pc[v]
      BY <2>1, <3>2
    <3> QED BY <2>1, <3>1, <3>2
  <2> QED BY <2>3, <2>4, <2>5
<1>6. ASSUME NEW w \in Workers, SendStop(w) PROVE Kept
  BY <1>6 DEF SendStop
<1>7. ASSUME NEW w \in Workers, Crash(w) PROVE Kept
  <2>1. /\ mutex' = [s \in Servers |-> IF mutex[s] = w THEN Gone ELSE mutex[s]]
        /\ pc' = [pc EXCEPT ![w] = "dead"] /\ listen' = [listen EXCEPT ![w] = {}]
        /\ UNCHANGED <<hold, next>>
    BY <1>7 DEF Crash
  <2>6. PassFollows'
    BY <2>1
  <2>2. ListenFollows'
    <3>1. listen'[w] = {} /\ pc'[w] = "dead"
      BY <2>1
    <3>2. ASSUME NEW v \in Workers, v # w
          PROVE  listen'[v] = listen[v] /\ pc'[v] = pc[v]
      BY <2>1, <3>2
    <3> QED BY <2>1, <3>1, <3>2
  <2>3. \A r \in Servers : ~Inside(w, r)'
    BY <2>1
  <2>4. \A v \in Workers, r \in Servers : v # w => (Inside(v, r)' <=> Inside(v, r))
    BY <2>1
  <2>5. HoldMeansLocked'
    <3> HIDE DEF Inside
    <3> QED BY <2>1, <2>3, <2>4
  <2> QED BY <2>2, <2>5, <2>6
<1>8. ASSUME NEW w \in Workers, Restart(w) PROVE Kept
  <2>1. /\ UNCHANGED <<mutex, listen>> /\ pc[w] = "dead"
        /\ pc' = [pc EXCEPT ![w] = "preloop"] /\ next' = [next EXCEPT ![w] = 1]
        /\ hold' = [hold EXCEPT ![w] = {}]
    BY <1>8 DEF Restart
  <2> QED BY <2>1 DEF Servers
<1>9. ASSUME NEW s \in Servers, Connect(s) PROVE Kept
  BY <1>9 DEF Connect
<1>10. CASE UNCHANGED vars
  BY <1>10 DEF vars
<1> QED BY <1>1, <1>2, <1>3, <1>4, <1>5, <1>6, <1>7, <1>8, <1>9, <1>10 DEF Next, Turn
----------------------------------------------------------------------------
\* The connections the events of a turn stand for stay until they are
\* accepted: only a worker that polls the socket takes one, and no two do.
LEMMA ReadyStep == IInv /\ [Next]_vars => ReadyFollows'
<1> SUFFICES ASSUME IInv, [Next]_vars PROVE ReadyFollows'
  OBVIOUS
<1> USE DEF IInv, TypeOK, ReadyFollows
<1>1. ASSUME NEW w \in Workers, Preloop(w) PROVE ReadyFollows'
  <2>0. listen' = [listen EXCEPT ![w] = listen'[w]]
    BY <1>1, PreloopEffect
  <2>1. /\ UNCHANGED <<ready, backlog>> /\ ready[w] = {}
        /\ \A v \in Workers : v # w => pc'[v] = pc[v] /\ listen'[v] = listen[v]
    BY <1>1, <2>0 DEF Preloop, Advance
  <2> QED BY <2>1
<1>2. ASSUME NEW w \in Workers, EpollWait(w) PROVE ReadyFollows'
  <2>1. /\ UNCHANGED <<listen, backlog>> /\ pc'[w] = "events"
        /\ ready'[w] = {s \in listen[w] : backlog[s] > 0}
        /\ \A v \in Workers : v # w => pc'[v] = pc[v] /\ ready'[v] = ready[v]
    BY <1>2 DEF EpollWait
  <2> QED BY <2>1
<1>3. ASSUME NEW w \in Workers, ServerAccept(w) PROVE ReadyFollows'
  <2>1. PICK s \in ready[w] :
          /\ ready' = [ready EXCEPT ![w] = @ \ {s}]
          /\ backlog' = [backlog EXCEPT ![s] = IF @ > 0 THEN @ - 1 ELSE @]
    BY <1>3 DEF ServerAccept
  <2>2. UNCHANGED <<pc, listen>>
    BY <1>3 DEF ServerAccept
  <2>3. ASSUME NEW v \in Workers, NEW r \in ready'[v]
        PROVE  r \in ready[v] /\ r \in Servers /\ r # s
    <3>1. r \in ready[v] /\ r \in Servers /\ s \in Servers
      BY <2>1, <2>3
    <3>2. CASE v = w
      BY <2>1, <2>3, <3>1, <3>2
    <3>3. CASE v # w
      <4>1. r = s => Polls(v, s) /\ Polls(w, s)
        BY <2>1, <3>1 DEF Polls
      <4> QED BY <3>1, <3>3, <4>1, PollsAlone DEF OneAcceptor
    <3> QED BY <3>2, <3>3
  <2>4. ASSUME NEW v \in Workers, NEW r \in ready'[v]
        PROVE  pc[v] = "events" /\ r \in listen[v] /\ backlog'[r] = backlog[r] /\ backlog[r] > 0
    BY <2>1, <2>3, <2>4
  <2> QED BY <2>2, <2>4
<1>4. ASSUME NEW w \in Workers, EventsDone(w) PROVE ReadyFollows'
  <2>1. /\ UNCHANGED <<ready, listen, backlog>> /\ ready[w] = {}
        /\ \A v \in Workers : v # w => pc'[v] = pc[v]
    BY <1>4 DEF EventsDone
  <2> QED BY <2>1
<1>5. ASSUME NEW w \in Workers, Postloop(w) \/ TaskProcess(w) PROVE ReadyFollows'
  <2>1. /\ UNCHANGED <<ready, backlog>> /\ ready[w] = {}
        /\ \A v \in Workers : v # w => pc'[v] = pc[v] /\ listen'[v] = listen[v]
    BY <1>5 DEF Postloop, TaskProcess, Advance
  <2> QED BY <2>1
<1>6. ASSUME NEW w \in Workers, Crash(w) PROVE ReadyFollows'
  <2>1. /\ backlog' = backlog /\ ready'[w] = {}
        /\ \A v \in Workers : v # w => /\ pc'[v] = pc[v] /\ ready'[v] = ready[v]
                                       /\ listen'[v] = listen[v]
    BY <1>6 DEF Crash
  <2> QED BY <2>1
<1>7. ASSUME NEW w \in Workers, Restart(w) PROVE ReadyFollows'
  <2>1. /\ UNCHANGED <<ready, listen, backlog>> /\ ready[w] = {}
        /\ \A v \in Workers : v # w => pc'[v] = pc[v]
    BY <1>7 DEF Restart
  <2> QED BY <2>1
<1>8. ASSUME NEW s \in Servers, Connect(s) PROVE ReadyFollows'
  <2>1. /\ UNCHANGED <<ready, listen, pc>>
        /\ \A r \in Servers : backlog[r] > 0 => backlog'[r] > 0
    BY <1>8 DEF Connect
  <2>2. \A v \in Workers : ready[v] \subseteq Servers
    OBVIOUS
  <2> QED BY <2>1, <2>2
<1>9. ASSUME NEW w \in Workers, SendStop(w) PROVE ReadyFollows'
  BY <1>9 DEF SendStop
<1>10. CASE UNCHANGED vars
  BY <1>10 DEF vars
<1> QED BY <1>1, <1>2, <1>3, <1>4, <1>5, <1>6, <1>7, <1>8, <1>9, <1>10 DEF Next, Turn

----------------------------------------------------------------------------
\* At the start nothing is held, registered or waiting.
LEMMA InitInvariant == Init => IInv
<1> SUFFICES ASSUME Init PROVE IInv
  OBVIOUS
<1> USE AcceptAssumption DEF Init
<1>1. TypeOK
  BY DEF TypeOK, PCs, Servers
<1>2. HoldMeansLocked
  BY DEF HoldMeansLocked, Inside
<1>3. ListenFollows /\ PassFollows /\ ReadyFollows
  BY DEF ListenFollows, PassFollows, ReadyFollows
<1> QED BY <1>1, <1>2, <1>3 DEF IInv

\* The inductive invariant holds in every state, crashes included.
THEOREM Invariance == Spec => []IInv
<1>1. IInv /\ [Next]_vars => IInv'
  <2> SUFFICES ASSUME IInv, [Next]_vars PROVE IInv'
    OBVIOUS
  <2>1. TypeOK'
    BY TypeStep DEF IInv
  <2>2. HoldMeansLocked' /\ ListenFollows' /\ PassFollows'
    BY LockStep
  <2>3. ReadyFollows'
    BY ReadyStep
  <2> QED BY <2>1, <2>2, <2>3 DEF IInv
<1> QED BY <1>1, InitInvariant, PTL DEF Spec

\* Every variable keeps its type.
THEOREM TypeCorrect == Spec => []TypeOK
<1>1. IInv => TypeOK
  BY DEF IInv
<1> QED BY <1>1, Invariance, PTL

\* _accept_mutex_hold is set between trylock and unlock exactly if the mutex
\* is the worker's, so that spe_server_postloop unlocks none but its own.
THEOREM FlagTellsHolder == Spec => []HoldMeansLocked
<1>1. IInv => HoldMeansLocked
  BY DEF IInv
<1> QED BY <1>1, Invariance, PTL

\* No listening socket is polled by two workers at once, however many workers
\* there are and whenever they are killed and replaced.
THEOREM AcceptorsAlone == Spec => []OneAcceptor
<1>1. IInv => OneAcceptor
  BY PollsAlone DEF IInv
<1> QED BY <1>1, Invariance, PTL

\* server_accept finds the connection that epoll announced.
THEOREM AcceptSucceeds == Spec => []AcceptFindsConnection
<1>1. IInv => AcceptFindsConnection
  BY DEF IInv, ReadyFollows, AcceptFindsConnection
<1> QED BY <1>1, Invariance, PTL
----------------------------------------------------------------------------

\* Both: what the mutexes are for.
THEOREM TurnsTaken == Spec => []OneAtATime
<1> QED BY AcceptorsAlone, AcceptSucceeds, PTL DEF OneAtATime
============================================================================
