--------------------------- MODULE SpeTaskProofs ---------------------------
(***************************************************************************)
(* Theorems about the task queue, and about the lists it is made with.     *)
(*                                                                         *)
(* The first part is about spe_task.c, for every set of tasks, every width *)
(* of _expire and every bound of SpeTask, with a list for the run queue.   *)
(* The inductive invariant is the conjunction of the type invariant, of    *)
(* the agreement of _status with the queues, and of the order of the timer *)
(* queue: where a timer is inserted is only defined in a sorted tree, and  *)
(* what is unlinked from a queue is only defined if it is there.           *)
(*                                                                         *)
(* The second part is about spe_list.h, pointer by pointer: that such a    *)
(* list is a sequence.  Its invariants, HlistInv and RingInv, say that     *)
(* every head is the beginning of a sound chain or ring of its own, and    *)
(* that each step rewrites these so that the sequences change as they      *)
(* should (ListSpec).                                                      *)
(***************************************************************************)
EXTENDS SpeTask, Lists, QueueLemmas, FiniteSetTheorems, TLAPS

IInv == TypeOK /\ QueueConsistent /\ TimersSorted

\* The tasks of q are in the order of the values e gives them.
SortedBy(q, e) == \A i, j \in DOMAIN q : i < j => e[q[i]] <= e[q[j]]

----------------------------------------------------------------------------
(* The timer queue                                                         *)

\* A timer can be inserted into a sorted tree at exactly the place where
\* everything before is due no later and everything after is due later.
LEMMA TimerPlaceProperties ==
  ASSUME NEW q \in Seq(Tasks), SortedBy(q, expire), NEW when \in Nat,
         expire \in [Tasks -> Nat]
  PROVE  /\ TimerPlace(q, when) \in 1..(Len(q) + 1)
         /\ \A j \in 1..(TimerPlace(q, when) - 1) : expire[q[j]] <= when
         /\ \A j \in TimerPlace(q, when)..Len(q) : when < expire[q[j]]
<1> DEFINE P(i) == /\ \A j \in 1..(i - 1) : expire[q[j]] <= when
                   /\ \A j \in i..Len(q) : when < expire[q[j]]
           later == {i \in 1..Len(q) : when < expire[q[i]]}
<1>1. /\ Len(q) \in Nat /\ DOMAIN q = 1..Len(q)
      /\ \A i \in 1..Len(q) : expire[q[i]] \in Nat
  BY LenProperties, ElementOfSeq
<1>2. \E i \in 1..(Len(q) + 1) : P(i)
  <2>1. CASE later = {}
    <3>1. \A j \in 1..Len(q) : expire[q[j]] <= when
      BY <1>1, <2>1
    <3>2. Len(q) + 1 \in 1..(Len(q) + 1) /\ P(Len(q) + 1)
      BY <1>1, <3>1
    <3> QED BY <3>2
  <2>2. CASE later # {}
    <3>0. later \subseteq Nat
      BY <1>1
    <3>1. PICK n \in later : \A m \in later : n <= m
      <4> HIDE DEF later
      <4> QED BY <2>2, <3>0, LeastNatural
    <3>2. n \in 1..Len(q) /\ when < expire[q[n]]
      BY <3>1
    <3>3. ASSUME NEW j \in 1..(n - 1) PROVE expire[q[j]] <= when
      <4>1. j \in 1..Len(q) /\ j < n
        BY <1>1, <3>2
      <4>2. j \notin later
        BY <1>1, <3>1, <3>2, <4>1
      <4> QED BY <1>1, <4>1, <4>2
    <3>4. ASSUME NEW j \in n..Len(q) PROVE when < expire[q[j]]
      <4>1. j \in 1..Len(q) /\ (j = n \/ n < j)
        BY <1>1, <3>2
      <4>2. expire[q[n]] <= expire[q[j]]
        BY <1>1, <3>2, <4>1 DEF SortedBy
      <4> QED BY <1>1, <3>2, <4>1, <4>2
    <3>5. n \in 1..(Len(q) + 1) /\ P(n)
      BY <1>1, <3>2, <3>3, <3>4
    <3> QED BY <3>5
  <2> QED BY <2>1, <2>2
<1>3. TimerPlace(q, when) = CHOOSE i \in 1..(Len(q) + 1) : P(i)
  BY DEF TimerPlace
<1> HIDE DEF P
<1>4. TimerPlace(q, when) \in 1..(Len(q) + 1) /\ P(TimerPlace(q, when))
  BY <1>2, <1>3
<1> QED BY <1>4 DEF P

\* Erase takes one task out of a queue that holds it.
LEMMA EraseProperties ==
  ASSUME NEW q \in Seq(Tasks), IsInjective(q), NEW t \in ToSet(q)
  PROVE  /\ Erase(q, t) \in Seq(Tasks)
         /\ ToSet(Erase(q, t)) = ToSet(q) \ {t}
         /\ IsInjective(Erase(q, t))
         /\ SortedBy(q, expire) => SortedBy(Erase(q, t), expire)
<1> DEFINE k == CHOOSE i \in DOMAIN q : q[i] = t
<1>1. k \in DOMAIN q /\ q[k] = t
  BY DEF ToSet
<1>2. Erase(q, t) = RemoveAt(q, k)
  BY DEF Erase
<1>3. Len(q) \in Nat /\ DOMAIN q = 1..Len(q)
  BY LenProperties
<1> HIDE DEF k
<1>4. /\ RemoveAt(q, k) \in Seq(Tasks)
      /\ ToSet(RemoveAt(q, k)) = ToSet(q) \ {t}
      /\ IsInjective(RemoveAt(q, k))
  BY <1>1, RemoveSet
<1>5. ASSUME SortedBy(q, expire) PROVE SortedBy(RemoveAt(q, k), expire)
  <2> DEFINE r == RemoveAt(q, k)
             old(i) == IF i < k THEN i ELSE i + 1
  <2>1. /\ r \in Seq(Tasks) /\ Len(r) = Len(q) - 1
        /\ \A i \in 1..(Len(q) - 1) : r[i] = IF i < k THEN q[i] ELSE q[i + 1]
    BY <1>1, <1>3, RemoveAtProperties
  <2>2. DOMAIN r = 1..(Len(q) - 1)
    BY <2>1, LenProperties
  <2> HIDE DEF r
  <2>3. \A i \in DOMAIN r : old(i) \in DOMAIN q /\ r[i] = q[old(i)]
    BY <1>1, <1>3, <2>1, <2>2
  <2>4. \A i, j \in DOMAIN r : i < j => old(i) < old(j)
    BY <1>1, <1>3, <2>2
  <2> HIDE DEF old
  <2>5. SortedBy(r, expire)
    BY <1>5, <2>3, <2>4 DEF SortedBy
  <2> QED BY <2>5 DEF r
<1> QED BY <1>2, <1>4, <1>5

\* What is left of the timer queue when t has left it.
LEMMA TimersWithoutProperties ==
  ASSUME IInv, NEW t \in Tasks
  PROVE  /\ TimersWithout(t) \in Seq(Tasks)
         /\ ToSet(TimersWithout(t)) = {u \in Tasks : status[u] = "TIMER"} \ {t}
         /\ IsInjective(TimersWithout(t))
         /\ SortedBy(TimersWithout(t), expire)
<1>1. /\ timer_head \in Seq(Tasks) /\ IsInjective(timer_head)
      /\ ToSet(timer_head) = {u \in Tasks : status[u] = "TIMER"}
      /\ SortedBy(timer_head, expire)
  BY DEF IInv, TypeOK, QueueConsistent, Holds, TimersSorted, SortedBy
<1>2. CASE status[t] = "TIMER"
  <2>1. t \in ToSet(timer_head)
    BY <1>1, <1>2
  <2>2. TimersWithout(t) = Erase(timer_head, t)
    BY <1>2 DEF TimersWithout
  <2> QED BY <1>1, <2>1, <2>2, EraseProperties
<1>3. CASE status[t] # "TIMER"
  <2>1. TimersWithout(t) = timer_head
    BY <1>3 DEF TimersWithout
  <2> QED BY <1>1, <1>3, <2>1
<1> QED BY <1>2, <1>3

----------------------------------------------------------------------------
(* Every step preserves the invariant                                      *)

\* The frames stay frames.
LEMMA FrameTypes ==
  ASSUME TypeOK
  PROVE  /\ \A t \in Tasks : NewFrame(t) \in Frame
         /\ NewFrame(Loop) \in Frame
         /\ stack # <<>> => Tail(stack) \in Seq(Frame)
         /\ MayCall => Charged \in Seq(Frame)
<1>1. /\ \A t \in Tasks : NewFrame(t) \in Frame
      /\ NewFrame(Loop) \in Frame
  BY TaskAssumption DEF NewFrame, Frame
<1>2. stack # <<>> => Head(stack) \in Frame /\ Tail(stack) \in Seq(Frame)
  BY HeadTailProperties DEF TypeOK
<1>3. ASSUME MayCall PROVE Charged \in Seq(Frame)
  <2> DEFINE f == [Head(stack) EXCEPT !.left = @ - 1]
  <2>1. f \in Frame
    <3>1. MaxCalls \in Nat
      BY TaskAssumption
    <3>2. Head(stack) \in Frame /\ Head(stack).left > 0
      BY <1>2, <1>3 DEF MayCall
    <3> QED BY <3>1, <3>2 DEF Frame
  <2> HIDE DEF f
  <2>2. <<f>> \in Seq(Frame)
    BY <2>1
  <2>3. <<f>> \o Tail(stack) \in Seq(Frame)
    BY <1>2, <1>3, <2>2, ConcatProperties DEF MayCall
  <2> QED BY <2>3 DEF Charged, f
<1> QED BY <1>1, <1>2, <1>3

\* It holds when the worker starts.
LEMMA InitInvariant == Init => IInv
<1> SUFFICES ASSUME Init PROVE IInv
  OBVIOUS
<1>1. TypeOK
  <2>1. stack \in Seq(Frame)
    <3>1. NewFrame(Loop) \in Frame
      BY TaskAssumption DEF NewFrame, Frame
    <3> QED BY <3>1 DEF Init
  <2> QED BY <2>1, TaskAssumption DEF Init, TypeOK, Status, Phases
<1>2. QueueConsistent
  BY DEF Init, QueueConsistent, Holds, ToSet, IsInjective
<1>3. TimersSorted
  BY DEF Init, TimersSorted
<1> QED BY <1>1, <1>2, <1>3 DEF IInv

\* spe_task_schedule: already queued, called at once, or moved from wherever
\* it was to the end of the run queue.
LEMMA ScheduleStep ==
  ASSUME IInv, NEW t \in Tasks, spe_task_schedule(t)
  PROVE  IInv'
<1> USE DEF IInv
<1>1. CASE status[t] = "QUEUE"
  <2>1. /\ UNCHANGED <<task_head, timer_head, status, timeout, expire, phase,
                       curr_time, now, deadline, armed, cause>>
        /\ stack' = Charged /\ MayCall
    BY <1>1 DEF spe_task_schedule
  <2>2. TypeOK'
    BY <2>1, FrameTypes DEF TypeOK
  <2> QED BY <2>1, <2>2 DEF QueueConsistent, Holds, TimersSorted
<1>2. CASE status[t] # "QUEUE" /\ t \in Fast
  <2>1. /\ timer_head' = TimersWithout(t)
        /\ status' = [status EXCEPT ![t] = "FREE"]
        /\ stack' = <<NewFrame(t)>> \o Charged
        /\ armed' = [armed EXCEPT ![t] = FALSE]
        /\ MayCall
        /\ UNCHANGED <<task_head, timeout, expire, phase, curr_time, now,
                       deadline, cause>>
    BY <1>2 DEF spe_task_schedule, CalledHere
  <2>2. stack' \in Seq(Frame)
    BY <2>1, FrameTypes, ConcatProperties
  <2>3. TypeOK'
    BY <2>1, <2>2, TimersWithoutProperties DEF TypeOK, Status
  <2>4. QueueConsistent'
    <3>1. {u \in Tasks : status'[u] = "QUEUE"} = {u \in Tasks : status[u] = "QUEUE"}
      BY <1>2, <2>1 DEF TypeOK
    <3>2. {u \in Tasks : status'[u] = "TIMER"} =
            {u \in Tasks : status[u] = "TIMER"} \ {t}
      BY <2>1 DEF TypeOK
    <3> QED BY <2>1, <3>1, <3>2, TimersWithoutProperties
         DEF QueueConsistent, Holds
  <2>5. TimersSorted'
    BY <2>1, TimersWithoutProperties DEF TimersSorted, SortedBy
  <2> QED BY <2>3, <2>4, <2>5
<1>3. CASE status[t] # "QUEUE" /\ t \notin Fast
  <2>1. /\ timer_head' = TimersWithout(t)
        /\ task_head' = Append(task_head, t)
        /\ status' = [status EXCEPT ![t] = "QUEUE"]
        /\ stack' = Charged
        /\ cause' = [cause EXCEPT ![t] = "event"]
        /\ MayCall
        /\ UNCHANGED <<timeout, expire, phase, curr_time, now, deadline, armed>>
    BY <1>3 DEF spe_task_schedule, CalledHere, list_add_tail
  <2>2. /\ task_head' \in Seq(Tasks)
        /\ ToSet(task_head') = ToSet(task_head) \cup {t}
        /\ IsInjective(task_head')
    <3>1. /\ task_head \in Seq(Tasks) /\ IsInjective(task_head)
          /\ t \notin ToSet(task_head)
      BY <1>3 DEF TypeOK, QueueConsistent, Holds
    <3> QED BY <2>1, <3>1, AppendSet
  <2>3. TypeOK'
    BY <2>1, <2>2, TimersWithoutProperties, FrameTypes DEF TypeOK, Status
  <2>4. QueueConsistent'
    <3>1. {u \in Tasks : status'[u] = "QUEUE"} =
            {u \in Tasks : status[u] = "QUEUE"} \cup {t}
      BY <2>1 DEF TypeOK
    <3>2. {u \in Tasks : status'[u] = "TIMER"} =
            {u \in Tasks : status[u] = "TIMER"} \ {t}
      BY <2>1 DEF TypeOK
    <3> QED BY <2>1, <2>2, <3>1, <3>2, TimersWithoutProperties
         DEF QueueConsistent, Holds
  <2>5. TimersSorted'
    BY <2>1, TimersWithoutProperties DEF TimersSorted, SortedBy
  <2> QED BY <2>3, <2>4, <2>5
<1> QED BY <1>1, <1>2, <1>3

\* spe_task_schedule_timeout: the timer goes to its place in the order.
LEMMA ScheduleTimeoutStep ==
  ASSUME IInv, NEW t \in Tasks, NEW ms \in Nat, spe_task_schedule_timeout(t, ms)
  PROVE  IInv'
<1> USE DEF IInv
<1>1. CASE status[t] = "QUEUE"
  <2>1. /\ UNCHANGED <<task_head, timer_head, status, timeout, expire, phase,
                       curr_time, now, deadline, armed, cause>>
        /\ stack' = Charged /\ MayCall
    BY <1>1 DEF spe_task_schedule_timeout
  <2>2. TypeOK'
    BY <2>1, FrameTypes DEF TypeOK
  <2> QED BY <2>1, <2>2 DEF QueueConsistent, Holds, TimersSorted
<1>2. CASE status[t] # "QUEUE"
  <2> DEFINE when == Truncated(now + ms)
             rest == TimersWithout(t)
             place == TimerPlace(rest, when)
  <2>1. /\ expire' = [expire EXCEPT ![t] = when]
        /\ timer_head' = InsertAt(rest, place, t)
        /\ timeout' = [timeout EXCEPT ![t] = FALSE]
        /\ status' = [status EXCEPT ![t] = "TIMER"]
        /\ armed' = [armed EXCEPT ![t] = TRUE]
        /\ deadline' = [deadline EXCEPT ![t] = now + ms]
        /\ stack' = Charged /\ MayCall
        /\ UNCHANGED <<task_head, phase, curr_time, now, cause>>
    BY <1>2 DEF spe_task_schedule_timeout, TimeoutCleared
  <2>2. when \in 0..(ExpireMod - 1) /\ when \in Nat
    BY TaskAssumption DEF TypeOK, Truncated
  <2>3. /\ rest \in Seq(Tasks) /\ IsInjective(rest) /\ SortedBy(rest, expire)
        /\ ToSet(rest) = {u \in Tasks : status[u] = "TIMER"} \ {t}
    BY TimersWithoutProperties
  <2>4. expire \in [Tasks -> Nat]
    BY TaskAssumption DEF TypeOK
  <2> HIDE DEF when, rest
  <2>5. /\ place \in 1..(Len(rest) + 1)
        /\ \A j \in 1..(place - 1) : expire[rest[j]] <= when
        /\ \A j \in place..Len(rest) : when < expire[rest[j]]
    BY <2>2, <2>3, <2>4, TimerPlaceProperties
  <2> HIDE DEF place
  <2>6. /\ timer_head' \in Seq(Tasks)
        /\ ToSet(timer_head') = ToSet(rest) \cup {t}
        /\ IsInjective(timer_head')
    BY <2>1, <2>3, <2>5, InsertSet
  <2>7. TypeOK'
    <3>1. stack' \in Seq(Frame)
      BY <2>1, FrameTypes
    <3> QED BY <2>1, <2>2, <2>6, <3>1 DEF TypeOK, Status
  <2>8. QueueConsistent'
    <3>1. {u \in Tasks : status'[u] = "QUEUE"} = {u \in Tasks : status[u] = "QUEUE"}
      BY <1>2, <2>1 DEF TypeOK
    <3>2. {u \in Tasks : status'[u] = "TIMER"} =
            ({u \in Tasks : status[u] = "TIMER"} \ {t}) \cup {t}
      BY <2>1 DEF TypeOK
    <3> QED BY <2>1, <2>3, <2>6, <3>1, <3>2 DEF QueueConsistent, Holds
  <2>9. TimersSorted'
    <3>1. /\ Len(rest) \in Nat /\ DOMAIN rest = 1..Len(rest)
          /\ \A i \in 1..Len(rest) : rest[i] \in Tasks /\ rest[i] # t
      BY <2>3, LenProperties, ElementOfSeq DEF ToSet
    <3>2. /\ Len(timer_head') = Len(rest) + 1
          /\ \A i \in 1..(Len(rest) + 1) :
               timer_head'[i] = IF i < place THEN rest[i]
                                ELSE IF i = place THEN t ELSE rest[i - 1]
      <4>1. rest \in Seq(Tasks) /\ place \in 1..(Len(rest) + 1)
        BY <2>3, <2>5
      <4>2. IsInsertion(InsertAt(rest, place, t), rest, place, t)
        BY <4>1, InsertAtIsInsertion, Zenon
      <4>3. timer_head' = InsertAt(rest, place, t)
        BY <2>1
      <4> QED BY <4>2, <4>3, Zenon DEF IsInsertion
    <3>3. DOMAIN timer_head' = 1..(Len(rest) + 1)
      BY <2>6, <3>2, LenProperties
    <3>4. /\ expire'[t] = when
          /\ \A i \in 1..Len(rest) : expire'[rest[i]] = expire[rest[i]]
      BY <2>1, <2>4, <3>1
    <3>5. ASSUME NEW i \in 1..(Len(rest) + 1), NEW j \in 1..(Len(rest) + 1), i < j
          PROVE  expire'[timer_head'[i]] <= expire'[timer_head'[j]]
      <4>1. CASE j < place
        <5>1. i \in 1..Len(rest) /\ j \in 1..Len(rest) /\ i < place
          BY <2>5, <3>1, <3>5, <4>1
        <5>2. expire[rest[i]] <= expire[rest[j]]
          BY <2>3, <3>1, <3>5, <5>1 DEF SortedBy
        <5> QED BY <3>2, <3>4, <4>1, <5>1, <5>2
      <4>2. CASE j = place
        <5>1. i \in 1..Len(rest) /\ i \in 1..(place - 1)
          BY <2>5, <3>1, <3>5, <4>2
        <5>2. timer_head'[i] = rest[i] /\ timer_head'[j] = t
          BY <3>2, <3>5, <4>2
        <5> QED BY <2>5, <3>4, <5>1, <5>2
      <4>3. CASE place < j /\ i < place
        <5>1. /\ i \in 1..Len(rest) /\ i \in 1..(place - 1)
              /\ j - 1 \in 1..Len(rest)
          BY <2>5, <3>1, <3>5, <4>3
        <5>2. timer_head'[i] = rest[i] /\ timer_head'[j] = rest[j - 1]
          BY <2>5, <3>2, <4>3
        <5>3. j - 1 \in place..Len(rest)
          BY <2>5, <3>1, <4>3
        <5>4. expire[rest[i]] <= when /\ when < expire[rest[j - 1]]
          BY <2>5, <5>1, <5>3
        <5>5. i \in 1..Len(rest) /\ j - 1 \in 1..Len(rest)
          BY <2>5, <3>1, <3>5, <4>3
        <5>6. expire[rest[i]] \in Nat /\ expire[rest[j - 1]] \in Nat
          BY <2>4, <3>1, <5>5
        <5> QED BY <2>2, <3>4, <5>2, <5>4, <5>5, <5>6, SMTT(20)
      <4>4. CASE place < j /\ i = place
        <5>1. j - 1 \in 1..Len(rest) /\ j - 1 \in place..Len(rest)
          BY <2>5, <3>1, <4>4
        <5>2. timer_head'[i] = t /\ timer_head'[j] = rest[j - 1]
          BY <2>5, <3>2, <4>4
        <5>3. when < expire[rest[j - 1]] /\ expire[rest[j - 1]] \in Nat
          BY <2>4, <2>5, <3>1, <5>1
        <5> QED BY <2>2, <3>4, <5>1, <5>2, <5>3
      <4>5. CASE place < j /\ place < i
        <5>1. i - 1 \in 1..Len(rest) /\ j - 1 \in 1..Len(rest) /\ i - 1 < j - 1
          BY <2>5, <3>1, <3>5, <4>5
        <5>2. timer_head'[i] = rest[i - 1] /\ timer_head'[j] = rest[j - 1]
          BY <2>5, <3>2, <4>5
        <5>3. expire[rest[i - 1]] <= expire[rest[j - 1]]
          BY <2>3, <3>1, <5>1 DEF SortedBy
        <5> QED BY <3>4, <5>1, <5>2, <5>3
      <4> QED BY <2>5, <3>1, <4>1, <4>2, <4>3, <4>4, <4>5
    <3> QED BY <3>3, <3>5 DEF TimersSorted
  <2> QED BY <2>7, <2>8, <2>9
<1> QED BY <1>1, <1>2

\* spe_task_dequeue: out of the queue it was in.
LEMMA DequeueStep ==
  ASSUME IInv, NEW t \in Tasks, spe_task_dequeue(t)
  PROVE  IInv'
<1> USE DEF IInv
<1>1. /\ timer_head' = TimersWithout(t)
      /\ task_head' = IF status[t] = "QUEUE" THEN Erase(task_head, t) ELSE task_head
      /\ status' = [status EXCEPT ![t] = "FREE"]
      /\ armed' = [armed EXCEPT ![t] = FALSE]
      /\ stack' = Charged /\ MayCall
      /\ UNCHANGED <<timeout, expire, phase, curr_time, now, cause, deadline>>
  BY DEF spe_task_dequeue
<1>2. /\ task_head \in Seq(Tasks) /\ IsInjective(task_head)
      /\ ToSet(task_head) = {u \in Tasks : status[u] = "QUEUE"}
  BY DEF TypeOK, QueueConsistent, Holds
<1>3. /\ task_head' \in Seq(Tasks) /\ IsInjective(task_head')
      /\ ToSet(task_head') = {u \in Tasks : status[u] = "QUEUE"} \ {t}
  <2>1. CASE status[t] = "QUEUE"
    <3>1. t \in ToSet(task_head)
      BY <1>2, <2>1
    <3> QED BY <1>1, <1>2, <2>1, <3>1, EraseProperties
  <2>2. CASE status[t] # "QUEUE"
    BY <1>1, <1>2, <2>2
  <2> QED BY <2>1, <2>2
<1>4. TypeOK'
  <2>1. stack' \in Seq(Frame)
    BY <1>1, FrameTypes
  <2> QED BY <1>1, <1>3, <2>1, TimersWithoutProperties DEF TypeOK, Status
<1>5. QueueConsistent'
  <2>1. /\ {u \in Tasks : status'[u] = "QUEUE"} =
             {u \in Tasks : status[u] = "QUEUE"} \ {t}
        /\ {u \in Tasks : status'[u] = "TIMER"} =
             {u \in Tasks : status[u] = "TIMER"} \ {t}
    BY <1>1 DEF TypeOK
  <2> QED BY <1>1, <1>3, <2>1, TimersWithoutProperties DEF QueueConsistent, Holds
<1>6. TimersSorted'
  BY <1>1, TimersWithoutProperties DEF TimersSorted, SortedBy
<1> QED BY <1>4, <1>5, <1>6

\* Steps that touch neither queue.
LEMMA ControlStep ==
  ASSUME IInv, HandlerReturn \/ ProcessBegin \/ ExpireDone \/ ProcessEnd \/ Tick
  PROVE  IInv'
<1> USE DEF IInv
<1>1. UNCHANGED taskvars
  BY DEF HandlerReturn, ProcessBegin, ExpireDone, ProcessEnd, Tick
<1>2. /\ stack' \in Seq(Frame)
      /\ phase' \in Phases /\ curr_time' \in Nat /\ now' \in Nat
      /\ UNCHANGED history
  <2> USE FrameTypes DEF TypeOK, Phases
  <2>1. CASE HandlerReturn
    BY <2>1 DEF HandlerReturn
  <2>2. CASE ProcessBegin
    <3>1. /\ stack' = <<>> /\ phase' \in {"run", "expire"}
          /\ curr_time' \in {curr_time, now} /\ UNCHANGED <<now, history>>
      BY <2>2 DEF ProcessBegin
    <3> QED BY <3>1
  <2>3. CASE ExpireDone
    BY <2>3 DEF ExpireDone
  <2>4. CASE ProcessEnd
    <3>1. /\ stack' = <<NewFrame(Loop)>> /\ phase' = "idle"
          /\ UNCHANGED <<curr_time, now, history>>
      BY <2>4 DEF ProcessEnd
    <3> QED BY <3>1
  <2>5. CASE Tick
    BY <2>5 DEF Tick, control
  <2> QED BY <2>1, <2>2, <2>3, <2>4, <2>5
<1>4. TypeOK'
  BY <1>1, <1>2 DEF TypeOK, taskvars, history
<1>5. QueueConsistent' /\ TimersSorted'
  BY <1>1 DEF taskvars, QueueConsistent, Holds, TimersSorted
<1> QED BY <1>4, <1>5

\* The first timer moves to the end of the run queue.
LEMMA ExpireFirstStep ==
  ASSUME IInv, ExpireFirst
  PROVE  IInv'
<1> USE DEF IInv
<1> DEFINE t == Head(timer_head)
<1>1. /\ timer_head # <<>>
      /\ timer_head' = Tail(timer_head)
      /\ task_head' = Append(task_head, t)
      /\ timeout' = [timeout EXCEPT ![t] = TRUE]
      /\ status' = [status EXCEPT ![t] = "QUEUE"]
      /\ cause' = [cause EXCEPT ![t] = "timer"]
      /\ UNCHANGED <<expire, control, now, armed, deadline>>
  BY DEF ExpireFirst, list_add_tail
<1>2. /\ timer_head \in Seq(Tasks) /\ IsInjective(timer_head)
      /\ ToSet(timer_head) = {u \in Tasks : status[u] = "TIMER"}
      /\ task_head \in Seq(Tasks) /\ IsInjective(task_head)
      /\ ToSet(task_head) = {u \in Tasks : status[u] = "QUEUE"}
  BY DEF TypeOK, QueueConsistent, Holds
<1>3. /\ t \in Tasks /\ status[t] = "TIMER"
      /\ timer_head' \in Seq(Tasks) /\ IsInjective(timer_head')
      /\ ToSet(timer_head') = {u \in Tasks : status[u] = "TIMER"} \ {t}
  <2>1. /\ t \in ToSet(timer_head) /\ t \in Tasks
        /\ Tail(timer_head) \in Seq(Tasks) /\ IsInjective(Tail(timer_head))
        /\ ToSet(Tail(timer_head)) = ToSet(timer_head) \ {t}
    BY <1>1, <1>2, TailSet
  <2> QED BY <1>1, <1>2, <2>1
<1> HIDE DEF t
<1>4. /\ task_head' \in Seq(Tasks) /\ IsInjective(task_head')
      /\ ToSet(task_head') = {u \in Tasks : status[u] = "QUEUE"} \cup {t}
  <2>1. t \notin ToSet(task_head)
    BY <1>2, <1>3
  <2> QED BY <1>1, <1>2, <1>3, <2>1, AppendSet
<1>5. TypeOK'
  BY <1>1, <1>3, <1>4 DEF TypeOK, Status, control
<1>6. QueueConsistent'
  <2>1. /\ {u \in Tasks : status'[u] = "QUEUE"} =
             {u \in Tasks : status[u] = "QUEUE"} \cup {t}
        /\ {u \in Tasks : status'[u] = "TIMER"} =
             {u \in Tasks : status[u] = "TIMER"} \ {t}
    BY <1>1, <1>3 DEF TypeOK
  <2> QED BY <1>3, <1>4, <2>1 DEF QueueConsistent, Holds
<1>7. TimersSorted'
  <2>1. /\ Len(timer_head) \in Nat \ {0}
        /\ DOMAIN timer_head = 1..Len(timer_head)
        /\ DOMAIN timer_head' = 1..(Len(timer_head) - 1)
        /\ \A i \in 1..(Len(timer_head) - 1) : timer_head'[i] = timer_head[i + 1]
    BY <1>1, <1>2, TailElements, LenProperties
  <2>2. expire' = expire
    BY <1>1
  <2>3. ASSUME NEW i \in DOMAIN timer_head', NEW j \in DOMAIN timer_head', i < j
        PROVE  expire'[timer_head'[i]] <= expire'[timer_head'[j]]
    <3>1. i + 1 \in DOMAIN timer_head /\ j + 1 \in DOMAIN timer_head /\ i + 1 < j + 1
      BY <2>1, <2>3
    <3>2. expire[timer_head[i + 1]] <= expire[timer_head[j + 1]]
      BY <3>1 DEF TimersSorted
    <3> QED BY <2>1, <2>2, <3>2
  <2> QED BY <2>3 DEF TimersSorted
<1> QED BY <1>5, <1>6, <1>7

\* The first task of the run queue leaves it for its handler.
LEMMA RunTaskStep ==
  ASSUME IInv, RunTask
  PROVE  IInv'
<1> USE DEF IInv
<1> DEFINE t == Head(task_head)
<1>1. /\ task_head # <<>>
      /\ task_head' = Tail(task_head)
      /\ status' = [status EXCEPT ![t] = "FREE"]
      /\ stack' = <<NewFrame(t)>>
      /\ armed' = [armed EXCEPT ![t] = FALSE]
      /\ UNCHANGED <<timer_head, timeout, expire, phase, curr_time, now, cause, deadline>>
  BY DEF RunTask
<1>2. /\ task_head \in Seq(Tasks) /\ IsInjective(task_head)
      /\ ToSet(task_head) = {u \in Tasks : status[u] = "QUEUE"}
      /\ ToSet(timer_head) = {u \in Tasks : status[u] = "TIMER"}
      /\ IsInjective(timer_head)
  BY DEF TypeOK, QueueConsistent, Holds
<1>3. /\ t \in Tasks /\ status[t] = "QUEUE"
      /\ task_head' \in Seq(Tasks) /\ IsInjective(task_head')
      /\ ToSet(task_head') = {u \in Tasks : status[u] = "QUEUE"} \ {t}
  <2>1. /\ t \in ToSet(task_head) /\ t \in Tasks
        /\ Tail(task_head) \in Seq(Tasks) /\ IsInjective(Tail(task_head))
        /\ ToSet(Tail(task_head)) = ToSet(task_head) \ {t}
    BY <1>1, <1>2, TailSet
  <2> QED BY <1>1, <1>2, <2>1
<1> HIDE DEF t
<1>4. TypeOK'
  <2>1. stack' \in Seq(Frame)
    BY <1>1, <1>3, FrameTypes
  <2> QED BY <1>1, <1>3, <2>1 DEF TypeOK, Status
<1>5. QueueConsistent'
  <2>1. /\ {u \in Tasks : status'[u] = "QUEUE"} =
             {u \in Tasks : status[u] = "QUEUE"} \ {t}
        /\ {u \in Tasks : status'[u] = "TIMER"} = {u \in Tasks : status[u] = "TIMER"}
    BY <1>1, <1>3 DEF TypeOK
  <2> QED BY <1>1, <1>2, <1>3, <2>1 DEF QueueConsistent, Holds
<1>6. TimersSorted'
  BY <1>1 DEF TimersSorted
<1> QED BY <1>4, <1>5, <1>6

\* Every step of the specification preserves the invariant.
LEMMA NextInvariant == IInv /\ [Next]_vars => IInv'
<1> SUFFICES ASSUME IInv, [Next]_vars PROVE IInv'
  OBVIOUS
<1>1. CASE Schedule
  BY <1>1, ScheduleStep DEF Schedule
<1>2. CASE ScheduleTimeout
  <2>1. PICK t \in Tasks, ms \in 0..MaxMs : spe_task_schedule_timeout(t, ms)
    BY <1>2 DEF ScheduleTimeout
  <2>2. ms \in Nat
    BY <2>1, TaskAssumption
  <2> QED BY <2>1, <2>2, ScheduleTimeoutStep
<1>3. CASE Dequeue
  BY <1>3, DequeueStep DEF Dequeue
<1>4. CASE HandlerReturn \/ ProcessBegin \/ ExpireDone \/ ProcessEnd \/ Tick
  BY <1>4, ControlStep
<1>5. CASE ExpireFirst
  BY <1>5, ExpireFirstStep
<1>6. CASE RunTask
  BY <1>6, RunTaskStep
<1>7. CASE UNCHANGED vars
  BY <1>7 DEF IInv, TypeOK, QueueConsistent, Holds, TimersSorted,
              vars, taskvars, control, history
<1> QED BY <1>1, <1>2, <1>3, <1>4, <1>5, <1>6, <1>7 DEF Next, spe_task_process

----------------------------------------------------------------------------
(* The theorems                                                            *)

\* Type correctness, agreement of _status with the queues and order of the
\* timers hold in every reachable state.
THEOREM Invariance == Spec => []IInv
<1>1. Init => IInv
  BY InitInvariant
<1>2. IInv /\ [Next]_vars => IInv'
  BY NextInvariant
<1> QED BY <1>1, <1>2, PTL DEF Spec

\* Every variable keeps its type.
THEOREM TypeCorrect == Spec => []TypeOK
<1>1. IInv => TypeOK
  BY DEF IInv
<1> QED BY <1>1, Invariance, PTL

\* A task is linked in the queue its _status names, once, and in no other:
\* spe_task.c never unlinks what is not linked or links what is.
THEOREM QueuesAgree == Spec => []QueueConsistent
<1>1. IInv => QueueConsistent
  BY DEF IInv
<1> QED BY <1>1, Invariance, PTL

\* The tree is sorted by _expire, so the loop of spe_task_process may stop at
\* the first timer that is not due.
THEOREM TimersInOrder == Spec => []TimersSorted
<1>1. IInv => TimersSorted
  BY DEF IInv
<1> QED BY <1>1, Invariance, PTL

\* The queues, the states of the tasks and the times agree in every state.
THEOREM InOrder == Spec => []QueuesInOrder
<1> QED BY QueuesAgree, TimersInOrder, PTL DEF QueuesInOrder

----------------------------------------------------------------------------
(* Why a handler runs                                                      *)

\* A task whose timer was set since it last ran is still waiting: for the
\* timer, with the flag clear, or in the run queue, with the flag telling
\* what put it there.
FlagInv ==
  \A t \in Tasks :
    armed[t] => \/ status[t] = "TIMER" /\ ~timeout[t]
                \/ status[t] = "QUEUE" /\ (timeout[t] <=> cause[t] = "timer")

\* FlagInv is inductive relative to the invariant.
LEMMA FlagInvStep == IInv /\ FlagInv /\ [Next]_vars => FlagInv'
<1> SUFFICES ASSUME IInv, FlagInv, [Next]_vars PROVE FlagInv'
  OBVIOUS
<1> USE DEF FlagInv, IInv, TypeOK
<1>1. CASE Schedule
  <2>1. PICK t \in Tasks : spe_task_schedule(t)
    BY <1>1 DEF Schedule
  <2>2. UNCHANGED timeout
    BY <2>1 DEF spe_task_schedule
  <2>3. CASE UNCHANGED <<status, armed, cause>>
    BY <2>2, <2>3
  <2>4. CASE /\ status' = [status EXCEPT ![t] = "FREE"]
             /\ armed' = [armed EXCEPT ![t] = FALSE]
             /\ UNCHANGED cause
    BY <2>2, <2>4
  <2>5. CASE /\ status[t] # "QUEUE"
             /\ status' = [status EXCEPT ![t] = "QUEUE"]
             /\ cause' = [cause EXCEPT ![t] = "event"]
             /\ UNCHANGED armed
    <3>1. ASSUME NEW u \in Tasks, armed[u]
          PROVE  \/ status'[u] = "TIMER" /\ ~timeout[u]
                 \/ status'[u] = "QUEUE" /\ (timeout[u] <=> cause'[u] = "timer")
      <4>1. CASE u = t
        BY <2>5, <3>1, <4>1
      <4>2. CASE u # t
        BY <2>5, <3>1, <4>2
      <4> QED BY <4>1, <4>2
    <3> QED BY <2>2, <2>5, <3>1
  <2> QED BY <2>1, <2>3, <2>4, <2>5 DEF spe_task_schedule
<1>2. CASE ScheduleTimeout
  BY <1>2 DEF ScheduleTimeout, spe_task_schedule_timeout, TimeoutCleared
<1>3. CASE Dequeue
  BY <1>3 DEF Dequeue, spe_task_dequeue
<1>4. CASE HandlerReturn \/ ProcessBegin \/ ExpireDone \/ ProcessEnd \/ Tick
  BY <1>4 DEF HandlerReturn, ProcessBegin, ExpireDone, ProcessEnd, Tick,
              taskvars, history
<1>5. CASE ExpireFirst
  BY <1>5 DEF ExpireFirst
<1>6. CASE RunTask
  BY <1>6 DEF RunTask
<1>7. CASE UNCHANGED vars
  BY <1>7 DEF vars, taskvars, history
<1> QED BY <1>1, <1>2, <1>3, <1>4, <1>5, <1>6, <1>7 DEF Next, spe_task_process

\* A handler that set its timer can trust the flag `timeout`, whatever mix of
\* events, timers and dequeues came in between.
THEOREM FlagTruthful == Spec => []TimeoutTellsCause
<1>1. Init => FlagInv
  BY DEF Init, FlagInv
<1>2. FlagInv => TimeoutTellsCause
  BY DEF FlagInv, TimeoutTellsCause
<1> QED BY <1>1, <1>2, FlagInvStep, Invariance, PTL DEF Spec

----------------------------------------------------------------------------
(* Which handlers run inside others                                        *)

\* A call changes what its frame may still do, not who runs.
LEMMA ChargedSameCallers ==
  ASSUME TypeOK, MayCall
  PROVE  /\ Len(Charged) = Len(stack) /\ Charged \in Seq(Frame)
         /\ \A i \in 1..Len(stack) : Charged[i].who = stack[i].who
<1> DEFINE f == [Head(stack) EXCEPT !.left = @ - 1]
<1>1. stack \in Seq(Frame) /\ stack # <<>> /\ Charged \in Seq(Frame)
  BY FrameTypes DEF TypeOK, MayCall
<1>2. /\ Head(stack) \in Frame /\ Head(stack) = stack[1]
      /\ Tail(stack) \in Seq(Frame) /\ Len(Tail(stack)) = Len(stack) - 1
      /\ \A i \in 1..Len(Tail(stack)) : Tail(stack)[i] = stack[i + 1]
  BY <1>1, HeadTailProperties
<1>3. f.who = stack[1].who
  BY <1>2 DEF Frame
<1> HIDE DEF f
<1>4. Charged = <<f>> \o Tail(stack)
  BY DEF Charged, f
<1>5. /\ Len(Charged) = 1 + Len(Tail(stack))
      /\ Charged[1] = f
      /\ \A i \in 2..Len(stack) : Charged[i] = Tail(stack)[i - 1]
  BY <1>1, <1>2, <1>4
<1>6. ASSUME NEW i \in 1..Len(stack) PROVE Charged[i].who = stack[i].who
  <2>1. CASE i = 1
    BY <1>3, <1>5, <2>1
  <2>2. CASE i # 1
    BY <1>1, <1>2, <1>5, <2>2
  <2> QED BY <2>1, <2>2
<1> QED BY <1>1, <1>2, <1>5, <1>6

\* A frame that is put on the stack is the first one, or that of a fast task.
LEMMA NestingStep ==
  ASSUME TypeOK, HandlersDoNotNest, [Next]_vars
  PROVE  HandlersDoNotNest'
<1>1. /\ stack \in Seq(Frame) /\ Len(stack) \in Nat
      /\ \A i \in 1..Len(stack) : i < Len(stack) => stack[i].who \in Fast
  BY DEF HandlersDoNotNest, TypeOK
<1>2. CASE stack' = stack
  BY <1>2 DEF HandlersDoNotNest
<1>a. ASSUME stack' \in Seq(Frame),
             \A i \in 1..Len(stack') : i < Len(stack') => stack'[i].who \in Fast
      PROVE  HandlersDoNotNest'
  BY <1>a DEF HandlersDoNotNest
<1>3. CASE MayCall /\ stack' = Charged
  <2>1. /\ Len(stack') = Len(stack) /\ stack' \in Seq(Frame)
        /\ \A i \in 1..Len(stack) : stack'[i].who = stack[i].who
    BY <1>3, ChargedSameCallers
  <2> QED BY <1>1, <1>a, <2>1
<1>4. ASSUME NEW t \in Fast, MayCall, stack' = <<NewFrame(t)>> \o Charged
      PROVE  HandlersDoNotNest'
  <2>1. /\ Len(Charged) = Len(stack) /\ Charged \in Seq(Frame)
        /\ \A i \in 1..Len(stack) : Charged[i].who = stack[i].who
    BY <1>4, ChargedSameCallers
  <2>2. /\ Len(stack') = Len(stack) + 1 /\ stack'[1] = NewFrame(t)
        /\ \A i \in 2..Len(stack) + 1 : stack'[i] = Charged[i - 1]
    BY <1>1, <1>4, <2>1
  <2>3. NewFrame(t).who = t
    BY DEF NewFrame
  <2>4. stack' \in Seq(Frame)
    BY <1>4, <2>1, FrameTypes, TaskAssumption
  <2>5. ASSUME NEW i \in 1..Len(stack) + 1, i < Len(stack) + 1 PROVE stack'[i].who \in Fast
    <3>1. CASE i = 1
      BY <1>4, <2>2, <2>3, <3>1
    <3>2. CASE i # 1
      <4>1. i - 1 \in 1..Len(stack) /\ i - 1 < Len(stack) /\ i \in 2..Len(stack) + 1
        BY <1>1, <2>5, <3>2
      <4>2. stack'[i].who = stack[i - 1].who
        BY <2>1, <2>2, <4>1
      <4> QED BY <1>1, <4>1, <4>2
    <3> QED BY <3>1, <3>2
  <2> QED BY <1>a, <2>2, <2>4, <2>5
<1>5. CASE stack # <<>> /\ stack' = Tail(stack)
  <2>1. /\ Len(stack') = Len(stack) - 1 /\ stack' \in Seq(Frame)
        /\ \A i \in 1..Len(stack') : stack'[i] = stack[i + 1]
    BY <1>1, <1>5, HeadTailProperties
  <2>2. ASSUME NEW i \in 1..Len(stack'), i < Len(stack') PROVE stack'[i].who \in Fast
    <3>1. i + 1 \in 1..Len(stack) /\ i + 1 < Len(stack)
      BY <1>1, <2>1, <2>2
    <3> QED BY <1>1, <2>1, <3>1
  <2> QED BY <1>a, <2>1, <2>2
<1>6. ASSUME NEW f, stack' = <<f>> PROVE HandlersDoNotNest'
  BY <1>6 DEF HandlersDoNotNest
<1>7. CASE stack' = <<>>
  BY <1>7 DEF HandlersDoNotNest
<1>8. CASE Schedule
  BY <1>8, <1>3, <1>4 DEF Schedule, spe_task_schedule, CalledHere
<1>9. CASE ScheduleTimeout \/ Dequeue
  BY <1>9, <1>3 DEF ScheduleTimeout, Dequeue, spe_task_schedule_timeout, spe_task_dequeue
<1>10. CASE HandlerReturn
  BY <1>10, <1>5 DEF HandlerReturn
<1>11. CASE ProcessBegin \/ RunTask \/ ProcessEnd
  BY <1>11, <1>6, <1>7 DEF ProcessBegin, RunTask, ProcessEnd
<1>12. CASE ExpireFirst \/ ExpireDone \/ Tick \/ UNCHANGED vars
  BY <1>12, <1>2 DEF ExpireFirst, ExpireDone, Tick, vars, control
<1> QED BY <1>8, <1>9, <1>10, <1>11, <1>12 DEF Next, spe_task_process

\* Only handlers of fast tasks run inside another handler or inside the event
\* loop, however handlers schedule each other.
THEOREM RunToCompletion == Spec => []HandlersDoNotNest
<1>1. Init => HandlersDoNotNest
  BY DEF Init, HandlersDoNotNest
<1>2. IInv => TypeOK
  BY DEF IInv
<1> QED BY <1>1, <1>2, NestingStep, Invariance, PTL DEF Spec

----------------------------------------------------------------------------
(* When a timer fires                                                      *)

\* The tree holds what _expire keeps of the deadlines, and the clock was read
\* in the past.
ClockInv ==
  /\ curr_time <= now
  /\ \A t \in Tasks : status[t] = "TIMER" => expire[t] = Kept(t)

\* ClockInv is inductive relative to the invariant.
LEMMA ClockInvStep == IInv /\ ClockInv /\ [Next]_vars => ClockInv'
<1> SUFFICES ASSUME IInv, ClockInv, [Next]_vars PROVE ClockInv'
  OBVIOUS
<1> USE DEF ClockInv, IInv, TypeOK, Kept
<1>1. CASE Schedule
  BY <1>1 DEF Schedule, spe_task_schedule
<1>2. CASE ScheduleTimeout
  BY <1>2 DEF ScheduleTimeout, spe_task_schedule_timeout, Truncated
<1>3. CASE Dequeue
  BY <1>3 DEF Dequeue, spe_task_dequeue
<1>4. CASE HandlerReturn \/ ProcessBegin \/ ExpireDone \/ ProcessEnd \/ Tick
  BY <1>4 DEF HandlerReturn, ProcessBegin, ExpireDone, ProcessEnd, Tick,
              taskvars, control, history
<1>5. CASE ExpireFirst
  BY <1>5 DEF ExpireFirst, control
<1>6. CASE RunTask
  BY <1>6 DEF RunTask
<1>7. CASE UNCHANGED vars
  BY <1>7 DEF vars, taskvars, control, history
<1> QED BY <1>1, <1>2, <1>3, <1>4, <1>5, <1>6, <1>7 DEF Next, spe_task_process

\* Only ExpireFirst queues a task of the timer queue on behalf of its timer.
LEMMA OnlyExpiryFires ==
  ASSUME IInv, FlagInv, [Next]_vars, NEW t \in Tasks,
         status[t] = "TIMER", status'[t] = "QUEUE", cause'[t] = "timer"
  PROVE  ExpireFirst /\ t = Head(timer_head)
<1> USE DEF IInv, TypeOK
<1>1. CASE Schedule
  BY <1>1 DEF Schedule, spe_task_schedule
<1>2. CASE ScheduleTimeout
  BY <1>2 DEF ScheduleTimeout, spe_task_schedule_timeout, TimeoutCleared
<1>3. CASE Dequeue
  BY <1>3 DEF Dequeue, spe_task_dequeue
<1>4. CASE HandlerReturn \/ ProcessBegin \/ ExpireDone \/ ProcessEnd \/ Tick
  BY <1>4 DEF HandlerReturn, ProcessBegin, ExpireDone, ProcessEnd, Tick, taskvars
<1>5. CASE ExpireFirst
  BY <1>5 DEF ExpireFirst
<1>6. CASE RunTask
  BY <1>6 DEF RunTask
<1>7. CASE UNCHANGED vars
  BY <1>7 DEF vars, taskvars
<1> QED BY <1>1, <1>2, <1>3, <1>4, <1>5, <1>6, <1>7 DEF Next, spe_task_process

\* The first timer of the tree is set for the least time.
LEMMA FirstIsLeast ==
  ASSUME IInv, timer_head # <<>>, NEW u \in Tasks, status[u] = "TIMER"
  PROVE  /\ Head(timer_head) \in Tasks
         /\ expire[Head(timer_head)] \in Nat /\ expire[u] \in Nat
         /\ expire[Head(timer_head)] <= expire[u]
<1>1. timer_head \in Seq(Tasks) /\ u \in ToSet(timer_head)
  BY DEF IInv, TypeOK, QueueConsistent, Holds
<1>2. /\ DOMAIN timer_head = 1..Len(timer_head)
      /\ Len(timer_head) \in Nat \ {0} /\ Head(timer_head) = timer_head[1]
  BY <1>1, LenProperties, TailElements
<1>3. PICK i \in 1..Len(timer_head) : u = timer_head[i]
  BY <1>1, <1>2 DEF ToSet
<1>4. Head(timer_head) \in Tasks
  BY <1>1, <1>2, ElementOfSeq
<1>5. \A t \in Tasks : expire[t] \in Nat
  BY TaskAssumption DEF IInv, TypeOK
<1>6. CASE i = 1
  BY <1>2, <1>3, <1>4, <1>5, <1>6
<1>7. CASE 1 < i
  <2>1. expire[timer_head[1]] <= expire[timer_head[i]]
    BY <1>2, <1>3, <1>7 DEF IInv, TimersSorted
  <2> QED BY <1>2, <1>3, <1>4, <1>5, <2>1
<1> QED BY <1>2, <1>3, <1>6, <1>7

\* A timer that fires was due, by what _expire keeps of its deadline.
LEMMA FireIsDue ==
  IInv /\ ClockInv /\ FlagInv /\ [Next]_vars =>
    \A t \in Tasks : Fires(t) => Kept(t) <= now
<1> SUFFICES ASSUME IInv, ClockInv, FlagInv, [Next]_vars, NEW t \in Tasks, Fires(t)
             PROVE  Kept(t) <= now
  OBVIOUS
<1>1. ExpireFirst /\ t = Head(timer_head)
  BY OnlyExpiryFires DEF Fires
<1>2. expire[t] <= curr_time
  BY <1>1 DEF ExpireFirst, Due
<1>3. expire[t] = Kept(t) /\ curr_time <= now
  BY DEF ClockInv, Fires
<1>4. expire[t] \in Nat /\ curr_time \in Nat /\ now \in Nat
  BY TaskAssumption DEF IInv, TypeOK
<1> QED BY <1>2, <1>3, <1>4

\* A timer that fires is the first of the tree: none left behind is earlier.
LEMMA FireIsFirst ==
  IInv /\ ClockInv /\ FlagInv /\ [Next]_vars =>
    \A t, u \in Tasks : Fires(t) /\ status'[u] = "TIMER" => Kept(t) <= Kept(u)
<1> SUFFICES ASSUME IInv, ClockInv, FlagInv, [Next]_vars,
                    NEW t \in Tasks, NEW u \in Tasks, Fires(t), status'[u] = "TIMER"
             PROVE  Kept(t) <= Kept(u)
  OBVIOUS
<1>1. ExpireFirst /\ t = Head(timer_head)
  BY OnlyExpiryFires DEF Fires
<1>2. status[u] = "TIMER" /\ timer_head # <<>>
  BY <1>1 DEF ExpireFirst, IInv, TypeOK
<1>3. expire[t] <= expire[u]
  BY <1>1, <1>2, FirstIsLeast
<1> QED BY <1>2, <1>3 DEF ClockInv, Fires

\* The handlers start when the first timer is not due: none is, then.
LEMMA NoneIsLeft ==
  IInv /\ ClockInv /\ [Next]_vars =>
    \A t \in Tasks :
      phase = "expire" /\ phase' = "run" /\ status[t] = "TIMER" => curr_time < Kept(t)
<1> SUFFICES ASSUME IInv, ClockInv, [Next]_vars, NEW t \in Tasks,
                    phase = "expire", phase' = "run", status[t] = "TIMER"
             PROVE  curr_time < Kept(t)
  OBVIOUS
<1>1. ExpireDone
  BY DEF Next, Schedule, spe_task_schedule, ScheduleTimeout,
         spe_task_schedule_timeout, Dequeue, spe_task_dequeue, HandlerReturn,
         spe_task_process, ProcessBegin, ExpireFirst, RunTask, ProcessEnd, Tick,
         control, vars
<1>2. timer_head # <<>>
  BY DEF IInv, QueueConsistent, Holds, ToSet
<1>3. /\ Head(timer_head) \in Tasks
      /\ expire[Head(timer_head)] \in Nat /\ expire[t] \in Nat
      /\ expire[Head(timer_head)] <= expire[t]
  BY <1>2, FirstIsLeast
<1>4. ~(expire[Head(timer_head)] <= curr_time)
  BY <1>1, <1>2 DEF ExpireDone, Due
<1>5. curr_time \in Nat /\ expire[t] = Kept(t)
  BY DEF IInv, TypeOK, ClockInv
<1> QED BY <1>3, <1>4, <1>5

\* Whatever the clock and the deadlines, timers fire in the order of what
\* _expire keeps of their deadlines, none before that time, and none that is due
\* when the clock is read is left for the next turn.
THEOREM OnTime == Spec => TimersOnTime
<1>1. Init => ClockInv /\ FlagInv
  BY TaskAssumption DEF Init, ClockInv, FlagInv
<1>2. Spec => NoneBefore
  BY <1>1, ClockInvStep, FlagInvStep, FireIsDue, Invariance, PTL DEF Spec, NoneBefore
<1>3. Spec => ExpiryInOrder
  BY <1>1, ClockInvStep, FlagInvStep, FireIsFirst, Invariance, PTL DEF Spec, ExpiryInOrder
<1>4. Spec => NoneLeftBehind
  BY <1>1, ClockInvStep, NoneIsLeft, Invariance, PTL DEF Spec, NoneLeftBehind
<1> QED BY <1>2, <1>3, <1>4 DEF TimersOnTime

\* Once the clock has passed 2^32 - 1, as that of the program has since 1970,
\* every turn of spe_task_process fires every timer, whatever it was set for:
\* no timer is left when the handlers start.
THEOREM EveryTimerDue ==
  Spec => [][phase = "expire" /\ phase' = "run" /\ curr_time >= ExpireMod - 1
               => \A t \in Tasks : status[t] # "TIMER"]_vars
<1>1. Init => ClockInv
  BY TaskAssumption DEF Init, ClockInv
<1>2. IInv /\ ClockInv /\ [Next]_vars =>
        (phase = "expire" /\ phase' = "run" /\ curr_time >= ExpireMod - 1
           => \A t \in Tasks : status[t] # "TIMER")
  <2> SUFFICES ASSUME IInv, ClockInv, [Next]_vars, phase = "expire", phase' = "run",
                      NEW t \in Tasks, status[t] = "TIMER"
               PROVE  curr_time < ExpireMod - 1
    BY TaskAssumption DEF IInv, TypeOK
  <2>1. curr_time < expire[t]
    BY NoneIsLeft DEF ClockInv
  <2>2. expire[t] \in 0..(ExpireMod - 1) /\ curr_time \in Nat /\ ExpireMod \in Nat
    BY TaskAssumption DEF IInv, TypeOK
  <2> QED BY <2>1, <2>2
<1> QED BY <1>1, <1>2, ClockInvStep, Invariance, PTL DEF Spec

----------------------------------------------------------------------------
(* The lists with a single pointer in the head (hlist in spe_list.h)       *)

\* The module Hlist has its own copy of Cardinality.
LEMMA HCardinality == ASSUME NEW S PROVE H!Cardinality(S) = Cardinality(S)
BY DEF H!Cardinality, Cardinality

\* A sequence without repetitions is no longer than the set is large.
LEMMA NoLonger ==
  ASSUME NEW N, IsFiniteSet(N), NEW s \in Seq(N), \A i, j \in DOMAIN s : s[i] = s[j] => i = j
  PROVE  Len(s) \in 0..Cardinality(N) /\ Cardinality(N) \in Nat
<1>1. Len(s) \in Nat /\ DOMAIN s = 1..Len(s) /\ s \in [1..Len(s) -> N]
  BY LenProperties, ElementOfSeq
<1>2. s \in Injection(1..Len(s), N)
  BY <1>1 DEF Injection, IsInjective
<1>3. Cardinality(1..Len(s)) <= Cardinality(N)
  BY <1>2, FS_Injection
<1>4. Cardinality(1..Len(s)) = Len(s)
  <2>1. 1 \in Int /\ Len(s) \in Int
    BY <1>1
  <2>2. Cardinality(1..Len(s)) = IF 1 > Len(s) THEN 0 ELSE Len(s) - 1 + 1
    BY <2>1, FS_Interval
  <2> QED BY <1>1, <2>2
<1>5. Cardinality(N) \in Nat
  BY FS_CardinalityType
<1> QED BY <1>1, <1>3, <1>4, <1>5

\* The element at a position, NULL behind the end.
Nth(s, i) == IF i \in DOMAIN s THEN s[i] ELSE NULL

\* Following the pointers gives the sequence that they link.
Follows(c, h, s) ==
  /\ c.first[h] = Nth(s, 1)
  /\ \A i \in DOMAIN s : c.next[s[i]] = Nth(s, i + 1)

\* Walking from the head gives the linked sequence.
LEMMA WalkFollows ==
  ASSUME NULL \notin Nodes, IsFiniteSet(Nodes), NEW c, NEW h, NEW s \in Seq(Nodes),
         \A i, j \in DOMAIN s : s[i] = s[j] => i = j, Follows(c, h, s)
  PROVE  H!Walk(c, h) = s
<1> DEFINE N == H!Cardinality(Nodes)
           G(u) == [k \in 0..N |-> IF k = 0 THEN c.first[h]
                                   ELSE IF u[k - 1] = NULL THEN NULL ELSE c.next[u[k - 1]]]
           f == CHOOSE u : u = G(u)
           w == [k \in 0..N |-> Nth(s, k + 1)]
<1>1. Len(s) \in 0..N /\ N \in Nat /\ DOMAIN s = 1..Len(s)
  BY HCardinality, NoLonger, LenProperties
<1>2. \A i \in DOMAIN s : s[i] # NULL
  BY <1>1, ElementOfSeq
<1> HIDE DEF N
<1>3. w = G(w)
  <2>1. ASSUME NEW k \in 0..N
        PROVE  w[k] = G(w)[k]
    <3>1. CASE k = 0
      BY <3>1 DEF Follows
    <3>2. CASE k # 0
      <4>1. k - 1 \in 0..N /\ w[k - 1] = Nth(s, k)
        BY <1>1, <3>2
      <4>2. CASE k \in DOMAIN s
        BY <1>2, <3>2, <4>1, <4>2 DEF Follows, Nth
      <4>3. CASE k \notin DOMAIN s
        <5>1. k + 1 \notin DOMAIN s
          BY <1>1, <3>2, <4>3
        <5> QED BY <3>2, <4>1, <4>3, <5>1 DEF Nth
      <4> QED BY <4>2, <4>3
    <3> QED BY <3>1, <3>2
  <2> QED BY <2>1
<1>4. f = G(f)
  <2> HIDE DEF w, G
  <2> QED BY <1>3
<1>5. \A k \in 0..N : f[k] = G(f)[k]
  <2> HIDE DEF f, G
  <2> QED BY <1>4
<1>6. DOMAIN f = 0..N
  <2> HIDE DEF f
  <2> QED BY <1>4
<1>7. \A k \in 0..N : w[k] = G(w)[k]
  <2> HIDE DEF w, G
  <2> QED BY <1>3
<1>8. H!Walk(c, h) = [k \in 1..H!Cardinality({i \in DOMAIN f : f[i] # NULL}) |-> f[k - 1]]
  BY DEF H!Walk, N
<1>9. \A k \in 0..N : w[k] = Nth(s, k + 1)
  OBVIOUS
<1> HIDE DEF f, w
<1> DEFINE T == {k \in 0..N : f[k] # w[k]}
<1>10. T = {}
  <2> SUFFICES ASSUME T # {} PROVE FALSE
    OBVIOUS
  <2>1. T \subseteq Nat
    BY <1>1
  <2>2. \A i \in T : i \in 0..N /\ f[i] # w[i]
    OBVIOUS
  <2>3. \A i \in 0..N : f[i] # w[i] => i \in T
    OBVIOUS
  <2> HIDE DEF T
  <2>4. PICK i \in T : \A j \in T : i <= j
    BY <2>1, LeastNatural
  <2>5. i \in 1..N /\ i - 1 \in 0..N
    BY <1>1, <1>5, <1>7, <2>2
  <2>6. f[i - 1] = w[i - 1]
    BY <1>1, <2>3, <2>4, <2>5
  <2>7. f[i] = IF f[i - 1] = NULL THEN NULL ELSE c.next[f[i - 1]]
    BY <1>1, <1>5, <2>5
  <2>8. w[i] = IF w[i - 1] = NULL THEN NULL ELSE c.next[w[i - 1]]
    BY <1>1, <1>7, <2>5
  <2> QED BY <2>2, <2>6, <2>7, <2>8
<1>11. \A k \in 0..N : f[k] = Nth(s, k + 1)
  BY <1>9, <1>10
<1>12. {i \in DOMAIN f : f[i] # NULL} = 0..Len(s) - 1
  <2>1. ASSUME NEW i \in 0..Len(s) - 1
        PROVE  i \in DOMAIN f /\ f[i] # NULL
    <3>1. i \in 0..N /\ i + 1 \in DOMAIN s
      BY <1>1
    <3> QED BY <1>2, <1>6, <1>11, <3>1 DEF Nth
  <2>2. ASSUME NEW i \in DOMAIN f, f[i] # NULL
        PROVE  i \in 0..Len(s) - 1
    <3>1. i \in 0..N /\ i + 1 \in DOMAIN s
      BY <1>6, <1>11, <2>2 DEF Nth
    <3> QED BY <1>1, <3>1
  <2> QED BY <2>1, <2>2
<1>13. Cardinality(0..Len(s) - 1) = Len(s)
  <2>1. 0 \in Int /\ Len(s) - 1 \in Int
    BY <1>1
  <2>2. Cardinality(0..Len(s) - 1) = IF 0 > Len(s) - 1 THEN 0 ELSE Len(s) - 1 - 0 + 1
    BY <2>1, FS_Interval
  <2> QED BY <1>1, <2>2
<1>14. H!Walk(c, h) = [k \in 1..Len(s) |-> f[k - 1]]
  BY <1>8, <1>12, <1>13, HCardinality
<1>15. \A k \in 1..Len(s) : f[k - 1] = s[k]
  BY <1>1, <1>11 DEF Nth
<1>16. s = [k \in 1..Len(s) |-> s[k]]
  BY <1>1, SeqDef
<1> QED BY <1>14, <1>15, <1>16

\* The place of the pointer to element i.
Before(h, s, i) == IF i = 1 THEN H!First(h) ELSE H!After(s[i - 1])
On(c, h, s) ==
  /\ Follows(c, h, s)
  /\ \A i \in DOMAIN s : c.pprev[s[i]] = Before(h, s, i)

\* Each head has its sequence, no entry is in two places, and the others have no place.
Distinct(S) ==
  \A g, h \in Heads : \A i \in DOMAIN S[g], j \in DOMAIN S[h] : S[g][i] = S[h][j] => g = h /\ i = j
IsIn(S, n) == \E h \in Heads : \E i \in DOMAIN S[h] : S[h][i] = n
Is(c, first, next, pprev) ==
  /\ DOMAIN c = {"first", "next", "pprev"}
  /\ c.first = first /\ c.next = next /\ c.pprev = pprev
Shape(c) ==
  /\ DOMAIN c = {"first", "next", "pprev"}
  /\ DOMAIN c.first = Heads /\ DOMAIN c.next = Nodes /\ DOMAIN c.pprev = Nodes
Chained(c, S) ==
  /\ Shape(c) /\ S \in [Heads -> Seq(Nodes)] /\ Distinct(S)
  /\ \A h \in Heads : On(c, h, S[h])
  /\ \A n \in Nodes : ~IsIn(S, n) => c.pprev[n] = NULL

\* Storing at the head of a chain, with and without the pointer back.
LEMMA PlacedFirst ==
  ASSUME NEW c, Shape(c), NEW h \in Heads, NEW n
  PROVE  /\ Is(H!Store(c, H!First(h), n), [c.first EXCEPT ![h] = n], c.next, c.pprev)
         /\ Is(H!Place(c, H!First(h), n), [c.first EXCEPT ![h] = n], c.next,
               IF n = NULL THEN c.pprev ELSE [c.pprev EXCEPT ![n] = H!First(h)])
<1>1. H!Store(c, H!First(h), n) = [c EXCEPT !.first[h] = n]
  BY DEF H!Store, H!First
<1>2. Is(H!Store(c, H!First(h), n), [c.first EXCEPT ![h] = n], c.next, c.pprev)
  BY <1>1 DEF Shape, Is
<1>3. H!Place(c, H!First(h), n) =
        IF n = NULL THEN H!Store(c, H!First(h), n)
        ELSE [H!Store(c, H!First(h), n) EXCEPT !.pprev[n] = H!First(h)]
  BY DEF H!Place
<1> QED BY <1>2, <1>3 DEF Is

\* Storing behind an element of a chain.
LEMMA PlacedNext ==
  ASSUME NEW c, Shape(c), NEW m \in Nodes, NEW n
  PROVE  Is(H!Place(c, H!After(m), n), c.first, [c.next EXCEPT ![m] = n],
            IF n = NULL THEN c.pprev ELSE [c.pprev EXCEPT ![n] = H!After(m)])
<1>1. H!Store(c, H!After(m), n) = [c EXCEPT !.next[m] = n]
  BY DEF H!Store, H!After
<1>2. Is(H!Store(c, H!After(m), n), c.first, [c.next EXCEPT ![m] = n], c.pprev)
  BY <1>1 DEF Shape, Is
<1>3. H!Place(c, H!After(m), n) =
        IF n = NULL THEN H!Store(c, H!After(m), n)
        ELSE [H!Store(c, H!After(m), n) EXCEPT !.pprev[n] = H!After(m)]
  BY DEF H!Place
<1> QED BY <1>2, <1>3 DEF Is

\* From c to c2 the sequence of h becomes s, and the other heads notice nothing.
Changes(c, S, h, s, c2) ==
  /\ s \in Seq(Nodes) /\ Shape(c2) /\ On(c2, h, s)
  /\ \A i, j \in DOMAIN s : s[i] = s[j] => i = j
  /\ \A g \in Heads \ {h} : \A j \in DOMAIN S[g], i \in DOMAIN s : S[g][j] # s[i]
  /\ \A g \in Heads \ {h} :
       /\ c2.first[g] = c.first[g]
       /\ \A i \in DOMAIN S[g] : /\ c2.next[S[g][i]] = c.next[S[g][i]]
                                 /\ c2.pprev[S[g][i]] = c.pprev[S[g][i]]
  /\ \A n \in Nodes : /\ \A i \in DOMAIN s : s[i] # n
                      /\ \A g \in Heads \ {h} : \A i \in DOMAIN S[g] : S[g][i] # n
                      => c2.pprev[n] = NULL

\* A step that rewrites one chain leaves the other chains as they are.
LEMMA OneChanges ==
  ASSUME NEW c, NEW S, Chained(c, S), NEW h \in Heads, NEW s, NEW c2, Changes(c, S, h, s, c2)
  PROVE  Chained(c2, [S EXCEPT ![h] = s])
<1> DEFINE S2 == [S EXCEPT ![h] = s]
<1>1. S2 \in [Heads -> Seq(Nodes)] /\ S2[h] = s /\ \A g \in Heads \ {h} : S2[g] = S[g]
  BY DEF Chained, Changes
<1> HIDE DEF S2
<1>2. Distinct(S2)
  <2> SUFFICES ASSUME NEW f \in Heads, NEW g \in Heads, NEW i \in DOMAIN S2[f], NEW j \in DOMAIN S2[g],
                      S2[f][i] = S2[g][j]
               PROVE  f = g /\ i = j
    BY DEF Distinct
  <2>1. CASE f = h /\ g = h
    BY <1>1, <2>1 DEF Changes
  <2>2. CASE f = h /\ g # h
    <3>1. i \in DOMAIN s /\ j \in DOMAIN S[g] /\ s[i] = S[g][j]
      BY <1>1, <2>2
    <3> QED BY <2>2, <3>1 DEF Changes
  <2>3. CASE f # h /\ g = h
    <3>1. j \in DOMAIN s /\ i \in DOMAIN S[f] /\ s[j] = S[f][i]
      BY <1>1, <2>3
    <3> QED BY <2>3, <3>1 DEF Changes
  <2>4. CASE f # h /\ g # h
    <3>1. i \in DOMAIN S[f] /\ j \in DOMAIN S[g] /\ S[f][i] = S[g][j]
      BY <1>1, <2>4
    <3> QED BY <3>1 DEF Chained, Distinct
  <2> QED BY <2>1, <2>2, <2>3, <2>4
<1>3. ASSUME NEW g \in Heads PROVE On(c2, g, S2[g])
  <2>1. CASE g = h
    BY <1>1, <2>1 DEF Changes
  <2>2. CASE g # h
    <3>1. On(c, g, S[g])
      BY DEF Chained
    <3>2. S2[g] = S[g]
      BY <1>1, <2>2
    <3> QED BY <2>2, <3>1, <3>2 DEF On, Follows, Changes
  <2> QED BY <2>1, <2>2
<1>4. ASSUME NEW n \in Nodes, ~IsIn(S2, n) PROVE c2.pprev[n] = NULL
  <2>1. \A i \in DOMAIN s : s[i] # n
    BY <1>1, <1>4 DEF IsIn
  <2>2. \A g \in Heads \ {h} : \A i \in DOMAIN S[g] : S[g][i] # n
    BY <1>1, <1>4 DEF IsIn
  <2> QED BY <2>1, <2>2 DEF Changes
<1> QED BY <1>1, <1>2, <1>3, <1>4 DEF Chained, S2, Changes

\* An entry put before element k, or at the end.
LEMMA Inserted ==
  ASSUME H!ListAssumption, NEW c, NEW S, Chained(c, S), NEW h \in Heads, NEW n \in Nodes, ~IsIn(S, n),
         NEW k \in 1..Len(S[h]) + 1
  PROVE  Chained(H!Place(H!Place(c, H!After(n), Nth(S[h], k)), Before(h, S[h], k), n),
                 [S EXCEPT ![h] = InsertAt(S[h], k, n)])
<1> DEFINE s  == S[h]
           x  == Nth(s, k)
           at == Before(h, s, k)
           c1 == H!Place(c, H!After(n), x)
           c2 == H!Place(c1, at, n)
           s2 == InsertAt(s, k, n)
<1>1. /\ s \in Seq(Nodes) /\ Len(s) \in Nat /\ DOMAIN s = 1..Len(s) /\ k \in 1..Len(s) + 1
      /\ \A i \in DOMAIN s : s[i] \in Nodes /\ s[i] # n /\ s[i] # NULL
      /\ n # NULL /\ NULL \notin Nodes
  BY LenProperties, ElementOfSeq DEF Chained, IsIn, H!ListAssumption
<1>2. \A i, j \in DOMAIN s : s[i] = s[j] => i = j
  BY DEF Chained, Distinct
<1>4. x \in Nodes \cup {NULL} /\ x # n
  BY <1>1 DEF Nth
<1> HIDE DEF s, x
<1>3. /\ s2 \in Seq(Nodes) /\ Len(s2) = Len(s) + 1 /\ DOMAIN s2 = 1..Len(s) + 1
      /\ \A i \in 1..Len(s) + 1 : s2[i] = IF i < k THEN s[i] ELSE IF i = k THEN n ELSE s[i - 1]
  <2>1. /\ s2 \in Seq(Nodes) /\ Len(s2) = Len(s) + 1
        /\ \A i \in 1..(Len(s) + 1) : s2[i] = IF i < k THEN s[i] ELSE IF i = k THEN n ELSE s[i - 1]
    BY <1>1, InsertAtProperties, SMTT(20)
  <2> HIDE DEF s2
  <2> QED BY <2>1, LenProperties
<1>5. Shape(c)
  BY DEF Chained
<1>6. /\ Shape(c1) /\ c1.first = c.first /\ c1.next = [c.next EXCEPT ![n] = x]
      /\ \A m \in Nodes : c1.pprev[m] = IF m = x THEN H!After(n) ELSE c.pprev[m]
  <2>1. Is(c1, c.first, [c.next EXCEPT ![n] = x],
           IF x = NULL THEN c.pprev ELSE [c.pprev EXCEPT ![x] = H!After(n)])
    BY <1>5, PlacedNext
  <2> HIDE DEF c1
  <2> QED BY <1>1, <1>4, <1>5, <2>1 DEF Is, Shape
<1> HIDE DEF c1
<1>7. /\ Shape(c2)
      /\ \A g \in Heads : c2.first[g] = IF k = 1 /\ g = h THEN n ELSE c.first[g]
      /\ \A m \in Nodes : c2.next[m] = IF k # 1 /\ m = s[k - 1] THEN n ELSE IF m = n THEN x ELSE c.next[m]
      /\ \A m \in Nodes : c2.pprev[m] = IF m = n THEN at ELSE IF m = x THEN H!After(n) ELSE c.pprev[m]
  <2>1. CASE k = 1
    <3>1. at = H!First(h)
      BY <2>1 DEF Before
    <3>2. Is(c2, [c1.first EXCEPT ![h] = n], c1.next,
             IF n = NULL THEN c1.pprev ELSE [c1.pprev EXCEPT ![n] = at])
      BY <1>6, <3>1, PlacedFirst
    <3> HIDE DEF c2, at
    <3> QED BY <1>1, <1>5, <1>6, <2>1, <3>2 DEF Is, Shape
  <2>2. CASE k # 1
    <3>1. at = H!After(s[k - 1]) /\ s[k - 1] \in Nodes /\ s[k - 1] # n
      BY <1>1, <2>2 DEF Before, s
    <3>2. Is(c2, c1.first, [c1.next EXCEPT ![s[k - 1]] = n],
             IF n = NULL THEN c1.pprev ELSE [c1.pprev EXCEPT ![n] = at])
      BY <1>6, <3>1, PlacedNext
    <3> HIDE DEF c2, at
    <3> QED BY <1>1, <1>5, <1>6, <2>2, <3>1, <3>2 DEF Is, Shape
  <2> QED BY <2>1, <2>2
<1> HIDE DEF c2, s2
<1>8. On(c, h, s)
  BY DEF Chained, s
<1>15. k \in DOMAIN s2 /\ s2[k] = n
  BY <1>1, <1>3
<1>16. /\ \A i \in DOMAIN s2 : i # k => \E j \in DOMAIN s : s2[i] = s[j]
       /\ k # 1 => k - 1 \in DOMAIN s
  BY <1>1, <1>3, SMTT(30)
<1>9. On(c2, h, s2)
  <2>0. \A m \in Nodes : m # n /\ (k = 1 \/ m # s[k - 1]) => c2.next[m] = c.next[m]
    BY <1>7
  <2>1. c2.first[h] = Nth(s2, 1)
    <3>1. CASE k = 1
      BY <1>7, <1>15, <3>1 DEF Nth
    <3>2. CASE k # 1
      <4>1. 1 \in DOMAIN s /\ 1 \in DOMAIN s2 /\ s2[1] = s[1]
        BY <1>1, <1>3, <1>15, <3>2
      <4> QED BY <1>7, <1>8, <3>2, <4>1 DEF On, Follows, Nth
    <3> QED BY <3>1, <3>2
  <2>2. ASSUME NEW i \in DOMAIN s2
        PROVE  c2.next[s2[i]] = Nth(s2, i + 1)
    <3>1. CASE i < k - 1
      <4>1. i \in DOMAIN s /\ i + 1 \in DOMAIN s /\ i + 1 \in DOMAIN s2 /\ s2[i] = s[i] /\ s2[i + 1] = s[i + 1]
        BY <1>1, <1>3, <3>1
      <4>2. k - 1 \in DOMAIN s /\ s[i] # s[k - 1]
        <5>1. k - 1 \in DOMAIN s /\ k - 1 # i
          BY <1>1, <1>3, <3>1
        <5> QED BY <1>2, <4>1, <5>1
      <4>3. c2.next[s[i]] = c.next[s[i]]
        BY <1>1, <2>0, <4>1, <4>2
      <4> QED BY <1>8, <4>1, <4>3 DEF On, Follows, Nth
    <3>2. CASE i = k - 1
      <4>1. i \in DOMAIN s /\ i + 1 = k /\ k # 1 /\ s2[i] = s[k - 1] /\ s[k - 1] \in Nodes
        BY <1>1, <1>3, <3>2
      <4> QED BY <1>7, <1>15, <4>1 DEF Nth
    <3>3. CASE i = k
      <4>1. c2.next[n] = x
        BY <1>1, <1>7, <1>16
      <4>2. k + 1 \in DOMAIN s2 <=> k \in DOMAIN s
        BY <1>1, <1>3
      <4>3. k \in DOMAIN s => s2[k + 1] = s[k]
        BY <1>1, <1>3
      <4> QED BY <1>15, <3>3, <4>1, <4>2, <4>3 DEF Nth, x
    <3>4. CASE i > k
      <4>1. i - 1 \in DOMAIN s /\ s2[i] = s[i - 1] /\ (i \in DOMAIN s <=> i + 1 \in DOMAIN s2)
        BY <1>1, <1>3, <3>4
      <4>2. i \in DOMAIN s => s2[i + 1] = s[i]
        BY <1>1, <1>3, <3>4
      <4>3. k # 1 => s[i - 1] # s[k - 1]
        <5>1. k # 1 => k - 1 \in DOMAIN s /\ k - 1 # i - 1
          BY <1>1, <1>3, <3>4
        <5> QED BY <1>2, <4>1, <5>1
      <4>4. c2.next[s[i - 1]] = c.next[s[i - 1]]
        BY <1>1, <2>0, <4>1, <4>3
      <4>5. c.next[s[i - 1]] = Nth(s, i)
        <5>1. (i - 1) + 1 = i
          BY <1>3
        <5> QED BY <1>8, <4>1, <5>1 DEF On, Follows
      <4> QED BY <4>1, <4>2, <4>4, <4>5 DEF Nth
    <3> QED BY <1>1, <1>3, <3>1, <3>2, <3>3, <3>4
  <2>3. ASSUME NEW i \in DOMAIN s2
        PROVE  c2.pprev[s2[i]] = Before(h, s2, i)
    <3>0. \A m \in Nodes : m # n /\ m # x => c2.pprev[m] = c.pprev[m]
      BY <1>7
    <3>1. CASE i < k
      <4>1. i \in DOMAIN s /\ s2[i] = s[i] /\ (i # 1 => s2[i - 1] = s[i - 1])
        BY <1>1, <1>3, <3>1
      <4>2. s[i] # x
        <5>1. k \in DOMAIN s => s[i] # s[k]
          BY <1>1, <1>2, <3>1, <4>1
        <5> QED BY <1>1, <4>1, <5>1 DEF Nth, x
      <4>3. c2.pprev[s[i]] = c.pprev[s[i]]
        BY <1>1, <3>0, <4>1, <4>2
      <4> QED BY <1>8, <4>1, <4>3 DEF On, Before
    <3>2. CASE i = k
      <4>1. k # 1 => s2[k - 1] = s[k - 1]
        BY <1>1, <1>3
      <4>2. c2.pprev[n] = at
        BY <1>7
      <4> QED BY <1>15, <3>2, <4>1, <4>2 DEF Before
    <3>3. CASE i = k + 1
      <4>1. k \in DOMAIN s /\ s2[i] = s[k] /\ i - 1 = k /\ i # 1
        BY <1>1, <1>3, <3>3
      <4>2. x = s[k] /\ x \in Nodes /\ x # n
        BY <1>1, <4>1 DEF Nth, x
      <4> QED BY <1>7, <1>15, <4>1, <4>2 DEF Before
    <3>4. CASE i > k + 1
      <4>1. i - 1 \in DOMAIN s /\ s2[i] = s[i - 1] /\ i - 1 # 1 /\ i # 1 /\ s2[i - 1] = s[(i - 1) - 1]
        BY <1>1, <1>3, <3>4
      <4>2. k \in DOMAIN s /\ i - 1 # k
        BY <1>1, <1>3, <3>4
      <4>3. s[i - 1] # x
        BY <1>2, <4>1, <4>2 DEF Nth, x
      <4>4. c2.pprev[s[i - 1]] = c.pprev[s[i - 1]]
        BY <1>1, <3>0, <4>1, <4>3
      <4> QED BY <1>8, <4>1, <4>4 DEF On, Before
    <3> QED BY <1>1, <1>3, <3>1, <3>2, <3>3, <3>4
  <2> QED BY <2>1, <2>2, <2>3 DEF On, Follows
<1>10. \A i, j \in DOMAIN s2 : s2[i] = s2[j] => i = j
  <2> SUFFICES ASSUME NEW i \in DOMAIN s2, NEW j \in DOMAIN s2, s2[i] = s2[j] PROVE i = j
    OBVIOUS
  <2>1. i = k <=> j = k
    BY <1>1, <1>15, <1>16
  <2>2. CASE i # k /\ j # k
    <3>1. PICK p \in DOMAIN s : s2[i] = s[p] /\ p = IF i < k THEN i ELSE i - 1
      BY <1>1, <1>3, <2>2
    <3>2. PICK q \in DOMAIN s : s2[j] = s[q] /\ q = IF j < k THEN j ELSE j - 1
      BY <1>1, <1>3, <2>2
    <3>3. p = q
      BY <1>2, <3>1, <3>2
    <3> QED BY <1>1, <1>3, <2>2, <3>1, <3>2, <3>3
  <2> QED BY <2>1, <2>2
<1>11. \A g \in Heads \ {h} : \A j \in DOMAIN S[g] :
         /\ S[g][j] \in Nodes /\ S[g][j] # n
         /\ \A i \in DOMAIN s : S[g][j] # s[i]
  <2> SUFFICES ASSUME NEW g \in Heads \ {h}, NEW j \in DOMAIN S[g]
               PROVE  /\ S[g][j] \in Nodes /\ S[g][j] # n
                      /\ \A i \in DOMAIN s : S[g][j] # s[i]
    OBVIOUS
  <2>1. S[g] \in Seq(Nodes)
    BY DEF Chained
  <2>2. S[g][j] \in Nodes
    BY <2>1, LenProperties, ElementOfSeq
  <2> QED BY <2>2 DEF Chained, Distinct, IsIn, s
<1>12. \A g \in Heads \ {h} : \A j \in DOMAIN S[g], i \in DOMAIN s2 : S[g][j] # s2[i]
  <2> SUFFICES ASSUME NEW g \in Heads \ {h}, NEW j \in DOMAIN S[g], NEW i \in DOMAIN s2
               PROVE  S[g][j] # s2[i]
    OBVIOUS
  <2>1. CASE i = k
    BY <1>11, <1>15, <2>1
  <2>2. CASE i # k
    BY <1>11, <1>16, <2>2
  <2> QED BY <2>1, <2>2
<1>13. \A g \in Heads \ {h} :
         /\ c2.first[g] = c.first[g]
         /\ \A i \in DOMAIN S[g] : /\ c2.next[S[g][i]] = c.next[S[g][i]]
                                   /\ c2.pprev[S[g][i]] = c.pprev[S[g][i]]
  <2> SUFFICES ASSUME NEW g \in Heads \ {h}
               PROVE  /\ c2.first[g] = c.first[g]
                      /\ \A i \in DOMAIN S[g] : /\ c2.next[S[g][i]] = c.next[S[g][i]]
                                                /\ c2.pprev[S[g][i]] = c.pprev[S[g][i]]
    OBVIOUS
  <2>1. c2.first[g] = c.first[g]
    BY <1>7
  <2>2. ASSUME NEW i \in DOMAIN S[g]
        PROVE  c2.next[S[g][i]] = c.next[S[g][i]] /\ c2.pprev[S[g][i]] = c.pprev[S[g][i]]
    <3>1. S[g][i] \in Nodes /\ S[g][i] # n
      BY <1>11
    <3>2. k # 1 => S[g][i] # s[k - 1]
      BY <1>11, <1>16
    <3>3. S[g][i] # x
      BY <1>1, <1>11, <3>1 DEF Nth, x
    <3> QED BY <1>7, <3>1, <3>2, <3>3
  <2> QED BY <2>1, <2>2
<1>14. ASSUME NEW m \in Nodes, \A i \in DOMAIN s2 : s2[i] # m,
              \A g \in Heads \ {h} : \A i \in DOMAIN S[g] : S[g][i] # m
       PROVE  c2.pprev[m] = NULL
  <2>1. m # n
    BY <1>14, <1>15
  <2>2. \A i \in DOMAIN s : s[i] # m
    <3> SUFFICES ASSUME NEW i \in DOMAIN s, s[i] = m PROVE FALSE
      OBVIOUS
    <3>1. CASE i < k
      BY <1>1, <1>3, <1>14, <3>1
    <3>2. CASE i >= k
      <4>1. i + 1 \in DOMAIN s2 /\ s2[i + 1] = s[i]
        BY <1>1, <1>3, <3>2
      <4> QED BY <1>14, <4>1
    <3> QED BY <1>1, <3>1, <3>2
  <2>3. ~IsIn(S, m)
    BY <1>14, <2>2 DEF IsIn, s
  <2>4. m # x
    BY <1>1, <2>2 DEF Nth, x
  <2> QED BY <1>7, <2>1, <2>3, <2>4 DEF Chained
<1> QED
  <2>0. Changes(c, S, h, s2, c2)
    BY <1>3, <1>7, <1>9, <1>10, <1>12, <1>13, <1>14 DEF Changes
  <2>1. Chained(c2, [S EXCEPT ![h] = s2])
    BY <2>0, OneChanges
  <2> QED BY <2>1 DEF c2, c1, s2, x, s

\* An entry taken out.
LEMMA Deleted ==
  ASSUME H!ListAssumption, NEW c, NEW S, Chained(c, S), NEW h \in Heads, NEW k \in DOMAIN S[h]
  PROVE  Chained([H!Unlinked(c, S[h][k]) EXCEPT !.next[S[h][k]] = NULL, !.pprev[S[h][k]] = NULL],
                 [S EXCEPT ![h] = RemoveAt(S[h], k)])
<1> DEFINE s  == S[h]
           n  == s[k]
           x  == Nth(s, k + 1)
           at == Before(h, s, k)
           c1 == H!Unlinked(c, n)
           c2 == [c1 EXCEPT !.next[n] = NULL, !.pprev[n] = NULL]
           s2 == RemoveAt(s, k)
<1>1. /\ s \in Seq(Nodes) /\ Len(s) \in Nat /\ DOMAIN s = 1..Len(s) /\ k \in 1..Len(s)
      /\ \A i \in DOMAIN s : s[i] \in Nodes /\ s[i] # NULL
      /\ NULL \notin Nodes /\ Shape(c)
  BY LenProperties, ElementOfSeq DEF Chained, H!ListAssumption
<1>2. \A i, j \in DOMAIN s : s[i] = s[j] => i = j
  BY DEF Chained, Distinct
<1>3. On(c, h, s)
  BY DEF Chained
<1> HIDE DEF s
<1>4. x \in Nodes \cup {NULL} /\ x # n /\ n \in Nodes
  BY <1>1, <1>2 DEF Nth
<1>5. c.pprev[n] = at /\ c.next[n] = x
  BY <1>1, <1>3 DEF On, Follows
<1>6. c1 = H!Place(c, at, x)
  BY <1>5 DEF H!Unlinked
<1>7. /\ s2 \in Seq(Nodes) /\ DOMAIN s2 = 1..Len(s) - 1
      /\ \A i \in 1..Len(s) - 1 : s2[i] = IF i < k THEN s[i] ELSE s[i + 1]
  <2>1. /\ s2 \in Seq(Nodes) /\ Len(s2) = Len(s) - 1
        /\ \A i \in 1..(Len(s) - 1) : s2[i] = IF i < k THEN s[i] ELSE s[i + 1]
    BY <1>1, RemoveAtProperties
  <2> HIDE DEF s2
  <2> QED BY <2>1, LenProperties
<1> HIDE DEF n, x, c1, s2
<1>8. /\ Shape(c1)
      /\ \A g \in Heads : c1.first[g] = IF k = 1 /\ g = h THEN x ELSE c.first[g]
      /\ \A m \in Nodes : c1.next[m] = IF k # 1 /\ m = s[k - 1] THEN x ELSE c.next[m]
      /\ \A m \in Nodes : c1.pprev[m] = IF m = x THEN at ELSE c.pprev[m]
  <2>1. CASE k = 1
    <3>1. at = H!First(h)
      BY <2>1 DEF Before
    <3>2. Is(c1, [c.first EXCEPT ![h] = x], c.next,
             IF x = NULL THEN c.pprev ELSE [c.pprev EXCEPT ![x] = at])
      BY <1>1, <1>6, <3>1, PlacedFirst
    <3> HIDE DEF at
    <3> QED BY <1>1, <1>4, <2>1, <3>2 DEF Is, Shape
  <2>2. CASE k # 1
    <3>1. at = H!After(s[k - 1]) /\ s[k - 1] \in Nodes
      BY <1>1, <2>2 DEF Before
    <3>2. Is(c1, c.first, [c.next EXCEPT ![s[k - 1]] = x],
             IF x = NULL THEN c.pprev ELSE [c.pprev EXCEPT ![x] = at])
      BY <1>1, <1>6, <3>1, PlacedNext
    <3> HIDE DEF at
    <3> QED BY <1>1, <1>4, <2>2, <3>1, <3>2 DEF Is, Shape
  <2> QED BY <2>1, <2>2
<1>9. /\ Shape(c2)
      /\ \A g \in Heads : c2.first[g] = IF k = 1 /\ g = h THEN x ELSE c.first[g]
      /\ \A m \in Nodes : c2.next[m] = IF m = n THEN NULL
                                       ELSE IF k # 1 /\ m = s[k - 1] THEN x ELSE c.next[m]
      /\ \A m \in Nodes : c2.pprev[m] = IF m = n THEN NULL ELSE IF m = x THEN at ELSE c.pprev[m]
  <2>1. Is(c2, c1.first, [c1.next EXCEPT ![n] = NULL], [c1.pprev EXCEPT ![n] = NULL])
    BY <1>8 DEF Is, Shape
  <2> HIDE DEF c2, at
  <2> QED BY <1>4, <1>8, <2>1 DEF Is, Shape
<1> HIDE DEF c2
<1>10. \A i \in DOMAIN s2 : \E j \in DOMAIN s : j # k /\ s2[i] = s[j] /\ j = IF i < k THEN i ELSE i + 1
  BY <1>1, <1>7
<1>11. s[k] = n /\ (k # 1 => k - 1 \in DOMAIN s)
  BY <1>1 DEF n
<1>12. On(c2, h, s2)
  <2>1. c2.first[h] = Nth(s2, 1)
    <3>1. CASE k = 1
      <4>1. 1 \in DOMAIN s2 <=> 2 \in DOMAIN s
        BY <1>1, <1>7, <3>1
      <4>2. 1 \in DOMAIN s2 => s2[1] = s[2]
        BY <1>7, <3>1
      <4> QED BY <1>9, <3>1, <4>1, <4>2 DEF Nth, x
    <3>2. CASE k # 1
      <4>1. 1 \in DOMAIN s /\ 1 \in DOMAIN s2 /\ s2[1] = s[1]
        BY <1>1, <1>7, <3>2
      <4> QED BY <1>3, <1>9, <3>2, <4>1 DEF On, Follows, Nth
    <3> QED BY <3>1, <3>2
  <2>2. ASSUME NEW i \in DOMAIN s2
        PROVE  c2.next[s2[i]] = Nth(s2, i + 1)
    <3>1. CASE i < k - 1
      <4>1. i \in DOMAIN s /\ i + 1 \in DOMAIN s /\ i + 1 \in DOMAIN s2 /\ s2[i] = s[i] /\ s2[i + 1] = s[i + 1]
        BY <1>1, <1>7, <3>1
      <4>2. k # 1 /\ i # k /\ i # k - 1
        BY <1>1, <1>7, <3>1
      <4>3. s[i] # s[k - 1] /\ s[i] # n /\ s[i] \in Nodes
        BY <1>1, <1>2, <1>11, <4>1, <4>2
      <4>4. c2.next[s[i]] = c.next[s[i]]
        BY <1>9, <4>3
      <4> QED BY <1>3, <4>1, <4>4 DEF On, Follows, Nth
    <3>2. CASE i = k - 1
      <4>1. i \in DOMAIN s /\ k # 1 /\ s2[i] = s[k - 1] /\ i # k /\ (k \in DOMAIN s2 <=> k + 1 \in DOMAIN s)
        BY <1>1, <1>7, <3>2
      <4>2. s[k - 1] \in Nodes /\ s[k - 1] # n
        BY <1>1, <1>2, <1>11, <3>2, <4>1
      <4>3. k \in DOMAIN s2 => s2[k] = s[k + 1]
        BY <1>7
      <4>4. i + 1 = k
        BY <1>1, <3>2
      <4>5. c2.next[s2[i]] = x
        BY <1>9, <4>1, <4>2
      <4> QED BY <4>1, <4>3, <4>4, <4>5 DEF Nth, x
    <3>3. CASE i >= k
      <4>1. i + 1 \in DOMAIN s /\ s2[i] = s[i + 1] /\ (i + 1 \in DOMAIN s2 <=> (i + 1) + 1 \in DOMAIN s)
        BY <1>1, <1>7, <3>3
      <4>2. i + 1 \in DOMAIN s2 => s2[i + 1] = s[(i + 1) + 1]
        BY <1>1, <1>7, <3>3
      <4>3. i + 1 # k /\ i + 1 # k - 1
        BY <1>1, <1>7, <3>3
      <4>4. s[i + 1] \in Nodes /\ s[i + 1] # n /\ (k # 1 => s[i + 1] # s[k - 1])
        BY <1>1, <1>2, <1>11, <4>1, <4>3
      <4>5. c2.next[s[i + 1]] = c.next[s[i + 1]]
        BY <1>9, <4>4
      <4>6. c.next[s[i + 1]] = Nth(s, (i + 1) + 1)
        BY <1>3, <4>1 DEF On, Follows
      <4> QED BY <4>1, <4>2, <4>5, <4>6 DEF Nth
    <3>4. i < k - 1 \/ i = k - 1 \/ i >= k
      BY <1>1, <1>7
    <3> QED BY <3>1, <3>2, <3>3, <3>4
  <2>3. ASSUME NEW i \in DOMAIN s2
        PROVE  c2.pprev[s2[i]] = Before(h, s2, i)
    <3>1. CASE i < k
      <4>1. i \in DOMAIN s /\ s2[i] = s[i] /\ (i # 1 => s2[i - 1] = s[i - 1])
        BY <1>1, <1>7, <3>1
      <4>2. i # k /\ i # k + 1
        BY <1>1, <1>7, <3>1
      <4>3. s[i] \in Nodes /\ s[i] # n /\ s[i] # x
        BY <1>1, <1>2, <1>11, <4>1, <4>2 DEF Nth, x
      <4>4. c2.pprev[s[i]] = c.pprev[s[i]]
        BY <1>9, <4>3
      <4> QED BY <1>3, <4>1, <4>4 DEF On, Before
    <3>2. CASE i = k
      <4>1. k + 1 \in DOMAIN s /\ s2[k] = s[k + 1] /\ (k # 1 => s2[k - 1] = s[k - 1])
        BY <1>1, <1>7, <3>2
      <4>2. x = s[k + 1] /\ x \in Nodes
        BY <1>1, <4>1 DEF Nth, x
      <4>3. c2.pprev[x] = at
        BY <1>4, <1>9, <4>2
      <4> QED BY <3>2, <4>1, <4>2, <4>3 DEF Before
    <3>3. CASE i > k
      <4>1. i \in 1..Len(s) - 1 /\ i - 1 \in 1..Len(s) - 1 /\ ~(i - 1 < k) /\ ~(i < k) /\ k \in Nat /\ Len(s) \in Nat
        BY <1>1, <1>7, <3>3
      <4>2. i + 1 \in DOMAIN s /\ i # 1 /\ i + 1 # 1 /\ (i + 1) - 1 = i /\ (i - 1) + 1 = i
        BY <1>1, <4>1
      <4>3. /\ i + 1 \in DOMAIN s /\ s2[i] = s[i + 1] /\ i # 1 /\ i + 1 # 1
            /\ s2[i - 1] = s[i] /\ (i + 1) - 1 = i
        BY <1>7, <4>1, <4>2
      <4>4. i + 1 # k /\ i + 1 # k + 1
        BY <1>1, <1>7, <3>3
      <4>5. s[i + 1] \in Nodes /\ s[i + 1] # n /\ s[i + 1] # x
        BY <1>1, <1>2, <1>11, <4>3, <4>4 DEF Nth, x
      <4>6. c2.pprev[s[i + 1]] = c.pprev[s[i + 1]]
        BY <1>9, <4>5
      <4> QED BY <1>3, <4>3, <4>6 DEF On, Before
    <3> QED BY <1>1, <1>7, <3>1, <3>2, <3>3
  <2> QED BY <2>1, <2>2, <2>3 DEF On, Follows
<1>13. \A i, j \in DOMAIN s2 : s2[i] = s2[j] => i = j
  <2> SUFFICES ASSUME NEW i \in DOMAIN s2, NEW j \in DOMAIN s2, s2[i] = s2[j] PROVE i = j
    OBVIOUS
  <2>1. PICK p \in DOMAIN s : s2[i] = s[p] /\ p = IF i < k THEN i ELSE i + 1
    BY <1>10
  <2>2. PICK q \in DOMAIN s : s2[j] = s[q] /\ q = IF j < k THEN j ELSE j + 1
    BY <1>10
  <2>3. p = q
    BY <1>2, <2>1, <2>2
  <2> QED BY <1>1, <1>7, <2>1, <2>2, <2>3
<1>14. \A g \in Heads \ {h} : \A j \in DOMAIN S[g] :
         /\ S[g][j] \in Nodes
         /\ \A i \in DOMAIN s : S[g][j] # s[i]
  <2> SUFFICES ASSUME NEW g \in Heads \ {h}, NEW j \in DOMAIN S[g]
               PROVE  /\ S[g][j] \in Nodes
                      /\ \A i \in DOMAIN s : S[g][j] # s[i]
    OBVIOUS
  <2>1. S[g] \in Seq(Nodes)
    BY DEF Chained
  <2>2. S[g][j] \in Nodes
    BY <2>1, LenProperties, ElementOfSeq
  <2> QED BY <2>2 DEF Chained, Distinct, s
<1>15. \A g \in Heads \ {h} : \A j \in DOMAIN S[g], i \in DOMAIN s2 : S[g][j] # s2[i]
  BY <1>10, <1>14
<1>16. \A g \in Heads \ {h} :
         /\ c2.first[g] = c.first[g]
         /\ \A i \in DOMAIN S[g] : /\ c2.next[S[g][i]] = c.next[S[g][i]]
                                   /\ c2.pprev[S[g][i]] = c.pprev[S[g][i]]
  <2> SUFFICES ASSUME NEW g \in Heads \ {h}
               PROVE  /\ c2.first[g] = c.first[g]
                      /\ \A i \in DOMAIN S[g] : /\ c2.next[S[g][i]] = c.next[S[g][i]]
                                                /\ c2.pprev[S[g][i]] = c.pprev[S[g][i]]
    OBVIOUS
  <2>1. c2.first[g] = c.first[g]
    BY <1>9
  <2>2. ASSUME NEW i \in DOMAIN S[g]
        PROVE  c2.next[S[g][i]] = c.next[S[g][i]] /\ c2.pprev[S[g][i]] = c.pprev[S[g][i]]
    <3>1. S[g][i] \in Nodes /\ S[g][i] # n
      BY <1>1, <1>11, <1>14
    <3>2. k # 1 => S[g][i] # s[k - 1]
      BY <1>11, <1>14
    <3>3. S[g][i] # x
      BY <1>1, <1>14, <3>1 DEF Nth, x
    <3> QED BY <1>9, <3>1, <3>2, <3>3
  <2> QED BY <2>1, <2>2
<1>17. ASSUME NEW m \in Nodes, \A i \in DOMAIN s2 : s2[i] # m,
              \A g \in Heads \ {h} : \A i \in DOMAIN S[g] : S[g][i] # m
       PROVE  c2.pprev[m] = NULL
  <2>1. CASE m = n
    BY <1>9, <2>1
  <2>2. CASE m # n
    <3>1. \A i \in DOMAIN s : s[i] # m
      <4> SUFFICES ASSUME NEW i \in DOMAIN s, s[i] = m PROVE FALSE
        OBVIOUS
      <4>1. CASE i < k
        BY <1>1, <1>7, <1>17, <4>1
      <4>2. CASE i > k
        <5>1. i - 1 \in DOMAIN s2 /\ s2[i - 1] = s[i]
          BY <1>1, <1>7, <4>2
        <5> QED BY <1>17, <5>1
      <4>3. i # k
        BY <1>11, <2>2
      <4> QED BY <1>1, <4>1, <4>2, <4>3
    <3>2. ~IsIn(S, m)
      BY <1>17, <3>1 DEF IsIn, s
    <3>3. m # x
      BY <1>1, <3>1 DEF Nth, x
    <3> QED BY <1>9, <2>2, <3>2, <3>3 DEF Chained
  <2> QED BY <2>1, <2>2
<1> QED
  <2>1. Changes(c, S, h, s2, c2)
    BY <1>7, <1>9, <1>12, <1>13, <1>15, <1>16, <1>17 DEF Changes
  <2>2. Chained(c2, [S EXCEPT ![h] = s2])
    BY <2>1, OneChanges
  <2> QED BY <2>2 DEF c2, c1, s2, n, s

\* All entries of one head go to another that has none.
LEMMA Moved ==
  ASSUME H!ListAssumption, NEW c, NEW S, Chained(c, S), NEW g \in Heads, NEW h \in Heads, g # h,
         S[h] = <<>>
  PROVE  Chained(H!Store(H!Place(c, H!First(h), c.first[g]), H!First(g), NULL),
                 [S EXCEPT ![g] = <<>>, ![h] = S[g]])
<1> DEFINE s  == S[g]
           x  == c.first[g]
           c1 == H!Place(c, H!First(h), x)
           c2 == H!Store(c1, H!First(g), NULL)
           S2 == [S EXCEPT ![g] = <<>>, ![h] = s]
<1>1. /\ s \in Seq(Nodes) /\ DOMAIN s = 1..Len(s) /\ Len(s) \in Nat
      /\ \A i \in DOMAIN s : s[i] \in Nodes /\ s[i] # NULL
      /\ Shape(c) /\ On(c, g, s) /\ NULL \notin Nodes
  BY LenProperties, ElementOfSeq DEF Chained, H!ListAssumption
<1>2. x = Nth(s, 1)
  BY <1>1 DEF On, Follows
<1> HIDE DEF x
<1>3. Is(c1, [c.first EXCEPT ![h] = x], c.next,
         IF x = NULL THEN c.pprev ELSE [c.pprev EXCEPT ![x] = H!First(h)])
  BY <1>1, PlacedFirst
<1> HIDE DEF c1
<1>4. /\ Shape(c1) /\ c1.first = [c.first EXCEPT ![h] = x] /\ c1.next = c.next
      /\ \A m \in Nodes : c1.pprev[m] = IF m = x THEN H!First(h) ELSE c.pprev[m]
  BY <1>1, <1>3 DEF Is, Shape
<1>5. Is(c2, [c1.first EXCEPT ![g] = NULL], c1.next, c1.pprev)
  BY <1>4, PlacedFirst
<1> HIDE DEF c2
<1>6. /\ Shape(c2) /\ c2.next = c.next
      /\ \A f \in Heads : c2.first[f] = IF f = g THEN NULL ELSE IF f = h THEN x ELSE c.first[f]
      /\ \A m \in Nodes : c2.pprev[m] = IF m = x THEN H!First(h) ELSE c.pprev[m]
  BY <1>1, <1>4, <1>5 DEF Is, Shape
<1>7. /\ S2 \in [Heads -> Seq(Nodes)] /\ S2[g] = <<>> /\ S2[h] = s
      /\ \A f \in Heads : f # g /\ f # h => S2[f] = S[f]
  BY <1>1 DEF Chained
<1> HIDE DEF S2
<1>8. \A f \in Heads : \A i \in DOMAIN S2[f] :
        \/ f = h /\ i \in DOMAIN s /\ S2[f][i] = s[i]
        \/ f # g /\ f # h /\ S2[f] = S[f]
  BY <1>7
<1>9. Distinct(S2)
  <2> SUFFICES ASSUME NEW e \in Heads, NEW f \in Heads, NEW i \in DOMAIN S2[e], NEW j \in DOMAIN S2[f],
                      S2[e][i] = S2[f][j]
               PROVE  e = f /\ i = j
    BY DEF Distinct
  <2>1. CASE e = h /\ f = h
    BY <1>8, <2>1 DEF Chained, Distinct
  <2>2. CASE e # h /\ f # h
    BY <1>8, <2>2 DEF Chained, Distinct
  <2>3. CASE e = h /\ f # h
    BY <1>8, <2>3 DEF Chained, Distinct
  <2>4. CASE e # h /\ f = h
    BY <1>8, <2>4 DEF Chained, Distinct
  <2> QED BY <2>1, <2>2, <2>3, <2>4
<1>10. ASSUME NEW f \in Heads PROVE On(c2, f, S2[f])
  <2>1. CASE f = g
    BY <1>6, <1>7, <2>1 DEF On, Follows, Nth
  <2>2. CASE f = h
    <3>1. c2.first[h] = Nth(s, 1)
      BY <1>2, <1>6
    <3>2. \A i \in DOMAIN s : c2.next[s[i]] = Nth(s, i + 1)
      BY <1>1, <1>6 DEF On, Follows
    <3>3. ASSUME NEW i \in DOMAIN s PROVE c2.pprev[s[i]] = Before(h, s, i)
      <4>1. CASE i = 1
        <5>1. s[i] = x
          BY <1>2, <4>1 DEF Nth
        <5> QED BY <1>1, <1>6, <4>1, <5>1 DEF Before
      <4>2. CASE i # 1
        <5>1. 1 \in DOMAIN s
          BY <1>1
        <5>2. s[i] # s[1]
          BY <4>2, <5>1 DEF Chained, Distinct
        <5>3. s[i] # x
          BY <1>2, <5>1, <5>2 DEF Nth
        <5>4. c2.pprev[s[i]] = c.pprev[s[i]]
          BY <1>1, <1>6, <5>3
        <5> QED BY <1>1, <4>2, <5>4 DEF On, Before
      <4> QED BY <4>1, <4>2
    <3> QED BY <1>7, <2>2, <3>1, <3>2, <3>3 DEF On, Follows
  <2>3. CASE f # g /\ f # h
    <3>1. On(c, f, S[f]) /\ S[f] \in Seq(Nodes) /\ S2[f] = S[f]
      BY <1>7, <2>3 DEF Chained
    <3>2. \A i \in DOMAIN S[f] : S[f][i] \in Nodes /\ S[f][i] # x
      <4> SUFFICES ASSUME NEW i \in DOMAIN S[f] PROVE S[f][i] \in Nodes /\ S[f][i] # x
        OBVIOUS
      <4>1. S[f][i] \in Nodes
        BY <3>1, LenProperties, ElementOfSeq
      <4>2. 1 \in DOMAIN s => S[f][i] # s[1]
        BY <2>3 DEF Chained, Distinct
      <4> QED BY <1>1, <1>2, <4>1, <4>2 DEF Nth
    <3>3. c2.first[f] = c.first[f]
      BY <1>6, <2>3
    <3>4. \A i \in DOMAIN S[f] : c2.pprev[S[f][i]] = c.pprev[S[f][i]]
      BY <1>6, <3>2
    <3> QED BY <1>6, <3>1, <3>3, <3>4 DEF On, Follows
  <2> QED BY <2>1, <2>2, <2>3
<1>11. ASSUME NEW n \in Nodes, ~IsIn(S2, n) PROVE c2.pprev[n] = NULL
  <2>1. \A i \in DOMAIN s : s[i] # n
    BY <1>7, <1>11 DEF IsIn
  <2>2. ~IsIn(S, n)
    <3> SUFFICES ASSUME NEW f \in Heads, NEW i \in DOMAIN S[f], S[f][i] = n PROVE FALSE
      BY DEF IsIn
    <3>1. f # g /\ f # h
      BY <2>1
    <3> QED BY <1>7, <1>11, <3>1 DEF IsIn
  <2>3. n # x
    BY <1>1, <1>2, <2>1 DEF Nth
  <2> QED BY <1>6, <2>2, <2>3 DEF Chained
<1> QED BY <1>6, <1>7, <1>9, <1>10, <1>11 DEF Chained, c2, c1, S2, x

HlistInv == Chained(chain, H!Seqs)

\* The sequences that are linked are those that a walk gives.
LEMMA ChainsAreWalked ==
  ASSUME H!ListAssumption, NEW c, NEW S, Chained(c, S)
  PROVE  [h \in Heads |-> H!Walk(c, h)] = S
<1>1. ASSUME NEW h \in Heads PROVE H!Walk(c, h) = S[h]
  <2>1. S[h] \in Seq(Nodes) /\ Follows(c, h, S[h])
    BY DEF Chained, On
  <2>2. \A i, j \in DOMAIN S[h] : S[h][i] = S[h][j] => i = j
    BY DEF Chained, Distinct
  <2>3. NULL \notin Nodes /\ IsFiniteSet(Nodes)
    BY DEF H!ListAssumption, H!IsFiniteSet, IsFiniteSet
  <2> QED BY <2>1, <2>2, <2>3, WalkFollows
<1> QED BY <1>1 DEF Chained

\* After a step the walk gives the sequences that are linked then.
LEMMA ChainsNext ==
  ASSUME H!ListAssumption, NEW S, Chained(chain', S)
  PROVE  HlistInv' /\ H!Seqs' = S
<1>1. H!Seqs' = [h \in Heads |-> H!Walk(chain', h)]
  BY DEF H!Seqs, H!Walk
<1>2. H!Seqs' = S
  BY <1>1, ChainsAreWalked
<1> QED BY <1>2 DEF HlistInv

\* Where an entry is.
LEMMA WhereIs ==
  ASSUME H!ListAssumption, HlistInv, NEW n \in Nodes
  PROVE  \/ ~IsIn(H!Seqs, n) /\ H!Unhashed(n) /\ n \notin H!Sequence!Linked /\ n \in H!Sequence!Idle
         \/ /\ ~H!Unhashed(n) /\ n \in H!Sequence!Linked /\ n \notin H!Sequence!Idle
            /\ IsIn(H!Seqs, n)
            /\ H!Sequence!Of(n) \in Heads
            /\ H!Sequence!Place(n) \in DOMAIN H!Seqs[H!Sequence!Of(n)]
            /\ H!Seqs[H!Sequence!Of(n)][H!Sequence!Place(n)] = n
<1> DEFINE S == H!Seqs
<1>1. n \in H!Sequence!Linked <=> IsIn(S, n)
  BY DEF H!Sequence!Linked, IsIn, H!Sequence!Range
<1>2. n \in H!Sequence!Idle <=> ~IsIn(S, n)
  BY <1>1 DEF H!Sequence!Idle
<1>3. ~IsIn(S, n) => H!Unhashed(n)
  BY DEF HlistInv, Chained, H!Unhashed
<1>4. ASSUME NEW h \in Heads, NEW k \in DOMAIN S[h], S[h][k] = n
      PROVE  ~H!Unhashed(n)
  <2>1. chain.pprev[n] = Before(h, S[h], k)
    BY <1>4 DEF HlistInv, Chained, On
  <2>2. S[h] \in Seq(Nodes)
    BY DEF HlistInv, Chained
  <2>3. k # 1 => S[h][k - 1] \in Nodes
    <3>1. k \in 1..Len(S[h]) /\ Len(S[h]) \in Nat
      BY <2>2, LenProperties
    <3>2. k # 1 => k - 1 \in 1..Len(S[h])
      BY <3>1
    <3> QED BY <2>2, <3>2, ElementOfSeq
  <2>4. Before(h, S[h], k) \in {"first", "next"} \X (Heads \cup Nodes)
    BY <2>3 DEF Before, H!First, H!After
  <2>5. Before(h, S[h], k) # NULL
    BY <2>4 DEF H!ListAssumption
  <2> QED BY <2>1, <2>5 DEF H!Unhashed
<1>5. ASSUME IsIn(S, n)
      PROVE  /\ H!Sequence!Of(n) \in Heads
             /\ H!Sequence!Place(n) \in DOMAIN S[H!Sequence!Of(n)]
             /\ S[H!Sequence!Of(n)][H!Sequence!Place(n)] = n
  <2>1. \E h \in Heads : n \in H!Sequence!Range(S[h])
    BY <1>5 DEF IsIn, H!Sequence!Range
  <2>2. H!Sequence!Of(n) \in Heads /\ n \in H!Sequence!Range(S[H!Sequence!Of(n)])
    BY <2>1 DEF H!Sequence!Of
  <2>3. \E i \in DOMAIN S[H!Sequence!Of(n)] : S[H!Sequence!Of(n)][i] = n
    BY <2>2 DEF H!Sequence!Range
  <2> QED BY <2>2, <2>3 DEF H!Sequence!Place
<1>6. IsIn(S, n) => ~H!Unhashed(n)
  BY <1>4 DEF IsIn
<1> QED BY <1>1, <1>2, <1>3, <1>5, <1>6

\* What stands at and before an entry of a sequence.
LEMMA LinksOf ==
  ASSUME HlistInv, NEW h \in Heads
  PROVE  /\ chain.first[h] = Nth(H!Seqs[h], 1) /\ Before(h, H!Seqs[h], 1) = H!First(h)
         /\ H!Seqs[h] \in Seq(Nodes)
         /\ \A k \in DOMAIN H!Seqs[h] :
              /\ chain.pprev[H!Seqs[h][k]] = Before(h, H!Seqs[h], k)
              /\ chain.next[H!Seqs[h][k]] = Nth(H!Seqs[h], k + 1)
              /\ Before(h, H!Seqs[h], k + 1) = H!After(H!Seqs[h][k])
              /\ k \in 1..Len(H!Seqs[h]) + 1 /\ k + 1 \in 1..Len(H!Seqs[h]) + 1
              /\ Nth(H!Seqs[h], k) = H!Seqs[h][k]
<1> DEFINE s == H!Seqs[h]
<1>1. On(chain, h, s) /\ s \in Seq(Nodes)
  BY DEF HlistInv, Chained
<1>2. \A k \in DOMAIN s : k \in 1..Len(s) /\ k \in 1..Len(s) + 1 /\ k + 1 \in 1..Len(s) + 1 /\ k + 1 # 1 /\ (k + 1) - 1 = k
  BY <1>1, LenProperties
<1> HIDE DEF s
<1>3. Before(h, s, 1) = H!First(h)
  BY DEF Before
<1>4. \A k \in DOMAIN s : Before(h, s, k + 1) = H!After(s[k])
  BY <1>2 DEF Before
<1> QED BY <1>1, <1>2, <1>3, <1>4 DEF On, Follows, Nth, s

\* hlist_del takes the element out of its sequence.
LEMMA HDelStep ==
  ASSUME H!ListAssumption, HlistInv, NEW n \in Nodes, H!hlist_del(n)
  PROVE  HlistInv' /\ H!Sequence!Delete(n)
<1> DEFINE S == H!Seqs
           h == H!Sequence!Of(n)
           k == H!Sequence!Place(n)
<1>1. h \in Heads /\ k \in DOMAIN S[h] /\ S[h][k] = n /\ n \in H!Sequence!Linked
  BY WhereIs DEF H!hlist_del
<1>2. /\ chain' = [H!Unlinked(chain, n) EXCEPT !.next[n] = NULL, !.pprev[n] = NULL]
      /\ told' = <<"del">> \o <<n>>
  BY DEF H!hlist_del, H!Does
<1> HIDE DEF h, k
<1>3. Chained(chain', [S EXCEPT ![h] = RemoveAt(S[h], k)])
  <2>1. Chained([H!Unlinked(chain, S[h][k]) EXCEPT !.next[S[h][k]] = NULL, !.pprev[S[h][k]] = NULL],
                [S EXCEPT ![h] = RemoveAt(S[h], k)])
    BY <1>1, Deleted DEF HlistInv
  <2> QED BY <1>1, <1>2, <2>1
<1>4. HlistInv' /\ H!Seqs' = [S EXCEPT ![h] = RemoveAt(S[h], k)]
  BY <1>3, ChainsNext
<1>5. H!Sequence!Less(n) = [S EXCEPT ![h] = RemoveAt(S[h], k)]
  BY DEF H!Sequence!Less, H!Sequence!RemoveAt, RemoveAt, h, k
<1> QED BY <1>1, <1>2, <1>4, <1>5 DEF H!Sequence!Delete, H!Sequence!Say

\* A call that leaves the lists alone.
LEMMA HStays ==
  ASSUME HlistInv, chain' = chain
  PROVE  HlistInv' /\ H!Seqs' = H!Seqs
<1>1. H!Seqs' = H!Seqs
  BY DEF H!Seqs, H!Walk
<1> QED BY <1>1 DEF HlistInv

\* hlist_del_init takes the element out, and leaves one in no list alone.
LEMMA HDelInitStep ==
  ASSUME H!ListAssumption, HlistInv, NEW n \in Nodes, H!hlist_del_init(n)
  PROVE  HlistInv' /\ H!Sequence!Delete(n)
<1>1. CASE H!hlist_del(n)
  BY <1>1, HDelStep
<1>2. CASE H!Unhashed(n) /\ H!Does(chain, "del", <<n>>)
  <2>1. n \notin H!Sequence!Linked
    BY <1>2, WhereIs
  <2>2. chain' = chain /\ told' = <<"del">> \o <<n>>
    BY <1>2 DEF H!Does
  <2>3. HlistInv' /\ H!Seqs' = H!Seqs
    BY <2>2, HStays
  <2> QED BY <2>1, <2>2, <2>3 DEF H!Sequence!Delete, H!Sequence!Say
<1> QED BY <1>1, <1>2 DEF H!hlist_del_init

\* Inserting as the first element is prepending.
LEMMA PutFirst ==
  ASSUME NEW s \in Seq(Nodes), NEW n \in Nodes
  PROVE  InsertAt(s, 1, n) = <<n>> \o s
<1> DEFINE s2 == InsertAt(s, 1, n)
           t  == <<n>> \o s
<1>1. Len(s) \in Nat /\ <<n>> \in Seq(Nodes) /\ Len(<<n>>) = 1 /\ <<n>>[1] = n
  BY LenProperties
<1>2. /\ s2 \in Seq(Nodes) /\ Len(s2) = Len(s) + 1
      /\ \A i \in 1..(Len(s) + 1) : s2[i] = IF i < 1 THEN s[i] ELSE IF i = 1 THEN n ELSE s[i - 1]
  <2>1. 1 \in 1..(Len(s) + 1)
    BY <1>1
  <2> QED BY <2>1, InsertAtProperties
<1>3. /\ t \in Seq(Nodes) /\ Len(t) = 1 + Len(s)
      /\ \A i \in 1..(1 + Len(s)) : t[i] = IF i <= 1 THEN <<n>>[i] ELSE s[i - 1]
  BY <1>1, ConcatProperties
<1> HIDE DEF s2, t
<1>4. \A i \in 1..Len(s) + 1 : s2[i] = t[i]
  BY <1>1, <1>2, <1>3
<1>5. s2 = t
  BY <1>1, <1>2, <1>3, <1>4, SeqEqual
<1> QED BY <1>5 DEF s2, t

\* hlist_add_head puts the element before all others.
LEMMA HAddHeadStep ==
  ASSUME H!ListAssumption, HlistInv, NEW n \in Nodes, NEW h \in Heads, H!hlist_add_head(n, h)
  PROVE  HlistInv' /\ H!Sequence!Add(n, h)
<1> DEFINE S == H!Seqs
<1>1. ~IsIn(S, n) /\ n \in H!Sequence!Idle
  BY WhereIs DEF H!hlist_add_head
<1>2. /\ chain' = H!Place(H!Place(chain, H!After(n), chain.first[h]), H!First(h), n)
      /\ told' = <<"add">> \o <<n, h>>
  BY DEF H!hlist_add_head, H!Does
<1>3. /\ chain.first[h] = Nth(S[h], 1) /\ Before(h, S[h], 1) = H!First(h)
      /\ S[h] \in Seq(Nodes) /\ 1 \in 1..Len(S[h]) + 1
  BY LinksOf, LenProperties
<1>4. Chained(chain', [S EXCEPT ![h] = InsertAt(S[h], 1, n)])
  <2>1. Chained(H!Place(H!Place(chain, H!After(n), Nth(S[h], 1)), Before(h, S[h], 1), n),
                [S EXCEPT ![h] = InsertAt(S[h], 1, n)])
    BY <1>1, <1>3, Inserted DEF HlistInv
  <2> QED BY <1>2, <1>3, <2>1
<1>5. InsertAt(S[h], 1, n) = <<n>> \o S[h]
  BY <1>3, PutFirst
<1>6. HlistInv' /\ H!Seqs' = [S EXCEPT ![h] = <<n>> \o S[h]]
  BY <1>4, <1>5, ChainsNext
<1> QED BY <1>1, <1>2, <1>6 DEF H!Sequence!Add, H!Sequence!Say

\* hlist_add_before puts the element before the given one.
LEMMA HAddBeforeStep ==
  ASSUME H!ListAssumption, HlistInv, NEW n \in Nodes, NEW next \in Nodes, H!hlist_add_before(n, next)
  PROVE  HlistInv' /\ H!Sequence!InsertBefore(n, next)
<1> DEFINE S == H!Seqs
           h == H!Sequence!Of(next)
           k == H!Sequence!Place(next)
<1>1. ~IsIn(S, n) /\ n \in H!Sequence!Idle
  BY WhereIs DEF H!hlist_add_before
<1>2. h \in Heads /\ k \in DOMAIN S[h] /\ S[h][k] = next /\ next \in H!Sequence!Linked
  BY WhereIs DEF H!hlist_add_before
<1>3. /\ chain' = H!Place(H!Place(chain, H!After(n), next), chain.pprev[next], n)
      /\ told' = <<"add_before">> \o <<n, next>>
  BY DEF H!hlist_add_before, H!Does
<1> HIDE DEF h, k
<1>4. Nth(S[h], k) = next /\ chain.pprev[next] = Before(h, S[h], k) /\ k \in 1..Len(S[h]) + 1
  BY <1>2, LinksOf
<1>5. Chained(chain', [S EXCEPT ![h] = InsertAt(S[h], k, n)])
  <2>1. Chained(H!Place(H!Place(chain, H!After(n), Nth(S[h], k)), Before(h, S[h], k), n),
                [S EXCEPT ![h] = InsertAt(S[h], k, n)])
    BY <1>1, <1>2, <1>4, Inserted DEF HlistInv
  <2> QED BY <1>3, <1>4, <2>1
<1>6. HlistInv' /\ H!Seqs' = [S EXCEPT ![h] = InsertAt(S[h], k, n)]
  BY <1>5, ChainsNext
<1>7. H!Seqs' = [S EXCEPT ![h] = H!Sequence!InsertAt(@, k, n)]
  BY <1>6 DEF H!Sequence!InsertAt, InsertAt
<1> QED BY <1>1, <1>2, <1>3, <1>6, <1>7 DEF H!Sequence!InsertBefore, H!Sequence!Say, h, k

\* hlist_add_after puts the element behind the given one.
LEMMA HAddAfterStep ==
  ASSUME H!ListAssumption, HlistInv, NEW n \in Nodes, NEW next \in Nodes, H!hlist_add_after(n, next)
  PROVE  HlistInv' /\ H!Sequence!InsertAfter(n, next)
<1> DEFINE S == H!Seqs
           h == H!Sequence!Of(n)
           k == H!Sequence!Place(n)
<1>1. ~IsIn(S, next) /\ next \in H!Sequence!Idle
  BY WhereIs DEF H!hlist_add_after
<1>2. h \in Heads /\ k \in DOMAIN S[h] /\ S[h][k] = n /\ n \in H!Sequence!Linked
  BY WhereIs DEF H!hlist_add_after
<1>3. /\ chain' = H!Place(H!Place(chain, H!After(next), chain.next[n]), H!After(n), next)
      /\ told' = <<"add_after">> \o <<n, next>>
  BY DEF H!hlist_add_after, H!Does
<1> HIDE DEF h, k
<1>4. Nth(S[h], k + 1) = chain.next[n] /\ H!After(n) = Before(h, S[h], k + 1) /\ k + 1 \in 1..Len(S[h]) + 1
  BY <1>2, LinksOf
<1>5. Chained(chain', [S EXCEPT ![h] = InsertAt(S[h], k + 1, next)])
  <2>1. Chained(H!Place(H!Place(chain, H!After(next), Nth(S[h], k + 1)), Before(h, S[h], k + 1), next),
                [S EXCEPT ![h] = InsertAt(S[h], k + 1, next)])
    BY <1>1, <1>2, <1>4, Inserted DEF HlistInv
  <2> QED BY <1>3, <1>4, <2>1
<1>6. HlistInv' /\ H!Seqs' = [S EXCEPT ![h] = InsertAt(S[h], k + 1, next)]
  BY <1>5, ChainsNext
<1>7. H!Seqs' = [S EXCEPT ![h] = H!Sequence!InsertAt(@, k + 1, next)]
  BY <1>6 DEF H!Sequence!InsertAt, InsertAt
<1> QED BY <1>1, <1>2, <1>3, <1>6, <1>7 DEF H!Sequence!InsertAfter, H!Sequence!Say, h, k

\* A head without entries points nowhere.
LEMMA EmptyIs ==
  ASSUME H!ListAssumption, HlistInv, NEW h \in Heads
  PROVE  chain.first[h] = NULL <=> H!Seqs[h] = <<>>
<1> DEFINE s == H!Seqs[h]
<1>1. chain.first[h] = Nth(s, 1) /\ s \in Seq(Nodes)
  BY LinksOf
<1> HIDE DEF s
<1>2. /\ DOMAIN s = 1..Len(s) /\ Len(s) \in Nat
      /\ \A i \in DOMAIN s : s[i] # NULL
      /\ Len(s) = 0 => s = <<>>
  BY <1>1, LenProperties, ElementOfSeq, EmptySeq DEF H!ListAssumption
<1>3. 1 \in DOMAIN s <=> s # <<>>
  BY <1>2
<1> QED BY <1>1, <1>2, <1>3 DEF Nth, s

\* hlist_move_list hands a whole sequence to another head.
LEMMA HMoveStep ==
  ASSUME H!ListAssumption, HlistInv, NEW old \in Heads, NEW new \in Heads, H!hlist_move_list(old, new)
  PROVE  HlistInv' /\ H!Sequence!Splice(old, new)
<1> DEFINE S == H!Seqs
<1>1. /\ old # new /\ chain.first[new] = NULL
      /\ chain' = H!Store(H!Place(chain, H!First(new), chain.first[old]), H!First(old), NULL)
      /\ told' = <<"splice">> \o <<old, new>>
  BY DEF H!hlist_move_list, H!Does
<1>2. S[new] = <<>>
  BY <1>1, EmptyIs
<1>3. Chained(chain', [S EXCEPT ![old] = <<>>, ![new] = S[old]])
  BY <1>1, <1>2, Moved DEF HlistInv
<1>4. HlistInv' /\ H!Seqs' = [S EXCEPT ![old] = <<>>, ![new] = S[old]]
  BY <1>3, ChainsNext
<1>5. S[old] \o S[new] = S[old] /\ S \in [Heads -> Seq(Nodes)]
  <2>1. S[old] \in Seq(Nodes) /\ S \in [Heads -> Seq(Nodes)]
    BY DEF HlistInv, Chained
  <2> QED BY <1>2, <2>1, ConcatEmptySeq
<1>6. [S EXCEPT ![old] = <<>>, ![new] = S[old] \o @] = [S EXCEPT ![old] = <<>>, ![new] = S[old]]
  <2> HIDE DEF S
  <2> QED BY <1>1, <1>5
<1> QED BY <1>1, <1>4, <1>6 DEF H!Sequence!Splice, H!Sequence!Say

\* Asking changes nothing, and the answer is the sequences'.
LEMMA HEmptyStep ==
  ASSUME H!ListAssumption, HlistInv, NEW h \in Heads, H!hlist_empty(h)
  PROVE  HlistInv' /\ H!Sequence!Ask(h)
<1> DEFINE answer == chain.first[h] = NULL
<1>1. chain' = chain /\ told' = <<"empty">> \o <<h, answer>>
  BY DEF H!hlist_empty, H!Does
<1>2. answer \in BOOLEAN /\ (answer <=> H!Seqs[h] = <<>>)
  BY EmptyIs
<1> HIDE DEF answer
<1>3. HlistInv' /\ H!Seqs' = H!Seqs
  BY <1>1, HStays
<1>4. answer = (H!Seqs[h] = <<>>)
  BY <1>2
<1>5. \E a \in BOOLEAN : told' = <<"empty">> \o <<h, a>> /\ a = (H!Seqs[h] = <<>>)
  BY <1>1, <1>2, <1>4
<1> QED BY <1>3, <1>5 DEF H!Sequence!Ask, H!Sequence!Say

\* hlist_unhashed tells whether the element is in a list.
LEMMA HUnhashedStep ==
  ASSUME H!ListAssumption, HlistInv, NEW n \in Nodes, H!hlist_unhashed(n)
  PROVE  HlistInv' /\ H!Sequence!AskUnhashed(n)
<1> DEFINE answer == H!Unhashed(n)
           idle == n \in H!Sequence!Idle
<1>1. chain' = chain /\ told' = <<"unhashed">> \o <<n, answer>>
  BY DEF H!hlist_unhashed, H!Does
<1>2. answer \in BOOLEAN /\ (answer <=> idle) /\ idle \in BOOLEAN
  BY WhereIs DEF H!Unhashed
<1>3. HlistInv' /\ H!Seqs' = H!Seqs
  BY <1>1, HStays
<1> HIDE DEF answer, idle
<1>4. answer = idle
  BY <1>2
<1>5. \E a \in BOOLEAN : told' = <<"unhashed">> \o <<n, a>> /\ a = idle
  BY <1>1, <1>2, <1>4
<1> QED BY <1>3, <1>5 DEF H!Sequence!AskUnhashed, H!Sequence!Say, idle

\* INIT_HLIST_HEAD and INIT_HLIST_NODE: empty sequences, and elements in none.
LEMMA HInit ==
  ASSUME H!ListAssumption, H!Init
  PROVE  HlistInv /\ H!Sequence!Init
<1> DEFINE S == [h \in Heads |-> <<>>]
<1>1. /\ chain = [first |-> [h \in Heads |-> NULL], next |-> [n \in Nodes |-> NULL],
                  pprev |-> [n \in Nodes |-> NULL]]
      /\ told = <<"none">>
  BY DEF H!Init
<1>2. Chained(chain, S)
  <2>1. <<>> \in Seq(Nodes) /\ DOMAIN <<>> = {}
    BY EmptySeq, LenProperties
  <2>2. S \in [Heads -> Seq(Nodes)] /\ \A h \in Heads : S[h] = <<>>
    BY <2>1
  <2>3. Shape(chain)
    BY <1>1 DEF Shape
  <2> HIDE DEF S
  <2>4. Distinct(S) /\ \A h \in Heads : On(chain, h, S[h])
    BY <1>1, <2>1, <2>2 DEF Distinct, On, Follows, Nth
  <2> QED BY <1>1, <2>2, <2>3, <2>4 DEF Chained
<1>3. H!Seqs = S
  <2>1. [h \in Heads |-> H!Walk(chain, h)] = S
    <3> HIDE DEF S
    <3> QED BY <1>2, ChainsAreWalked
  <2> QED BY <2>1 DEF H!Seqs
<1> QED BY <1>1, <1>2, <1>3 DEF HlistInv, H!Sequence!Init

\* The refinement step: every macro and function is the operation it stands for.
LEMMA HlistStep ==
  ASSUME H!ListAssumption, HlistInv, [H!Next]_(H!vars)
  PROVE  HlistInv' /\ [H!Sequence!Next]_(H!Sequence!vars)
<1>1. CASE UNCHANGED H!vars
  <2>1. chain' = chain /\ told' = told
    BY <1>1 DEF H!vars
  <2> QED BY <2>1, HStays DEF H!Sequence!vars
<1>2. ASSUME NEW n \in Nodes, H!hlist_del(n) \/ H!hlist_del_init(n) \/ H!hlist_unhashed(n)
      PROVE  HlistInv' /\ H!Sequence!Next
  <2>1. HlistInv' /\ (H!Sequence!Delete(n) \/ H!Sequence!AskUnhashed(n))
    BY <1>2, HDelStep, HDelInitStep, HUnhashedStep
  <2> QED BY <2>1 DEF H!Sequence!Next
<1>3. ASSUME NEW n \in Nodes, NEW h \in Heads, H!hlist_add_head(n, h)
      PROVE  HlistInv' /\ H!Sequence!Next
  <2>1. HlistInv' /\ H!Sequence!Add(n, h)
    BY <1>3, HAddHeadStep
  <2> QED BY <2>1 DEF H!Sequence!Next
<1>4. ASSUME NEW m \in Nodes, NEW n \in Nodes, H!hlist_add_before(m, n) \/ H!hlist_add_after(m, n)
      PROVE  HlistInv' /\ H!Sequence!Next
  <2>1. HlistInv' /\ (H!Sequence!InsertBefore(m, n) \/ H!Sequence!InsertAfter(m, n))
    BY <1>4, HAddBeforeStep, HAddAfterStep
  <2> QED BY <2>1 DEF H!Sequence!Next
<1>5. ASSUME NEW g \in Heads, NEW h \in Heads, H!hlist_move_list(g, h)
      PROVE  HlistInv' /\ H!Sequence!Next
  <2>1. HlistInv' /\ H!Sequence!Splice(g, h)
    BY <1>5, HMoveStep
  <2> QED BY <2>1 DEF H!Sequence!Next
<1>6. ASSUME NEW h \in Heads, H!hlist_empty(h)
      PROVE  HlistInv' /\ H!Sequence!Next
  <2>1. HlistInv' /\ H!Sequence!Ask(h)
    BY <1>6, HEmptyStep
  <2> QED BY <2>1 DEF H!Sequence!Next
<1> QED BY <1>1, <1>2, <1>3, <1>4, <1>5, <1>6 DEF H!Next

\* The chains of the hash lists are the sequences that the calls make of them.
THEOREM HlistImplementsSequences ==
  ASSUME H!ListAssumption
  PROVE  H!Spec => H!ListsAreSequences
<1>1. H!Init => HlistInv /\ H!Sequence!Init
  BY HInit
<1>2. HlistInv /\ [H!Next]_(H!vars) => HlistInv' /\ [H!Sequence!Next]_(H!Sequence!vars)
  BY HlistStep
<1> QED BY <1>1, <1>2, PTL DEF H!Spec, H!ListsAreSequences, H!Sequence!Spec

----------------------------------------------------------------------------
(* The lists with rings of pointers (list in spe_list.h)                   *)

\* Around the ring of a head: its entries, and the head before the first and behind the last.
El(h, s, i) == IF i \in DOMAIN s THEN s[i] ELSE h
Members(h, s) == {h} \cup {s[i] : i \in DOMAIN s}
Ring(r, h, s) ==
  \A i \in 0..Len(s) : /\ r.next[El(h, s, i)] = El(h, s, i + 1)
                       /\ r.prev[El(h, s, i + 1)] = El(h, s, i)
RingShape(r) == DOMAIN r = {"next", "prev"} /\ DOMAIN r.next = L!All /\ DOMAIN r.prev = L!All
Alone(r, n) == r.next[n] = NULL \/ (r.next[n] = n /\ r.prev[n] = n)
HeadOK(r, h, s, X) == Ring(r, h, s) \/ (s = <<>> /\ (h \in X \/ r.next[h] = NULL))

\* Each head is in a ring with its sequence or is not to be used, the other entries
\* are alone; of those in X nothing is said.
Ringed(r, S, X) ==
  /\ RingShape(r) /\ S \in [Heads -> Seq(Nodes)] /\ Distinct(S)
  /\ \A h \in Heads : HeadOK(r, h, S[h], X)
  /\ \A n \in Nodes : ~IsIn(S, n) /\ n \notin X => Alone(r, n)

\* The elements of a ring are different ones.
LEMMA AroundIs ==
  ASSUME L!ListAssumption, NEW h \in Heads, NEW s \in Seq(Nodes), \A i, j \in DOMAIN s : s[i] = s[j] => i = j
  PROVE  /\ Len(s) \in Nat /\ DOMAIN s = 1..Len(s)
         /\ El(h, s, 0) = h /\ El(h, s, Len(s) + 1) = h
         /\ \A i \in 1..Len(s) : El(h, s, i) = s[i] /\ s[i] \in Nodes /\ s[i] # h
         /\ \A i \in Int : El(h, s, i) \in Members(h, s) /\ El(h, s, i) \in L!All
         /\ \A i, j \in 0..Len(s) : El(h, s, i) = El(h, s, j) => i = j
         /\ \A i, j \in 1..Len(s) + 1 : El(h, s, i) = El(h, s, j) => i = j
         /\ Members(h, s) \subseteq L!All
<1>1. Len(s) \in Nat /\ DOMAIN s = 1..Len(s) /\ \A i \in 1..Len(s) : s[i] \in Nodes
  BY LenProperties, ElementOfSeq
<1>2. h \notin Nodes
  BY DEF L!ListAssumption
<1>3. El(h, s, 0) = h /\ El(h, s, Len(s) + 1) = h
  BY <1>1 DEF El
<1>4. \A i \in 1..Len(s) : El(h, s, i) = s[i] /\ s[i] \in Nodes /\ s[i] # h
  BY <1>1, <1>2 DEF El
<1>5. \A i \in Int : El(h, s, i) \in Members(h, s) /\ El(h, s, i) \in L!All
  BY <1>1 DEF El, Members, L!All
<1>6. Members(h, s) \subseteq L!All
  BY <1>1 DEF Members, L!All
<1>7. ASSUME NEW i \in 0..Len(s), NEW j \in 0..Len(s), El(h, s, i) = El(h, s, j)
      PROVE  i = j
  <2>1. CASE i = 0 /\ j # 0
    <3>1. j \in 1..Len(s)
      BY <1>1, <2>1
    <3> QED BY <1>3, <1>4, <1>7, <2>1, <3>1
  <2>2. CASE i # 0 /\ j = 0
    <3>1. i \in 1..Len(s)
      BY <1>1, <2>2
    <3> QED BY <1>3, <1>4, <1>7, <2>2, <3>1
  <2>3. CASE i # 0 /\ j # 0
    <3>1. i \in 1..Len(s) /\ j \in 1..Len(s)
      BY <1>1, <2>3
    <3> QED BY <1>1, <1>4, <1>7, <3>1
  <2> QED BY <2>1, <2>2, <2>3
<1>8. ASSUME NEW i \in 1..Len(s) + 1, NEW j \in 1..Len(s) + 1, El(h, s, i) = El(h, s, j)
      PROVE  i = j
  <2>1. CASE i = Len(s) + 1 /\ j # Len(s) + 1
    <3>1. j \in 1..Len(s)
      BY <1>1, <2>1
    <3> QED BY <1>3, <1>4, <1>8, <2>1, <3>1
  <2>2. CASE i # Len(s) + 1 /\ j = Len(s) + 1
    <3>1. i \in 1..Len(s)
      BY <1>1, <2>2
    <3> QED BY <1>3, <1>4, <1>8, <2>2, <3>1
  <2>3. CASE i # Len(s) + 1 /\ j # Len(s) + 1
    <3>1. i \in 1..Len(s) /\ j \in 1..Len(s)
      BY <1>1, <2>3
    <3> QED BY <1>1, <1>4, <1>8, <3>1
  <2> QED BY <2>1, <2>2, <2>3
<1> QED BY <1>1, <1>3, <1>4, <1>5, <1>6, <1>7, <1>8

\* The two stores that make two elements neighbours.
LEMMA LinkIs ==
  ASSUME NEW r, RingShape(r), NEW a \in L!All, NEW b \in L!All
  PROVE  /\ RingShape(L!Link(r, a, b))
         /\ \A e \in L!All : /\ L!Link(r, a, b).next[e] = IF e = a THEN b ELSE r.next[e]
                             /\ L!Link(r, a, b).prev[e] = IF e = b THEN a ELSE r.prev[e]
<1>1. L!Link(r, a, b) = [r EXCEPT !.next[a] = b, !.prev[b] = a]
  BY DEF L!Link
<1> DEFINE q == [r EXCEPT !.next[a] = b, !.prev[b] = a]
<1>2. DOMAIN q = DOMAIN r
  OBVIOUS
<1>3. q.next = [r.next EXCEPT ![a] = b] /\ q.prev = [r.prev EXCEPT ![b] = a]
  BY DEF RingShape
<1> HIDE DEF q
<1>4. RingShape(q) /\ \A e \in L!All : /\ q.next[e] = IF e = a THEN b ELSE r.next[e]
                                       /\ q.prev[e] = IF e = b THEN a ELSE r.prev[e]
  BY <1>2, <1>3 DEF RingShape
<1> QED BY <1>1, <1>4 DEF q

\* Both pointers of an element get one value.
Written(r, e, v, q) ==
  /\ RingShape(q)
  /\ \A x \in L!All : /\ q.next[x] = IF x = e THEN v ELSE r.next[x]
                      /\ q.prev[x] = IF x = e THEN v ELSE r.prev[x]

\* INIT_LIST_HEAD and the reset of list_del write the two pointers of one entry.
LEMMA SetIs ==
  ASSUME NEW r, RingShape(r), NEW e \in L!All
  PROVE  Written(r, e, NULL, L!Forget(r, e)) /\ Written(r, e, e, L!INIT_LIST_HEAD(r, e))
<1>1. ASSUME NEW v
      PROVE  Written(r, e, v, [r EXCEPT !.next[e] = v, !.prev[e] = v])
  <2> DEFINE q == [r EXCEPT !.next[e] = v, !.prev[e] = v]
  <2>1. DOMAIN q = DOMAIN r
    OBVIOUS
  <2>2. q.next = [r.next EXCEPT ![e] = v] /\ q.prev = [r.prev EXCEPT ![e] = v]
    BY DEF RingShape
  <2> HIDE DEF q
  <2>3. Written(r, e, v, q)
    BY <2>1, <2>2 DEF RingShape, Written
  <2> QED BY <2>3 DEF q
<1> QED BY <1>1 DEF L!Forget, L!INIT_LIST_HEAD

\* What holds of one ring holds as long as its elements are left alone.
LEMMA RingKept ==
  ASSUME L!ListAssumption, NEW h \in Heads, NEW s \in Seq(Nodes),
         \A i, j \in DOMAIN s : s[i] = s[j] => i = j,
         NEW r, NEW q, Ring(r, h, s),
         \A e \in Members(h, s) : q.next[e] = r.next[e] /\ q.prev[e] = r.prev[e]
  PROVE  Ring(q, h, s)
<1>1. Len(s) \in Nat /\ \A i \in Int : El(h, s, i) \in Members(h, s)
  BY AroundIs
<1> SUFFICES ASSUME NEW i \in 0..Len(s)
             PROVE  /\ q.next[El(h, s, i)] = El(h, s, i + 1)
                    /\ q.prev[El(h, s, i + 1)] = El(h, s, i)
  BY DEF Ring
<1>2. El(h, s, i) \in Members(h, s) /\ El(h, s, i + 1) \in Members(h, s)
  BY <1>1
<1> QED BY <1>2 DEF Ring

\* From r to q the rings of the heads in G change and only elements in T are written.
Rewired(r, S, X, q, Q, Y, G, T) ==
  /\ RingShape(q) /\ Q \in [Heads -> Seq(Nodes)] /\ Distinct(Q)
  /\ \A g \in Heads \ G : Q[g] = S[g] /\ Members(g, S[g]) \cap T = {}
  /\ \A g \in G : HeadOK(q, g, Q[g], Y)
  /\ \A e \in L!All \ T : q.next[e] = r.next[e] /\ q.prev[e] = r.prev[e]
  /\ \A n \in Nodes \cap T : IsIn(Q, n) \/ n \in Y \/ Alone(q, n)
  /\ \A n \in Nodes \ T : IsIn(S, n) => IsIn(Q, n)
  /\ X \subseteq Y \cup T

\* When the heads in G get new rings, disjoint from the others, and the elements in T
\* change, the rest is kept.
LEMMA RewiredIs ==
  ASSUME L!ListAssumption, NEW r, NEW S, NEW X, Ringed(r, S, X), NEW q, NEW Q, NEW Y,
         NEW G, NEW T, Rewired(r, S, X, q, Q, Y, G, T)
  PROVE  Ringed(q, Q, Y)
<1>1. ASSUME NEW g \in Heads
      PROVE  HeadOK(q, g, Q[g], Y)
  <2>1. CASE g \in G
    BY <2>1 DEF Rewired
  <2>2. CASE g \notin G
    <3>1. Q[g] = S[g] /\ Members(g, S[g]) \cap T = {} /\ HeadOK(r, g, S[g], X)
      BY <2>2 DEF Rewired, Ringed
    <3>2. S[g] \in Seq(Nodes) /\ \A i, j \in DOMAIN S[g] : S[g][i] = S[g][j] => i = j
      BY DEF Ringed, Distinct
    <3>3. Members(g, S[g]) \subseteq L!All /\ g \in Members(g, S[g])
      BY <3>2, AroundIs DEF Members
    <3>4. \A e \in Members(g, S[g]) : q.next[e] = r.next[e] /\ q.prev[e] = r.prev[e]
      BY <3>1, <3>3 DEF Rewired
    <3>5. CASE Ring(r, g, S[g])
      BY <3>1, <3>2, <3>4, <3>5, RingKept DEF HeadOK
    <3>6. CASE S[g] = <<>> /\ (g \in X \/ r.next[g] = NULL)
      BY <3>1, <3>3, <3>4, <3>6 DEF HeadOK, Rewired
    <3> QED BY <3>1, <3>5, <3>6 DEF HeadOK
  <2> QED BY <2>1, <2>2
<1>2. ASSUME NEW n \in Nodes, ~IsIn(Q, n), n \notin Y
      PROVE  Alone(q, n)
  <2>1. CASE n \in T
    BY <1>2, <2>1 DEF Rewired
  <2>2. CASE n \notin T
    <3>1. n \notin X /\ ~IsIn(S, n)
      BY <1>2, <2>2 DEF Rewired
    <3>2. q.next[n] = r.next[n] /\ q.prev[n] = r.prev[n]
      BY <2>2 DEF Rewired, L!All
    <3> QED BY <3>1, <3>2 DEF Ringed, Alone
  <2> QED BY <2>1, <2>2
<1> QED BY <1>1, <1>2 DEF Ringed, Rewired

\* Replacing one sequence by one of its own or free elements keeps all distinct.
LEMMA DistinctOne ==
  ASSUME NEW S \in [Heads -> Seq(Nodes)], Distinct(S), NEW h \in Heads, NEW s,
         \A i, j \in DOMAIN s : s[i] = s[j] => i = j,
         \A g \in Heads \ {h} : \A j \in DOMAIN S[g], i \in DOMAIN s : S[g][j] # s[i]
  PROVE  Distinct([S EXCEPT ![h] = s])
<1> DEFINE Q == [S EXCEPT ![h] = s]
<1>1. Q[h] = s /\ \A g \in Heads \ {h} : Q[g] = S[g]
  OBVIOUS
<1> HIDE DEF Q
<1> SUFFICES ASSUME NEW f \in Heads, NEW g \in Heads, NEW i \in DOMAIN Q[f], NEW j \in DOMAIN Q[g],
                    Q[f][i] = Q[g][j]
             PROVE  f = g /\ i = j
  BY DEF Distinct, Q
<1>2. CASE f = h /\ g = h
  BY <1>1, <1>2
<1>3. CASE f = h /\ g # h
  <2>1. i \in DOMAIN s /\ j \in DOMAIN S[g] /\ s[i] = S[g][j]
    BY <1>1, <1>3
  <2> QED BY <1>3, <2>1
<1>4. CASE f # h /\ g = h
  <2>1. j \in DOMAIN s /\ i \in DOMAIN S[f] /\ s[j] = S[f][i]
    BY <1>1, <1>4
  <2> QED BY <1>4, <2>1
<1>5. CASE f # h /\ g # h
  <2>1. i \in DOMAIN S[f] /\ j \in DOMAIN S[g] /\ S[f][i] = S[g][j]
    BY <1>1, <1>5
  <2> QED BY <2>1 DEF Distinct
<1> QED BY <1>2, <1>3, <1>4, <1>5

\* Different rings have no element in common, and an entry that is in no list is in none of them.
LEMMA Apart ==
  ASSUME L!ListAssumption, NEW S \in [Heads -> Seq(Nodes)], Distinct(S), NEW h \in Heads
  PROVE  /\ \A g \in Heads \ {h} : Members(g, S[g]) \cap Members(h, S[h]) = {}
         /\ \A n \in Nodes : ~IsIn(S, n) => n \notin Members(h, S[h])
         /\ \A n \in Nodes : n \in Members(h, S[h]) => IsIn(S, n)
<1>1. \A g \in Heads : \A i \in DOMAIN S[g] : S[g][i] \in Nodes
  BY ElementOfSeq, LenProperties
<1>2. Heads \cap Nodes = {}
  BY DEF L!ListAssumption
<1>3. ASSUME NEW g \in Heads \ {h}, NEW x, x \in Members(g, S[g]), x \in Members(h, S[h])
      PROVE  FALSE
  <2>1. x = g \/ \E i \in DOMAIN S[g] : x = S[g][i]
    BY <1>3 DEF Members
  <2>2. x = h \/ \E i \in DOMAIN S[h] : x = S[h][i]
    BY <1>3 DEF Members
  <2>3. CASE x = g \/ x = h
    BY <1>1, <1>2, <2>1, <2>2, <2>3
  <2>4. CASE x # g /\ x # h
    <3>1. PICK i \in DOMAIN S[g] : x = S[g][i]
      BY <2>1, <2>4
    <3>2. PICK j \in DOMAIN S[h] : x = S[h][j]
      BY <2>2, <2>4
    <3> QED BY <3>1, <3>2, ZenonT(20) DEF Distinct
  <2> QED BY <2>3, <2>4
<1>4. \A n \in Nodes : n \in Members(h, S[h]) => IsIn(S, n)
  BY <1>2 DEF Members, IsIn
<1> QED BY <1>3, <1>4

\* From r to q the ring of h becomes that of s, with entries from New and those it had.
OneRing(r, S, X, h, s, q, Y, New) ==
  /\ RingShape(q) /\ s \in Seq(Nodes) /\ Ring(q, h, s)
  /\ \A i, j \in DOMAIN s : s[i] = s[j] => i = j
  /\ \A e \in L!All \ (Members(h, S[h]) \cup New) : q.next[e] = r.next[e] /\ q.prev[e] = r.prev[e]
  /\ Members(h, s) \subseteq Members(h, S[h]) \cup New
  /\ Members(h, S[h]) \cup New \subseteq Members(h, s) \cup Y
  /\ New \subseteq Nodes /\ \A n \in New : ~IsIn(S, n)
  /\ X \subseteq Y \cup New

\* A step that rewrites the ring of one head leaves the other rings as they are.
LEMMA OneRingIs ==
  ASSUME L!ListAssumption, NEW r, NEW S, NEW X, Ringed(r, S, X), NEW h \in Heads,
         NEW s, NEW q, NEW Y, NEW New, OneRing(r, S, X, h, s, q, Y, New)
  PROVE  Ringed(q, [S EXCEPT ![h] = s], Y)
<1> DEFINE Q == [S EXCEPT ![h] = s]
           T == Members(h, S[h]) \cup New
<1>1. S \in [Heads -> Seq(Nodes)] /\ Distinct(S)
  BY DEF Ringed
<1>2. /\ \A g \in Heads \ {h} : Members(g, S[g]) \cap Members(h, S[h]) = {}
      /\ \A n \in Nodes : n \in Members(h, S[h]) => IsIn(S, n)
  BY <1>1, Apart
<1>3. \A g \in Heads, n \in New : n \notin Members(g, S[g])
  BY <1>1, Apart DEF OneRing
<1>4. Q \in [Heads -> Seq(Nodes)] /\ Q[h] = s /\ \A g \in Heads \ {h} : Q[g] = S[g]
  BY <1>1 DEF OneRing
<1>5. Distinct(Q)
  <2>1. ASSUME NEW g \in Heads \ {h}, NEW j \in DOMAIN S[g], NEW i \in DOMAIN s, S[g][j] = s[i]
        PROVE  FALSE
    <3>1. S[g][j] \in Members(g, S[g]) /\ s[i] \in Members(h, s)
      BY DEF Members
    <3> QED BY <1>2, <1>3, <2>1, <3>1 DEF OneRing
  <2> QED BY <1>1, <2>1, DistinctOne, ZenonT(20) DEF OneRing
<1> HIDE DEF Q
<1>6. \A g \in Heads \ {h} : Members(g, S[g]) \cap T = {}
  BY <1>2, <1>3
<1>7. \A n \in Nodes \cap T : IsIn(Q, n) \/ n \in Y
  <2> SUFFICES ASSUME NEW n \in Nodes, n \in T, n \notin Y PROVE IsIn(Q, n)
    OBVIOUS
  <2>1. n \in Members(h, s) /\ n # h
    BY DEF OneRing, L!ListAssumption
  <2> QED BY <1>4, <2>1 DEF Members, IsIn
<1>8. \A n \in Nodes \ T : IsIn(S, n) => IsIn(Q, n)
  <2> SUFFICES ASSUME NEW n \in Nodes \ T, NEW g \in Heads, NEW i \in DOMAIN S[g], S[g][i] = n
               PROVE  IsIn(Q, n)
    BY DEF IsIn
  <2>1. g # h
    BY DEF Members
  <2> QED BY <1>4, <2>1 DEF IsIn
<1>9. Rewired(r, S, X, q, Q, Y, {h}, T)
  <2>1. \A e \in L!All \ T : q.next[e] = r.next[e] /\ q.prev[e] = r.prev[e]
    BY DEF OneRing
  <2>2. X \subseteq Y \cup T /\ RingShape(q) /\ HeadOK(q, h, Q[h], Y)
    BY <1>4 DEF OneRing, HeadOK
  <2> HIDE DEF T
  <2> QED BY <1>4, <1>5, <1>6, <1>7, <1>8, <2>1, <2>2 DEF Rewired
<1>10. Ringed(q, Q, Y)
  <2> HIDE DEF T
  <2> QED BY <1>9, RewiredIs
<1> QED BY <1>10 DEF Q

\* An entry put before element k of a ring.
LEMMA Added ==
  ASSUME L!ListAssumption, NEW r, NEW S, NEW n \in Nodes, Ringed(r, S, {n}), ~IsIn(S, n),
         NEW h \in Heads, Ring(r, h, S[h]), NEW k \in 1..Len(S[h]) + 1
  PROVE  Ringed(L!AddLinks(r, n, El(h, S[h], k - 1), El(h, S[h], k)),
                [S EXCEPT ![h] = InsertAt(S[h], k, n)], {})
<1> DEFINE s  == S[h]
           s2 == InsertAt(s, k, n)
           a  == El(h, s, k - 1)
           b  == El(h, s, k)
           p  == L!Link(r, n, b)
           q  == L!Link(p, a, n)
<1>1. s \in Seq(Nodes) /\ \A i, j \in DOMAIN s : s[i] = s[j] => i = j
  BY DEF Ringed, Distinct
<1>2. \A m \in Nodes : ~IsIn(S, m) => m \notin Members(h, s)
  BY Apart DEF Ringed
<1>3. Ring(r, h, s) /\ k \in 1..Len(s) + 1 /\ n \notin Members(h, s) /\ n \in L!All /\ n # h
  BY <1>2 DEF L!All, L!ListAssumption
<1>4. RingShape(r)
  BY DEF Ringed
<1> HIDE DEF s
<1>5. /\ Len(s) \in Nat /\ DOMAIN s = 1..Len(s)
      /\ El(h, s, 0) = h /\ El(h, s, Len(s) + 1) = h
      /\ \A i \in 1..Len(s) : El(h, s, i) = s[i] /\ s[i] \in Nodes /\ s[i] # h
      /\ \A i \in Int : El(h, s, i) \in Members(h, s) /\ El(h, s, i) \in L!All
      /\ \A i, j \in 0..Len(s) : El(h, s, i) = El(h, s, j) => i = j
      /\ \A i, j \in 1..Len(s) + 1 : El(h, s, i) = El(h, s, j) => i = j
  BY <1>1, AroundIs
<1>6. a \in L!All /\ b \in L!All /\ a # n /\ b # n /\ a \in Members(h, s) /\ b \in Members(h, s)
  BY <1>3, <1>5
<1>7. /\ RingShape(q)
      /\ \A e \in L!All : /\ q.next[e] = IF e = a THEN n ELSE IF e = n THEN b ELSE r.next[e]
                          /\ q.prev[e] = IF e = n THEN a ELSE IF e = b THEN n ELSE r.prev[e]
  <2> HIDE DEF a, b
  <2>1. /\ RingShape(p)
        /\ \A e \in L!All : /\ p.next[e] = IF e = n THEN b ELSE r.next[e]
                            /\ p.prev[e] = IF e = b THEN n ELSE r.prev[e]
    BY <1>3, <1>4, <1>6, LinkIs
  <2> HIDE DEF p
  <2>2. /\ RingShape(q)
        /\ \A e \in L!All : /\ q.next[e] = IF e = a THEN n ELSE p.next[e]
                            /\ q.prev[e] = IF e = n THEN a ELSE p.prev[e]
    BY <1>3, <1>6, <2>1, LinkIs
  <2> HIDE DEF q
  <2> QED BY <2>1, <2>2
<1>8. /\ s2 \in Seq(Nodes) /\ Len(s2) = Len(s) + 1 /\ DOMAIN s2 = 1..Len(s) + 1
      /\ \A i \in 1..Len(s) + 1 : s2[i] = IF i < k THEN s[i] ELSE IF i = k THEN n ELSE s[i - 1]
  <2>1. /\ s2 \in Seq(Nodes) /\ Len(s2) = Len(s) + 1
        /\ \A i \in 1..(Len(s) + 1) : s2[i] = IF i < k THEN s[i] ELSE IF i = k THEN n ELSE s[i - 1]
    BY <1>1, <1>3, InsertAtProperties
  <2> HIDE DEF s2
  <2> QED BY <2>1, LenProperties
<1> HIDE DEF s2
<1>9. \A i \in 0..Len(s) + 2 :
        El(h, s2, i) = IF i < k THEN El(h, s, i) ELSE IF i = k THEN n ELSE El(h, s, i - 1)
  <2> SUFFICES ASSUME NEW i \in 0..Len(s) + 2
               PROVE  El(h, s2, i) = IF i < k THEN El(h, s, i) ELSE IF i = k THEN n ELSE El(h, s, i - 1)
    OBVIOUS
  <2>1. CASE i < k
    <3>1. i \in DOMAIN s2 <=> i \in DOMAIN s
      BY <1>3, <1>5, <1>8, <2>1
    <3> QED BY <1>8, <2>1, <3>1 DEF El
  <2>2. CASE i = k
    BY <1>3, <1>5, <1>8, <2>2 DEF El
  <2>3. CASE i > k
    <3>1. i \in DOMAIN s2 <=> i - 1 \in DOMAIN s
      BY <1>3, <1>5, <1>8, <2>3
    <3>2. i \in DOMAIN s2 => s2[i] = s[i - 1]
      BY <1>3, <1>5, <1>8, <2>3
    <3> QED BY <1>3, <1>5, <2>3, <3>1, <3>2 DEF El
  <2> QED BY <1>3, <1>5, <2>1, <2>2, <2>3
<1> HIDE DEF q, a, b
<1>10. Ring(q, h, s2)
  <2> SUFFICES ASSUME NEW i \in 0..Len(s) + 1
               PROVE  q.next[El(h, s2, i)] = El(h, s2, i + 1) /\ q.prev[El(h, s2, i + 1)] = El(h, s2, i)
    BY <1>8 DEF Ring
  <2>1. CASE i < k - 1
    <3>1. i \in 0..Len(s) /\ i # k - 1 /\ k - 1 \in 0..Len(s) /\ i + 1 \in 1..Len(s) + 1 /\ k \in 1..Len(s) + 1 /\ i + 1 # k
          /\ i < k /\ i + 1 < k
      BY <1>3, <1>5, <2>1
    <3>2. El(h, s2, i) = El(h, s, i) /\ El(h, s2, i + 1) = El(h, s, i + 1)
      BY <1>5, <1>9, <3>1
    <3>3. El(h, s, i) # a /\ El(h, s, i + 1) # b
      BY <1>5, <3>1 DEF a, b
    <3>4. r.next[El(h, s, i)] = El(h, s, i + 1) /\ r.prev[El(h, s, i + 1)] = El(h, s, i)
      BY <1>3, <3>1 DEF Ring
    <3>5. El(h, s, i) \in L!All /\ El(h, s, i + 1) \in L!All /\ El(h, s, i) # n /\ El(h, s, i + 1) # n
      BY <1>3, <1>5
    <3> QED BY <1>7, <3>2, <3>3, <3>4, <3>5
  <2>2. CASE i = k - 1
    <3>1. El(h, s2, i) = a /\ El(h, s2, i + 1) = n
      BY <1>3, <1>5, <1>9, <2>2 DEF a
    <3> QED BY <1>3, <1>6, <1>7, <3>1
  <2>3. CASE i = k
    <3>1. El(h, s2, i) = n /\ El(h, s2, i + 1) = b
      BY <1>3, <1>5, <1>9, <2>3 DEF b
    <3> QED BY <1>3, <1>6, <1>7, <3>1
  <2>4. CASE i > k
    <3>1. i - 1 \in 0..Len(s) /\ i - 1 # k - 1 /\ k - 1 \in 0..Len(s) /\ i \in 1..Len(s) + 1 /\ i # k /\ k \in 1..Len(s) + 1
          /\ ~(i < k) /\ ~(i + 1 < k) /\ i + 1 # k /\ (i + 1) - 1 = i /\ (i - 1) + 1 = i
      BY <1>3, <1>5, <2>4
    <3>2. El(h, s2, i) = El(h, s, i - 1) /\ El(h, s2, i + 1) = El(h, s, i)
      BY <1>5, <1>9, <3>1
    <3>3. El(h, s, i - 1) # a /\ El(h, s, i) # b
      BY <1>5, <3>1 DEF a, b
    <3>4. r.next[El(h, s, i - 1)] = El(h, s, i) /\ r.prev[El(h, s, i)] = El(h, s, i - 1)
      BY <1>3, <3>1 DEF Ring
    <3>5. El(h, s, i - 1) \in L!All /\ El(h, s, i) \in L!All /\ El(h, s, i - 1) # n /\ El(h, s, i) # n
      BY <1>3, <1>5, <3>1
    <3> QED BY <1>7, <3>2, <3>3, <3>4, <3>5
  <2> QED BY <1>3, <1>5, <2>1, <2>2, <2>3, <2>4
<1>11. /\ \A i, j \in DOMAIN s2 : s2[i] = s2[j] => i = j
       /\ Members(h, s2) = Members(h, s) \cup {n}
  <2>1. \A i \in DOMAIN s : s[i] \in Members(h, s) /\ s[i] # n
    BY <1>3 DEF Members
  <2>2. /\ \A i \in DOMAIN s2 : i = k \/ (i < k /\ i \in DOMAIN s) \/ (i > k /\ i - 1 \in DOMAIN s)
        /\ k \in DOMAIN s2 /\ s2[k] = n
        /\ \A i \in DOMAIN s : \/ i < k /\ i \in DOMAIN s2 /\ s2[i] = s[i]
                               \/ i >= k /\ i + 1 \in DOMAIN s2 /\ s2[i + 1] = s[i]
    BY <1>3, <1>5, <1>8
  <2>3. \A i \in DOMAIN s2 : i = k \/ \E j \in DOMAIN s : s2[i] = s[j]
    BY <1>5, <1>8, <2>2
  <2>4. Members(h, s2) = Members(h, s) \cup {n}
    BY <2>2, <2>3 DEF Members
  <2>5. ASSUME NEW i \in DOMAIN s2, NEW j \in DOMAIN s2, s2[i] = s2[j]
        PROVE  i = j
    <3>1. CASE i = k \/ j = k
      BY <1>3, <1>5, <1>8, <2>1, <2>2, <2>5, <3>1
    <3>2. CASE i # k /\ j # k
      <4>1. \A x \in DOMAIN s2 : x # k => x \in Int /\ IF x < k THEN x \in DOMAIN s /\ s2[x] = s[x]
                                                       ELSE x - 1 \in DOMAIN s /\ s2[x] = s[x - 1]
        BY <1>3, <1>5, <1>8, <2>2
      <4>2. k \in Int /\ i \in Int /\ j \in Int
        BY <1>3, <1>5, <1>8
      <4>3. CASE i < k /\ j < k
        BY <1>1, <2>5, <3>2, <4>1, <4>3
      <4>4. CASE i < k /\ ~(j < k)
        <5>1. i = j - 1
          BY <1>1, <2>5, <3>2, <4>1, <4>4
        <5> QED BY <3>2, <4>2, <4>4, <5>1
      <4>5. CASE ~(i < k) /\ j < k
        <5>1. i - 1 = j
          BY <1>1, <2>5, <3>2, <4>1, <4>5
        <5> QED BY <3>2, <4>2, <4>5, <5>1
      <4>6. CASE ~(i < k) /\ ~(j < k)
        <5>1. i - 1 = j - 1
          BY <1>1, <2>5, <3>2, <4>1, <4>6
        <5> QED BY <4>2, <5>1
      <4> QED BY <4>3, <4>4, <4>5, <4>6
    <3> QED BY <3>1, <3>2
  <2> QED BY <2>4, <2>5
<1>12. OneRing(r, S, {n}, h, s2, q, {}, {n})
  <2>1. \A e \in L!All \ (Members(h, s) \cup {n}) : q.next[e] = r.next[e] /\ q.prev[e] = r.prev[e]
    BY <1>6, <1>7
  <2> QED BY <1>7, <1>8, <1>10, <1>11, <2>1 DEF OneRing, s
<1>13. Ringed(q, [S EXCEPT ![h] = s2], {})
  BY <1>12, OneRingIs
<1> QED BY <1>13 DEF q, p, a, b, s2, s, L!AddLinks

\* A head that may be used is in its ring, with the first and the last entry at its sides.
LEMMA SoundRing ==
  ASSUME L!ListAssumption, NEW r, NEW S, NEW X, Ringed(r, S, X), NEW h \in Heads, h \notin X,
         r.next[h] # NULL \/ S[h] # <<>>
  PROVE  /\ Ring(r, h, S[h])
         /\ r.next[h] = El(h, S[h], 1) /\ r.prev[h] = El(h, S[h], Len(S[h]))
         /\ El(h, S[h], 1) \in L!All /\ El(h, S[h], Len(S[h])) \in L!All
<1>1. Ring(r, h, S[h])
  BY DEF Ringed, HeadOK
<1>2. S[h] \in Seq(Nodes) /\ \A i, j \in DOMAIN S[h] : S[h][i] = S[h][j] => i = j
  BY DEF Ringed, Distinct
<1>3. /\ Len(S[h]) \in Nat /\ El(h, S[h], 0) = h /\ El(h, S[h], Len(S[h]) + 1) = h
      /\ \A i \in Int : El(h, S[h], i) \in L!All
  BY <1>2, AroundIs
<1> QED BY <1>1, <1>3 DEF Ring

\* An entry's neighbours.
LEMMA NextTo ==
  ASSUME L!ListAssumption, NEW r, NEW S, NEW X, Ringed(r, S, X), NEW h \in Heads, NEW k \in DOMAIN S[h]
  PROVE  /\ Ring(r, h, S[h]) /\ k \in 1..Len(S[h]) /\ S[h][k] \in Nodes
         /\ r.next[S[h][k]] = El(h, S[h], k + 1) /\ r.prev[S[h][k]] = El(h, S[h], k - 1)
         /\ El(h, S[h], k + 1) \in L!All /\ El(h, S[h], k - 1) \in L!All
         /\ El(h, S[h], k + 1) # S[h][k] /\ El(h, S[h], k - 1) # S[h][k]
<1> DEFINE s == S[h]
<1>1. s \in Seq(Nodes) /\ (\A i, j \in DOMAIN s : s[i] = s[j] => i = j) /\ HeadOK(r, h, s, X)
  BY DEF Ringed, Distinct
<1>2. k \in DOMAIN s
  OBVIOUS
<1> HIDE DEF s
<1>3. /\ Len(s) \in Nat /\ DOMAIN s = 1..Len(s)
      /\ \A i \in 1..Len(s) : El(h, s, i) = s[i] /\ s[i] \in Nodes
      /\ \A i \in Int : El(h, s, i) \in L!All
      /\ \A i, j \in 0..Len(s) : El(h, s, i) = El(h, s, j) => i = j
      /\ \A i, j \in 1..Len(s) + 1 : El(h, s, i) = El(h, s, j) => i = j
  BY <1>1, AroundIs
<1>4. k \in 1..Len(s) /\ k \in 0..Len(s) /\ k - 1 \in 0..Len(s) /\ k \in 1..Len(s) + 1
      /\ k + 1 \in 1..Len(s) + 1 /\ (k - 1) + 1 = k /\ k + 1 # k /\ k - 1 # k /\ k + 1 \in Int /\ k - 1 \in Int
  BY <1>2, <1>3
<1>5. s # <<>>
  BY <1>2, LenProperties
<1>6. Ring(r, h, s)
  BY <1>1, <1>5 DEF HeadOK
<1>7. El(h, s, k) = s[k] /\ s[k] \in Nodes
  BY <1>3, <1>4
<1>8. r.next[El(h, s, k)] = El(h, s, k + 1) /\ r.prev[El(h, s, k)] = El(h, s, k - 1)
  BY <1>4, <1>6 DEF Ring
<1>9. El(h, s, k + 1) # El(h, s, k) /\ El(h, s, k - 1) # El(h, s, k)
  BY <1>3, <1>4
<1> QED BY <1>3, <1>4, <1>6, <1>7, <1>8, <1>9 DEF s

\* Entry k taken out of its ring.
LEMMA Removed ==
  ASSUME L!ListAssumption, NEW r, NEW S, Ringed(r, S, {}), NEW h \in Heads, NEW k \in DOMAIN S[h]
  PROVE  /\ Ringed(L!DelLinks(r, S[h][k]), [S EXCEPT ![h] = RemoveAt(S[h], k)], {S[h][k]})
         /\ \A g \in Heads : r.next[g] # NULL => L!DelLinks(r, S[h][k]).next[g] # NULL
<1> DEFINE s  == S[h]
           s2 == RemoveAt(s, k)
           n  == s[k]
           a  == El(h, s, k - 1)
           b  == El(h, s, k + 1)
           q  == L!Link(r, a, b)
<1>1. s \in Seq(Nodes) /\ \A i, j \in DOMAIN s : s[i] = s[j] => i = j
  BY DEF Ringed, Distinct
<1>2. /\ Ring(r, h, s) /\ k \in 1..Len(s) /\ n \in Nodes /\ r.next[n] = b /\ r.prev[n] = a
      /\ a \in L!All /\ b \in L!All /\ a # n /\ b # n
  BY NextTo
<1>3. RingShape(r)
  BY DEF Ringed
<1> HIDE DEF s
<1>4. L!DelLinks(r, n) = q
  BY <1>2 DEF L!DelLinks
<1>5. /\ Len(s) \in Nat /\ DOMAIN s = 1..Len(s)
      /\ El(h, s, 0) = h /\ El(h, s, Len(s) + 1) = h
      /\ \A i \in 1..Len(s) : El(h, s, i) = s[i] /\ s[i] \in Nodes /\ s[i] # h
      /\ \A i \in Int : El(h, s, i) \in Members(h, s) /\ El(h, s, i) \in L!All
      /\ \A i, j \in 0..Len(s) : El(h, s, i) = El(h, s, j) => i = j
      /\ \A i, j \in 1..Len(s) + 1 : El(h, s, i) = El(h, s, j) => i = j
  BY <1>1, AroundIs
<1>6. a \in Members(h, s) /\ b \in Members(h, s)
  BY <1>2, <1>5
<1>7. /\ RingShape(q)
      /\ \A e \in L!All : /\ q.next[e] = IF e = a THEN b ELSE r.next[e]
                          /\ q.prev[e] = IF e = b THEN a ELSE r.prev[e]
  <2> HIDE DEF a, b
  <2> QED BY <1>2, <1>3, LinkIs
<1>8. /\ s2 \in Seq(Nodes) /\ Len(s2) = Len(s) - 1 /\ DOMAIN s2 = 1..Len(s) - 1
      /\ \A i \in 1..Len(s) - 1 : s2[i] = IF i < k THEN s[i] ELSE s[i + 1]
  <2>1. /\ s2 \in Seq(Nodes) /\ Len(s2) = Len(s) - 1
        /\ \A i \in 1..(Len(s) - 1) : s2[i] = IF i < k THEN s[i] ELSE s[i + 1]
    <3>1. s \in Seq(Nodes) /\ k \in 1..Len(s)
      BY <1>1, <1>2
    <3> QED BY <3>1, RemoveAtProperties
  <2> HIDE DEF s2
  <2> QED BY <2>1, LenProperties
<1> HIDE DEF s2
<1>9. \A i \in 0..Len(s) : El(h, s2, i) = IF i < k THEN El(h, s, i) ELSE El(h, s, i + 1)
  <2> SUFFICES ASSUME NEW i \in 0..Len(s)
               PROVE  El(h, s2, i) = IF i < k THEN El(h, s, i) ELSE El(h, s, i + 1)
    OBVIOUS
  <2>1. CASE i < k
    <3>1. i \in DOMAIN s2 <=> i \in DOMAIN s
      BY <1>2, <1>5, <1>8, <2>1
    <3> QED BY <1>8, <2>1, <3>1 DEF El
  <2>2. CASE ~(i < k)
    <3>1. i \in DOMAIN s2 <=> i + 1 \in DOMAIN s
      BY <1>2, <1>5, <1>8, <2>2
    <3> QED BY <1>8, <2>2, <3>1 DEF El
  <2> QED BY <2>1, <2>2
<1> HIDE DEF q, a, b, n
<1>10. Ring(q, h, s2)
  <2> SUFFICES ASSUME NEW i \in 0..Len(s) - 1
               PROVE  q.next[El(h, s2, i)] = El(h, s2, i + 1) /\ q.prev[El(h, s2, i + 1)] = El(h, s2, i)
    BY <1>8 DEF Ring
  <2>1. CASE i < k - 1
    <3>1. i \in 0..Len(s) /\ i # k - 1 /\ k - 1 \in 0..Len(s) /\ i + 1 \in 1..Len(s) + 1 /\ k + 1 \in 1..Len(s) + 1
          /\ i + 1 # k + 1 /\ i < k /\ i + 1 < k /\ i + 1 \in 0..Len(s)
      BY <1>2, <1>5, <2>1
    <3>2. El(h, s2, i) = El(h, s, i) /\ El(h, s2, i + 1) = El(h, s, i + 1)
      BY <1>5, <1>9, <3>1
    <3>3. El(h, s, i) # a /\ El(h, s, i + 1) # b
      BY <1>5, <3>1 DEF a, b
    <3>4. r.next[El(h, s, i)] = El(h, s, i + 1) /\ r.prev[El(h, s, i + 1)] = El(h, s, i)
      BY <1>2, <3>1 DEF Ring
    <3>5. El(h, s, i) \in L!All /\ El(h, s, i + 1) \in L!All
      BY <1>5
    <3> QED BY <1>7, <3>2, <3>3, <3>4, <3>5
  <2>2. CASE i = k - 1
    <3>1. i < k /\ i + 1 = k /\ ~(k < k) /\ i \in 0..Len(s) /\ k \in 0..Len(s)
      BY <1>2, <1>5, <2>2
    <3>2. El(h, s2, i) = a /\ El(h, s2, i + 1) = b
      BY <1>9, <2>2, <3>1 DEF a, b
    <3> QED BY <1>2, <1>7, <3>2
  <2>3. CASE i >= k
    <3>1. i + 1 \in 0..Len(s) /\ i + 1 # k - 1 /\ k - 1 \in 0..Len(s) /\ i + 2 \in 1..Len(s) + 1 /\ i + 2 # k + 1
          /\ k + 1 \in 1..Len(s) + 1 /\ ~(i < k) /\ ~(i + 1 < k) /\ (i + 1) + 1 = i + 2 /\ i \in 0..Len(s)
      BY <1>2, <1>5, <2>3
    <3>2. El(h, s2, i) = El(h, s, i + 1) /\ El(h, s2, i + 1) = El(h, s, i + 2)
      BY <1>9, <3>1
    <3>3. El(h, s, i + 1) # a /\ El(h, s, i + 2) # b
      BY <1>5, <3>1 DEF a, b
    <3>4. r.next[El(h, s, i + 1)] = El(h, s, i + 2) /\ r.prev[El(h, s, i + 2)] = El(h, s, i + 1)
      BY <1>2, <3>1 DEF Ring
    <3>5. El(h, s, i + 1) \in L!All /\ El(h, s, i + 2) \in L!All
      BY <1>5
    <3> QED BY <1>7, <3>2, <3>3, <3>4, <3>5
  <2> QED BY <1>2, <1>5, <2>1, <2>2, <2>3
<1>11. \A i, j \in DOMAIN s2 : s2[i] = s2[j] => i = j
  <2> SUFFICES ASSUME NEW i \in DOMAIN s2, NEW j \in DOMAIN s2, s2[i] = s2[j]
               PROVE  i = j
    OBVIOUS
  <2>1. \A x \in DOMAIN s2 : x \in Int /\ IF x < k THEN x \in DOMAIN s /\ s2[x] = s[x]
                                          ELSE x + 1 \in DOMAIN s /\ s2[x] = s[x + 1]
    BY <1>2, <1>5, <1>8
  <2>2. k \in Int /\ i \in Int /\ j \in Int
    BY <1>2, <2>1
  <2>3. CASE i < k /\ j < k
    BY <1>1, <2>1, <2>3
  <2>4. CASE i < k /\ ~(j < k)
    <3>1. i = j + 1
      BY <1>1, <2>1, <2>4
    <3> QED BY <2>2, <2>4, <3>1
  <2>5. CASE ~(i < k) /\ j < k
    <3>1. i + 1 = j
      BY <1>1, <2>1, <2>5
    <3> QED BY <2>2, <2>5, <3>1
  <2>6. CASE ~(i < k) /\ ~(j < k)
    <3>1. i + 1 = j + 1
      BY <1>1, <2>1, <2>6
    <3> QED BY <2>2, <3>1
  <2> QED BY <2>3, <2>4, <2>5, <2>6
<1>12. Members(h, s2) \subseteq Members(h, s) /\ Members(h, s) \subseteq Members(h, s2) \cup {n}
  <2>1. \A i \in DOMAIN s2 : \E j \in DOMAIN s : s2[i] = s[j]
    <3>1. \A i \in DOMAIN s2 : /\ i \in DOMAIN s /\ i + 1 \in DOMAIN s
                               /\ s2[i] = s[i] \/ s2[i] = s[i + 1]
      BY <1>2, <1>5, <1>8
    <3> QED BY <3>1
  <2>2. \A i \in DOMAIN s : \/ i < k /\ i \in DOMAIN s2 /\ s2[i] = s[i]
                            \/ i = k
                            \/ i > k /\ i - 1 \in DOMAIN s2 /\ s2[i - 1] = s[i]
    BY <1>2, <1>5, <1>8
  <2>3. \A i \in DOMAIN s : s[i] = n \/ \E j \in DOMAIN s2 : s2[j] = s[i]
    BY <2>2 DEF n
  <2> QED BY <2>1, <2>3 DEF Members
<1>13. OneRing(r, S, {}, h, s2, q, {n}, {})
  <2>1. \A e \in L!All \ (Members(h, s) \cup {}) : q.next[e] = r.next[e] /\ q.prev[e] = r.prev[e]
    BY <1>6, <1>7
  <2> QED BY <1>7, <1>8, <1>10, <1>11, <1>12, <2>1 DEF OneRing, s
<1>14. Ringed(q, [S EXCEPT ![h] = s2], {n})
  BY <1>13, OneRingIs
<1>15. ASSUME NEW g \in Heads, r.next[g] # NULL PROVE q.next[g] # NULL
  <2>1. g \in L!All /\ b # NULL
    BY <1>2 DEF L!All, L!ListAssumption
  <2> QED BY <1>7, <1>15, <2>1
<1> QED BY <1>4, <1>14, <1>15 DEF s2, s, n

\* Both pointers of an element outside the rings, or of a head without entries, set
\* to NULL or to itself.
LEMMA LetGo ==
  ASSUME L!ListAssumption, NEW r, NEW S, NEW X, NEW e \in L!All, Ringed(r, S, X), X \subseteq {e},
         e \in Nodes => ~IsIn(S, e), e \in Heads => S[e] = <<>>,
         NEW v, NEW q, Written(r, e, v, q), v \in {NULL, e}
  PROVE  Ringed(q, S, {})
<1> DEFINE G == {e} \cap Heads
<1>1. S \in [Heads -> Seq(Nodes)] /\ Distinct(S) /\ RingShape(r)
  BY DEF Ringed
<1>2. \A g \in Heads \ G : Members(g, S[g]) \cap {e} = {}
  <2> SUFFICES ASSUME NEW g \in Heads, g # e PROVE e \notin Members(g, S[g])
    OBVIOUS
  <2>1. CASE e \in Nodes
    BY <1>1, <2>1, Apart
  <2>2. CASE e \in Heads
    <3>1. S[g] \in Seq(Nodes)
      BY <1>1
    <3>2. \A i \in DOMAIN S[g] : S[g][i] \in Nodes
      BY <3>1, ElementOfSeq, LenProperties
    <3> QED BY <2>2, <3>2 DEF Members, L!ListAssumption
  <2> QED BY <2>1, <2>2 DEF L!All
<1>3. DOMAIN <<>> = {} /\ Len(<<>>) = 0
  BY EmptySeq, LenProperties
<1>4. q.next[e] = v /\ q.prev[e] = v /\ RingShape(q)
  BY DEF Written
<1>5. \A x \in L!All \ {e} : q.next[x] = r.next[x] /\ q.prev[x] = r.prev[x]
  BY DEF Written
<1>6. \A g \in G : HeadOK(q, g, S[g], {})
  <2> SUFFICES ASSUME e \in Heads PROVE HeadOK(q, e, S[e], {})
    OBVIOUS
  <2>1. CASE v = NULL
    BY <1>4, <2>1 DEF HeadOK
  <2>2. CASE v = e
    <3>1. \A i \in Int : El(e, <<>>, i) = e
      BY <1>3 DEF El
    <3>2. Ring(q, e, <<>>)
      BY <1>3, <1>4, <2>2, <3>1 DEF Ring
    <3> QED BY <3>2 DEF HeadOK
  <2> QED BY <2>1, <2>2
<1>7. \A n \in Nodes \cap {e} : Alone(q, n)
  BY <1>4 DEF Alone
<1>8. Rewired(r, S, X, q, S, {}, G, {e})
  <2> HIDE DEF G
  <2> QED BY <1>1, <1>2, <1>4, <1>5, <1>6, <1>7 DEF Rewired
<1> QED BY <1>8, RewiredIs

\* One that is in no ring, or a head without entries, is given up or begins a ring of its own.
LEMMA Dropped ==
  ASSUME L!ListAssumption, NEW r, NEW S, NEW X, NEW e \in L!All, Ringed(r, S, X), X \subseteq {e},
         e \in Nodes => ~IsIn(S, e), e \in Heads => S[e] = <<>>
  PROVE  Ringed(L!Forget(r, e), S, {}) /\ Ringed(L!INIT_LIST_HEAD(r, e), S, {})
<1>1. Written(r, e, NULL, L!Forget(r, e)) /\ Written(r, e, e, L!INIT_LIST_HEAD(r, e))
  BY SetIs DEF Ringed
<1> QED BY <1>1, LetGo

\* The stores of a replacement, with the neighbours of the one replaced.
LEMMA Renamed ==
  ASSUME L!ListAssumption, NEW S, Ringed(ring, S, {}), NEW h \in Heads, NEW k \in DOMAIN S[h],
         NEW n \in Nodes, ~IsIn(S, n)
  PROVE  Ringed(L!Replaced(S[h][k], n), [S EXCEPT ![h] = [S[h] EXCEPT ![k] = n]], {S[h][k]})
<1> DEFINE s  == S[h]
           s2 == [s EXCEPT ![k] = n]
           old == s[k]
           a  == El(h, s, k - 1)
           b  == El(h, s, k + 1)
           p  == L!Link(ring, n, b)
           q  == L!Link(p, a, n)
<1>1. s \in Seq(Nodes) /\ \A i, j \in DOMAIN s : s[i] = s[j] => i = j
  BY DEF Ringed, Distinct
<1>2. /\ Ring(ring, h, s) /\ k \in 1..Len(s) /\ old \in Nodes /\ ring.next[old] = b /\ ring.prev[old] = a
      /\ a \in L!All /\ b \in L!All /\ a # old /\ b # old
  BY NextTo
<1>3. RingShape(ring)
  BY DEF Ringed
<1>4. n \notin Members(h, s) /\ n \in L!All /\ n # h
  <2>1. n \notin Members(h, s)
    BY Apart DEF Ringed
  <2> QED BY <2>1 DEF L!All, L!ListAssumption
<1> HIDE DEF s
<1>5. /\ Len(s) \in Nat /\ DOMAIN s = 1..Len(s)
      /\ El(h, s, 0) = h /\ El(h, s, Len(s) + 1) = h
      /\ \A i \in 1..Len(s) : El(h, s, i) = s[i] /\ s[i] \in Nodes /\ s[i] # h
      /\ \A i \in Int : El(h, s, i) \in Members(h, s) /\ El(h, s, i) \in L!All
      /\ \A i, j \in 0..Len(s) : El(h, s, i) = El(h, s, j) => i = j
      /\ \A i, j \in 1..Len(s) + 1 : El(h, s, i) = El(h, s, j) => i = j
  BY <1>1, AroundIs
<1>6. a \in Members(h, s) /\ b \in Members(h, s) /\ a # n /\ b # n
  BY <1>2, <1>4, <1>5
<1>7. /\ RingShape(p)
      /\ \A e \in L!All : /\ p.next[e] = IF e = n THEN b ELSE ring.next[e]
                          /\ p.prev[e] = IF e = b THEN n ELSE ring.prev[e]
  <2> HIDE DEF a, b
  <2> QED BY <1>2, <1>3, <1>4, LinkIs
<1>8. L!Replaced(old, n) = q
  <2>1. L!Replaced(old, n) = L!Link(p, p.prev[old], n)
    BY <1>2 DEF L!Replaced
  <2>2. old \in L!All
    BY <1>2 DEF L!All
  <2>3. p.prev[old] = a
    <3> HIDE DEF p, a, b, old
    <3> QED BY <1>2, <1>7, <2>2
  <2> QED BY <2>1, <2>3
<1>9. /\ RingShape(q)
      /\ \A e \in L!All : /\ q.next[e] = IF e = a THEN n ELSE IF e = n THEN b ELSE ring.next[e]
                          /\ q.prev[e] = IF e = n THEN a ELSE IF e = b THEN n ELSE ring.prev[e]
  <2> HIDE DEF p, a, b
  <2>1. /\ RingShape(q)
        /\ \A e \in L!All : /\ q.next[e] = IF e = a THEN n ELSE p.next[e]
                            /\ q.prev[e] = IF e = n THEN a ELSE p.prev[e]
    BY <1>2, <1>4, <1>7, LinkIs
  <2> HIDE DEF q
  <2> QED BY <1>7, <2>1
<1>10. /\ s2 \in Seq(Nodes) /\ Len(s2) = Len(s) /\ DOMAIN s2 = 1..Len(s)
       /\ \A i \in 1..Len(s) : s2[i] = IF i = k THEN n ELSE s[i]
  BY <1>1, <1>2, <1>5
<1> HIDE DEF s2
<1>11. \A i \in Int : El(h, s2, i) = IF i = k THEN n ELSE El(h, s, i)
  BY <1>2, <1>5, <1>10 DEF El
<1> HIDE DEF p, q, a, b, old
<1>12. Ring(q, h, s2)
  <2> SUFFICES ASSUME NEW i \in 0..Len(s)
               PROVE  q.next[El(h, s2, i)] = El(h, s2, i + 1) /\ q.prev[El(h, s2, i + 1)] = El(h, s2, i)
    BY <1>10 DEF Ring
  <2>1. CASE i # k - 1 /\ i # k
    <3>1. /\ k - 1 \in 0..Len(s) /\ i + 1 \in 1..Len(s) + 1 /\ k + 1 \in 1..Len(s) + 1
          /\ i + 1 # k + 1 /\ i + 1 # k /\ i \in Int /\ i + 1 \in Int
      BY <1>2, <1>5, <2>1
    <3>2. El(h, s2, i) = El(h, s, i) /\ El(h, s2, i + 1) = El(h, s, i + 1)
      BY <1>11, <2>1, <3>1
    <3>3. El(h, s, i) # a /\ El(h, s, i + 1) # b
      BY <1>5, <2>1, <3>1 DEF a, b
    <3>4. ring.next[El(h, s, i)] = El(h, s, i + 1) /\ ring.prev[El(h, s, i + 1)] = El(h, s, i)
      BY <1>2 DEF Ring
    <3>5. El(h, s, i) \in L!All /\ El(h, s, i + 1) \in L!All /\ El(h, s, i) # n /\ El(h, s, i + 1) # n
      BY <1>4, <1>5, <3>1
    <3> QED BY <1>9, <3>2, <3>3, <3>4, <3>5
  <2>2. CASE i = k - 1
    <3>1. El(h, s2, i) = a /\ El(h, s2, i + 1) = n
      BY <1>2, <1>5, <1>11, <2>2 DEF a
    <3> QED BY <1>2, <1>4, <1>9, <3>1
  <2>3. CASE i = k
    <3>1. El(h, s2, i) = n /\ El(h, s2, i + 1) = b
      BY <1>2, <1>5, <1>11, <2>3 DEF b
    <3> QED BY <1>2, <1>4, <1>6, <1>9, <3>1
  <2> QED BY <2>1, <2>2, <2>3
<1>13. \A i \in DOMAIN s : s[i] # n /\ s[i] \in Members(h, s)
  BY <1>4 DEF Members
<1>14. \A i, j \in DOMAIN s2 : s2[i] = s2[j] => i = j
  BY <1>1, <1>5, <1>10, <1>13
<1>15. /\ Members(h, s2) \subseteq Members(h, s) \cup {n}
       /\ Members(h, s) \cup {n} \subseteq Members(h, s2) \cup {old}
  <2>1. \A i \in DOMAIN s : s[i] = old \/ s2[i] = s[i]
    BY <1>5, <1>10 DEF old
  <2>2. k \in DOMAIN s2 /\ s2[k] = n /\ DOMAIN s2 = DOMAIN s
    BY <1>2, <1>5, <1>10
  <2>3. \A i \in DOMAIN s2 : s2[i] = n \/ s2[i] = s[i]
    BY <1>5, <1>10
  <2> QED BY <2>1, <2>2, <2>3 DEF Members
<1>16. OneRing(ring, S, {}, h, s2, q, {old}, {n})
  <2>1. \A e \in L!All \ (Members(h, s) \cup {n}) : q.next[e] = ring.next[e] /\ q.prev[e] = ring.prev[e]
    BY <1>6, <1>9
  <2> QED BY <1>9, <1>10, <1>12, <1>14, <1>15, <2>1 DEF OneRing, s
<1>17. Ringed(q, [S EXCEPT ![h] = s2], {old})
  BY <1>16, OneRingIs
<1> QED BY <1>8, <1>17 DEF s2, s, old

\* t stands behind the first k of s.
Merged(s, k, t, u) ==
  /\ u \in Seq(Nodes) /\ Len(u) = Len(s) + Len(t)
  /\ \A i \in 1..Len(s) + Len(t) :
       u[i] = IF i <= k THEN s[i] ELSE IF i <= k + Len(t) THEN t[i - k] ELSE s[i - Len(t)]

\* u has the elements of both, each once.
MadeOf(u, s, t) ==
  /\ \A i, j \in DOMAIN u : u[i] = u[j] => i = j
  /\ {u[i] : i \in DOMAIN u} = {s[i] : i \in DOMAIN s} \cup {t[i] : i \in DOMAIN t}

\* A spliced sequence has the elements of both, each once.
LEMMA MergedFrom ==
  ASSUME NEW s \in Seq(Nodes), NEW t \in Seq(Nodes), NEW k \in 0..Len(s), NEW u, Merged(s, k, t, u),
         \A i, j \in DOMAIN s : s[i] = s[j] => i = j, \A i, j \in DOMAIN t : t[i] = t[j] => i = j,
         \A i \in DOMAIN s, j \in DOMAIN t : s[i] # t[j]
  PROVE  MadeOf(u, s, t)
<1> DEFINE m == Len(t)
<1>1. /\ Len(s) \in Nat /\ DOMAIN s = 1..Len(s) /\ m \in Nat /\ DOMAIN t = 1..m
      /\ u \in Seq(Nodes) /\ DOMAIN u = 1..Len(s) + m
      /\ \A i \in 1..Len(s) + m :
           u[i] = IF i <= k THEN s[i] ELSE IF i <= k + m THEN t[i - k] ELSE s[i - m]
  BY LenProperties DEF Merged
<1> HIDE DEF m
<1>2. \A i \in DOMAIN u : /\ i \in Int
                          /\ i <= k => i \in DOMAIN s /\ u[i] = s[i]
                          /\ ~(i <= k) /\ i <= k + m => i - k \in DOMAIN t /\ u[i] = t[i - k]
                          /\ ~(i <= k) /\ ~(i <= k + m) => i - m \in DOMAIN s /\ u[i] = s[i - m]
  BY <1>1
<1>3. ASSUME NEW i \in DOMAIN u, NEW j \in DOMAIN u, u[i] = u[j]
      PROVE  i = j
  <2>1. i \in Int /\ j \in Int /\ k \in Int /\ m \in Nat
    BY <1>1, <1>2
  <2>2. CASE i <= k
    <3>1. CASE j <= k
      BY <1>2, <1>3, <2>2, <3>1
    <3>2. CASE ~(j <= k) /\ j <= k + m
      BY <1>2, <1>3, <2>2, <3>2
    <3>3. CASE ~(j <= k) /\ ~(j <= k + m)
      <4>1. i = j - m
        BY <1>2, <1>3, <2>2, <3>3
      <4> QED BY <2>1, <2>2, <3>3, <4>1
    <3> QED BY <3>1, <3>2, <3>3
  <2>3. CASE ~(i <= k) /\ i <= k + m
    <3>1. CASE j <= k
      BY <1>2, <1>3, <2>3, <3>1
    <3>2. CASE ~(j <= k) /\ j <= k + m
      <4>1. i - k = j - k
        BY <1>2, <1>3, <2>3, <3>2
      <4> QED BY <2>1, <4>1
    <3>3. CASE ~(j <= k) /\ ~(j <= k + m)
      BY <1>2, <1>3, <2>3, <3>3
    <3> QED BY <3>1, <3>2, <3>3
  <2>4. CASE ~(i <= k) /\ ~(i <= k + m)
    <3>1. CASE j <= k
      <4>1. i - m = j
        BY <1>2, <1>3, <2>4, <3>1
      <4> QED BY <2>1, <2>4, <3>1, <4>1
    <3>2. CASE ~(j <= k) /\ j <= k + m
      BY <1>2, <1>3, <2>4, <3>2
    <3>3. CASE ~(j <= k) /\ ~(j <= k + m)
      <4>1. i - m = j - m
        BY <1>2, <1>3, <2>4, <3>3
      <4> QED BY <2>1, <4>1
    <3> QED BY <3>1, <3>2, <3>3
  <2> QED BY <2>2, <2>3, <2>4
<1>4. ASSUME NEW i \in DOMAIN s
      PROVE  \E j \in DOMAIN u : u[j] = s[i]
  <2>1. CASE i <= k
    <3>1. i \in DOMAIN u /\ u[i] = s[i]
      BY <1>1, <2>1
    <3> QED BY <3>1
  <2>2. CASE i > k
    <3>1. i + m \in DOMAIN u /\ u[i + m] = s[i]
      BY <1>1, <2>2
    <3> QED BY <3>1
  <2> QED BY <1>1, <2>1, <2>2
<1>5. ASSUME NEW i \in DOMAIN t
      PROVE  \E j \in DOMAIN u : u[j] = t[i]
  <2>1. i + k \in DOMAIN u /\ u[i + k] = t[i]
    BY <1>1
  <2> QED BY <2>1
<1>6. \A i \in DOMAIN u : u[i] \in {s[j] : j \in DOMAIN s} \cup {t[j] : j \in DOMAIN t}
  BY <1>2
<1> QED BY <1>3, <1>4, <1>5, <1>6 DEF MadeOf

\* All entries of l put between element k and the next one of h; l stays to be initialized.
LEMMA Spliced ==
  ASSUME L!ListAssumption, NEW r, NEW S, Ringed(r, S, {}), NEW l \in Heads, NEW h \in Heads, l # h,
         Ring(r, h, S[h]), S[l] # <<>>, NEW k \in 0..Len(S[h]), NEW u, Merged(S[h], k, S[l], u)
  PROVE  Ringed(L!SpliceLinks(r, l, El(h, S[h], k), El(h, S[h], k + 1)),
                [S EXCEPT ![l] = <<>>, ![h] = u], {l})
<1> DEFINE s  == S[h]
           t  == S[l]
           m  == Len(t)
           a  == El(h, s, k)
           b  == El(h, s, k + 1)
           hd == El(l, t, 1)
           tl == El(l, t, m)
           p  == L!Link(r, a, hd)
           q  == L!Link(p, tl, b)
           Q1 == [S EXCEPT ![l] = <<>>]
           Q  == [Q1 EXCEPT ![h] = u]
           T  == Members(h, s) \cup Members(l, t)
<1>1. /\ s \in Seq(Nodes) /\ \A i, j \in DOMAIN s : s[i] = s[j] => i = j
      /\ t \in Seq(Nodes) /\ \A i, j \in DOMAIN t : t[i] = t[j] => i = j
      /\ S \in [Heads -> Seq(Nodes)] /\ Distinct(S) /\ RingShape(r)
  BY DEF Ringed, Distinct
<1>2. Ring(r, l, t) /\ r.next[l] = hd /\ r.prev[l] = tl /\ hd \in L!All /\ tl \in L!All
  BY SoundRing
<1>3. Members(h, s) \cap Members(l, t) = {}
  BY <1>1, Apart
<1>4. Ring(r, h, s) /\ k \in 0..Len(s) /\ t # <<>> /\ Merged(s, k, t, u)
  OBVIOUS
<1>5. \A g \in Heads \ {l, h} : Members(g, S[g]) \cap T = {}
  BY <1>1, Apart
<1>6. L!SpliceLinks(r, l, a, b) = q
  BY <1>2 DEF L!SpliceLinks
<1>7. [S EXCEPT ![l] = <<>>, ![h] = u] = Q
  OBVIOUS
<1> HIDE DEF s, t
<1>8. /\ Len(s) \in Nat /\ DOMAIN s = 1..Len(s)
      /\ El(h, s, 0) = h /\ El(h, s, Len(s) + 1) = h
      /\ \A i \in 1..Len(s) : El(h, s, i) = s[i] /\ s[i] \in Nodes /\ s[i] # h
      /\ \A i \in Int : El(h, s, i) \in Members(h, s) /\ El(h, s, i) \in L!All
      /\ \A i, j \in 0..Len(s) : El(h, s, i) = El(h, s, j) => i = j
      /\ \A i, j \in 1..Len(s) + 1 : El(h, s, i) = El(h, s, j) => i = j
  BY <1>1, AroundIs
<1>9. /\ m \in Nat /\ DOMAIN t = 1..m
      /\ El(l, t, 0) = l /\ El(l, t, m + 1) = l
      /\ \A i \in 1..m : El(l, t, i) = t[i] /\ t[i] \in Nodes /\ t[i] # l
      /\ \A i \in Int : El(l, t, i) \in Members(l, t) /\ El(l, t, i) \in L!All
      /\ \A i, j \in 0..m : El(l, t, i) = El(l, t, j) => i = j
      /\ \A i, j \in 1..m + 1 : El(l, t, i) = El(l, t, j) => i = j
  BY <1>1, AroundIs
<1>10. m # 0
  BY <1>1, <1>4, EmptySeq
<1> HIDE DEF m
<1>11. /\ a \in L!All /\ b \in L!All /\ a \in Members(h, s) /\ b \in Members(h, s)
       /\ hd \in Members(l, t) /\ tl \in Members(l, t)
  BY <1>4, <1>8, <1>9
<1>12. /\ RingShape(q)
       /\ \A e \in L!All : /\ q.next[e] = IF e = tl THEN b ELSE IF e = a THEN hd ELSE r.next[e]
                           /\ q.prev[e] = IF e = b THEN tl ELSE IF e = hd THEN a ELSE r.prev[e]
  <2> HIDE DEF a, b, hd, tl
  <2>1. /\ RingShape(p)
        /\ \A e \in L!All : /\ p.next[e] = IF e = a THEN hd ELSE r.next[e]
                            /\ p.prev[e] = IF e = hd THEN a ELSE r.prev[e]
    BY <1>1, <1>2, <1>11, LinkIs
  <2> HIDE DEF p
  <2>2. /\ RingShape(q)
        /\ \A e \in L!All : /\ q.next[e] = IF e = tl THEN b ELSE p.next[e]
                            /\ q.prev[e] = IF e = b THEN tl ELSE p.prev[e]
    BY <1>2, <1>11, <2>1, LinkIs
  <2> HIDE DEF q
  <2> QED BY <2>1, <2>2
<1> HIDE DEF p, q, a, b, hd, tl
<1>13. /\ u \in Seq(Nodes) /\ Len(u) = Len(s) + m /\ DOMAIN u = 1..Len(s) + m
       /\ \A i \in 1..Len(s) + m :
            u[i] = IF i <= k THEN s[i] ELSE IF i <= k + m THEN t[i - k] ELSE s[i - m]
  BY <1>4, LenProperties DEF Merged, m
<1>14. \A i \in 0..Len(s) + m + 1 :
         El(h, u, i) = IF i <= k THEN El(h, s, i) ELSE IF i <= k + m THEN El(l, t, i - k) ELSE El(h, s, i - m)
  <2> SUFFICES ASSUME NEW i \in 0..Len(s) + m + 1
               PROVE  El(h, u, i) = IF i <= k THEN El(h, s, i) ELSE IF i <= k + m THEN El(l, t, i - k)
                                    ELSE El(h, s, i - m)
    OBVIOUS
  <2>1. CASE i <= k
    <3>1. i \in DOMAIN u <=> i \in DOMAIN s
      BY <1>4, <1>8, <1>9, <1>13, <2>1
    <3> QED BY <1>13, <2>1, <3>1 DEF El
  <2>2. CASE ~(i <= k) /\ i <= k + m
    <3>1. i \in DOMAIN u /\ i - k \in DOMAIN t
      BY <1>4, <1>8, <1>9, <1>13, <2>2
    <3> QED BY <1>13, <2>2, <3>1 DEF El
  <2>3. CASE ~(i <= k) /\ ~(i <= k + m)
    <3>1. i \in DOMAIN u <=> i - m \in DOMAIN s
      BY <1>4, <1>8, <1>9, <1>13, <2>3
    <3> QED BY <1>13, <2>3, <3>1 DEF El
  <2> QED BY <2>1, <2>2, <2>3
<1>15. Ring(q, h, u)
  <2> SUFFICES ASSUME NEW i \in 0..Len(s) + m
               PROVE  q.next[El(h, u, i)] = El(h, u, i + 1) /\ q.prev[El(h, u, i + 1)] = El(h, u, i)
    BY <1>13 DEF Ring
  <2>0. i \in Int /\ k \in Int /\ m \in Int /\ i \in 0..Len(s) + m + 1 /\ i + 1 \in 0..Len(s) + m + 1
    BY <1>4, <1>8, <1>9
  <2>1. CASE i < k
    <3>1. /\ i \in 0..Len(s) /\ k \in 0..Len(s) /\ i # k /\ i + 1 \in 1..Len(s) + 1 /\ k + 1 \in 1..Len(s) + 1
          /\ i + 1 # k + 1 /\ i <= k /\ i + 1 <= k
      BY <1>4, <1>8, <2>0, <2>1
    <3>2. El(h, u, i) = El(h, s, i) /\ El(h, u, i + 1) = El(h, s, i + 1)
      BY <1>14, <2>0, <3>1
    <3>3. El(h, s, i) # a /\ El(h, s, i + 1) # b
      BY <1>8, <3>1 DEF a, b
    <3>4. r.next[El(h, s, i)] = El(h, s, i + 1) /\ r.prev[El(h, s, i + 1)] = El(h, s, i)
      BY <1>4, <3>1 DEF Ring
    <3>5. /\ El(h, s, i) \in L!All /\ El(h, s, i + 1) \in L!All
          /\ El(h, s, i) \in Members(h, s) /\ El(h, s, i + 1) \in Members(h, s)
      BY <1>8, <3>1
    <3>6. El(h, s, i) # tl /\ El(h, s, i + 1) # hd
      BY <1>3, <1>11, <3>5
    <3> QED BY <1>12, <3>2, <3>3, <3>4, <3>5, <3>6
  <2>2. CASE i = k
    <3>1. ~(i + 1 <= k) /\ i + 1 <= k + m /\ (i + 1) - k = 1 /\ i <= k
      BY <1>9, <1>10, <2>0, <2>2
    <3>2. El(h, u, i) = a /\ El(h, u, i + 1) = hd
      BY <1>14, <2>0, <2>2, <3>1 DEF a, hd
    <3>3. a # tl /\ hd # b
      BY <1>3, <1>11
    <3> QED BY <1>2, <1>11, <1>12, <3>2, <3>3
  <2>3. CASE i > k /\ i < k + m
    <3>1. /\ ~(i <= k) /\ i <= k + m /\ ~(i + 1 <= k) /\ i + 1 <= k + m /\ (i + 1) - k = (i - k) + 1
          /\ i - k \in 0..m /\ i - k # m /\ m \in 0..m /\ (i - k) + 1 \in 1..m + 1 /\ 1 \in 1..m + 1 /\ (i - k) + 1 # 1
      BY <1>9, <1>10, <2>0, <2>3
    <3>2. El(h, u, i) = El(l, t, i - k) /\ El(h, u, i + 1) = El(l, t, (i - k) + 1)
      BY <1>14, <2>0, <3>1
    <3>3. El(l, t, i - k) # tl /\ El(l, t, (i - k) + 1) # hd
      BY <1>9, <3>1 DEF tl, hd
    <3>4. r.next[El(l, t, i - k)] = El(l, t, (i - k) + 1) /\ r.prev[El(l, t, (i - k) + 1)] = El(l, t, i - k)
      BY <1>2, <3>1 DEF Ring, m
    <3>5. /\ El(l, t, i - k) \in L!All /\ El(l, t, (i - k) + 1) \in L!All
          /\ El(l, t, i - k) \in Members(l, t) /\ El(l, t, (i - k) + 1) \in Members(l, t)
      BY <1>9, <3>1
    <3>6. El(l, t, i - k) # a /\ El(l, t, (i - k) + 1) # b
      BY <1>3, <1>11, <3>5
    <3> QED BY <1>12, <3>2, <3>3, <3>4, <3>5, <3>6
  <2>4. CASE i = k + m
    <3>1. ~(i <= k) /\ i <= k + m /\ ~(i + 1 <= k) /\ ~(i + 1 <= k + m) /\ i - k = m /\ (i + 1) - m = k + 1
      BY <1>9, <1>10, <2>0, <2>4
    <3>2. El(h, u, i) = tl /\ El(h, u, i + 1) = b
      BY <1>14, <2>0, <3>1 DEF tl, b
    <3> QED BY <1>2, <1>11, <1>12, <3>2
  <2>5. CASE i > k + m
    <3>1. /\ ~(i <= k) /\ ~(i <= k + m) /\ ~(i + 1 <= k) /\ ~(i + 1 <= k + m) /\ (i + 1) - m = (i - m) + 1
          /\ i - m \in 0..Len(s) /\ k \in 0..Len(s) /\ i - m # k /\ (i - m) + 1 \in 1..Len(s) + 1
          /\ k + 1 \in 1..Len(s) + 1 /\ (i - m) + 1 # k + 1
      BY <1>4, <1>8, <1>9, <2>0, <2>5
    <3>2. El(h, u, i) = El(h, s, i - m) /\ El(h, u, i + 1) = El(h, s, (i - m) + 1)
      BY <1>14, <2>0, <3>1
    <3>3. El(h, s, i - m) # a /\ El(h, s, (i - m) + 1) # b
      BY <1>8, <3>1 DEF a, b
    <3>4. r.next[El(h, s, i - m)] = El(h, s, (i - m) + 1) /\ r.prev[El(h, s, (i - m) + 1)] = El(h, s, i - m)
      BY <1>4, <3>1 DEF Ring
    <3>5. /\ El(h, s, i - m) \in L!All /\ El(h, s, (i - m) + 1) \in L!All
          /\ El(h, s, i - m) \in Members(h, s) /\ El(h, s, (i - m) + 1) \in Members(h, s)
      BY <1>8, <3>1
    <3>6. El(h, s, i - m) # tl /\ El(h, s, (i - m) + 1) # hd
      BY <1>3, <1>11, <3>5
    <3> QED BY <1>12, <3>2, <3>3, <3>4, <3>5, <3>6
  <2> QED BY <2>0, <2>1, <2>2, <2>3, <2>4, <2>5
<1>16. /\ \A i, j \in DOMAIN u : u[i] = u[j] => i = j
       /\ {u[i] : i \in DOMAIN u} = {s[i] : i \in DOMAIN s} \cup {t[i] : i \in DOMAIN t}
  <2>1. \A i \in DOMAIN s, j \in DOMAIN t : s[i] # t[j]
    BY <1>3 DEF Members
  <2>2. s \in Seq(Nodes) /\ t \in Seq(Nodes) /\ k \in 0..Len(s) /\ Merged(s, k, t, u)
    BY <1>1, <1>4
  <2>3. (\A i, j \in DOMAIN s : s[i] = s[j] => i = j) /\ \A i, j \in DOMAIN t : t[i] = t[j] => i = j
    BY <1>1
  <2>4. MadeOf(u, s, t)
    BY <2>1, <2>2, <2>3, MergedFrom
  <2> QED BY <2>4 DEF MadeOf
<1>17. /\ Q1 \in [Heads -> Seq(Nodes)] /\ Q1[l] = <<>> /\ \A g \in Heads \ {l} : Q1[g] = S[g]
       /\ DOMAIN <<>> = {}
  BY <1>1, EmptySeq, LenProperties
<1>18. Distinct(Q1)
  BY <1>1, <1>17, DistinctOne
<1> HIDE DEF Q1
<1>19. /\ Q \in [Heads -> Seq(Nodes)] /\ Q[l] = <<>> /\ Q[h] = u
       /\ \A g \in Heads \ {l, h} : Q[g] = S[g]
  BY <1>13, <1>17
<1>20. Distinct(Q)
  <2>1. ASSUME NEW g \in Heads \ {h}, NEW j \in DOMAIN Q1[g], NEW i \in DOMAIN u, Q1[g][j] = u[i]
        PROVE  FALSE
    <3>1. g # l /\ Q1[g] = S[g]
      BY <1>17, <2>1
    <3>2. S[g][j] \in Members(g, S[g]) /\ u[i] \in T
      BY <1>16, <3>1 DEF Members
    <3> QED BY <1>5, <2>1, <3>1, <3>2
  <2> QED BY <1>16, <1>17, <1>18, <2>1, DistinctOne, ZenonT(30)
<1> HIDE DEF Q
<1>21. \A n \in Nodes : n \in T => IsIn(Q, n)
  <2> SUFFICES ASSUME NEW n \in Nodes, n \in T PROVE IsIn(Q, n)
    OBVIOUS
  <2>1. n \in {s[i] : i \in DOMAIN s} \cup {t[i] : i \in DOMAIN t}
    BY DEF Members, L!ListAssumption
  <2>2. PICK i \in DOMAIN u : u[i] = n
    BY <1>16, <2>1
  <2> QED BY <1>19, <2>2 DEF IsIn
<1>22. \A n \in Nodes \ T : IsIn(S, n) => IsIn(Q, n)
  <2> SUFFICES ASSUME NEW n \in Nodes \ T, NEW g \in Heads, NEW i \in DOMAIN S[g], S[g][i] = n
               PROVE  IsIn(Q, n)
    BY DEF IsIn
  <2>1. g # h /\ g # l
    BY DEF Members, s, t
  <2> QED BY <1>19, <2>1 DEF IsIn
<1>23. Rewired(r, S, {}, q, Q, {l}, {l, h}, T)
  <2>1. \A e \in L!All \ T : q.next[e] = r.next[e] /\ q.prev[e] = r.prev[e]
    BY <1>11, <1>12
  <2>2. HeadOK(q, l, Q[l], {l}) /\ HeadOK(q, h, Q[h], {l})
    BY <1>15, <1>19 DEF HeadOK
  <2> HIDE DEF T
  <2> QED BY <1>5, <1>12, <1>19, <1>20, <1>21, <1>22, <2>1, <2>2 DEF Rewired
<1>24. Ringed(q, Q, {l})
  <2> HIDE DEF T
  <2> QED BY <1>23, RewiredIs
<1> QED BY <1>6, <1>7, <1>24 DEF a, b, s

\* The first k entries of h moved to the empty l.
LEMMA CutOff ==
  ASSUME L!ListAssumption, NEW r, NEW S, Ringed(r, S, {}), NEW l \in Heads, NEW h \in Heads, l # h,
         S[l] = <<>>, NEW k \in DOMAIN S[h]
  PROVE  Ringed(L!CutLinks(r, l, h, S[h][k]),
                [S EXCEPT ![l] = SubSeq(S[h], 1, k), ![h] = SubSeq(S[h], k + 1, Len(S[h]))], {})
<1> DEFINE s  == S[h]
           t2 == SubSeq(s, 1, k)
           s2 == SubSeq(s, k + 1, Len(s))
           e  == s[k]
           hd == El(h, s, 1)
           f  == El(h, s, k + 1)
           p1 == L!Link(r, l, hd)
           p2 == L!Link(p1, e, l)
           q  == L!Link(p2, h, f)
           Q1 == [S EXCEPT ![h] = s2]
           Q  == [Q1 EXCEPT ![l] = t2]
           T  == Members(h, s) \cup {l}
<1>1. /\ s \in Seq(Nodes) /\ \A i, j \in DOMAIN s : s[i] = s[j] => i = j
      /\ S \in [Heads -> Seq(Nodes)] /\ Distinct(S) /\ RingShape(r)
  BY DEF Ringed, Distinct
<1>2. /\ Ring(r, h, s) /\ k \in 1..Len(s) /\ e \in Nodes /\ r.next[e] = f /\ f \in L!All
      /\ r.next[h] = hd /\ hd \in L!All
  <2>1. s # <<>>
    <3> HIDE DEF s
    <3> QED BY LenProperties, EmptySeq DEF s
  <2> QED BY <2>1, NextTo, SoundRing
<1>3. /\ Members(l, S[l]) = {l} /\ Members(h, s) \cap {l} = {} /\ l \in L!All /\ h \in L!All /\ e \in L!All
      /\ l \notin Nodes /\ h \notin Nodes
  <2>1. Members(l, S[l]) = {l}
    <3>1. DOMAIN <<>> = {}
      BY EmptySeq, LenProperties
    <3> QED BY <3>1 DEF Members
  <2>2. Members(h, s) \cap Members(l, S[l]) = {}
    BY <1>1, Apart
  <2> QED BY <1>2, <2>1, <2>2 DEF L!All, L!ListAssumption
<1>4. \A g \in Heads \ {l, h} : Members(g, S[g]) \cap T = {}
  <2>1. \A g \in Heads \ {l, h} : Members(g, S[g]) \cap Members(h, s) = {} /\ Members(g, S[g]) \cap Members(l, S[l]) = {}
    BY <1>1, Apart
  <2> QED BY <1>3, <2>1
<1>5. L!CutLinks(r, l, h, e) = q
  BY <1>2 DEF L!CutLinks
<1>6. [S EXCEPT ![l] = t2, ![h] = SubSeq(S[h], k + 1, Len(S[h]))] = Q
  <2>1. SubSeq(S[h], k + 1, Len(S[h])) = s2
    OBVIOUS
  <2> HIDE DEF s2, t2
  <2> QED BY <2>1
<1> HIDE DEF s
<1>7. /\ Len(s) \in Nat /\ DOMAIN s = 1..Len(s)
      /\ El(h, s, 0) = h /\ El(h, s, Len(s) + 1) = h
      /\ \A i \in 1..Len(s) : El(h, s, i) = s[i] /\ s[i] \in Nodes /\ s[i] # h
      /\ \A i \in Int : El(h, s, i) \in Members(h, s) /\ El(h, s, i) \in L!All
      /\ \A i, j \in 0..Len(s) : El(h, s, i) = El(h, s, j) => i = j
      /\ \A i, j \in 1..Len(s) + 1 : El(h, s, i) = El(h, s, j) => i = j
  BY <1>1, AroundIs
<1>8. /\ hd \in Members(h, s) /\ f \in Members(h, s) /\ e \in Members(h, s)
      /\ hd # f /\ hd = s[1] /\ e # h
  <2>1. 1 \in 1..Len(s) /\ 1 \in 1..Len(s) + 1 /\ k + 1 \in 1..Len(s) + 1 /\ k + 1 # 1
    BY <1>2, <1>7
  <2> QED BY <1>2, <1>7, <2>1 DEF Members
<1>9. /\ RingShape(q)
      /\ \A x \in L!All : /\ q.next[x] = IF x = h THEN f ELSE IF x = e THEN l ELSE IF x = l THEN hd ELSE r.next[x]
                          /\ q.prev[x] = IF x = f THEN h ELSE IF x = l THEN e ELSE IF x = hd THEN l ELSE r.prev[x]
  <2> HIDE DEF e, hd, f
  <2>1. /\ RingShape(p1)
        /\ \A x \in L!All : /\ p1.next[x] = IF x = l THEN hd ELSE r.next[x]
                            /\ p1.prev[x] = IF x = hd THEN l ELSE r.prev[x]
    BY <1>1, <1>2, <1>3, LinkIs
  <2> HIDE DEF p1
  <2>2. /\ RingShape(p2)
        /\ \A x \in L!All : /\ p2.next[x] = IF x = e THEN l ELSE p1.next[x]
                            /\ p2.prev[x] = IF x = l THEN e ELSE p1.prev[x]
    BY <1>2, <1>3, <2>1, LinkIs
  <2> HIDE DEF p2
  <2>3. /\ RingShape(q)
        /\ \A x \in L!All : /\ q.next[x] = IF x = h THEN f ELSE p2.next[x]
                            /\ q.prev[x] = IF x = f THEN h ELSE p2.prev[x]
    BY <1>2, <1>3, <2>2, LinkIs
  <2> HIDE DEF q
  <2> QED BY <2>1, <2>2, <2>3
<1>10. /\ t2 \in Seq(Nodes) /\ Len(t2) = k /\ DOMAIN t2 = 1..k /\ \A i \in 1..k : t2[i] = s[i]
       /\ s2 \in Seq(Nodes) /\ Len(s2) = Len(s) - k /\ DOMAIN s2 = 1..Len(s) - k
       /\ \A i \in 1..Len(s) - k : s2[i] = s[k + i]
  <2>1. s \in Seq(Nodes) /\ k \in 0..Len(s)
    BY <1>1, <1>2, <1>7
  <2>2. /\ t2 \in Seq(Nodes) /\ Len(t2) = k /\ \A i \in 1..k : t2[i] = s[i]
        /\ s2 \in Seq(Nodes) /\ Len(s2) = Len(s) - k /\ \A i \in 1..Len(s) - k : s2[i] = s[k + i]
    BY <2>1, SplitAt
  <2> HIDE DEF t2, s2
  <2> QED BY <2>2, LenProperties
<1> HIDE DEF t2, s2
<1>11. /\ \A i \in 1..k : El(l, t2, i) = s[i]
       /\ El(l, t2, 0) = l /\ El(l, t2, k + 1) = l
  BY <1>2, <1>7, <1>10 DEF El
<1>12. \A i \in 1..Len(s) - k + 1 : El(h, s2, i) = El(h, s, i + k)
  <2> SUFFICES ASSUME NEW i \in 1..Len(s) - k + 1 PROVE El(h, s2, i) = El(h, s, i + k)
    OBVIOUS
  <2>1. (i \in DOMAIN s2 <=> i + k \in DOMAIN s) /\ k + i = i + k
    BY <1>2, <1>7, <1>10
  <2> QED BY <1>10, <2>1 DEF El
<1>13. El(h, s2, 0) = h
  BY <1>10 DEF El
<1> HIDE DEF q, p1, p2, e, f, hd
<1>14. Ring(q, l, t2)
  <2> SUFFICES ASSUME NEW i \in 0..k
               PROVE  q.next[El(l, t2, i)] = El(l, t2, i + 1) /\ q.prev[El(l, t2, i + 1)] = El(l, t2, i)
    BY <1>10 DEF Ring
  <2>0. k \in Int /\ 1 <= k /\ k <= Len(s) /\ i \in Int /\ Len(s) \in Int
    BY <1>2, <1>7
  <2>1. CASE i = 0
    <3>1. El(l, t2, 0) = l /\ El(l, t2, 1) = hd
      BY <1>8, <1>11, <2>0
    <3>2. l # h /\ l # e /\ hd # l
      BY <1>3, <1>8
    <3> QED BY <1>2, <1>3, <1>8, <1>9, <2>1, <3>1, <3>2
  <2>2. CASE i # 0 /\ i # k
    <3>1. i \in 1..k /\ i + 1 \in 1..k /\ i \in 1..Len(s) /\ i + 1 \in 1..Len(s) /\ i # k /\ k \in 1..Len(s)
          /\ i + 1 \in 1..Len(s) + 1 /\ k + 1 \in 1..Len(s) + 1 /\ 1 \in 1..Len(s) + 1 /\ i + 1 # 1 /\ i + 1 # k + 1
          /\ i \in 0..Len(s)
      BY <2>0, <2>2
    <3>2. El(l, t2, i) = s[i] /\ El(l, t2, i + 1) = s[i + 1]
      BY <1>11, <3>1
    <3>3. El(h, s, i) = s[i] /\ El(h, s, i + 1) = s[i + 1] /\ s[i] \in Nodes /\ s[i + 1] \in Nodes
      BY <1>7, <3>1
    <3>4. r.next[s[i]] = s[i + 1] /\ r.prev[s[i + 1]] = s[i]
      BY <1>2, <3>1, <3>3 DEF Ring
    <3>5. s[i] # e /\ s[i] # h /\ s[i] # l /\ s[i + 1] # f /\ s[i + 1] # hd /\ s[i + 1] # l
      <4>1. s[i] # e
        BY <1>1, <1>7, <3>1 DEF e
      <4>2. s[i + 1] # f /\ s[i + 1] # hd
        BY <1>7, <3>1, <3>3 DEF f, hd
      <4> QED BY <1>3, <3>3, <4>1, <4>2
    <3>6. s[i] \in L!All /\ s[i + 1] \in L!All
      BY <3>3 DEF L!All
    <3> QED BY <1>9, <3>2, <3>4, <3>5, <3>6
  <2>3. CASE i = k
    <3>1. El(l, t2, i) = e /\ El(l, t2, i + 1) = l
      BY <1>2, <1>11, <2>0, <2>3 DEF e
    <3>2. l # f
      BY <1>3, <1>8
    <3> QED BY <1>3, <1>8, <1>9, <3>1, <3>2
  <2> QED BY <2>1, <2>2, <2>3
<1>15. Ring(q, h, s2)
  <2> SUFFICES ASSUME NEW i \in 0..Len(s) - k
               PROVE  q.next[El(h, s2, i)] = El(h, s2, i + 1) /\ q.prev[El(h, s2, i + 1)] = El(h, s2, i)
    BY <1>10 DEF Ring
  <2>0. k \in Int /\ 1 <= k /\ k <= Len(s) /\ i \in Int /\ Len(s) \in Int
    BY <1>2, <1>7
  <2>1. CASE i = 0
    <3>1. 1 \in 1..Len(s) - k + 1 /\ 1 + k = k + 1
      BY <2>0
    <3>2. El(h, s2, 0) = h /\ El(h, s2, 1) = f
      BY <1>12, <1>13, <3>1 DEF f
    <3> QED BY <1>2, <1>3, <1>9, <2>1, <3>2
  <2>2. CASE i # 0
    <3>1. /\ i \in 1..Len(s) - k + 1 /\ i + 1 \in 1..Len(s) - k + 1 /\ (i + 1) + k = (i + k) + 1
          /\ i + k \in 0..Len(s) /\ i + k \in 1..Len(s) /\ i + k # k /\ k \in 1..Len(s)
          /\ (i + k) + 1 \in 1..Len(s) + 1 /\ k + 1 \in 1..Len(s) + 1 /\ 1 \in 1..Len(s) + 1
          /\ (i + k) + 1 # k + 1 /\ (i + k) + 1 # 1 /\ (i + k) + 1 \in Int
      BY <2>0, <2>2
    <3>2. El(h, s2, i) = El(h, s, i + k) /\ El(h, s2, i + 1) = El(h, s, (i + k) + 1)
      BY <1>12, <3>1
    <3>3. El(h, s, i + k) = s[i + k] /\ s[i + k] \in Nodes /\ s[i + k] # e
      BY <1>1, <1>7, <3>1 DEF e
    <3>4. r.next[El(h, s, i + k)] = El(h, s, (i + k) + 1) /\ r.prev[El(h, s, (i + k) + 1)] = El(h, s, i + k)
      BY <1>2, <3>1 DEF Ring
    <3>5. El(h, s, (i + k) + 1) # f /\ El(h, s, (i + k) + 1) # hd
      BY <1>7, <3>1 DEF f, hd
    <3>6. El(h, s, i + k) \in L!All /\ El(h, s, (i + k) + 1) \in L!All /\ El(h, s, (i + k) + 1) \in Members(h, s)
      BY <1>7, <3>1
    <3>7. El(h, s, i + k) # h /\ El(h, s, i + k) # l /\ El(h, s, (i + k) + 1) # l
      BY <1>3, <3>3, <3>6
    <3> QED BY <1>9, <3>2, <3>3, <3>4, <3>5, <3>6, <3>7
  <2> QED BY <2>1, <2>2
<1>16. /\ \A i, j \in DOMAIN t2 : t2[i] = t2[j] => i = j
       /\ \A i, j \in DOMAIN s2 : s2[i] = s2[j] => i = j
       /\ \A i \in DOMAIN t2, j \in DOMAIN s2 : t2[i] # s2[j]
       /\ \A i \in DOMAIN t2 : t2[i] \in Members(h, s)
       /\ \A i \in DOMAIN s2 : s2[i] \in Members(h, s)
       /\ \A i \in DOMAIN s : (\E j \in DOMAIN t2 : t2[j] = s[i]) \/ (\E j \in DOMAIN s2 : s2[j] = s[i])
  <2>1. \A i \in DOMAIN t2 : i \in Int /\ i <= k /\ i \in DOMAIN s /\ t2[i] = s[i]
    BY <1>2, <1>7, <1>10
  <2>2. \A i \in DOMAIN s2 : i \in Int /\ k + i > k /\ k + i \in DOMAIN s /\ s2[i] = s[k + i]
    BY <1>2, <1>7, <1>10
  <2>3. \A i, j \in DOMAIN t2 : t2[i] = t2[j] => i = j
    BY <1>1, <2>1
  <2>4. ASSUME NEW i \in DOMAIN s2, NEW j \in DOMAIN s2, s2[i] = s2[j] PROVE i = j
    <3>1. k + i = k + j /\ i \in Int /\ j \in Int /\ k \in Int
      BY <1>1, <1>2, <2>2, <2>4
    <3> QED BY <3>1
  <2>5. ASSUME NEW i \in DOMAIN t2, NEW j \in DOMAIN s2, t2[i] = s2[j] PROVE FALSE
    <3>1. i = k + j /\ i <= k /\ k + j > k /\ i \in Int /\ j \in Int /\ k \in Int
      BY <1>1, <1>2, <2>1, <2>2, <2>5
    <3> QED BY <3>1
  <2>6. ASSUME NEW i \in DOMAIN s
        PROVE  (\E j \in DOMAIN t2 : t2[j] = s[i]) \/ (\E j \in DOMAIN s2 : s2[j] = s[i])
    <3>1. CASE i <= k
      <4>1. i \in DOMAIN t2 /\ t2[i] = s[i]
        BY <1>2, <1>7, <1>10, <3>1
      <4> QED BY <4>1
    <3>2. CASE i > k
      <4>1. i - k \in DOMAIN s2 /\ s2[i - k] = s[i]
        <5>1. i - k \in 1..Len(s) - k /\ k + (i - k) = i
          BY <1>2, <1>7, <3>2
        <5> QED BY <1>10, <5>1
      <4> QED BY <4>1
    <3> QED BY <1>2, <1>7, <3>1, <3>2
  <2>7. \A i \in DOMAIN s : s[i] \in Members(h, s)
    BY DEF Members
  <2> QED BY <2>1, <2>2, <2>3, <2>4, <2>5, <2>6, <2>7
<1>17. Q1 \in [Heads -> Seq(Nodes)] /\ Q1[h] = s2 /\ \A g \in Heads \ {h} : Q1[g] = S[g]
  BY <1>1, <1>10
<1>18. Distinct(Q1)
  <2>1. ASSUME NEW g \in Heads \ {h}, NEW j \in DOMAIN S[g], NEW i \in DOMAIN s2, S[g][j] = s2[i]
        PROVE  FALSE
    <3>1. S[g][j] \in Members(g, S[g]) /\ s2[i] \in Members(h, s)
      BY <1>16 DEF Members
    <3>2. g = l => S[g][j] = l
      BY <1>3, <3>1
    <3> QED BY <1>3, <1>4, <2>1, <3>1, <3>2
  <2>2. S \in [Heads -> Seq(Nodes)] /\ Distinct(S) /\ \A i, j \in DOMAIN s2 : s2[i] = s2[j] => i = j
    BY <1>1, <1>16
  <2> QED BY <2>1, <2>2, DistinctOne
<1> HIDE DEF Q1
<1>19. /\ Q \in [Heads -> Seq(Nodes)] /\ Q[l] = t2 /\ Q[h] = s2
       /\ \A g \in Heads \ {l, h} : Q[g] = S[g]
  BY <1>10, <1>17
<1>20. Distinct(Q)
  <2>1. ASSUME NEW g \in Heads \ {l}, NEW j \in DOMAIN Q1[g], NEW i \in DOMAIN t2, Q1[g][j] = t2[i]
        PROVE  FALSE
    <3>1. CASE g = h
      BY <1>16, <1>17, <2>1, <3>1
    <3>2. CASE g # h
      <4>1. Q1[g] = S[g]
        BY <1>17, <3>2
      <4>2. S[g][j] \in Members(g, S[g]) /\ t2[i] \in Members(h, s)
        BY <1>16, <4>1 DEF Members
      <4> QED BY <1>4, <2>1, <3>2, <4>1, <4>2
    <3> QED BY <3>1, <3>2
  <2>2. Q1 \in [Heads -> Seq(Nodes)] /\ Distinct(Q1) /\ \A i, j \in DOMAIN t2 : t2[i] = t2[j] => i = j
    BY <1>16, <1>17, <1>18
  <2>3. \A g \in Heads \ {l} : \A j \in DOMAIN Q1[g], i \in DOMAIN t2 : Q1[g][j] # t2[i]
    BY <2>1
  <2> QED BY <2>2, <2>3, DistinctOne
<1> HIDE DEF Q
<1>21. \A n \in Nodes : n \in T => IsIn(Q, n)
  <2> SUFFICES ASSUME NEW n \in Nodes, n \in T PROVE IsIn(Q, n)
    OBVIOUS
  <2>1. \E i \in DOMAIN s : n = s[i]
    BY <1>3 DEF Members
  <2> QED BY <1>16, <1>19, <2>1 DEF IsIn
<1>22. \A n \in Nodes \ T : IsIn(S, n) => IsIn(Q, n)
  <2> SUFFICES ASSUME NEW n \in Nodes \ T, NEW g \in Heads, NEW i \in DOMAIN S[g], S[g][i] = n
               PROVE  IsIn(Q, n)
    BY DEF IsIn
  <2>1. n \in Members(g, S[g])
    BY DEF Members
  <2>2. g # h /\ g # l
    BY <1>3, <2>1 DEF s
  <2> QED BY <1>19, <2>2 DEF IsIn
<1>23. Rewired(r, S, {}, q, Q, {}, {l, h}, T)
  <2>1. \A x \in L!All \ T : q.next[x] = r.next[x] /\ q.prev[x] = r.prev[x]
    <3> SUFFICES ASSUME NEW x \in L!All \ T PROVE q.next[x] = r.next[x] /\ q.prev[x] = r.prev[x]
      OBVIOUS
    <3>1. x # l /\ x # h /\ x # e /\ x # f /\ x # hd
      BY <1>8 DEF Members
    <3> QED BY <1>9, <3>1
  <2>2. HeadOK(q, l, Q[l], {}) /\ HeadOK(q, h, Q[h], {})
    BY <1>14, <1>15, <1>19 DEF HeadOK
  <2> HIDE DEF T
  <2> QED BY <1>4, <1>9, <1>19, <1>20, <1>21, <1>22, <2>1, <2>2 DEF Rewired
<1>24. Ringed(q, Q, {})
  <2> HIDE DEF T
  <2> QED BY <1>23, RewiredIs
<1> QED BY <1>5, <1>6, <1>24 DEF e, t2, s

\* The module List has its own copy of Cardinality.
LEMMA LCardinality == ASSUME NEW S PROVE L!Cardinality(S) = Cardinality(S)
BY DEF L!Cardinality, Cardinality

\* Following the pointers until one leads to no entry.
LEMMA RingWalked ==
  ASSUME L!ListAssumption, NEW r, NEW h, NEW s \in Seq(Nodes), NEW z, z \notin Nodes,
         \A i, j \in DOMAIN s : s[i] = s[j] => i = j,
         r.next[h] = El(z, s, 1), \A i \in DOMAIN s : r.next[s[i]] = El(z, s, i + 1)
  PROVE  L!Walk(r, h) = s
<1> DEFINE N == L!Cardinality(L!All)
           G(u) == [k \in 0..N |-> IF k = 0 THEN r.next[h]
                                   ELSE IF u[k - 1] \in Nodes THEN r.next[u[k - 1]] ELSE u[k - 1]]
           f == CHOOSE u : u = G(u)
           w == [k \in 0..N |-> El(z, s, k + 1)]
<1>1. Len(s) \in 0..N /\ N \in Nat /\ DOMAIN s = 1..Len(s)
  <2>1. IsFiniteSet(Heads) /\ IsFiniteSet(Nodes)
    BY DEF L!ListAssumption, L!IsFiniteSet, IsFiniteSet
  <2>2. IsFiniteSet(L!All)
    BY <2>1, FS_Union DEF L!All
  <2>3. s \in Seq(L!All)
    BY SeqMonotonic DEF L!All
  <2>4. Len(s) \in 0..Cardinality(L!All) /\ Cardinality(L!All) \in Nat
    BY <2>2, <2>3, NoLonger
  <2> QED BY <2>4, LCardinality, LenProperties
<1>2. /\ \A i \in DOMAIN s : s[i] \in Nodes /\ El(z, s, i) = s[i]
      /\ \A i \in Int : i \notin DOMAIN s => El(z, s, i) = z
  BY <1>1, ElementOfSeq DEF El
<1> HIDE DEF N
<1>3. w = G(w)
  <2>1. ASSUME NEW k \in 0..N
        PROVE  w[k] = G(w)[k]
    <3>1. CASE k = 0
      BY <3>1
    <3>2. CASE k # 0
      <4>1. k - 1 \in 0..N /\ w[k - 1] = El(z, s, k)
        BY <1>1, <3>2
      <4>2. CASE k \in DOMAIN s
        BY <1>2, <3>2, <4>1, <4>2
      <4>3. CASE k \notin DOMAIN s
        <5>1. k + 1 \notin DOMAIN s
          BY <1>1, <3>2, <4>3
        <5> QED BY <1>2, <3>2, <4>1, <4>3, <5>1
      <4> QED BY <4>2, <4>3
    <3> QED BY <3>1, <3>2
  <2> QED BY <2>1
<1>4. f = G(f)
  <2> HIDE DEF w, G
  <2> QED BY <1>3
<1>5. \A k \in 0..N : f[k] = G(f)[k]
  <2> HIDE DEF f, G
  <2> QED BY <1>4
<1>6. DOMAIN f = 0..N
  <2> HIDE DEF f
  <2> QED BY <1>4
<1>7. \A k \in 0..N : w[k] = G(w)[k]
  <2> HIDE DEF w, G
  <2> QED BY <1>3
<1>8. L!Walk(r, h) = [k \in 1..L!Cardinality({i \in DOMAIN f : f[i] \in Nodes}) |-> f[k - 1]]
  BY DEF L!Walk, N
<1>9. \A k \in 0..N : w[k] = El(z, s, k + 1)
  OBVIOUS
<1> HIDE DEF f, w
<1> DEFINE T == {k \in 0..N : f[k] # w[k]}
<1>10. T = {}
  <2> SUFFICES ASSUME T # {} PROVE FALSE
    OBVIOUS
  <2>1. T \subseteq Nat
    BY <1>1
  <2>2. \A i \in T : i \in 0..N /\ f[i] # w[i]
    OBVIOUS
  <2>3. \A i \in 0..N : f[i] # w[i] => i \in T
    OBVIOUS
  <2> HIDE DEF T
  <2>4. PICK i \in T : \A j \in T : i <= j
    BY <2>1, LeastNatural
  <2>5. i \in 1..N /\ i - 1 \in 0..N
    BY <1>1, <1>5, <1>7, <2>2
  <2>6. f[i - 1] = w[i - 1]
    BY <1>1, <2>3, <2>4, <2>5
  <2>7. f[i] = IF f[i - 1] \in Nodes THEN r.next[f[i - 1]] ELSE f[i - 1]
    BY <1>1, <1>5, <2>5
  <2>8. w[i] = IF w[i - 1] \in Nodes THEN r.next[w[i - 1]] ELSE w[i - 1]
    BY <1>1, <1>7, <2>5
  <2> QED BY <2>2, <2>6, <2>7, <2>8
<1>11. \A k \in 0..N : f[k] = El(z, s, k + 1)
  BY <1>9, <1>10
<1>12. {i \in DOMAIN f : f[i] \in Nodes} = 0..Len(s) - 1
  <2>1. ASSUME NEW i \in 0..Len(s) - 1
        PROVE  i \in DOMAIN f /\ f[i] \in Nodes
    <3>1. i \in 0..N /\ i + 1 \in DOMAIN s
      BY <1>1
    <3> QED BY <1>2, <1>6, <1>11, <3>1
  <2>2. ASSUME NEW i \in DOMAIN f, f[i] \in Nodes
        PROVE  i \in 0..Len(s) - 1
    <3>1. i \in 0..N /\ i + 1 \in Int
      BY <1>6
    <3>2. i + 1 \in DOMAIN s
      BY <1>2, <1>11, <2>2, <3>1
    <3> QED BY <1>1, <3>1, <3>2
  <2> QED BY <2>1, <2>2
<1>13. Cardinality(0..Len(s) - 1) = Len(s)
  <2>1. 0 \in Int /\ Len(s) - 1 \in Int
    BY <1>1
  <2>2. Cardinality(0..Len(s) - 1) = IF 0 > Len(s) - 1 THEN 0 ELSE Len(s) - 1 - 0 + 1
    BY <2>1, FS_Interval
  <2> QED BY <1>1, <2>2
<1>14. L!Walk(r, h) = [k \in 1..Len(s) |-> f[k - 1]]
  BY <1>8, <1>12, <1>13, LCardinality
<1>15. \A k \in 1..Len(s) : f[k - 1] = s[k]
  <2> SUFFICES ASSUME NEW k \in 1..Len(s) PROVE f[k - 1] = s[k]
    OBVIOUS
  <2>1. k - 1 \in 0..N /\ (k - 1) + 1 = k /\ k \in DOMAIN s
    BY <1>1
  <2> QED BY <1>2, <1>11, <2>1
<1>16. s = [k \in 1..Len(s) |-> s[k]]
  BY <1>1, SeqDef
<1> QED BY <1>14, <1>15, <1>16

RingInv == Ringed(ring, L!Seqs, {})

\* The sequences that are linked in rings are those that a walk gives.
LEMMA RingsAreWalked ==
  ASSUME L!ListAssumption, NEW r, NEW S, Ringed(r, S, {})
  PROVE  [h \in Heads |-> L!Walk(r, h)] = S
<1>1. ASSUME NEW h \in Heads PROVE L!Walk(r, h) = S[h]
  <2> DEFINE s == S[h]
  <2>1. s \in Seq(Nodes) /\ (\A i, j \in DOMAIN s : s[i] = s[j] => i = j) /\ HeadOK(r, h, s, {})
    BY DEF Ringed, Distinct
  <2> HIDE DEF s
  <2>2. h \notin Nodes /\ NULL \notin Nodes
    BY DEF L!ListAssumption
  <2>3. Len(s) \in Nat /\ DOMAIN s = 1..Len(s) /\ DOMAIN <<>> = {}
    BY <2>1, LenProperties, EmptySeq
  <2>4. CASE Ring(r, h, s)
    <3>1. r.next[h] = El(h, s, 1)
      <4>1. 0 \in 0..Len(s) /\ El(h, s, 0) = h /\ 0 + 1 = 1
        BY <2>3 DEF El
      <4> QED BY <2>4, <4>1 DEF Ring
    <3>2. \A i \in DOMAIN s : r.next[s[i]] = El(h, s, i + 1)
      <4>1. \A i \in DOMAIN s : i \in 0..Len(s) /\ El(h, s, i) = s[i]
        BY <2>3 DEF El
      <4> QED BY <2>4, <4>1 DEF Ring
    <3> QED BY <2>1, <2>2, <3>1, <3>2, RingWalked DEF s
  <2>5. CASE s = <<>> /\ r.next[h] = NULL
    <3>1. r.next[h] = El(NULL, s, 1) /\ \A i \in DOMAIN s : r.next[s[i]] = El(NULL, s, i + 1)
      BY <2>3, <2>5 DEF El
    <3> QED BY <2>1, <2>2, <3>1, RingWalked DEF s
  <2> QED BY <2>1, <2>4, <2>5 DEF HeadOK
<1> QED BY <1>1 DEF Ringed

\* After a step the walk gives the sequences that are linked then.
LEMMA RingsNext ==
  ASSUME L!ListAssumption, NEW S, Ringed(ring', S, {})
  PROVE  RingInv' /\ L!Seqs' = S
<1>1. L!Seqs' = [h \in Heads |-> L!Walk(ring', h)]
  BY DEF L!Seqs, L!Walk
<1>2. L!Seqs' = S
  BY <1>1, RingsAreWalked
<1> QED BY <1>2 DEF RingInv

\* What only reads leaves the sequences as they are.
LEMMA LStays ==
  ASSUME RingInv, ring' = ring
  PROVE  RingInv' /\ L!Seqs' = L!Seqs
<1>1. L!Seqs' = L!Seqs
  BY DEF L!Seqs, L!Walk
<1> QED BY <1>1 DEF RingInv

\* Where an entry is: its neighbours tell whether it is in a list.
LEMMA WhereInRing ==
  ASSUME L!ListAssumption, RingInv, NEW n \in Nodes
  PROVE  \/ ~IsIn(L!Seqs, n) /\ ~L!Linked(n) /\ n \notin L!Sequence!Linked /\ n \in L!Sequence!Idle
         \/ /\ L!Linked(n) /\ n \in L!Sequence!Linked /\ n \notin L!Sequence!Idle
            /\ IsIn(L!Seqs, n)
            /\ L!Sequence!Of(n) \in Heads
            /\ L!Sequence!Place(n) \in DOMAIN L!Seqs[L!Sequence!Of(n)]
            /\ L!Seqs[L!Sequence!Of(n)][L!Sequence!Place(n)] = n
<1> DEFINE S == L!Seqs
<1>1. n \in L!Sequence!Linked <=> IsIn(S, n)
  BY DEF L!Sequence!Linked, IsIn, L!Sequence!Range
<1>2. n \in L!Sequence!Idle <=> ~IsIn(S, n)
  BY <1>1 DEF L!Sequence!Idle
<1>3. ~IsIn(S, n) => ~L!Linked(n)
  BY DEF RingInv, Ringed, Alone, L!Linked
<1>4. ASSUME NEW h \in Heads, NEW k \in DOMAIN S[h], S[h][k] = n
      PROVE  L!Linked(n)
  <2>1. /\ ring.next[S[h][k]] = El(h, S[h], k + 1) /\ El(h, S[h], k + 1) \in L!All
        /\ El(h, S[h], k + 1) # S[h][k]
    BY <1>4, NextTo DEF RingInv
  <2>2. NULL \notin L!All
    BY DEF L!ListAssumption, L!All
  <2> QED BY <1>4, <2>1, <2>2 DEF L!Linked
<1>5. ASSUME IsIn(S, n)
      PROVE  /\ L!Sequence!Of(n) \in Heads
             /\ L!Sequence!Place(n) \in DOMAIN S[L!Sequence!Of(n)]
             /\ S[L!Sequence!Of(n)][L!Sequence!Place(n)] = n
  <2>1. \E h \in Heads : n \in L!Sequence!Range(S[h])
    BY <1>5 DEF IsIn, L!Sequence!Range
  <2>2. L!Sequence!Of(n) \in Heads /\ n \in L!Sequence!Range(S[L!Sequence!Of(n)])
    BY <2>1 DEF L!Sequence!Of
  <2>3. \E i \in DOMAIN S[L!Sequence!Of(n)] : S[L!Sequence!Of(n)][i] = n
    BY <2>2 DEF L!Sequence!Range
  <2> QED BY <2>2, <2>3 DEF L!Sequence!Place
<1>6. IsIn(S, n) => L!Linked(n)
  BY <1>4 DEF IsIn
<1> QED BY <1>1, <1>2, <1>3, <1>5, <1>6

\* Inserting behind the last element is appending.
LEMMA PutLast ==
  ASSUME NEW s \in Seq(Nodes), NEW n \in Nodes
  PROVE  InsertAt(s, Len(s) + 1, n) = s \o <<n>>
<1> DEFINE s2 == InsertAt(s, Len(s) + 1, n)
           t  == s \o <<n>>
<1>1. Len(s) \in Nat /\ <<n>> \in Seq(Nodes) /\ Len(<<n>>) = 1 /\ <<n>>[1] = n
  BY LenProperties
<1>2. /\ s2 \in Seq(Nodes) /\ Len(s2) = Len(s) + 1
      /\ \A i \in 1..(Len(s) + 1) : s2[i] = IF i < Len(s) + 1 THEN s[i] ELSE IF i = Len(s) + 1 THEN n ELSE s[i - 1]
  <2>1. ASSUME NEW k \in 1..(Len(s) + 1)
        PROVE  /\ InsertAt(s, k, n) \in Seq(Nodes) /\ Len(InsertAt(s, k, n)) = Len(s) + 1
               /\ \A i \in 1..(Len(s) + 1) :
                    InsertAt(s, k, n)[i] = IF i < k THEN s[i] ELSE IF i = k THEN n ELSE s[i - 1]
    <3>1. s \in Seq(Nodes) /\ n \in Nodes /\ k \in 1..(Len(s) + 1)
      OBVIOUS
    <3> HIDE DEF s2, t
    <3> QED BY <3>1, InsertAtProperties, SMTT(30)
  <2>2. Len(s) + 1 \in 1..(Len(s) + 1)
    BY <1>1
  <2> QED BY <2>1, <2>2
<1>3. /\ t \in Seq(Nodes) /\ Len(t) = Len(s) + 1
      /\ \A i \in 1..(Len(s) + 1) : t[i] = IF i <= Len(s) THEN s[i] ELSE <<n>>[i - Len(s)]
  BY <1>1, ConcatProperties
<1> HIDE DEF s2, t
<1>4. \A i \in 1..Len(s) + 1 : s2[i] = t[i]
  <2> SUFFICES ASSUME NEW i \in 1..Len(s) + 1 PROVE s2[i] = t[i]
    OBVIOUS
  <2>1. CASE i <= Len(s)
    BY <1>1, <1>2, <1>3, <2>1
  <2>2. CASE i = Len(s) + 1
    <3>1. i - Len(s) = 1 /\ ~(i <= Len(s)) /\ ~(i < Len(s) + 1)
      BY <1>1, <2>2
    <3> QED BY <1>1, <1>2, <1>3, <2>2, <3>1
  <2> QED BY <1>1, <2>1, <2>2
<1>5. s2 = t
  BY <1>1, <1>2, <1>3, <1>4, SeqEqual
<1> QED BY <1>5 DEF s2, t

\* Removing the first element leaves the tail.
LEMMA FirstGone ==
  ASSUME NEW s \in Seq(Nodes), s # <<>>
  PROVE  RemoveAt(s, 1) = Tail(s) /\ Head(s) = s[1] /\ 1 \in DOMAIN s
<1> DEFINE a == RemoveAt(s, 1)
           t == Tail(s)
<1>1. Len(s) \in Nat /\ Len(s) # 0 /\ DOMAIN s = 1..Len(s)
  BY LenProperties, EmptySeq
<1>2. /\ a \in Seq(Nodes) /\ Len(a) = Len(s) - 1
      /\ \A i \in 1..(Len(s) - 1) : a[i] = IF i < 1 THEN s[i] ELSE s[i + 1]
  <2>1. 1 \in 1..Len(s)
    BY <1>1
  <2> QED BY <2>1, RemoveAtProperties
<1>3. /\ t \in Seq(Nodes) /\ Len(t) = Len(s) - 1
      /\ \A i \in 1..Len(t) : t[i] = s[i + 1]
      /\ Head(s) = s[1]
  BY HeadTailProperties
<1> HIDE DEF a, t
<1>4. \A i \in 1..Len(a) : a[i] = t[i]
  BY <1>1, <1>2, <1>3
<1>5. a = t
  BY <1>2, <1>3, <1>4, SeqEqual
<1> QED BY <1>1, <1>3, <1>5 DEF a, t

\* With more elements of which nothing is said the shape still holds.
LEMMA Loosened ==
  ASSUME NEW r, NEW S, NEW X, NEW Y, Ringed(r, S, X), X \subseteq Y
  PROVE  Ringed(r, S, Y)
BY DEF Ringed, HeadOK

\* What is taken out is in no list.
LEMMA NotHeld ==
  ASSUME NEW S \in [Heads -> Seq(Nodes)], Distinct(S), NEW h \in Heads, NEW k \in DOMAIN S[h]
  PROVE  ~IsIn([S EXCEPT ![h] = RemoveAt(S[h], k)], S[h][k])
<1> DEFINE s  == S[h]
           s2 == RemoveAt(s, k)
           Q  == [S EXCEPT ![h] = s2]
<1>1. s \in Seq(Nodes) /\ Len(s) \in Nat /\ DOMAIN s = 1..Len(s) /\ k \in 1..Len(s)
  BY LenProperties
<1>2. Q[h] = s2 /\ \A g \in Heads \ {h} : Q[g] = S[g]
  OBVIOUS
<1>3. \A i, j \in DOMAIN s : s[i] = s[j] => i = j
  BY DEF Distinct
<1>4. \A g \in Heads \ {h} : \A i \in DOMAIN S[g] : S[g][i] # s[k]
  BY DEF Distinct
<1> HIDE DEF s
<1>5. DOMAIN s2 = 1..Len(s) - 1 /\ \A i \in 1..Len(s) - 1 : s2[i] = IF i < k THEN s[i] ELSE s[i + 1]
  <2>1. /\ s2 \in Seq(Nodes) /\ Len(s2) = Len(s) - 1
        /\ \A i \in 1..(Len(s) - 1) : s2[i] = IF i < k THEN s[i] ELSE s[i + 1]
    BY <1>1, RemoveAtProperties
  <2> HIDE DEF s2
  <2> QED BY <2>1, LenProperties
<1> HIDE DEF s2
<1>6. \A i \in DOMAIN s2 : s2[i] # s[k]
  <2>1. \A i \in DOMAIN s2 : /\ i < k => i \in DOMAIN s /\ i # k /\ s2[i] = s[i]
                             /\ ~(i < k) => i + 1 \in DOMAIN s /\ i + 1 # k /\ s2[i] = s[i + 1]
    BY <1>1, <1>5
  <2> QED BY <1>1, <1>3, <2>1
<1> HIDE DEF Q
<1>7. ~IsIn(Q, s[k])
  BY <1>2, <1>4, <1>6 DEF IsIn
<1> QED BY <1>7 DEF Q, s2, s

\* An entry put at one of the ends.
LEMMA AtTheEnds ==
  ASSUME L!ListAssumption, NEW r, NEW S, NEW n \in Nodes, Ringed(r, S, {n}), ~IsIn(S, n),
         NEW h \in Heads, r.next[h] # NULL
  PROVE  /\ Ringed(L!AddLinks(r, n, h, r.next[h]), [S EXCEPT ![h] = <<n>> \o S[h]], {})
         /\ Ringed(L!AddLinks(r, n, r.prev[h], h), [S EXCEPT ![h] = S[h] \o <<n>>], {})
<1> DEFINE s == S[h]
<1>1. /\ Ring(r, h, s) /\ s \in Seq(Nodes) /\ Len(s) \in Nat
      /\ r.next[h] = El(h, s, 1) /\ r.prev[h] = El(h, s, Len(s))
      /\ El(h, s, 0) = h /\ El(h, s, Len(s) + 1) = h
  <2>1. h # n
    BY DEF L!ListAssumption
  <2>2. s \in Seq(Nodes) /\ \A i, j \in DOMAIN s : s[i] = s[j] => i = j
    BY DEF Ringed, Distinct
  <2>3. Len(s) \in Nat /\ El(h, s, 0) = h /\ El(h, s, Len(s) + 1) = h
    <3> HIDE DEF s
    <3> QED BY <2>2, AroundIs
  <2> QED BY <2>1, <2>2, <2>3, SoundRing
<1>2. /\ 1 \in 1..Len(s) + 1 /\ 1 - 1 = 0
      /\ Len(s) + 1 \in 1..Len(s) + 1 /\ (Len(s) + 1) - 1 = Len(s)
  BY <1>1
<1>3. Ringed(L!AddLinks(r, n, El(h, s, 1 - 1), El(h, s, 1)), [S EXCEPT ![h] = InsertAt(s, 1, n)], {})
  BY <1>1, <1>2, Added
<1>4. Ringed(L!AddLinks(r, n, El(h, s, (Len(s) + 1) - 1), El(h, s, Len(s) + 1)),
             [S EXCEPT ![h] = InsertAt(s, Len(s) + 1, n)], {})
  BY <1>1, <1>2, Added
<1>5. InsertAt(s, 1, n) = <<n>> \o s /\ InsertAt(s, Len(s) + 1, n) = s \o <<n>>
  BY <1>1, PutFirst, PutLast
<1> QED BY <1>1, <1>2, <1>3, <1>4, <1>5

\* list_add and list_add_tail put the element at an end of the sequence.
LEMMA LAddStep ==
  ASSUME L!ListAssumption, RingInv, NEW n \in Nodes, NEW h \in Heads, L!list_add(n, h) \/ L!list_add_tail(n, h)
  PROVE  RingInv' /\ L!Sequence!Add(n, h)
<1> DEFINE S == L!Seqs
<1>1. ~IsIn(S, n) /\ n \in L!Sequence!Idle /\ ring.next[h] # NULL
  BY WhereInRing DEF L!list_add, L!list_add_tail, L!Sound
<1>2. Ringed(ring, S, {n})
  BY Loosened DEF RingInv
<1>3. /\ Ringed(L!AddLinks(ring, n, h, ring.next[h]), [S EXCEPT ![h] = <<n>> \o S[h]], {})
      /\ Ringed(L!AddLinks(ring, n, ring.prev[h], h), [S EXCEPT ![h] = S[h] \o <<n>>], {})
  <2> HIDE DEF S
  <2> QED BY <1>1, <1>2, AtTheEnds
<1>4. CASE L!list_add(n, h)
  <2>1. ring' = L!AddLinks(ring, n, h, ring.next[h]) /\ said' = <<"add">> \o <<n, h>>
    BY <1>4 DEF L!list_add, L!Does
  <2>2. RingInv' /\ L!Seqs' = [S EXCEPT ![h] = <<n>> \o S[h]]
    BY <1>3, <2>1, RingsNext
  <2> QED BY <1>1, <2>1, <2>2 DEF L!Sequence!Add, L!Sequence!Say
<1>5. CASE L!list_add_tail(n, h)
  <2>1. ring' = L!AddLinks(ring, n, ring.prev[h], h) /\ said' = <<"add_tail">> \o <<n, h>>
    BY <1>5 DEF L!list_add_tail, L!Does
  <2>2. RingInv' /\ L!Seqs' = [S EXCEPT ![h] = S[h] \o <<n>>]
    BY <1>3, <2>1, RingsNext
  <2> QED BY <1>1, <2>1, <2>2 DEF L!Sequence!Add, L!Sequence!Say
<1> QED BY <1>4, <1>5

\* An entry of a list, taken out: what is left, and what it is called there.
LEMMA TakenOut ==
  ASSUME L!ListAssumption, RingInv, NEW n \in Nodes, L!Linked(n)
  PROVE  /\ n \in L!Sequence!Linked
         /\ Ringed(L!DelLinks(ring, n), L!Sequence!Less(n), {n})
         /\ ~IsIn(L!Sequence!Less(n), n)
         /\ \A g \in Heads : ring.next[g] # NULL => L!DelLinks(ring, n).next[g] # NULL
<1> DEFINE S == L!Seqs
           h == L!Sequence!Of(n)
           k == L!Sequence!Place(n)
           Q == [S EXCEPT ![h] = RemoveAt(S[h], k)]
<1>1. h \in Heads /\ k \in DOMAIN S[h] /\ S[h][k] = n /\ n \in L!Sequence!Linked
  BY WhereInRing
<1>2. L!Sequence!Less(n) = Q
  BY DEF L!Sequence!Less, L!Sequence!RemoveAt, RemoveAt
<1>3. S \in [Heads -> Seq(Nodes)] /\ Distinct(S) /\ Ringed(ring, S, {})
  BY DEF RingInv, Ringed
<1> HIDE DEF S, h, k
<1>4. /\ Ringed(L!DelLinks(ring, S[h][k]), Q, {S[h][k]})
      /\ \A g \in Heads : ring.next[g] # NULL => L!DelLinks(ring, S[h][k]).next[g] # NULL
  BY <1>1, <1>3, Removed
<1>5. ~IsIn(Q, S[h][k])
  BY <1>1, <1>3, NotHeld
<1> QED BY <1>1, <1>2, <1>4, <1>5

\* list_del and list_del_init take the element out of its sequence.
LEMMA LDelStep ==
  ASSUME L!ListAssumption, RingInv, NEW n \in Nodes, L!list_del(n) \/ L!list_del_init(n)
  PROVE  RingInv' /\ L!Sequence!Delete(n)
<1>1. said' = <<"del">> \o <<n>>
  BY DEF L!list_del, L!list_del_init, L!Does
<1>2. n \in L!All /\ n \notin Heads
  BY DEF L!All, L!ListAssumption
<1>3. CASE L!Linked(n)
  <2> DEFINE Q == L!Sequence!Less(n)
             r == L!DelLinks(ring, n)
  <2>1. n \in L!Sequence!Linked /\ Ringed(r, Q, {n}) /\ ~IsIn(Q, n)
    BY <1>3, TakenOut
  <2>2. ring' = L!Forget(r, n) \/ ring' = L!INIT_LIST_HEAD(r, n)
    BY DEF L!list_del, L!list_del_init, L!Does
  <2> HIDE DEF Q, r
  <2>3. Ringed(L!Forget(r, n), Q, {}) /\ Ringed(L!INIT_LIST_HEAD(r, n), Q, {})
    BY <1>2, <2>1, Dropped
  <2>4. Ringed(ring', Q, {})
    BY <2>2, <2>3
  <2>5. RingInv' /\ L!Seqs' = Q
    BY <2>4, RingsNext
  <2> QED BY <1>1, <2>1, <2>5 DEF L!Sequence!Delete, L!Sequence!Say, Q
<1>4. CASE ~L!Linked(n)
  <2> DEFINE S == L!Seqs
             r == L!Link(ring, n, n)
  <2>1. ~IsIn(S, n) /\ n \notin L!Sequence!Linked
    BY <1>4, WhereInRing
  <2>2. ring.next[n] = n /\ ring.prev[n] = n /\ ring' = L!INIT_LIST_HEAD(L!DelLinks(ring, n), n)
    <3>1. L!list_del_init(n)
      BY <1>4 DEF L!list_del
    <3>2. ring.next[n] # NULL /\ ring' = L!INIT_LIST_HEAD(L!DelLinks(ring, n), n)
      BY <3>1 DEF L!list_del_init, L!Does, L!Sound
    <3> QED BY <2>1, <3>2 DEF RingInv, Ringed, Alone
  <2>3. Ringed(ring, S, {}) /\ RingShape(ring)
    BY DEF RingInv, Ringed
  <2>4. ring' = L!INIT_LIST_HEAD(r, n)
    BY <2>2 DEF L!DelLinks
  <2>5. Written(ring, n, n, L!INIT_LIST_HEAD(r, n))
    <3>1. /\ RingShape(r)
          /\ \A e \in L!All : /\ r.next[e] = IF e = n THEN n ELSE ring.next[e]
                              /\ r.prev[e] = IF e = n THEN n ELSE ring.prev[e]
      BY <1>2, <2>3, LinkIs
    <3> HIDE DEF r
    <3>2. Written(r, n, n, L!INIT_LIST_HEAD(r, n))
      BY <1>2, <3>1, SetIs
    <3> QED BY <3>1, <3>2 DEF Written
  <2> HIDE DEF S
  <2>6. Ringed(ring', S, {})
    <3> DEFINE q == L!INIT_LIST_HEAD(r, n)
    <3>1. Written(ring, n, n, q) /\ {} \subseteq {n} /\ n \in {NULL, n} /\ ring' = q
      BY <2>4, <2>5
    <3>2. (n \in Nodes => ~IsIn(S, n)) /\ (n \in Heads => S[n] = <<>>)
      BY <1>2, <2>1
    <3> HIDE DEF q
    <3>3. Ringed(q, S, {})
      BY <1>2, <2>3, <3>1, <3>2, LetGo
    <3> QED BY <3>1, <3>3
  <2>7. RingInv' /\ L!Seqs' = S
    BY <2>6, RingsNext
  <2> QED BY <1>1, <2>1, <2>7 DEF L!Sequence!Delete, L!Sequence!Say, S
<1> QED BY <1>3, <1>4

\* list_move and list_move_tail take the element to an end of another sequence.
LEMMA LMoveStep ==
  ASSUME L!ListAssumption, RingInv, NEW n \in Nodes, NEW h \in Heads, L!list_move(n, h) \/ L!list_move_tail(n, h)
  PROVE  RingInv' /\ L!Sequence!Move(n, h)
<1> DEFINE Q == L!Sequence!Less(n)
           r == L!DelLinks(ring, n)
<1>1. L!Linked(n) /\ ring.next[h] # NULL
  BY DEF L!list_move, L!list_move_tail, L!Sound
<1>2. n \in L!Sequence!Linked /\ Ringed(r, Q, {n}) /\ ~IsIn(Q, n) /\ r.next[h] # NULL
  BY <1>1, TakenOut
<1>3. /\ Ringed(L!AddLinks(r, n, h, r.next[h]), [Q EXCEPT ![h] = <<n>> \o Q[h]], {})
      /\ Ringed(L!AddLinks(r, n, r.prev[h], h), [Q EXCEPT ![h] = Q[h] \o <<n>>], {})
  <2> HIDE DEF Q, r
  <2> QED BY <1>2, AtTheEnds
<1>4. CASE L!list_move(n, h)
  <2>1. ring' = L!AddLinks(r, n, h, r.next[h]) /\ said' = <<"move">> \o <<n, h>>
    BY <1>4 DEF L!list_move, L!Does
  <2>2. RingInv' /\ L!Seqs' = [Q EXCEPT ![h] = <<n>> \o Q[h]]
    BY <1>3, <2>1, RingsNext
  <2> QED BY <1>2, <2>1, <2>2 DEF L!Sequence!Move, L!Sequence!Say
<1>5. CASE L!list_move_tail(n, h)
  <2>1. ring' = L!AddLinks(r, n, r.prev[h], h) /\ said' = <<"move_tail">> \o <<n, h>>
    BY <1>5 DEF L!list_move_tail, L!Does
  <2>2. RingInv' /\ L!Seqs' = [Q EXCEPT ![h] = Q[h] \o <<n>>]
    BY <1>3, <2>1, RingsNext
  <2> QED BY <1>2, <2>1, <2>2 DEF L!Sequence!Move, L!Sequence!Say
<1> QED BY <1>4, <1>5

\* list_replace and list_replace_init put one element in the place of another.
LEMMA LReplaceStep ==
  ASSUME L!ListAssumption, RingInv, NEW old \in Nodes, NEW new \in Nodes,
         L!list_replace(old, new) \/ L!list_replace_init(old, new)
  PROVE  RingInv' /\ L!Sequence!Replace(old, new)
<1> DEFINE S == L!Seqs
           h == L!Sequence!Of(old)
           k == L!Sequence!Place(old)
           s2 == [S[h] EXCEPT ![k] = new]
           Q == [S EXCEPT ![h] = s2]
           r == L!Replaced(old, new)
<1>1. /\ L!Linked(old) /\ ~L!Linked(new) /\ said' = <<"replace">> \o <<old, new>>
      /\ ring' = L!Forget(r, old) \/ ring' = L!INIT_LIST_HEAD(r, old)
  BY DEF L!list_replace, L!list_replace_init, L!Does
<1>2. ~IsIn(S, new) /\ new \in L!Sequence!Idle
  BY <1>1, WhereInRing
<1>3. h \in Heads /\ k \in DOMAIN S[h] /\ S[h][k] = old /\ old \in L!Sequence!Linked
  BY <1>1, WhereInRing
<1>4. Ringed(ring, S, {}) /\ S \in [Heads -> Seq(Nodes)] /\ Distinct(S)
  BY DEF RingInv, Ringed
<1> HIDE DEF S, h, k
<1>5. Ringed(r, Q, {old})
  <2>1. Ringed(L!Replaced(S[h][k], new), Q, {S[h][k]})
    BY <1>2, <1>3, <1>4, Renamed
  <2> QED BY <1>3, <2>1
<1>6. ~IsIn(Q, old)
  <2>1. Q[h] = s2 /\ \A g \in Heads \ {h} : Q[g] = S[g]
    <3> HIDE DEF s2
    <3> QED BY <1>3, <1>4
  <2>2. DOMAIN s2 = DOMAIN S[h] /\ \A i \in DOMAIN s2 : s2[i] = IF i = k THEN new ELSE S[h][i]
    OBVIOUS
  <2>3. new # old
    BY <1>2, <1>3 DEF IsIn
  <2> HIDE DEF Q, s2
  <2>4. \A g \in Heads \ {h} : \A i \in DOMAIN S[g] : S[g][i] # old
    BY <1>3, <1>4 DEF Distinct
  <2>5. \A i \in DOMAIN s2 : s2[i] # old
    BY <1>3, <1>4, <2>2, <2>3 DEF Distinct
  <2> QED BY <2>1, <2>4, <2>5 DEF IsIn
<1>7. old \in L!All /\ old \notin Heads
  BY DEF L!All, L!ListAssumption
<1> HIDE DEF Q, r
<1>8. Ringed(L!Forget(r, old), Q, {}) /\ Ringed(L!INIT_LIST_HEAD(r, old), Q, {})
  BY <1>5, <1>6, <1>7, Dropped
<1>9. RingInv' /\ L!Seqs' = Q
  <2>1. Ringed(ring', Q, {})
    BY <1>1, <1>8
  <2> QED BY <2>1, RingsNext
<1> QED BY <1>1, <1>2, <1>3, <1>9 DEF L!Sequence!Replace, L!Sequence!Say, Q, S, h, k

\* What a head's own pointers tell.
LEMMA HeadTells ==
  ASSUME L!ListAssumption, RingInv, NEW h \in Heads, L!Sound(h)
  PROVE  /\ Ring(ring, h, L!Seqs[h]) /\ L!Seqs[h] \in Seq(Nodes)
         /\ L!Empty(h) <=> L!Seqs[h] = <<>>
         /\ L!Empty(h) => ring.prev[h] = ring.next[h]
         /\ L!Singular(h) <=> Len(L!Seqs[h]) = 1
         /\ L!Seqs[h] # <<>> => ring.next[h] = L!Seqs[h][1] /\ 1 \in DOMAIN L!Seqs[h]
<1> DEFINE s == L!Seqs[h]
<1>1. /\ Ring(ring, h, s) /\ ring.next[h] = El(h, s, 1) /\ ring.prev[h] = El(h, s, Len(s))
  BY SoundRing DEF RingInv, L!Sound
<1>2. s \in Seq(Nodes) /\ \A i, j \in DOMAIN s : s[i] = s[j] => i = j
  BY DEF RingInv, Ringed, Distinct
<1> HIDE DEF s
<1>3. /\ Len(s) \in Nat /\ DOMAIN s = 1..Len(s)
      /\ El(h, s, 0) = h
      /\ \A i \in 1..Len(s) : El(h, s, i) = s[i] /\ s[i] \in Nodes /\ s[i] # h
      /\ \A i, j \in 0..Len(s) : El(h, s, i) = El(h, s, j) => i = j
      /\ El(h, s, Len(s) + 1) = h
  BY <1>2, AroundIs
<1>4. s = <<>> <=> Len(s) = 0
  BY <1>2, EmptySeq
<1>5. CASE s = <<>>
  <2>1. Len(s) = 0 /\ El(h, s, 1) = h
    BY <1>3, <1>4, <1>5
  <2>2. ring.next[h] = h /\ ring.prev[h] = h
    BY <1>1, <1>3, <2>1
  <2> QED BY <1>1, <1>2, <1>5, <2>1, <2>2 DEF L!Empty, L!Singular, s
<1>6. CASE s # <<>>
  <2>1. 1 \in 1..Len(s) /\ Len(s) \in 1..Len(s) /\ 1 \in 0..Len(s) /\ Len(s) \in 0..Len(s)
    BY <1>3, <1>4, <1>6
  <2>2. ring.next[h] = s[1] /\ ring.next[h] # h /\ 1 \in DOMAIN s
    BY <1>1, <1>3, <2>1
  <2>3. ring.next[h] = ring.prev[h] <=> Len(s) = 1
    BY <1>1, <1>3, <2>1
  <2> QED BY <1>1, <1>2, <1>6, <2>2, <2>3 DEF L!Empty, L!Singular, s
<1> QED BY <1>5, <1>6

\* list_rotate_left makes the first element the last one.
LEMMA LRotateStep ==
  ASSUME L!ListAssumption, RingInv, NEW h \in Heads, L!list_rotate_left(h)
  PROVE  RingInv' /\ L!Sequence!RotateLeft(h)
<1> DEFINE S == L!Seqs
           s == S[h]
<1>1. L!Sound(h) /\ said' = <<"rotate_left">> \o <<h>>
  BY DEF L!list_rotate_left, L!Does
<1>2. /\ s \in Seq(Nodes) /\ (L!Empty(h) <=> s = <<>>)
      /\ s # <<>> => ring.next[h] = s[1] /\ 1 \in DOMAIN s
  BY <1>1, HeadTells
<1>3. CASE s = <<>>
  <2>1. ring' = ring
    BY <1>2, <1>3 DEF L!list_rotate_left, L!Does
  <2>2. RingInv' /\ L!Seqs' = S
    BY <2>1, LStays
  <2>3. S = [S EXCEPT ![h] = IF s = <<>> THEN s ELSE Tail(s) \o <<Head(s)>>]
    <3>1. S \in [Heads -> Seq(Nodes)]
      BY DEF RingInv, Ringed
    <3> HIDE DEF S
    <3> QED BY <1>3, <3>1
  <2> QED BY <1>1, <2>2, <2>3 DEF L!Sequence!RotateLeft, L!Sequence!Say
<1>4. CASE s # <<>>
  <2> DEFINE n == ring.next[h]
             r == L!DelLinks(ring, n)
             Q == [S EXCEPT ![h] = RemoveAt(s, 1)]
  <2>1. ring' = L!AddLinks(r, n, r.prev[h], h)
    BY <1>2, <1>4 DEF L!list_rotate_left, L!Does
  <2>2. n = s[1] /\ n \in Nodes /\ 1 \in DOMAIN s
    <3>1. ring.next[h] = s[1] /\ 1 \in DOMAIN s
      BY <1>2, <1>4
    <3>2. s[1] \in Nodes
      <4> HIDE DEF s
      <4> QED BY <1>2, <3>1, ElementOfSeq, LenProperties
    <3> QED BY <3>1, <3>2
  <2>3. Ringed(ring, S, {}) /\ S \in [Heads -> Seq(Nodes)] /\ Distinct(S) /\ ring.next[h] # NULL
    BY <1>1 DEF RingInv, Ringed, L!Sound
  <2>4. RemoveAt(s, 1) = Tail(s) /\ Head(s) = s[1]
    BY <1>2, <1>4, FirstGone
  <2> HIDE DEF S, n
  <2>5. Ringed(r, Q, {n}) /\ r.next[h] # NULL
    <3>1. /\ Ringed(L!DelLinks(ring, S[h][1]), [S EXCEPT ![h] = RemoveAt(S[h], 1)], {S[h][1]})
          /\ \A g \in Heads : ring.next[g] # NULL => L!DelLinks(ring, S[h][1]).next[g] # NULL
      BY <2>2, <2>3, Removed
    <3> QED BY <2>2, <2>3, <3>1
  <2>6. ~IsIn(Q, n)
    <3>1. ~IsIn([S EXCEPT ![h] = RemoveAt(S[h], 1)], S[h][1])
      BY <2>2, <2>3, NotHeld
    <3> QED BY <2>2, <3>1
  <2>7. Q[h] = Tail(s)
    BY <2>3, <2>4
  <2>8. Ringed(L!AddLinks(r, n, r.prev[h], h), [Q EXCEPT ![h] = Q[h] \o <<n>>], {})
    <3> HIDE DEF Q, r
    <3> QED BY <2>2, <2>5, <2>6, AtTheEnds
  <2>9. [Q EXCEPT ![h] = Q[h] \o <<n>>] = [S EXCEPT ![h] = Tail(s) \o <<Head(s)>>]
    <3> HIDE DEF s
    <3> QED BY <2>2, <2>3, <2>4, <2>7
  <2>10. RingInv' /\ L!Seqs' = [S EXCEPT ![h] = Tail(s) \o <<Head(s)>>]
    BY <2>1, <2>8, <2>9, RingsNext
  <2>11. [S EXCEPT ![h] = Tail(s) \o <<Head(s)>>] = [S EXCEPT ![h] = IF s = <<>> THEN s ELSE Tail(s) \o <<Head(s)>>]
    BY <1>4
  <2>12. L!Seqs' = [L!Seqs EXCEPT ![h] = IF @ = <<>> THEN @ ELSE Tail(@) \o <<Head(@)>>]
    BY <2>10, <2>11 DEF S
  <2> QED BY <1>1, <2>10, <2>12 DEF L!Sequence!RotateLeft, L!Sequence!Say
<1> QED BY <1>3, <1>4

\* An element has one place in one sequence.
LEMMA WhichPlace ==
  ASSUME NEW S, L!Seqs = S, Distinct(S), NEW h \in Heads, NEW k \in DOMAIN S[h]
  PROVE  L!Sequence!Of(S[h][k]) = h /\ L!Sequence!Place(S[h][k]) = k
<1> DEFINE n == S[h][k]
<1>1. \A g \in Heads : n \in L!Sequence!Range(S[g]) <=> g = h
  BY DEF Distinct, L!Sequence!Range
<1>2. L!Sequence!Of(n) = h
  BY <1>1 DEF L!Sequence!Of
<1>3. \A i \in DOMAIN S[h] : S[h][i] = n <=> i = k
  BY DEF Distinct
<1>4. L!Sequence!Place(n) = k
  BY <1>2, <1>3 DEF L!Sequence!Place
<1> QED BY <1>2, <1>4

\* list_cut_position moves the elements up to the given one to another head.
LEMMA LCutStep ==
  ASSUME L!ListAssumption, RingInv, NEW l \in Heads, NEW h \in Heads, NEW e \in Nodes \cup {h},
         L!list_cut_position(l, h, e)
  PROVE  RingInv' /\ L!Sequence!CutPosition(l, h, e)
<1> DEFINE S == L!Seqs
           s == S[h]
           k == IF e = h THEN 0 ELSE L!Sequence!Place(e)
           Q == [S EXCEPT ![l] = SubSeq(s, 1, k), ![h] = SubSeq(@, k + 1, Len(@))]
<1>1. /\ l # h /\ L!Sound(h) /\ S[l] = <<>> /\ said' = <<"cut">> \o <<l, h, e>>
      /\ e = h \/ \E i \in DOMAIN s : s[i] = e
      /\ ring' = IF L!Empty(h) \/ (L!Singular(h) /\ ring.next[h] # e /\ h # e) THEN ring
                 ELSE IF e = h THEN L!INIT_LIST_HEAD(ring, l) ELSE L!CutLinks(ring, l, h, e)
  BY DEF L!list_cut_position, L!Does
<1>2. /\ s \in Seq(Nodes) /\ (L!Empty(h) <=> s = <<>>) /\ (L!Singular(h) <=> Len(s) = 1)
      /\ s # <<>> => ring.next[h] = s[1] /\ 1 \in DOMAIN s
  BY <1>1, HeadTells
<1>3. Ringed(ring, S, {}) /\ S \in [Heads -> Seq(Nodes)] /\ Distinct(S)
  BY DEF RingInv, Ringed
<1>4. e \in L!Sequence!Range(s) \cup {h}
  BY <1>1 DEF L!Sequence!Range
<1>5. L!Seqs = S
  OBVIOUS
<1> HIDE DEF S
<1>6. DOMAIN s = 1..Len(s) /\ Len(s) \in Nat /\ (s = <<>> <=> Len(s) = 0)
  <2> HIDE DEF s
  <2> QED BY <1>2, LenProperties, EmptySeq
<1>7. CASE e = h
  <2>1. k = 0
    BY <1>7
  <2>2. SubSeq(s, 1, 0) = <<>> /\ SubSeq(s, 0 + 1, Len(s)) = s
    <3> HIDE DEF s
    <3>1. 0 \in 0..Len(s)
      BY <1>6
    <3>2. SubSeq(s, 1, 0) \in Seq(Nodes) /\ Len(SubSeq(s, 1, 0)) = 0
      BY <1>2, <3>1, SplitAt
    <3>3. SubSeq(s, 1, 0) = <<>>
      BY <3>2, EmptySeq
    <3>4. SubSeq(s, 1, Len(s)) = s
      BY <1>2, SubSeqFull
    <3> QED BY <3>3, <3>4
  <2>3. Q = S
    <3> HIDE DEF k
    <3> QED BY <1>1, <1>3, <2>1, <2>2
  <2>4. Ringed(ring', S, {})
    <3>1. CASE L!Empty(h)
      BY <1>1, <1>3, <3>1
    <3>2. CASE ~L!Empty(h)
      <4>1. ring' = L!INIT_LIST_HEAD(ring, l)
        BY <1>1, <1>7, <3>2
      <4>2. l \in L!All /\ l \notin Nodes
        BY DEF L!All, L!ListAssumption
      <4>3. Ringed(L!INIT_LIST_HEAD(ring, l), S, {})
        <5>1. l \in L!All /\ Ringed(ring, S, {}) /\ {} \subseteq {l} /\ S[l] = <<>>
          BY <1>1, <1>3, <4>2
        <5> HIDE DEF s, k, Q
        <5> QED BY <4>2, <5>1, Dropped
      <4> QED BY <4>1, <4>3
    <3> QED BY <3>1, <3>2
  <2>5. RingInv' /\ L!Seqs' = Q
    BY <2>3, <2>4, RingsNext
  <2> QED BY <1>1, <1>4, <2>5 DEF L!Sequence!CutPosition, L!Sequence!Say, S
<1>8. CASE e # h
  <2>1. PICK j \in DOMAIN s : s[j] = e
    BY <1>1, <1>8
  <2>2. k = j
    <3>1. L!Sequence!Place(S[h][j]) = j
      BY <1>3, <1>5, <2>1, WhichPlace
    <3> QED BY <1>8, <2>1, <3>1
  <2>3. ~L!Empty(h) /\ ~(L!Singular(h) /\ ring.next[h] # e /\ h # e)
    <3>1. s # <<>>
      BY <1>6, <2>1
    <3>2. Len(s) = 1 => j = 1
      BY <1>6, <2>1
    <3> QED BY <1>2, <2>1, <3>1, <3>2
  <2>4. ring' = L!CutLinks(ring, l, h, s[j])
    BY <1>1, <1>8, <2>1, <2>3
  <2>5. Ringed(L!CutLinks(ring, l, h, s[j]), [S EXCEPT ![l] = SubSeq(S[h], 1, j), ![h] = SubSeq(S[h], j + 1, Len(S[h]))], {})
    BY <1>1, <1>3, <2>1, CutOff
  <2>6. Q = [S EXCEPT ![l] = SubSeq(S[h], 1, j), ![h] = SubSeq(S[h], j + 1, Len(S[h]))]
    <3> HIDE DEF k
    <3> QED BY <1>1, <1>3, <2>2
  <2>7. RingInv' /\ L!Seqs' = Q
    <3> HIDE DEF Q
    <3>1. Ringed(ring', Q, {})
      BY <2>4, <2>5, <2>6
    <3> QED BY <3>1, RingsNext
  <2> QED BY <1>1, <1>4, <2>7 DEF L!Sequence!CutPosition, L!Sequence!Say, S
<1> QED BY <1>7, <1>8

\* Splicing before the first and behind the last element is concatenation.
LEMMA PutAtEnds ==
  ASSUME NEW s \in Seq(Nodes), NEW t \in Seq(Nodes)
  PROVE  Merged(s, 0, t, t \o s) /\ Merged(s, Len(s), t, s \o t)
<1>1. Len(s) \in Nat /\ Len(t) \in Nat
  BY LenProperties
<1>2. /\ t \o s \in Seq(Nodes) /\ Len(t \o s) = Len(t) + Len(s)
      /\ \A i \in 1..(Len(t) + Len(s)) : (t \o s)[i] = IF i <= Len(t) THEN t[i] ELSE s[i - Len(t)]
  BY ConcatProperties
<1>3. /\ s \o t \in Seq(Nodes) /\ Len(s \o t) = Len(s) + Len(t)
      /\ \A i \in 1..(Len(s) + Len(t)) : (s \o t)[i] = IF i <= Len(s) THEN s[i] ELSE t[i - Len(s)]
  BY ConcatProperties
<1> DEFINE a == t \o s
           b == s \o t
<1> HIDE DEF a, b
<1>4. Merged(s, 0, t, a)
  BY <1>1, <1>2 DEF Merged, a
<1>5. Merged(s, Len(s), t, b)
  BY <1>1, <1>3 DEF Merged, b
<1> QED BY <1>4, <1>5 DEF a, b

\* Splicing an empty sequence changes nothing.
LEMMA MergedNothing ==
  ASSUME NEW s \in Seq(Nodes), NEW k \in 0..Len(s), NEW u, Merged(s, k, <<>>, u)
  PROVE  u = s
<1>1. Len(s) \in Nat /\ Len(<<>>) = 0
  BY LenProperties, EmptySeq
<1>2. u \in Seq(Nodes) /\ Len(u) = Len(s) /\ \A i \in 1..Len(s) : u[i] = s[i]
  BY <1>1 DEF Merged
<1> QED BY <1>1, <1>2, SeqEqual

\* What is done with the stores of a splice.
SpliceEnds(r, l) ==
  \/ L!Empty(l) /\ ring' = ring
  \/ ~L!Empty(l) /\ ring' \in {L!INIT_LIST_HEAD(r, l), L!Forget(r, l)}

\* A splice as the two sequences that it leaves.
LEMMA LSpliced ==
  ASSUME L!ListAssumption, RingInv, NEW l \in Heads, NEW h \in Heads, l # h, L!Sound(l), L!Sound(h),
         NEW k \in 0..Len(L!Seqs[h]), NEW u, Merged(L!Seqs[h], k, L!Seqs[l], u),
         SpliceEnds(L!SpliceLinks(ring, l, El(h, L!Seqs[h], k), El(h, L!Seqs[h], k + 1)), l)
  PROVE  RingInv' /\ L!Seqs' = [L!Seqs EXCEPT ![l] = <<>>, ![h] = u]
<1> DEFINE S == L!Seqs
           Q == [S EXCEPT ![l] = <<>>, ![h] = u]
           r == L!SpliceLinks(ring, l, El(h, S[h], k), El(h, S[h], k + 1))
<1>1. (L!Empty(l) <=> S[l] = <<>>) /\ Ring(ring, h, S[h])
  BY HeadTells
<1>2. Ringed(ring, S, {}) /\ S \in [Heads -> Seq(Nodes)]
  BY DEF RingInv, Ringed
<1>3. k \in 0..Len(S[h]) /\ Merged(S[h], k, S[l], u) /\ SpliceEnds(r, l) /\ l # h
  OBVIOUS
<1> HIDE DEF S
<1>4. Ringed(ring', Q, {})
  <2>1. CASE L!Empty(l)
    <3>1. S[l] = <<>>
      BY <1>1, <2>1
    <3>2. u = S[h]
      BY <1>2, <1>3, <3>1, MergedNothing
    <3>3. Q = S
      BY <1>2, <3>1, <3>2
    <3> QED BY <1>2, <1>3, <2>1, <3>3 DEF SpliceEnds
  <2>2. CASE ~L!Empty(l)
    <3>1. S[l] # <<>>
      BY <1>1, <2>2
    <3>2. Ringed(r, Q, {l})
      BY <1>1, <1>2, <1>3, <3>1, Spliced
    <3>3. Q[l] = <<>> /\ l \in L!All /\ l \notin Nodes
      BY <1>2 DEF L!All, L!ListAssumption
    <3> HIDE DEF Q, r
    <3>4. Ringed(L!Forget(r, l), Q, {}) /\ Ringed(L!INIT_LIST_HEAD(r, l), Q, {})
      BY <3>2, <3>3, Dropped
    <3> QED BY <1>3, <2>2, <3>4 DEF SpliceEnds
  <2> QED BY <2>1, <2>2
<1>5. RingInv' /\ L!Seqs' = Q
  <2> HIDE DEF Q
  <2> QED BY <1>4, RingsNext
<1> QED BY <1>5 DEF S

\* list_splice and list_splice_init put all elements before those of the other head.
LEMMA LSpliceStep ==
  ASSUME L!ListAssumption, RingInv, NEW l \in Heads, NEW h \in Heads,
         L!list_splice(l, h) \/ L!list_splice_init(l, h)
  PROVE  RingInv' /\ L!Sequence!Splice(l, h)
<1> DEFINE S == L!Seqs
           r == L!SpliceLinks(ring, l, h, ring.next[h])
           u == S[l] \o S[h]
<1>1. /\ l # h /\ L!Sound(l) /\ L!Sound(h) /\ said' = <<"splice">> \o <<l, h>>
      /\ SpliceEnds(r, l)
  BY DEF L!list_splice, L!list_splice_init, L!Splice, L!Does, SpliceEnds
<1>2. S[h] \in Seq(Nodes) /\ S[l] \in Seq(Nodes) /\ Len(S[h]) \in Nat
  BY <1>1, HeadTells, LenProperties
<1>3. ring.next[h] = El(h, S[h], 0 + 1) /\ h = El(h, S[h], 0)
  <2>1. ring.next[h] = El(h, S[h], 1)
    BY <1>1, SoundRing DEF RingInv, L!Sound
  <2>2. h = El(h, S[h], 0)
    BY <1>2, LenProperties DEF El
  <2> QED BY <2>1, <2>2
<1>4. Merged(S[h], 0, S[l], u) /\ 0 \in 0..Len(S[h])
  BY <1>2, PutAtEnds
<1>5. r = L!SpliceLinks(ring, l, El(h, S[h], 0), El(h, S[h], 0 + 1))
  BY <1>3
<1> HIDE DEF r, u
<1>6. RingInv' /\ L!Seqs' = [S EXCEPT ![l] = <<>>, ![h] = u]
  BY <1>1, <1>4, <1>5, LSpliced, ZenonT(40)
<1>7. L!Seqs' = [L!Seqs EXCEPT ![l] = <<>>, ![h] = L!Seqs[l] \o @]
  <2> HIDE DEF S
  <2>1. [S EXCEPT ![l] = <<>>, ![h] = u] = [S EXCEPT ![l] = <<>>, ![h] = S[l] \o @]
    BY <1>1 DEF u
  <2> QED BY <1>6, <2>1 DEF S
<1> QED BY <1>1, <1>6, <1>7 DEF L!Sequence!Splice, L!Sequence!Say

\* list_splice_tail and list_splice_tail_init put them behind.
LEMMA LSpliceTailStep ==
  ASSUME L!ListAssumption, RingInv, NEW l \in Heads, NEW h \in Heads,
         L!list_splice_tail(l, h) \/ L!list_splice_tail_init(l, h)
  PROVE  RingInv' /\ L!Sequence!Splice(l, h)
<1> DEFINE S == L!Seqs
           r == L!SpliceLinks(ring, l, ring.prev[h], h)
           u == S[h] \o S[l]
           k == Len(S[h])
<1>1. /\ l # h /\ L!Sound(l) /\ L!Sound(h) /\ said' = <<"splice_tail">> \o <<l, h>>
      /\ SpliceEnds(r, l)
  BY DEF L!list_splice_tail, L!list_splice_tail_init, L!Splice, L!Does, SpliceEnds
<1>2. S[h] \in Seq(Nodes) /\ S[l] \in Seq(Nodes) /\ k \in Nat
  BY <1>1, HeadTells, LenProperties
<1>3. ring.prev[h] = El(h, S[h], k) /\ h = El(h, S[h], k + 1)
  <2>1. ring.prev[h] = El(h, S[h], k)
    BY <1>1, SoundRing DEF RingInv, L!Sound
  <2>2. h = El(h, S[h], k + 1)
    BY <1>2, LenProperties DEF El
  <2> QED BY <2>1, <2>2
<1>4. Merged(S[h], k, S[l], u) /\ k \in 0..Len(S[h])
  BY <1>2, PutAtEnds
<1>5. r = L!SpliceLinks(ring, l, El(h, S[h], k), El(h, S[h], k + 1))
  BY <1>3
<1> HIDE DEF r, u, k
<1>6. RingInv' /\ L!Seqs' = [S EXCEPT ![l] = <<>>, ![h] = u]
  BY <1>1, <1>4, <1>5, LSpliced, ZenonT(40)
<1>7. L!Seqs' = [L!Seqs EXCEPT ![l] = <<>>, ![h] = @ \o L!Seqs[l]]
  <2> HIDE DEF S
  <2>1. [S EXCEPT ![l] = <<>>, ![h] = u] = [S EXCEPT ![l] = <<>>, ![h] = @ \o S[l]]
    BY <1>1 DEF u
  <2> QED BY <1>6, <2>1 DEF S
<1> QED BY <1>1, <1>6, <1>7 DEF L!Sequence!Splice, L!Sequence!Say

\* A head given up is initialized again; it had no entries.
LEMMA LReinitStep ==
  ASSUME L!ListAssumption, RingInv, NEW h \in Heads, L!Reinit(h)
  PROVE  RingInv' /\ UNCHANGED L!Sequence!vars
<1> DEFINE S == L!Seqs
<1>1. ring.next[h] = NULL /\ ring' = L!INIT_LIST_HEAD(ring, h) /\ said' = said
  BY DEF L!Reinit, L!Sound
<1>2. Ringed(ring, S, {})
  BY DEF RingInv
<1>3. h \in L!All /\ h \notin Nodes /\ NULL \notin L!All
  BY DEF L!All, L!ListAssumption
<1> HIDE DEF S
<1>4. S[h] = <<>>
  <2> SUFFICES ASSUME S[h] # <<>> PROVE FALSE
    OBVIOUS
  <2>1. ring.next[h] = El(h, S[h], 1) /\ El(h, S[h], 1) \in L!All
    BY <1>2, SoundRing
  <2> QED BY <1>1, <1>3, <2>1
<1>5. Ringed(L!INIT_LIST_HEAD(ring, h), S, {})
  <2>1. {} \subseteq {h}
    OBVIOUS
  <2> QED BY <1>2, <1>3, <1>4, <2>1, Dropped
<1>6. RingInv' /\ L!Seqs' = S
  BY <1>1, <1>5, RingsNext
<1> QED BY <1>1, <1>6 DEF L!Sequence!vars, S

\* Asking changes nothing, and the answers are the sequences'.
LEMMA LAskStep ==
  ASSUME L!ListAssumption, RingInv, NEW h \in Heads,
         L!list_empty(h) \/ L!list_empty_careful(h) \/ L!list_is_singular(h)
  PROVE  RingInv' /\ L!Sequence!Ask(h)
<1>1. L!Sound(h) /\ ring' = ring
  BY DEF L!list_empty, L!list_empty_careful, L!list_is_singular, L!Does
<1>2. /\ L!Empty(h) <=> L!Seqs[h] = <<>>
      /\ L!Empty(h) => ring.prev[h] = ring.next[h]
      /\ L!Singular(h) <=> Len(L!Seqs[h]) = 1
  BY <1>1, HeadTells
<1>3. RingInv' /\ L!Seqs' = L!Seqs
  BY <1>1, LStays
<1>4. CASE L!list_empty(h) \/ L!list_empty_careful(h)
  <2>1. \E a \in BOOLEAN : said' = <<"empty">> \o <<h, a>> /\ (a <=> L!Seqs[h] = <<>>)
    <3>1. CASE L!list_empty(h)
      <4>1. L!Empty(h) \in BOOLEAN /\ said' = <<"empty">> \o <<h, L!Empty(h)>>
        BY <3>1 DEF L!list_empty, L!Does, L!Empty
      <4> QED BY <1>2, <4>1
    <3>2. CASE L!list_empty_careful(h)
      <4> DEFINE a == L!Empty(h) /\ ring.prev[h] = ring.next[h]
      <4>1. a \in BOOLEAN /\ said' = <<"empty">> \o <<h, a>>
        BY <3>2 DEF L!list_empty_careful, L!Does
      <4>2. a <=> L!Seqs[h] = <<>>
        BY <1>2
      <4> HIDE DEF a
      <4> QED BY <4>1, <4>2
    <3> QED BY <1>4, <3>1, <3>2
  <2>2. \E a \in BOOLEAN : said' = <<"empty">> \o <<h, a>> /\ a = (L!Seqs[h] = <<>>)
    <3>1. PICK a \in BOOLEAN : said' = <<"empty">> \o <<h, a>> /\ (a <=> L!Seqs[h] = <<>>)
      BY <2>1
    <3>2. a = (L!Seqs[h] = <<>>)
      BY <3>1
    <3> QED BY <3>1, <3>2
  <2> QED BY <1>3, <2>2 DEF L!Sequence!Ask, L!Sequence!Say
<1>5. CASE L!list_is_singular(h)
  <2> DEFINE a == L!Singular(h)
             b == Len(L!Seqs[h]) = 1
  <2>1. a \in BOOLEAN /\ said' = <<"singular">> \o <<h, a>>
    BY <1>5 DEF L!list_is_singular, L!Does, L!Singular
  <2>2. a <=> b
    BY <1>2
  <2>3. b \in BOOLEAN
    OBVIOUS
  <2> HIDE DEF a, b
  <2>4. a = b
    BY <2>1, <2>2, <2>3
  <2>5. \E x \in BOOLEAN : said' = <<"singular">> \o <<h, x>> /\ x = b
    BY <2>1, <2>4
  <2> QED BY <1>3, <2>5 DEF L!Sequence!Ask, L!Sequence!Say, b
<1> QED BY <1>4, <1>5

\* list_is_last tells the truth about an element of the list.
LEMMA LLastStep ==
  ASSUME L!ListAssumption, RingInv, NEW n \in Nodes, NEW h \in Heads, L!list_is_last(n, h)
  PROVE  RingInv' /\ L!Sequence!Ask(h)
<1> DEFINE s == L!Seqs[h]
           a == ring.next[n] = h
           b == L!Sequence!Last(s) = n
<1>1. ring' = ring /\ said' = <<"is_last">> \o <<n, h, a>> /\ \E i \in DOMAIN s : s[i] = n
  BY DEF L!list_is_last, L!Does
<1>2. RingInv' /\ L!Seqs' = L!Seqs
  BY <1>1, LStays
<1>3. PICK k \in DOMAIN s : s[k] = n
  BY <1>1
<1>4. /\ ring.next[s[k]] = El(h, s, k + 1)
      /\ s \in Seq(Nodes) /\ \A i, j \in DOMAIN s : s[i] = s[j] => i = j
  <2>1. Ringed(ring, L!Seqs, {})
    BY DEF RingInv
  <2>2. ring.next[s[k]] = El(h, s, k + 1)
    BY <2>1, NextTo
  <2> QED BY <2>1, <2>2 DEF Ringed, Distinct
<1>5. a <=> b
  <2> HIDE DEF s
  <2>1. /\ Len(s) \in Nat /\ DOMAIN s = 1..Len(s)
        /\ El(h, s, Len(s) + 1) = h
        /\ \A i \in 1..Len(s) : El(h, s, i) = s[i] /\ s[i] # h
    BY <1>4, AroundIs
  <2>2. k \in 1..Len(s) /\ Len(s) \in DOMAIN s
    BY <2>1
  <2>3. a <=> k = Len(s)
    <3>1. k + 1 \in 1..Len(s) \/ k = Len(s)
      BY <2>1, <2>2
    <3>2. k = Len(s) => El(h, s, k + 1) = h /\ ~(k + 1 \in 1..Len(s))
      BY <2>1
    <3>3. k + 1 \in 1..Len(s) => El(h, s, k + 1) # h
      BY <2>1
    <3>4. a <=> El(h, s, k + 1) = h
      BY <1>3, <1>4
    <3> QED BY <3>1, <3>2, <3>3, <3>4
  <2>4. b <=> k = Len(s)
    BY <1>3, <1>4, <2>2 DEF L!Sequence!Last
  <2> QED BY <2>3, <2>4
<1>6. n \in L!Sequence!Range(s)
  BY <1>3 DEF L!Sequence!Range
<1>7. a \in BOOLEAN /\ b \in BOOLEAN
  OBVIOUS
<1> HIDE DEF a, b
<1>8. a = b
  BY <1>5, <1>7
<1>9. \E x \in BOOLEAN : said' = <<"is_last">> \o <<n, h, x>> /\ n \in L!Sequence!Range(L!Seqs[h]) /\ x = b
  BY <1>1, <1>6, <1>7, <1>8
<1> QED BY <1>2, <1>9 DEF L!Sequence!Ask, L!Sequence!Say, b

\* The heads before INIT_LIST_HEAD or after it, and elements in no ring.
LEMMA LInit ==
  ASSUME L!ListAssumption, L!Init
  PROVE  RingInv /\ L!Sequence!Init
<1> DEFINE S == [h \in Heads |-> <<>>]
<1>1. /\ ring = [next |-> [e \in L!All |-> IF e \in Heads THEN e ELSE NULL],
                 prev |-> [e \in L!All |-> IF e \in Heads THEN e ELSE NULL]]
      /\ said = <<"none">>
  BY DEF L!Init
<1>2. Ringed(ring, S, {})
  <2>1. <<>> \in Seq(Nodes) /\ DOMAIN <<>> = {} /\ Len(<<>>) = 0
    BY EmptySeq, LenProperties
  <2>2. S \in [Heads -> Seq(Nodes)] /\ \A h \in Heads : S[h] = <<>>
    BY <2>1
  <2>3. /\ DOMAIN ring = {"next", "prev"}
        /\ ring.next = [e \in L!All |-> IF e \in Heads THEN e ELSE NULL]
        /\ ring.prev = [e \in L!All |-> IF e \in Heads THEN e ELSE NULL]
    BY <1>1
  <2>4. RingShape(ring)
    BY <2>3 DEF RingShape
  <2> HIDE DEF S
  <2>5. Distinct(S)
    BY <2>1, <2>2 DEF Distinct
  <2>6. ASSUME NEW h \in Heads PROVE HeadOK(ring, h, S[h], {})
    <3>1. \A i \in Int : El(h, <<>>, i) = h
      BY <2>1 DEF El
    <3>2. h \in L!All
      BY DEF L!All
    <3>3. ring.next[h] = h /\ ring.prev[h] = h
      BY <2>3, <3>2
    <3>4. Ring(ring, h, <<>>)
      BY <2>1, <3>1, <3>3 DEF Ring
    <3> QED BY <2>2, <3>4 DEF HeadOK
  <2>7. ASSUME NEW n \in Nodes PROVE Alone(ring, n)
    <3>1. n \in L!All /\ n \notin Heads
      BY DEF L!All, L!ListAssumption
    <3> QED BY <2>3, <3>1 DEF Alone
  <2> QED BY <2>2, <2>4, <2>5, <2>6, <2>7 DEF Ringed
<1>3. L!Seqs = S
  <2>1. [h \in Heads |-> L!Walk(ring, h)] = S
    <3> HIDE DEF S
    <3> QED BY <1>2, RingsAreWalked
  <2> QED BY <2>1 DEF L!Seqs
<1> QED BY <1>1, <1>2, <1>3 DEF RingInv, L!Sequence!Init

\* The refinement step: every function of the list is the operation it stands for.
LEMMA ListStep ==
  ASSUME L!ListAssumption, RingInv, [L!Next]_(L!vars)
  PROVE  RingInv' /\ [L!Sequence!Next]_(L!Sequence!vars)
<1>1. CASE UNCHANGED L!vars
  <2>1. ring' = ring /\ said' = said
    BY <1>1 DEF L!vars
  <2> QED BY <2>1, LStays DEF L!Sequence!vars
<1>2. ASSUME NEW n \in Nodes, NEW h \in Heads,
             \/ L!list_add(n, h) \/ L!list_add_tail(n, h)
             \/ L!list_move(n, h) \/ L!list_move_tail(n, h) \/ L!list_is_last(n, h)
      PROVE  RingInv' /\ L!Sequence!Next
  <2>1. RingInv' /\ (L!Sequence!Add(n, h) \/ L!Sequence!Move(n, h) \/ L!Sequence!Ask(h))
    BY <1>2, LAddStep, LMoveStep, LLastStep
  <2> QED BY <2>1 DEF L!Sequence!Next
<1>3. ASSUME NEW n \in Nodes, L!list_del(n) \/ L!list_del_init(n)
      PROVE  RingInv' /\ L!Sequence!Next
  <2>1. RingInv' /\ L!Sequence!Delete(n)
    BY <1>3, LDelStep
  <2> QED BY <2>1 DEF L!Sequence!Next
<1>4. ASSUME NEW old \in Nodes, NEW new \in Nodes, L!list_replace(old, new) \/ L!list_replace_init(old, new)
      PROVE  RingInv' /\ L!Sequence!Next
  <2>1. RingInv' /\ L!Sequence!Replace(old, new)
    BY <1>4, LReplaceStep
  <2> QED BY <2>1 DEF L!Sequence!Next
<1>5. ASSUME NEW h \in Heads,
             L!list_rotate_left(h) \/ L!list_empty(h) \/ L!list_empty_careful(h) \/ L!list_is_singular(h)
      PROVE  RingInv' /\ L!Sequence!Next
  <2>1. RingInv' /\ (L!Sequence!RotateLeft(h) \/ L!Sequence!Ask(h))
    BY <1>5, LRotateStep, LAskStep
  <2> QED BY <2>1 DEF L!Sequence!Next
<1>6. ASSUME NEW h \in Heads, L!Reinit(h)
      PROVE  RingInv' /\ UNCHANGED L!Sequence!vars
  BY <1>6, LReinitStep
<1>7. ASSUME NEW l \in Heads, NEW h \in Heads,
             \/ L!list_splice(l, h) \/ L!list_splice_tail(l, h)
             \/ L!list_splice_init(l, h) \/ L!list_splice_tail_init(l, h)
      PROVE  RingInv' /\ L!Sequence!Next
  <2>1. RingInv' /\ L!Sequence!Splice(l, h)
    BY <1>7, LSpliceStep, LSpliceTailStep
  <2> QED BY <2>1 DEF L!Sequence!Next
<1>8. ASSUME NEW l \in Heads, NEW h \in Heads, NEW e \in Nodes \cup {h}, L!list_cut_position(l, h, e)
      PROVE  RingInv' /\ L!Sequence!Next
  <2>1. RingInv' /\ L!Sequence!CutPosition(l, h, e)
    BY <1>8, LCutStep
  <2> QED BY <2>1 DEF L!Sequence!Next
<1> QED BY <1>1, <1>2, <1>3, <1>4, <1>5, <1>6, <1>7, <1>8 DEF L!Next

\* The rings of the lists are the sequences that the calls make of them.
THEOREM ListImplementsSequences ==
  ASSUME L!ListAssumption
  PROVE  L!Spec => L!ListsAreSequences
<1>1. L!Init => RingInv /\ L!Sequence!Init
  BY LInit
<1>2. RingInv /\ [L!Next]_(L!vars) => RingInv' /\ [L!Sequence!Next]_(L!Sequence!vars)
  BY ListStep
<1> QED BY <1>1, <1>2, PTL DEF L!Spec, L!ListsAreSequences, L!Sequence!Spec
----------------------------------------------------------------------------
(* Both lists, as in the module Lists                                      *)

\* The lists of spe_list.h are the sequences that the calls make of them: the
\* one with two pointers in the head, of which spe_task.c makes its run queue,
\* and the one with a single pointer, of which spe_map.c makes its chains.  For
\* any finite sets of heads and entries.
THEOREM ListsRight == ListsSpec => ListsAreSequences
<1>1. L!ListAssumption /\ H!ListAssumption
  BY ListsAssumption
<1>2. ListsInit => L!Init /\ H!Init
  BY DEF ListsInit
<1>3. [ListsNext]_<<part, listvars>> => [L!Next]_(L!vars) /\ [H!Next]_(H!vars)
  BY DEF ListsNext, listvars, L!vars, H!vars
<1>4. L!Spec => L!ListsAreSequences
  BY <1>1, ListImplementsSequences
<1>5. H!Spec => H!ListsAreSequences
  BY <1>1, HlistImplementsSequences
<1>6. ASSUME [ListsNext]_<<part, listvars>>, [L!Sequence!Next]_(L!Sequence!vars)
      PROVE  [part = "list" /\ L!Sequence!Next]_(L!Sequence!vars)
  <2>1. CASE part = "list"
    BY <1>6, <2>1
  <2>2. CASE part # "list"
    <3>1. UNCHANGED <<ring, said>>
      BY <1>6, <2>2 DEF ListsNext, listvars
    <3>2. L!Seqs' = L!Seqs
      BY <3>1 DEF L!Seqs, L!Walk
    <3>3. UNCHANGED L!Sequence!vars
      BY <3>1, <3>2 DEF L!Sequence!vars
    <3> QED BY <3>3
  <2> QED BY <2>1, <2>2
<1>7. ASSUME [ListsNext]_<<part, listvars>>, [H!Sequence!Next]_(H!Sequence!vars)
      PROVE  [part = "hlist" /\ H!Sequence!Next]_(H!Sequence!vars)
  <2>1. CASE part = "hlist"
    BY <1>7, <2>1
  <2>2. CASE part # "hlist"
    <3>1. UNCHANGED <<chain, told>>
      BY <1>7, <2>2 DEF ListsNext, listvars
    <3>2. H!Seqs' = H!Seqs
      BY <3>1 DEF H!Seqs, H!Walk
    <3>3. UNCHANGED H!Sequence!vars
      BY <3>1, <3>2 DEF H!Sequence!vars
    <3> QED BY <3>3
  <2> QED BY <2>1, <2>2
<1> QED
  BY <1>2, <1>3, <1>4, <1>5, <1>6, <1>7, PTL
     DEF ListsSpec, ListsAreSequences, L!Spec, H!Spec, L!ListsAreSequences, H!ListsAreSequences,
         L!Sequence!Spec, H!Sequence!Spec

=============================================================================
