--------------------------- MODULE SpeConnProofs ---------------------------
(***************************************************************************)
(* Theorems about connections, and about the buffers they read and write.  *)
(*                                                                         *)
(* The first part is about spe_conn.c, for buffers of any size, any        *)
(* delimiters, any timeouts, with and without faults.                      *)
(*                                                                         *)
(* All that matters of the task queue is which tasks are active, queued or *)
(* timed: each operation of spe_task.c puts one in or takes one out.       *)
(*                                                                         *)
(* The second part is about spe_buf.c, byte by byte: that a buffer is a    *)
(* string.  Its invariant, BufInv, says that the buffer is unused or holds *)
(* the string in its memory with the 0 behind it, until it has grown to a  *)
(* size of which 25 * n / 16 is no unsigned.                               *)
(***************************************************************************)
EXTENDS SpeConn, Buffers, QueueLemmas

ConnType ==
  [read_type : {"none", "connect", "read", "until", "bytes"},
   write_type : {"none", "write"}, rbytes : 0..2,
   read_expire : BOOLEAN, write_expire : BOOLEAN,
   buffer : ByteSeq, read_buffer : ByteSeq, write_buffer : ByteSeq,
   connect_timeout : BOOLEAN, read_timeout : BOOLEAN, write_timeout : BOOLEAN,
   closed : BOOLEAN, error : BOOLEAN]
EpollType ==
  [mask : SUBSET {"R", "W"}, read_task : {"read", "null"}, write_task : {"read", "write", "null"}]
Timed == {"read", "write"}
TasksType == [queue : Seq(Timed \cup Post), timers : SUBSET Timed, timeout : SUBSET Timed]
SockType ==
  [state : {"none", "closed", "idle", "connecting", "up", "failed", "reset"},
   inbox : ByteSeq, fin : BOOLEAN, outbox : ByteSeq]
UserType ==
  [open : BOOLEAN, reads : BOOLEAN, writes : BOOLEAN,
   want : {"none", "connect", "read", "until", "bytes"}, n : 0..2, had : Nat,
   took : Nat, sent : Nat, written : Nat, peer : Nat]

LEMMA Types ==
  TypeOK <=> /\ conn \in ConnType /\ epoll \in EpollType /\ tasks \in TasksType
             /\ phase \in {"poll", "expire", "run"} /\ sock \in SockType /\ user \in UserType
  BY DEF TypeOK, ConnType, EpollType, TasksType, Timed, SockType, UserType

----------------------------------------------------------------------------
(* Tasks                                                                   *)

\* A task is in the queue once, and not in the timer tree as well.
QueueOK(ts) == IsInjective(ts.queue) /\ ToSet(ts.queue) \cap ts.timers = {}
Active(ts) == ToSet(ts.queue) \cup ts.timers
Good(ts) == ts \in TasksType /\ QueueOK(ts)

LEMMA ScheduleEffect ==
  ASSUME NEW ts, Good(ts), NEW t \in Timed \cup Post
  PROVE  /\ Good(Schedule(ts, t)) /\ Active(Schedule(ts, t)) = Active(ts) \cup {t}
         /\ t \in ToSet(Schedule(ts, t).queue)
<1>1. /\ ts \in TasksType /\ ts.queue \in Seq(Timed \cup Post) /\ IsInjective(ts.queue)
      /\ ToSet(ts.queue) \cap ts.timers = {}
  BY DEF Good, QueueOK, TasksType
<1>2. CASE t \in ToSet(ts.queue)
  BY <1>1, <1>2 DEF Schedule, Active, Good
<1>3. CASE t \notin ToSet(ts.queue)
  <2> DEFINE q == Append(ts.queue, t)
  <2>1. q \in Seq(Timed \cup Post) /\ ToSet(q) = ToSet(ts.queue) \cup {t} /\ IsInjective(q)
    BY <1>1, <1>3, AppendSet
  <2> HIDE DEF q
  <2>2. Schedule(ts, t) = [ts EXCEPT !.queue = q, !.timers = @ \ {t}]
    BY <1>3 DEF Schedule, q
  <2>3. /\ Schedule(ts, t) \in TasksType /\ Schedule(ts, t).queue = q
        /\ Schedule(ts, t).timers = ts.timers \ {t}
    BY <1>1, <2>1, <2>2 DEF TasksType
  <2> HIDE DEF Schedule
  <2> QED BY <1>1, <2>1, <2>3 DEF Good, QueueOK, Active
<1> QED BY <1>2, <1>3

LEMMA ScheduleTimeoutEffect ==
  ASSUME NEW ts, Good(ts), NEW t \in Timed
  PROVE  /\ Good(ScheduleTimeout(ts, t)) /\ Active(ScheduleTimeout(ts, t)) = Active(ts) \cup {t}
<1>1. /\ ts \in TasksType /\ ts.timers \subseteq Timed /\ ts.timeout \subseteq Timed
      /\ IsInjective(ts.queue) /\ ToSet(ts.queue) \cap ts.timers = {}
  BY DEF Good, QueueOK, TasksType
<1>2. CASE t \in ToSet(ts.queue)
  BY <1>1, <1>2 DEF ScheduleTimeout, Active, Good
<1>3. CASE t \notin ToSet(ts.queue)
  <2>1. ScheduleTimeout(ts, t) = [ts EXCEPT !.timers = @ \cup {t}, !.timeout = @ \ {t}]
    BY <1>3 DEF ScheduleTimeout
  <2>2. /\ ScheduleTimeout(ts, t) \in TasksType /\ ScheduleTimeout(ts, t).queue = ts.queue
        /\ ScheduleTimeout(ts, t).timers = ts.timers \cup {t}
    <3> DEFINE r == ts.timers \cup {t}
               o == ts.timeout \ {t}
    <3>1. r \subseteq Timed /\ o \subseteq Timed
      BY <1>1
    <3>2. ScheduleTimeout(ts, t) = [ts EXCEPT !.timers = r, !.timeout = o]
      BY <2>1
    <3> HIDE DEF r, o
    <3>3. ScheduleTimeout(ts, t) \in TasksType /\ ScheduleTimeout(ts, t).queue = ts.queue
          /\ ScheduleTimeout(ts, t).timers = r
      BY <1>1, <3>1, <3>2 DEF TasksType
    <3> QED BY <3>3 DEF r
  <2> QED BY <1>1, <1>3, <2>2 DEF Good, QueueOK, Active
<1> QED BY <1>2, <1>3

LEMMA DequeueEffect ==
  ASSUME NEW ts, Good(ts), NEW t
  PROVE  Good(Dequeue(ts, t)) /\ Active(Dequeue(ts, t)) = Active(ts) \ {t}
<1>1. /\ ts \in TasksType /\ ts.queue \in Seq(Timed \cup Post) /\ IsInjective(ts.queue)
      /\ ToSet(ts.queue) \cap ts.timers = {}
  BY DEF Good, QueueOK, TasksType
<1> DEFINE q == IF t \in ToSet(ts.queue)
                THEN RemoveAt(ts.queue, CHOOSE i \in DOMAIN ts.queue : ts.queue[i] = t) ELSE ts.queue
<1>2. q \in Seq(Timed \cup Post) /\ ToSet(q) = ToSet(ts.queue) \ {t} /\ IsInjective(q)
  <2>1. CASE t \in ToSet(ts.queue)
    <3> DEFINE i == CHOOSE i \in DOMAIN ts.queue : ts.queue[i] = t
    <3>1. i \in DOMAIN ts.queue /\ ts.queue[i] = t
      BY <2>1 DEF ToSet
    <3> HIDE DEF i
    <3>2. /\ RemoveAt(ts.queue, i) \in Seq(Timed \cup Post) /\ IsInjective(RemoveAt(ts.queue, i))
          /\ ToSet(RemoveAt(ts.queue, i)) = ToSet(ts.queue) \ {t}
      BY <1>1, <3>1, RemoveSet
    <3> QED BY <2>1, <3>2 DEF i
  <2>2. CASE t \notin ToSet(ts.queue)
    BY <1>1, <2>2
  <2> QED BY <2>1, <2>2
<1>3. Dequeue(ts, t) = [ts EXCEPT !.queue = q, !.timers = @ \ {t}]
  BY DEF Dequeue
<1> HIDE DEF q
<1>4. /\ Dequeue(ts, t) \in TasksType /\ Dequeue(ts, t).queue = q
      /\ Dequeue(ts, t).timers = ts.timers \ {t}
  BY <1>1, <1>2, <1>3 DEF TasksType
<1> QED BY <1>1, <1>2, <1>4 DEF Good, QueueOK, Active

LEMMA ArmedEffect ==
  ASSUME NEW ts, Good(ts), NEW t \in Timed, NEW expire \in BOOLEAN
  PROVE  Good(Armed(ts, t, expire)) /\ Active(Armed(ts, t, expire)) \in {Active(ts), Active(ts) \cup {t}}
  BY ScheduleTimeoutEffect DEF Armed

LEMMA RestEffect ==
  ASSUME Good(tasks), NEW t, Runs(t)
  PROVE  /\ Good(Rest) /\ Active(Rest) = Active(tasks) \ {t}
         /\ t \in ToSet(tasks.queue) /\ t \notin tasks.timers /\ t \in Active(tasks)
<1>1. /\ tasks \in TasksType /\ tasks.queue \in Seq(Timed \cup Post) /\ IsInjective(tasks.queue)
      /\ ToSet(tasks.queue) \cap tasks.timers = {} /\ tasks.queue # <<>> /\ Head(tasks.queue) = t
  BY DEF Good, QueueOK, TasksType, Runs
<1> DEFINE q == Tail(tasks.queue)
<1>2. /\ q \in Seq(Timed \cup Post) /\ ToSet(q) = ToSet(tasks.queue) \ {t} /\ IsInjective(q)
      /\ t \in ToSet(tasks.queue)
  BY <1>1, TailSet
<1>3. Rest = [tasks EXCEPT !.queue = q]
  BY DEF Rest
<1> HIDE DEF q
<1>4. Rest \in TasksType /\ Rest.queue = q /\ Rest.timers = tasks.timers
  BY <1>1, <1>2, <1>3 DEF TasksType
<1> QED BY <1>1, <1>2, <1>4 DEF Good, QueueOK, Active

LEMMA EndedEffect ==
  ASSUME Good(tasks), NEW t, Runs(t), NEW expire \in BOOLEAN, NEW post \in Post
  PROVE  /\ Good(Ended(t, expire, post))
         /\ Active(Ended(t, expire, post)) = (Active(tasks) \ {t}) \cup {post}
         /\ t \in Active(tasks)
<1> DEFINE ts == IF expire THEN Dequeue(Rest, t) ELSE Rest
<1>1. Good(ts) /\ Active(ts) = Active(tasks) \ {t} /\ t \in Active(tasks)
  BY RestEffect, DequeueEffect
<1>2. Ended(t, expire, post) = Schedule(ts, post)
  BY DEF Ended
<1> HIDE DEF ts
<1> QED BY <1>1, <1>2, ScheduleEffect

LEMMA DestroyedEffect ==
  ASSUME Good(tasks)
  PROVE  Good(Destroyed) /\ Active(Destroyed) = {}
<1> DEFINE t1 == Dequeue(tasks, "read")
           t2 == Dequeue(t1, "write")
           t3 == Dequeue(t2, "post_read")
           t4 == Dequeue(t3, "post_write")
<1>1. Good(t1) /\ Active(t1) = Active(tasks) \ {"read"}
  BY DequeueEffect
<1> HIDE DEF t1
<1>2. Good(t2) /\ Active(t2) = Active(t1) \ {"write"}
  BY <1>1, DequeueEffect
<1> HIDE DEF t2
<1>3. Good(t3) /\ Active(t3) = Active(t2) \ {"post_read"}
  BY <1>2, DequeueEffect
<1> HIDE DEF t3
<1>4. Good(t4) /\ Active(t4) = Active(t3) \ {"post_write"}
  BY <1>3, DequeueEffect
<1>5. Active(tasks) \subseteq Timed \cup Post
  <2>1. tasks.queue \in Seq(Timed \cup Post) /\ tasks.timers \subseteq Timed
    BY DEF Good, TasksType
  <2>2. ToSet(tasks.queue) \subseteq Timed \cup Post
    BY <2>1, LenProperties, ElementOfSeq DEF ToSet
  <2> QED BY <2>1, <2>2 DEF Active
<1>6. Destroyed = t4
  BY DEF Destroyed, DestroyedHalf, t4, t3, t2, t1
<1> HIDE DEF t4
<1> QED BY <1>1, <1>2, <1>3, <1>4, <1>5, <1>6 DEF Timed, Post

----------------------------------------------------------------------------
(* Registration                                                            *)

LEMMA EnableEffect ==
  ASSUME epoll \in EpollType, NEW mask \in SUBSET {"R", "W"}, NEW t \in Timed,
         "R" \in mask => t = "read"
  PROVE  /\ Enable(mask, t) \in EpollType /\ Enable(mask, t).mask = epoll.mask \cup mask
         /\ Enable(mask, t).read_task = IF "R" \in mask THEN t ELSE epoll.read_task
         /\ Enable(mask, t).write_task = IF "W" \in mask THEN t ELSE epoll.write_task
<1>1. /\ epoll.mask \cup mask \subseteq {"R", "W"}
      /\ (IF "R" \in mask THEN t ELSE epoll.read_task) \in {"read", "null"}
      /\ (IF "W" \in mask THEN t ELSE epoll.write_task) \in {"read", "write", "null"}
  BY DEF EpollType, Timed
<1> QED BY <1>1 DEF Enable, EpollType

LEMMA DisableEffect ==
  ASSUME epoll \in EpollType, NEW mask \in SUBSET {"R", "W"}
  PROVE  /\ Disable(mask) \in EpollType /\ Disable(mask).mask = epoll.mask \ mask
         /\ Disable(mask).read_task = IF "R" \in mask THEN "null" ELSE epoll.read_task
         /\ Disable(mask).write_task = IF "W" \in mask THEN "null" ELSE epoll.write_task
<1>1. /\ epoll.mask \ mask \subseteq {"R", "W"}
      /\ (IF "R" \in mask THEN "null" ELSE epoll.read_task) \in {"read", "null"}
      /\ (IF "W" \in mask THEN "null" ELSE epoll.write_task) \in {"read", "write", "null"}
  BY DEF EpollType
<1> QED BY <1>1 DEF Disable, EpollType

----------------------------------------------------------------------------
(* Bytes                                                                   *)

LEMMA UptoAfter ==
  ASSUME NEW S, NEW s \in Seq(S), NEW n \in 0..Len(s)
  PROVE  /\ Upto(s, n) \in Seq(S) /\ Len(Upto(s, n)) = n
         /\ After(s, n) \in Seq(S) /\ Len(After(s, n)) = Len(s) - n
         /\ Upto(s, n) \o After(s, n) = s
         /\ \A i \in 1..n : Upto(s, n)[i] = s[i]
<1>1. Len(s) \in Nat /\ n \in Int /\ \A i \in 1..Len(s) : s[i] \in S
  BY LenProperties, ElementOfSeq
<1>2. /\ SubSeq(s, 1, n) \in Seq(S)
      /\ Len(SubSeq(s, 1, n)) = IF 1 <= n THEN n - 1 + 1 ELSE 0
      /\ \A i \in 1..(n - 1 + 1) : SubSeq(s, 1, n)[i] = s[1 + i - 1]
  <2>1. \A i \in 1..n : s[i] \in S
    BY <1>1
  <2> QED BY <1>1, <2>1, SubSeqProperties, Z3
<1>3. /\ SubSeq(s, n + 1, Len(s)) \in Seq(S)
      /\ Len(SubSeq(s, n + 1, Len(s))) = IF n + 1 <= Len(s) THEN Len(s) - (n + 1) + 1 ELSE 0
  <2>1. \A i \in (n + 1)..Len(s) : s[i] \in S
    BY <1>1
  <2> QED BY <1>1, <2>1, SubSeqProperties, Z3
<1>4. SubSeq(s, 1, n) \o SubSeq(s, n + 1, Len(s)) = SubSeq(s, 1, Len(s))
  <2>1. 1 \in 1..(Len(s) + 1) /\ n \in (1 - 1)..Len(s) /\ Len(s) \in n..Len(s)
    BY <1>1
  <2> QED BY <2>1, ConcatAdjacentSubSeq
<1>5. SubSeq(s, 1, Len(s)) = s
  BY SubSeqFull
<1> DEFINE a == SubSeq(s, 1, n)
           b == SubSeq(s, n + 1, Len(s))
<1>6. a \in Seq(S) /\ Len(a) = n /\ b \in Seq(S) /\ Len(b) = Len(s) - n /\ a \o b = s
  <2>1. Len(a) = n
    BY <1>1, <1>2
  <2>2. Len(b) = Len(s) - n
    BY <1>1, <1>3
  <2> HIDE DEF a, b
  <2> QED BY <1>2, <1>3, <1>4, <1>5, <2>1, <2>2 DEF a, b
<1>7. \A i \in 1..n : a[i] = s[i]
  BY <1>1, <1>2
<1>8. Upto(s, n) = a /\ After(s, n) = b
  BY DEF Upto, After
<1> HIDE DEF a, b
<1> QED BY <1>6, <1>7, <1>8

LEMMA AfterConcat ==
  ASSUME NEW S, NEW s \in Seq(S), NEW t \in Seq(S)
  PROVE  After(s \o t, Len(s)) = t
<1>1. /\ s \o t \in Seq(S) /\ Len(s \o t) = Len(s) + Len(t) /\ Len(s) \in Nat /\ Len(t) \in Nat
      /\ \A i \in 1..Len(s) + Len(t) :
           (s \o t)[i] = IF i <= Len(s) THEN s[i] ELSE t[i - Len(s)]
  BY ConcatProperties, LenProperties
<1> DEFINE u == s \o t
           m == Len(s)
           a == After(u, m)
<1>2. m \in 0..Len(u) /\ u \in Seq(S)
  BY <1>1
<1>3. /\ a \in Seq(S) /\ Len(a) = Len(t)
  <2> HIDE DEF u, m
  <2>1. a \in Seq(S) /\ Len(a) = Len(u) - m
    BY <1>2, UptoAfter
  <2> HIDE DEF a
  <2> QED BY <1>1, <2>1 DEF u, m
<1>4. \A i \in 1..Len(a) : a[i] = t[i]
  <2>1. /\ m + 1 \in Int /\ Len(u) \in Int /\ \A i \in (m + 1)..Len(u) : u[i] \in S
    BY <1>1, <1>2, ElementOfSeq
  <2> HIDE DEF u, m
  <2>2. \A i \in 1..(Len(u) - (m + 1) + 1) : SubSeq(u, m + 1, Len(u))[i] = u[(m + 1) + i - 1]
    BY <2>1, SubSeqProperties, Z3
  <2>3. \A i \in 1..Len(t) : a[i] = u[m + i]
    BY <1>1, <1>2, <2>2 DEF After, u, m
  <2> QED BY <1>1, <1>3, <2>3 DEF u, m
<1> HIDE DEF a
<1>5. a = t
  BY <1>3, <1>4, SeqEqual
<1> QED BY <1>5 DEF a

LEMMA NumbersProperties ==
  ASSUME NEW from \in Nat, NEW upto \in Nat, from <= upto
  PROVE  /\ Numbers(from, upto) \in Seq(Nat) /\ Len(Numbers(from, upto)) = upto - from
         /\ \A i \in 1..(upto - from) : Numbers(from, upto)[i] = from + i
<1> DEFINE n == upto - from
           f == [i \in 1..n |-> from + i]
<1>1. n \in Nat /\ \A i \in 1..n : from + i \in Nat
  OBVIOUS
<1> HIDE DEF n
<1>2. f \in Seq(Nat) /\ Len(f) = n
  <2>1. f \in [1..n -> Nat]
    BY <1>1
  <2>2. f \in Seq(Nat)
    BY <1>1, <2>1, SeqDef
  <2> QED BY <1>1, <2>1, <2>2, LenProperties
<1>3. f = Numbers(from, upto)
  BY DEF Numbers, n
<1>4. \A i \in 1..n : f[i] = from + i
  OBVIOUS
<1> QED BY <1>2, <1>3, <1>4 DEF n

LEMMA NumbersConcat ==
  ASSUME NEW from \in Nat, NEW mid \in Nat, NEW upto \in Nat, from <= mid, mid <= upto
  PROVE  Numbers(from, mid) \o Numbers(mid, upto) = Numbers(from, upto)
<1> DEFINE s == Numbers(from, mid)
           t == Numbers(mid, upto)
           u == Numbers(from, upto)
<1>1. /\ s \in Seq(Nat) /\ Len(s) = mid - from /\ \A i \in 1..(mid - from) : s[i] = from + i
      /\ t \in Seq(Nat) /\ Len(t) = upto - mid /\ \A i \in 1..(upto - mid) : t[i] = mid + i
      /\ u \in Seq(Nat) /\ Len(u) = upto - from /\ \A i \in 1..(upto - from) : u[i] = from + i
  <2>1. /\ s \in Seq(Nat) /\ Len(s) = mid - from /\ \A i \in 1..(mid - from) : s[i] = from + i
    BY NumbersProperties
  <2>2. /\ t \in Seq(Nat) /\ Len(t) = upto - mid /\ \A i \in 1..(upto - mid) : t[i] = mid + i
    BY NumbersProperties
  <2>3. /\ u \in Seq(Nat) /\ Len(u) = upto - from /\ \A i \in 1..(upto - from) : u[i] = from + i
    <3>1. from <= upto
      OBVIOUS
    <3> QED BY <3>1, NumbersProperties
  <2> QED BY <2>1, <2>2, <2>3
<1> HIDE DEF s, t, u
<1>2. /\ s \o t \in Seq(Nat) /\ Len(s \o t) = Len(s) + Len(t)
      /\ \A i \in 1..Len(s) + Len(t) : (s \o t)[i] = IF i <= Len(s) THEN s[i] ELSE t[i - Len(s)]
  BY <1>1, ConcatProperties
<1>3. ASSUME NEW i \in 1..Len(u) PROVE (s \o t)[i] = u[i]
  <2>1. u[i] = from + i
    BY <1>1
  <2>2. CASE i <= Len(s)
    BY <1>1, <1>2, <2>1, <2>2
  <2>3. CASE ~(i <= Len(s))
    <3>1. i - Len(s) \in 1..(upto - mid)
      BY <1>1, <2>3
    <3>0. i \in 1..Len(s) + Len(t)
      BY <1>1
    <3>2. (s \o t)[i] = t[i - Len(s)]
      BY <1>2, <2>3, <3>0
    <3>3. t[i - Len(s)] = mid + (i - Len(s))
      BY <1>1, <3>1
    <3> QED BY <1>1, <2>1, <3>2, <3>3
  <2> QED BY <2>2, <2>3
<1>4. s \o t = u
  <2>1. Len(s \o t) = Len(u)
    BY <1>1, <1>2
  <2> QED BY <1>1, <1>2, <1>3, <2>1, SeqEqual
<1> QED BY <1>4 DEF s, t, u

\* What follows the first bytes of a stream are the later ones.
Splits(u, s, t) == u = s \o t

LEMMA NumbersDrop ==
  ASSUME NEW s \in Seq(Nat), NEW t \in Seq(Nat), NEW from \in Nat, NEW upto \in Nat,
         from <= upto, Splits(Numbers(from, upto), s, t)
  PROVE  from + Len(s) \in Nat /\ from + Len(s) <= upto /\ t = Numbers(from + Len(s), upto)
<1> DEFINE u == Numbers(from, upto)
           m == from + Len(s)
           v == Numbers(m, upto)
<1>0. u = s \o t
  BY DEF Splits
<1>1. /\ u \in Seq(Nat) /\ Len(u) = upto - from /\ \A i \in 1..(upto - from) : u[i] = from + i
  BY NumbersProperties
<1>2. /\ Len(s) \in Nat /\ Len(t) \in Nat /\ Len(u) = Len(s) + Len(t)
      /\ \A i \in 1..Len(s) + Len(t) : u[i] = IF i <= Len(s) THEN s[i] ELSE t[i - Len(s)]
  BY <1>0, ConcatProperties, LenProperties
<1> HIDE DEF u
<1>3. m \in Nat /\ m <= upto
  BY <1>1, <1>2
<1>4. v \in Seq(Nat) /\ Len(v) = upto - m /\ \A i \in 1..(upto - m) : v[i] = m + i
  BY <1>3, NumbersProperties
<1>5. Len(t) = Len(v)
  BY <1>1, <1>2, <1>4
<1>6. ASSUME NEW i \in 1..Len(t) PROVE t[i] = v[i]
  <2>1. Len(s) + i \in 1..(Len(s) + Len(t)) /\ ~(Len(s) + i <= Len(s)) /\ (Len(s) + i) - Len(s) = i
    BY <1>2
  <2>2. u[Len(s) + i] = t[i]
    BY <1>2, <2>1
  <2>3. u[Len(s) + i] = from + (Len(s) + i)
    BY <1>1, <1>2, <2>1
  <2> QED BY <1>2, <1>3, <1>4, <1>5, <2>2, <2>3
<1> HIDE DEF v
<1>7. t = v
  BY <1>4, <1>5, <1>6, SeqEqual
<1> QED BY <1>3, <1>7 DEF v

LEMMA ByteSeqs ==
  /\ MaxSent \in Nat /\ MaxWritten \in Nat /\ BUF_SIZE \in Nat \ {0} /\ SndBuf \in Nat \ {0}
  /\ ByteSeq \subseteq Seq(Nat) /\ <<>> \in ByteSeq
  /\ \A s \in ByteSeq : Len(s) \in Nat
  /\ \A s, t \in ByteSeq : s \o t \in ByteSeq
<1>1. /\ MaxSent \in Nat /\ MaxWritten \in Nat /\ BUF_SIZE \in Nat \ {0} /\ SndBuf \in Nat \ {0}
  BY ConnAssumption
<1> DEFINE S == 1..(MaxSent + MaxWritten)
<1>2. ByteSeq = Seq(S) /\ S \subseteq Nat
  BY <1>1 DEF ByteSeq
<1> HIDE DEF S
<1>3. \A s \in Seq(S) : s \in Seq(Nat)
  BY <1>2, SeqMonotonic
<1>4. <<>> \in Seq(S) /\ \A s \in Seq(S) : Len(s) \in Nat
  BY EmptySeq, LenProperties
<1>5. \A s, t \in Seq(S) : s \o t \in Seq(S)
  BY ConcatProperties
<1> QED BY <1>1, <1>2, <1>3, <1>4, <1>5

LEMMA SplitBytes ==
  ASSUME NEW s \in ByteSeq, NEW n \in 0..Len(s)
  PROVE  /\ Upto(s, n) \in ByteSeq /\ After(s, n) \in ByteSeq /\ Len(Upto(s, n)) = n
         /\ Upto(s, n) \o After(s, n) = s /\ Len(After(s, n)) = Len(s) - n
         /\ \A i \in 1..n : Upto(s, n)[i] = s[i]
  BY UptoAfter DEF ByteSeq

LEMMA Assoc ==
  ASSUME NEW s \in ByteSeq, NEW t \in ByteSeq, NEW u \in ByteSeq
  PROVE  (s \o t) \o u = s \o (t \o u)
  BY ConcatAssociative, SMTT(20) DEF ByteSeq

----------------------------------------------------------------------------
(* What the functions of spe_conn.c do to the record                       *)

\* Nothing changes but the three buffers, closed and error, which may be set.
SameOperation(c, d) ==
  /\ c.read_type = d.read_type /\ c.write_type = d.write_type /\ c.rbytes = d.rbytes
  /\ c.read_expire = d.read_expire /\ c.write_expire = d.write_expire
  /\ c.read_timeout = d.read_timeout
  /\ (c.closed => d.closed) /\ (c.error => d.error)

LEMMA ReadFdEffect ==
  ASSUME conn \in ConnType, sock \in SockType
  PROVE  /\ ReadFd \in ConnType /\ SockRead \in SockType
         /\ SameOperation(conn, ReadFd)
         /\ ReadFd.buffer = conn.buffer /\ ReadFd.write_buffer = conn.write_buffer
         /\ ReadFd.read_buffer \o SockRead.inbox = conn.read_buffer \o sock.inbox
         /\ SockRead.state = sock.state /\ SockRead.outbox = sock.outbox
<1>1. sock.inbox \in ByteSeq /\ conn.read_buffer \in ByteSeq
  BY DEF ConnType, SockType
<1>2. Chunk \in 0..Len(sock.inbox)
  <2>1. Len(sock.inbox) \in Nat
    BY <1>1, ByteSeqs
  <2> QED BY <2>1, ByteSeqs DEF Chunk, Least
<1> DEFINE a == Upto(sock.inbox, Chunk)
           b == After(sock.inbox, Chunk)
           r == conn.read_buffer \o a
           e == conn.error \/ (Chunk = 0 /\ Broken)
           k == conn.closed \/ (Chunk = 0 /\ ~Broken /\ sock.fin)
<1>3. a \in ByteSeq /\ b \in ByteSeq /\ a \o b = sock.inbox
  BY <1>1, <1>2, SplitBytes
<1>4. ReadFd = [conn EXCEPT !.read_buffer = r, !.error = e, !.closed = k]
  BY DEF ReadFd
<1>5. SockRead = [sock EXCEPT !.inbox = b]
  BY DEF SockRead
<1>6. e \in BOOLEAN /\ k \in BOOLEAN /\ (conn.error => e) /\ (conn.closed => k)
  OBVIOUS
<1> HIDE DEF a, b, e, k
<1>7. r \in ByteSeq /\ r \o b = conn.read_buffer \o sock.inbox
  <2>1. r \in ByteSeq
    BY <1>1, <1>3, ByteSeqs
  <2>2. r \o b = conn.read_buffer \o (a \o b)
    BY <1>1, <1>3, Assoc
  <2> QED BY <1>3, <2>1, <2>2
<1> HIDE DEF r
<1>8. ReadFd \in ConnType
  BY <1>4, <1>6, <1>7 DEF ConnType
<1>9. /\ ReadFd.read_buffer = r /\ ReadFd.error = e /\ ReadFd.closed = k
      /\ ReadFd.buffer = conn.buffer /\ ReadFd.write_buffer = conn.write_buffer
      /\ ReadFd.read_type = conn.read_type /\ ReadFd.write_type = conn.write_type
      /\ ReadFd.rbytes = conn.rbytes /\ ReadFd.read_expire = conn.read_expire
      /\ ReadFd.write_expire = conn.write_expire /\ ReadFd.read_timeout = conn.read_timeout
  BY <1>4 DEF ConnType
<1>10. /\ SockRead \in SockType /\ SockRead.inbox = b /\ SockRead.state = sock.state
       /\ SockRead.outbox = sock.outbox
  BY <1>3, <1>5 DEF SockType
<1> HIDE DEF ReadFd, SockRead
<1> QED BY <1>6, <1>7, <1>8, <1>9, <1>10 DEF SameOperation

LEMMA DeliverEffect ==
  ASSUME NEW c \in ConnType, NEW n \in 0..Len(c.read_buffer)
  PROVE  /\ Deliver(c, n) \in ConnType /\ SameOperation(c, Deliver(c, n))
         /\ Deliver(c, n).buffer = c.buffer \o Upto(c.read_buffer, n)
         /\ Deliver(c, n).write_buffer = c.write_buffer
         /\ Deliver(c, n).buffer \o Deliver(c, n).read_buffer = c.buffer \o c.read_buffer
<1>1. c.buffer \in ByteSeq /\ c.read_buffer \in ByteSeq
  BY DEF ConnType
<1> DEFINE a == Upto(c.read_buffer, n)
           b == After(c.read_buffer, n)
           r == c.buffer \o a
<1>2. a \in ByteSeq /\ b \in ByteSeq /\ a \o b = c.read_buffer
  BY <1>1, SplitBytes
<1>3. Deliver(c, n) = [c EXCEPT !.buffer = r, !.read_buffer = b]
  BY DEF Deliver
<1> HIDE DEF a, b
<1>4. r \in ByteSeq /\ r \o b = c.buffer \o c.read_buffer
  <2>1. r \in ByteSeq
    BY <1>1, <1>2, ByteSeqs
  <2>2. r \o b = c.buffer \o (a \o b)
    BY <1>1, <1>2, Assoc
  <2> QED BY <1>2, <2>1, <2>2
<1> HIDE DEF r
<1>5. Deliver(c, n) \in ConnType
  BY <1>2, <1>3, <1>4 DEF ConnType
<1>6. /\ Deliver(c, n).buffer = r /\ Deliver(c, n).read_buffer = b
      /\ Deliver(c, n).write_buffer = c.write_buffer
      /\ SameOperation(c, Deliver(c, n))
  BY <1>3 DEF ConnType, SameOperation
<1> HIDE DEF Deliver
<1> QED BY <1>4, <1>5, <1>6 DEF r, a

LEMMA FoundEffect ==
  ASSUME NEW c \in ConnType, NEW type \in {"read", "until", "bytes"}, NEW n \in 0..2
  PROVE  LET f == Found(c, type, n) IN
         /\ f \in 0..Len(c.read_buffer)
         /\ type = "bytes" /\ f > 0 => f = n
         /\ type = "until" /\ f > 0 =>
              c.read_buffer[f] \in Delims /\ \A i \in 1..(f - 1) : c.read_buffer[i] \notin Delims
<1>1. Len(c.read_buffer) \in Nat
  BY ByteSeqs DEF ConnType
<1>2. CASE type = "read"
  BY <1>1, <1>2 DEF Found
<1>3. CASE type = "bytes"
  BY <1>1, <1>3 DEF Found
<1>4. CASE type = "until"
  <2> DEFINE at == {i \in 1..Len(c.read_buffer) : c.read_buffer[i] \in Delims}
             f == CHOOSE i \in at : \A j \in at : i <= j
  <2>1. Found(c, type, n) = IF at = {} THEN 0 ELSE f
    BY <1>4 DEF Found
  <2>2. CASE at = {}
    BY <1>1, <1>4, <2>1, <2>2
  <2>3. CASE at # {}
    <3>1. at \subseteq Nat
      BY <1>1
    <3>2. \E i \in at : \A j \in at : i <= j
      <4> HIDE DEF at
      <4> QED BY <2>3, <3>1, LeastNatural
    <3>3. f \in at /\ \A j \in at : f <= j
      <4> HIDE DEF at
      <4> QED BY <3>2
    <3> HIDE DEF f
    <3>4. f \in 1..Len(c.read_buffer) /\ c.read_buffer[f] \in Delims
      BY <3>3
    <3>5. \A i \in 1..(f - 1) : c.read_buffer[i] \notin Delims
      <4> SUFFICES ASSUME NEW i \in 1..(f - 1), c.read_buffer[i] \in Delims PROVE FALSE
        OBVIOUS
      <4>1. i \in at
        BY <1>1, <3>4
      <4> QED BY <1>1, <3>3, <3>4, <4>1
    <3>6. Found(c, type, n) = f
      BY <2>1, <2>3
    <3> HIDE DEF at
    <3> QED BY <1>1, <1>4, <3>4, <3>5, <3>6
  <2> QED BY <2>2, <2>3
<1> QED BY <1>2, <1>3, <1>4

LEMMA WriteFdEffect ==
  ASSUME conn \in ConnType, sock \in SockType, Len(sock.outbox) <= SndBuf, NEW w \in WriteFd
  PROVE  /\ w.conn \in ConnType /\ w.sock \in SockType
         /\ SameOperation(conn, w.conn)
         /\ w.conn.buffer = conn.buffer /\ w.conn.read_buffer = conn.read_buffer
         /\ w.sock.outbox \o w.conn.write_buffer = sock.outbox \o conn.write_buffer
         /\ w.sock.state = sock.state /\ w.sock.inbox = sock.inbox
         /\ Len(w.sock.outbox) <= SndBuf
<1>0. conn.write_buffer \in ByteSeq /\ sock.outbox \in ByteSeq
  BY DEF ConnType, SockType
<1>1. CASE w.sock = sock /\ (w.conn = [conn EXCEPT !.closed = TRUE] \/ w.conn = [conn EXCEPT !.error = TRUE])
  <2>1. /\ w.conn \in ConnType /\ w.conn.buffer = conn.buffer /\ w.conn.read_buffer = conn.read_buffer
        /\ w.conn.write_buffer = conn.write_buffer /\ SameOperation(conn, w.conn)
    BY <1>1 DEF ConnType, SameOperation
  <2> QED BY <1>1, <2>1
<1> DEFINE n == Least(Room, Len(conn.write_buffer))
           a == Upto(conn.write_buffer, n)
           b == After(conn.write_buffer, n)
           o == sock.outbox \o a
<1>2. CASE n # 0 /\ w.conn = [conn EXCEPT !.write_buffer = b] /\ w.sock = [sock EXCEPT !.outbox = o]
           /\ n \in 0..Len(conn.write_buffer)
  <2>1. a \in ByteSeq /\ b \in ByteSeq /\ a \o b = conn.write_buffer
    <3> HIDE DEF n
    <3> QED BY <1>0, <1>2, SplitBytes
  <2>2. w.conn = [conn EXCEPT !.write_buffer = b] /\ w.sock = [sock EXCEPT !.outbox = o]
    BY <1>2
  <2> HIDE DEF n, a, b
  <2>3. o \in ByteSeq /\ o \o b = sock.outbox \o conn.write_buffer
    <3>1. o \in ByteSeq
      BY <1>0, <2>1, ByteSeqs
    <3>2. o \o b = sock.outbox \o (a \o b)
      BY <1>0, <2>1, Assoc
    <3> QED BY <2>1, <3>1, <3>2
  <2>6. Len(o) = Len(sock.outbox) + n
    <3>1. Len(a) = n
      BY <1>0, <1>2, SplitBytes DEF a
    <3>2. sock.outbox \in Seq(Nat) /\ a \in Seq(Nat)
      BY <1>0, <2>1, ByteSeqs
    <3> QED BY <3>1, <3>2, ConcatProperties
  <2>7. Len(o) <= SndBuf
    BY <1>2, <1>0, <2>6, ByteSeqs, SMTT(20) DEF n, Least, Room
  <2> HIDE DEF o
  <2>4. /\ w.conn \in ConnType /\ w.conn.buffer = conn.buffer /\ w.conn.read_buffer = conn.read_buffer
        /\ w.conn.write_buffer = b /\ SameOperation(conn, w.conn)
    BY <2>1, <2>2 DEF ConnType, SameOperation
  <2>5. /\ w.sock \in SockType /\ w.sock.outbox = o /\ w.sock.state = sock.state
        /\ w.sock.inbox = sock.inbox
    BY <2>2, <2>3 DEF SockType
  <2> QED BY <2>3, <2>4, <2>5, <2>7
<1>3. CASE Broken
  <2> DEFINE c == [conn EXCEPT !.closed = TRUE]
             e == [conn EXCEPT !.error = TRUE]
  <2>1. w = [conn |-> c, sock |-> sock] \/ w = [conn |-> e, sock |-> sock]
    BY <1>3 DEF WriteFd
  <2>2. w.sock = sock /\ (w.conn = c \/ w.conn = e)
    <3> HIDE DEF c, e
    <3> QED BY <2>1
  <2> QED BY <1>1, <2>2
<1>4. CASE ~Broken
  <2>1. w = IF n = 0 THEN [conn |-> [conn EXCEPT !.error = TRUE], sock |-> sock]
            ELSE [conn |-> [conn EXCEPT !.write_buffer = b], sock |-> [sock EXCEPT !.outbox = o]]
    BY <1>4 DEF WriteFd
  <2>2. CASE n = 0
    BY <1>1, <2>1, <2>2
  <2>3. CASE n # 0
    <3>1. n \in 0..Len(conn.write_buffer)
      BY <1>0, ByteSeqs DEF Least, Room
    <3> QED BY <1>2, <2>1, <2>3, <3>1
  <2> QED BY <2>2, <2>3
<1> QED BY <1>3, <1>4

----------------------------------------------------------------------------
(* The invariant                                                           *)

Active0 == Active(tasks)

\* Registration, operations, answers and tasks belong together.
Ctrl ==
  /\ RegistrationMatches
  /\ user.open <=> sock.state \notin {"none", "closed"}
  /\ user.open /\ conn.read_type = "connect" => conn.write_type # "none"
  /\ user.reads <=> user.open /\ (conn.read_type # "none" \/ "post_read" \in Active0)
  /\ ~(user.open /\ conn.read_type # "none" /\ "post_read" \in Active0)
  /\ LET writing == conn.write_type # "none" /\ conn.read_type # "connect"
     IN /\ user.writes <=> user.open /\ (writing \/ "post_write" \in Active0)
        /\ ~(user.open /\ writing /\ "post_write" \in Active0)
        /\ "write" \in Active0 => user.open /\ writing
  /\ "read" \in Active0 => user.open /\ conn.read_type # "none"
  /\ "post_read" \in Active0 => user.reads
  /\ "post_write" \in Active0 => user.writes

Incoming == conn.buffer \o conn.read_buffer \o sock.inbox
Outgoing == sock.outbox \o conn.write_buffer

Stream ==
  /\ Len(sock.outbox) <= SndBuf
  /\ user.open => /\ user.took <= user.sent /\ user.peer <= user.written
                  /\ Incoming = Numbers(user.took, user.sent)
                  /\ Outgoing = Numbers(user.peer, user.written)

\* What the user is given by the read that has ended.
Kept ==
  LET new == After(conn.buffer, user.had - user.took)
  IN \/ user.want = "read" /\ new # <<>>
     \/ user.want = "bytes" /\ Len(new) = user.n
     \/ user.want = "until" /\ {i \in 1..Len(new) : new[i] \in Delims} = {Len(new)}
     \/ conn.closed \/ conn.error
     \/ conn.read_timeout /\ new = <<>>

\* The operation under way is the one that the user wants, and what it waits
\* for is to be put behind what was in the buffer when it was started.
Word ==
  /\ user.open /\ conn.read_type # "none" =>
       /\ user.want = conn.read_type
       /\ conn.read_type # "connect" =>
            user.n = conn.rbytes /\ user.had = user.took + Len(conn.buffer)
  /\ "post_read" \in Active0 /\ user.want # "connect" => Kept

IInv == TypeOK /\ QueueOK(tasks) /\ Ctrl /\ Stream /\ Word

LEMMA Parts ==
  ASSUME IInv
  PROVE  /\ conn \in ConnType /\ epoll \in EpollType /\ Good(tasks)
         /\ phase \in {"poll", "expire", "run"} /\ sock \in SockType /\ user \in UserType
         /\ Ctrl /\ Stream /\ Word
  BY Types DEF IInv, Good

LEMMA PartsNext ==
  ASSUME /\ conn' \in ConnType /\ epoll' \in EpollType /\ Good(tasks')
         /\ phase' \in {"poll", "expire", "run"} /\ sock' \in SockType /\ user' \in UserType
         /\ Ctrl' /\ Stream' /\ Word'
  PROVE  IInv'
<1>1. tasks' \in TasksType /\ QueueOK(tasks')
  BY DEF Good
<1>2. TypeOK'
  BY <1>1 DEF TypeOK, ConnType, EpollType, TasksType, Timed, SockType, UserType
<1>3. QueueOK(tasks)'
  BY <1>1 DEF QueueOK
<1> QED BY <1>2, <1>3 DEF IInv

\* The types of the user's fields.
LEMMA UserFields ==
  ASSUME NEW u \in UserType
  PROVE  /\ u.open \in BOOLEAN /\ u.reads \in BOOLEAN /\ u.writes \in BOOLEAN
         /\ u.had \in Nat /\ u.took \in Nat /\ u.sent \in Nat /\ u.written \in Nat /\ u.peer \in Nat
  BY DEF UserType

\* Control does not change.
LEMMA CtrlKept ==
  ASSUME Ctrl, UNCHANGED <<epoll, conn.read_type, conn.write_type, Active0,
                           user.open, user.reads, user.writes>>,
         sock'.state \in {"none", "closed"} <=> sock.state \in {"none", "closed"}
  PROVE  Ctrl'
  BY DEF Ctrl, RegistrationMatches

\* Bytes move along, and nobody is told.
LEMMA StreamKept ==
  ASSUME Stream, UNCHANGED <<user.took, user.sent, user.peer, user.written, user.open>>,
         Len(sock'.outbox) <= SndBuf, user.open => Incoming' = Incoming /\ Outgoing' = Outgoing
  PROVE  Stream'
  BY DEF Stream

LEMMA WordKept ==
  ASSUME Word, UNCHANGED <<user.open, user.want, user.n, user.had, user.took,
                           conn.read_type, conn.rbytes, conn.buffer, conn.read_timeout>>,
         conn.closed => conn'.closed, conn.error => conn'.error,
         "post_read" \in Active0' => "post_read" \in Active0
  PROVE  Word'
  BY DEF Word, Kept

----------------------------------------------------------------------------
(* The network and the peer                                                *)

\* s, behind t, ends the bytes of a stream from one number to another.
Ends(s, t, from, upto) == s \in ByteSeq /\ from <= upto /\ t \o s = Numbers(from, upto)

LEMMA OneMore ==
  ASSUME NEW s, NEW t \in ByteSeq, NEW from \in Nat, NEW upto \in Nat,
         Ends(s, t, from, upto),
         NEW next \in 1..(MaxSent + MaxWritten), next = upto + 1
  PROVE  Ends(Append(s, next), t, from, next)
<1>0. s \in ByteSeq /\ from <= upto /\ t \o s = Numbers(from, upto)
  BY DEF Ends
<1> DEFINE x == <<upto + 1>>
<1>1. x \in ByteSeq
  BY DEF ByteSeq
<1>2. x = Numbers(upto, upto + 1)
  <2> DEFINE y == Numbers(upto, upto + 1)
  <2>1. y \in Seq(Nat) /\ Len(y) = 1 /\ \A i \in 1..1 : y[i] = upto + i
    <3>1. upto + 1 \in Nat /\ upto <= upto + 1 /\ (upto + 1) - upto = 1
      OBVIOUS
    <3> QED BY <3>1, NumbersProperties
  <2> HIDE DEF y
  <2>2. x \in Seq(Nat) /\ Len(x) = 1 /\ \A i \in 1..Len(x) : x[i] = y[i]
    BY <2>1
  <2> HIDE DEF x
  <2> QED BY <2>1, <2>2, SeqEqual DEF y
<1>3. Append(s, upto + 1) = s \o x /\ Append(s, upto + 1) \in ByteSeq
  BY <1>0, AppendIsConcat, AppendProperties DEF ByteSeq
<1> HIDE DEF x
<1>4. t \o (s \o x) = (t \o s) \o x
  BY <1>0, <1>1, Assoc
<1>5. Numbers(from, upto) \o Numbers(upto, upto + 1) = Numbers(from, upto + 1)
  <2>1. upto + 1 \in Nat /\ upto <= upto + 1
    OBVIOUS
  <2> QED BY <1>0, <2>1, NumbersConcat
<1>6. Append(s, next) \in ByteSeq /\ t \o Append(s, next) = Numbers(from, next)
  BY <1>0, <1>2, <1>3, <1>4, <1>5
<1>7. from <= next
  BY <1>0
<1> QED BY <1>6, <1>7 DEF Ends

LEMMA HeadBytes ==
  ASSUME NEW s \in ByteSeq, s # <<>>
  PROVE  /\ <<Head(s)>> \in ByteSeq /\ Tail(s) \in ByteSeq /\ <<Head(s)>> \o Tail(s) = s
         /\ Len(Tail(s)) = Len(s) - 1 /\ Len(<<Head(s)>>) = 1
<1> DEFINE S == 1..(MaxSent + MaxWritten)
<1>1. s \in Seq(S)
  BY DEF ByteSeq
<1> HIDE DEF S
<1>2. /\ Len(s) \in Nat \ {0} /\ Head(s) = s[1] /\ Head(s) \in S /\ Tail(s) \in Seq(S)
      /\ Len(Tail(s)) = Len(s) - 1
  BY <1>1, TailElements
<1>3. <<s[1]>> \in Seq(S) /\ Len(<<s[1]>>) = 1
  BY <1>2
<1>4. 1 \in 1..Len(s) /\ Len(s) \in 1..Len(s) /\ 1 + 1 = 2
  BY <1>2
<1>5. SubSeq(s, 1, Len(s)) = <<s[1]>> \o SubSeq(s, 1 + 1, Len(s))
  BY <1>1, <1>4, SubSeqRecursiveFirst
<1>6. SubSeq(s, 1, Len(s)) = s
  BY <1>1, SubSeqFull
<1>7. Tail(s) = SubSeq(s, 2, Len(s))
  BY <1>1, TailIsSubSeq
<1>8. <<s[1]>> \o Tail(s) = s
  BY <1>4, <1>5, <1>6, <1>7
<1> QED BY <1>2, <1>3, <1>8 DEF S, ByteSeq

LEMMA OneLess ==
  ASSUME NEW s \in ByteSeq, s # <<>>, NEW t \in ByteSeq, NEW from \in Nat, NEW upto \in Nat,
         from <= upto, s \o t = Numbers(from, upto)
  PROVE  from + 1 <= upto /\ Tail(s) \o t = Numbers(from + 1, upto)
<1> DEFINE h == <<Head(s)>>
           r == Tail(s) \o t
<1>1. h \in ByteSeq /\ Tail(s) \in ByteSeq /\ h \o Tail(s) = s /\ Len(h) = 1
  BY HeadBytes
<1> HIDE DEF h
<1>2. (h \o Tail(s)) \o t = h \o r
  BY <1>1, Assoc
<1>3. r \in ByteSeq
  BY <1>1, ByteSeqs
<1>4. h \in Seq(Nat) /\ r \in Seq(Nat)
  BY <1>1, <1>3, ByteSeqs
<1> HIDE DEF r
<1>5. Splits(Numbers(from, upto), h, r)
  <2>1. s \o t = h \o r
    BY <1>1, <1>2
  <2> QED BY <2>1 DEF Splits
<1>6. from + Len(h) <= upto /\ r = Numbers(from + Len(h), upto)
  BY <1>4, <1>5, NumbersDrop
<1> QED BY <1>1, <1>6 DEF r

LEMMA WorldStep == IInv /\ World => IInv'
<1> SUFFICES ASSUME IInv, World PROVE IInv'
  OBVIOUS
<1>0. /\ conn \in ConnType /\ epoll \in EpollType /\ Good(tasks)
      /\ phase \in {"poll", "expire", "run"} /\ sock \in SockType /\ user \in UserType
      /\ Ctrl /\ Stream /\ Word
  BY Parts
<1>1. UNCHANGED <<conn, epoll, tasks, phase>>
  BY DEF World, ConnectDone, PeerSend, PeerRead, PeerClose, PeerReset, Peer
<1>2. Active0' = Active0
  BY <1>1 DEF Active0, Active
<1>3. ASSUME sock' \in SockType, user' \in UserType, Stream',
             UNCHANGED <<user.open, user.reads, user.writes, user.want, user.n, user.had, user.took>>,
             sock'.state \in {"none", "closed"} <=> sock.state \in {"none", "closed"}
      PROVE  IInv'
  <2>1. Ctrl'
    BY <1>0, <1>1, <1>2, <1>3, CtrlKept
  <2>2. Word'
    BY <1>0, <1>1, <1>2, <1>3, WordKept
  <2> QED BY <1>0, <1>1, <1>3, <2>1, <2>2, PartsNext DEF Good, QueueOK
<1>4. CASE ConnectDone \/ PeerClose \/ PeerReset
  <2>1. /\ user' = user
        /\ \/ sock' = [sock EXCEPT !.fin = TRUE]
           \/ /\ sock.state \in {"up", "connecting"}
              /\ \E st \in {"up", "failed", "reset"} : sock' = [sock EXCEPT !.state = st]
    BY <1>4 DEF ConnectDone, PeerClose, PeerReset, Peer
  <2>2. /\ sock' \in SockType /\ sock'.inbox = sock.inbox /\ sock'.outbox = sock.outbox
        /\ sock'.state \in {"none", "closed"} <=> sock.state \in {"none", "closed"}
    BY <1>0, <2>1 DEF SockType
  <2>3. Stream'
    BY <1>0, <1>1, <2>1, <2>2, StreamKept DEF Incoming, Outgoing, Stream
  <2> QED BY <1>0, <1>3, <2>1, <2>2, <2>3
<1>5. CASE PeerSend
  <2> DEFINE x == user.sent + 1
             i == Append(sock.inbox, x)
  <2>1. /\ sock' = [sock EXCEPT !.inbox = i] /\ user' = [user EXCEPT !.sent = x]
        /\ sock.state = "up" /\ user.sent < MaxSent
    BY <1>5 DEF PeerSend, Peer
  <2>2. user.sent \in Nat /\ user.took \in Nat /\ x \in Nat /\ x \in 1..(MaxSent + MaxWritten)
    BY <1>0, <2>1, UserFields, ByteSeqs
  <2>3. user.open
    BY <1>0, <2>1 DEF Ctrl
  <2>4. user.took <= user.sent /\ Incoming = Numbers(user.took, user.sent)
    BY <1>0, <2>3 DEF Stream
  <2>5. i \in ByteSeq /\ conn.buffer \o conn.read_buffer \o i = Numbers(user.took, x)
    <3> DEFINE s == sock.inbox
               t == conn.buffer \o conn.read_buffer
               from == user.took
               upto == user.sent
               next == x
    <3>1. s \in ByteSeq /\ t \in ByteSeq
      BY <1>0, ByteSeqs DEF SockType, ConnType
    <3>2. /\ from \in Nat /\ upto \in Nat
          /\ next \in 1..(MaxSent + MaxWritten) /\ next = upto + 1
      BY <2>2
    <3>3. Ends(s, t, from, upto)
      BY <2>4, <3>1 DEF Incoming, Ends
    <3> HIDE DEF s, t, from, upto, next
    <3>4. Ends(Append(s, next), t, from, next)
      BY <3>1, <3>2, <3>3, OneMore
    <3> QED BY <3>4 DEF s, t, from, upto, next, Ends
  <2> HIDE DEF x, i
  <2>6. /\ sock' \in SockType /\ sock'.inbox = i /\ sock'.outbox = sock.outbox
        /\ sock'.state = sock.state
    BY <1>0, <2>1, <2>5 DEF SockType
  <2>7. /\ user' \in UserType /\ user'.sent = x
        /\ UNCHANGED <<user.open, user.reads, user.writes, user.want, user.n, user.had, user.took,
                       user.written, user.peer>>
    BY <1>0, <2>1, <2>2 DEF UserType
  <2>8. user.took <= x
    BY <2>2, <2>4 DEF x
  <2>9. Stream'
    BY <1>0, <1>1, <2>5, <2>6, <2>7, <2>8 DEF Stream, Incoming, Outgoing
  <2> QED BY <1>3, <2>6, <2>7, <2>9
<1>6. CASE PeerRead
  <2> DEFINE o == Tail(sock.outbox)
             x == user.peer + 1
  <2>1. /\ sock' = [sock EXCEPT !.outbox = o] /\ user' = [user EXCEPT !.peer = x]
        /\ sock.state = "up" /\ sock.outbox # <<>>
    BY <1>6 DEF PeerRead, Peer
  <2>2. user.peer \in Nat /\ user.written \in Nat /\ x \in Nat
    BY <1>0, UserFields
  <2>3. user.open
    BY <1>0, <2>1 DEF Ctrl
  <2>4. user.peer <= user.written /\ Outgoing = Numbers(user.peer, user.written) /\ Len(sock.outbox) <= SndBuf
    BY <1>0, <2>3 DEF Stream
  <2>5. sock.outbox \in ByteSeq /\ conn.write_buffer \in ByteSeq
    BY <1>0 DEF SockType, ConnType
  <2>6. o \in ByteSeq /\ Len(o) = Len(sock.outbox) - 1
    BY <2>1, <2>5, HeadBytes
  <2>9. x <= user.written /\ o \o conn.write_buffer = Numbers(x, user.written)
    BY <2>1, <2>2, <2>4, <2>5, OneLess, ZenonT(30) DEF Outgoing
  <2> HIDE DEF o
  <2>10. Len(o) <= SndBuf
    BY <2>4, <2>5, <2>6, ByteSeqs
  <2> HIDE DEF x
  <2>11. /\ sock' \in SockType /\ sock'.inbox = sock.inbox /\ sock'.outbox = o
         /\ sock'.state = sock.state
    BY <1>0, <2>1, <2>6 DEF SockType
  <2>12. /\ user' \in UserType /\ user'.peer = x
         /\ UNCHANGED <<user.open, user.reads, user.writes, user.want, user.n, user.had, user.took,
                        user.written, user.sent>>
    BY <1>0, <2>1, <2>2 DEF UserType
  <2>13. Stream'
    BY <1>0, <1>1, <2>9, <2>10, <2>11, <2>12 DEF Stream, Incoming, Outgoing
  <2> QED BY <1>3, <2>11, <2>12, <2>13
<1> QED BY <1>4, <1>5, <1>6 DEF World

----------------------------------------------------------------------------
(* The user                                                                *)

LEMMA NoBytes ==
  /\ <<>> \in ByteSeq /\ Len(<<>>) = 0 /\ <<>> \o <<>> = <<>>
  /\ \A s \in ByteSeq : <<>> \o s = s
  /\ \A n \in Nat : Numbers(n, n) = <<>>
<1>1. \A s \in ByteSeq : <<>> \o s = s
  BY ConcatEmptySeq DEF ByteSeq
<1>2. <<>> \in ByteSeq /\ Len(<<>>) = 0
  BY ByteSeqs, EmptySeq
<1>3. ASSUME NEW n \in Nat PROVE Numbers(n, n) = <<>>
  <2> DEFINE u == Numbers(n, n)
  <2>1. u \in Seq(Nat) /\ Len(u) = n - n
    BY NumbersProperties
  <2> HIDE DEF u
  <2>2. u = <<>>
    BY <2>1, EmptySeq
  <2> QED BY <2>2 DEF u
<1> QED BY <1>1, <1>2, <1>3

\* The tasks of the next state.
LEMMA TasksNext ==
  ASSUME NEW ts, tasks' = ts
  PROVE  Active0' = Active(ts)
  BY DEF Active0, Active

LEMMA InitInvariant == Init => IInv
<1> SUFFICES ASSUME Init PROVE IInv
  OBVIOUS
<1>1. <<>> \in ByteSeq /\ Len(<<>>) = 0 /\ SndBuf \in Nat
  BY NoBytes, ByteSeqs
<1>2. /\ conn \in ConnType /\ epoll \in EpollType /\ sock \in SockType /\ user \in UserType
      /\ phase \in {"poll", "expire", "run"}
  BY <1>1 DEF Init, ConnType, EpollType, SockType, UserType, NewSock, NewUser
<1>3. tasks \in TasksType /\ QueueOK(tasks) /\ Active0 = {}
  <2>1. tasks = [queue |-> <<>>, timers |-> {}, timeout |-> {}] /\ <<>> \in Seq(Timed \cup Post)
    BY EmptySeq DEF Init
  <2>2. ToSet(<<>>) = {} /\ IsInjective(<<>>)
    BY DEF ToSet, IsInjective
  <2> QED BY <2>1, <2>2 DEF TasksType, QueueOK, Active0, Active
<1>4. Ctrl
  BY <1>3 DEF Init, Ctrl, RegistrationMatches, NewSock, NewUser
<1>5. Stream
  BY <1>1 DEF Init, Stream, NewSock, NewUser
<1>6. Word
  BY <1>3 DEF Init, Word, NewUser
<1> QED BY <1>2, <1>3, <1>4, <1>5, <1>6, Types DEF IInv

\* What all the steps of the connection start from.
LEMMA Start ==
  ASSUME IInv
  PROVE  /\ conn.buffer \in ByteSeq /\ conn.read_buffer \in ByteSeq /\ conn.write_buffer \in ByteSeq
         /\ sock.inbox \in ByteSeq /\ sock.outbox \in ByteSeq
         /\ conn.read_expire \in BOOLEAN /\ conn.write_expire \in BOOLEAN
         /\ conn.closed \in BOOLEAN /\ conn.error \in BOOLEAN
         /\ user.open \in BOOLEAN /\ user.reads \in BOOLEAN /\ user.writes \in BOOLEAN
  BY Parts DEF ConnType, SockType, UserType

LEMMA CreateStep ==
  ASSUME IInv, NEW state \in {"up", "idle"}, spe_conn_create(state)
  PROVE  IInv'
<1>0. /\ conn \in ConnType /\ epoll \in EpollType /\ Good(tasks)
      /\ phase \in {"poll", "expire", "run"} /\ sock \in SockType /\ user \in UserType
      /\ Ctrl /\ Stream /\ Word
  BY Parts
<1>1. <<>> \in ByteSeq /\ Len(<<>>) = 0 /\ SndBuf \in Nat
  BY NoBytes, ByteSeqs
<1>2. /\ sock.state \in {"none", "closed"} /\ sock' = NewSock(state) /\ user' = NewUser(TRUE)
      /\ UNCHANGED <<epoll, tasks, phase>>
      /\ conn' = [CreateClean(conn) EXCEPT !.read_expire = FALSE, !.write_expire = FALSE,
                 !.read_type = "none", !.write_type = "none", !.closed = FALSE, !.error = FALSE]
  BY DEF spe_conn_create
<1>3. /\ conn' \in ConnType /\ conn'.read_type = "none" /\ conn'.write_type = "none"
      /\ conn'.buffer = <<>> /\ conn'.read_buffer = <<>> /\ conn'.write_buffer = <<>>
  <2> DEFINE c == CreateClean(conn)
  <2>1. c \in ConnType /\ c.buffer = <<>> /\ c.read_buffer = <<>> /\ c.write_buffer = <<>>
    BY <1>0, <1>1 DEF CreateClean, ConnType
  <2>2. conn' = [c EXCEPT !.read_expire = FALSE, !.write_expire = FALSE,
                 !.read_type = "none", !.write_type = "none", !.closed = FALSE, !.error = FALSE]
    BY <1>2
  <2> HIDE DEF c
  <2> QED BY <2>1, <2>2, ZenonT(20) DEF ConnType
<1>4. /\ sock' \in SockType /\ sock'.state = state /\ sock'.inbox = <<>> /\ sock'.outbox = <<>>
      /\ user' \in UserType /\ user'.open = TRUE /\ user'.reads = FALSE /\ user'.writes = FALSE
      /\ user'.took = 0 /\ user'.sent = 0 /\ user'.peer = 0 /\ user'.written = 0
  BY <1>1, <1>2 DEF NewSock, NewUser, SockType, UserType
<1>5. Active0' = Active0
  BY <1>2 DEF Active0, Active
<1>6. /\ ~user.open /\ "R" \notin epoll.mask /\ "W" \notin epoll.mask
      /\ "read" \notin Active0 /\ "write" \notin Active0
      /\ "post_read" \notin Active0 /\ "post_write" \notin Active0
  BY <1>0, <1>2 DEF Ctrl, RegistrationMatches
<1>7. Ctrl'
  BY <1>2, <1>3, <1>4, <1>5, <1>6 DEF Ctrl, RegistrationMatches
<1>8. Stream'
  <2>1. Incoming' = <<>> /\ Outgoing' = <<>> /\ Numbers(0, 0) = <<>>
    BY <1>3, <1>4, NoBytes DEF Incoming, Outgoing
  <2> QED BY <1>1, <1>4, <2>1 DEF Stream
<1>9. Word'
  BY <1>3, <1>5, <1>6 DEF Word
<1> QED BY <1>0, <1>2, <1>3, <1>4, <1>7, <1>8, <1>9, PartsNext

LEMMA DestroyStep ==
  ASSUME IInv, spe_conn_destroy
  PROVE  IInv'
<1>0. /\ conn \in ConnType /\ epoll \in EpollType /\ Good(tasks)
      /\ phase \in {"poll", "expire", "run"} /\ sock \in SockType /\ user \in UserType
      /\ Ctrl /\ Stream /\ Word
  BY Parts
<1>1. /\ tasks' = Destroyed /\ epoll' = Disable({"R", "W"})
      /\ sock' = NewSock("closed") /\ user' = NewUser(FALSE) /\ UNCHANGED <<conn, phase>>
  BY DEF spe_conn_destroy
<1>2. Good(tasks') /\ Active0' = {}
  BY <1>0, <1>1, DestroyedEffect, TasksNext
<1>3. epoll' \in EpollType /\ "R" \notin epoll'.mask /\ "W" \notin epoll'.mask
  BY <1>0, <1>1, DisableEffect
<1>4. /\ sock' \in SockType /\ sock'.state = "closed" /\ Len(sock'.outbox) <= SndBuf
      /\ user' \in UserType /\ user'.open = FALSE /\ user'.reads = FALSE /\ user'.writes = FALSE
  BY <1>1, NoBytes, ByteSeqs DEF NewSock, NewUser, SockType, UserType
<1>5. Ctrl'
  BY <1>2, <1>3, <1>4 DEF Ctrl, RegistrationMatches
<1>6. Stream' /\ Word'
  BY <1>2, <1>4 DEF Stream, Word
<1> QED BY <1>0, <1>1, <1>2, <1>3, <1>4, <1>5, <1>6, PartsNext

LEMMA TimeoutStep ==
  ASSUME IInv, NEW r \in BOOLEAN, NEW w \in BOOLEAN, spe_conn_set_timeout(r, w)
  PROVE  IInv'
<1>0. /\ conn \in ConnType /\ epoll \in EpollType /\ Good(tasks)
      /\ phase \in {"poll", "expire", "run"} /\ sock \in SockType /\ user \in UserType
      /\ Ctrl /\ Stream /\ Word
  BY Parts
<1>1. /\ conn' = [conn EXCEPT !.read_expire = r, !.write_expire = w]
      /\ UNCHANGED <<epoll, tasks, phase, sock, user>>
  BY DEF spe_conn_set_timeout
<1>2. /\ conn' \in ConnType
      /\ UNCHANGED <<conn.read_type, conn.write_type, conn.rbytes, conn.buffer, conn.read_buffer,
                     conn.write_buffer, conn.read_timeout, conn.closed, conn.error>>
  BY <1>0, <1>1 DEF ConnType
<1>3. Active0' = Active0
  BY <1>1 DEF Active0, Active
<1>4. Ctrl'
  BY <1>0, <1>1, <1>2, <1>3, CtrlKept
<1>5. Stream'
  <2>1. Incoming' = Incoming /\ Outgoing' = Outgoing /\ Len(sock'.outbox) <= SndBuf
    BY <1>0, <1>1, <1>2 DEF Incoming, Outgoing, Stream
  <2> QED BY <1>0, <1>1, <2>1, StreamKept
<1>6. Word'
  BY <1>0, <1>1, <1>2, <1>3, WordKept
<1> QED BY <1>0, <1>1, <1>2, <1>4, <1>5, <1>6, PartsNext

LEMMA ConnectStep ==
  ASSUME IInv, spe_conn_connect
  PROVE  IInv'
<1>0. /\ conn \in ConnType /\ epoll \in EpollType /\ Good(tasks)
      /\ phase \in {"poll", "expire", "run"} /\ sock \in SockType /\ user \in UserType
      /\ Ctrl /\ Stream /\ Word
  BY Parts
<1>1. /\ user.open /\ ~user.reads /\ sock.state = "idle" /\ phase' = phase
      /\ conn.read_type = "none" /\ conn.write_type = "none"
      /\ user' = [user EXCEPT !.reads = TRUE, !.want = "connect"]
  BY DEF spe_conn_connect, UserRuns
<1>2. /\ user' \in UserType /\ user'.reads = TRUE /\ user'.want = "connect"
      /\ UNCHANGED <<user.open, user.writes, user.took, user.sent, user.peer, user.written>>
  BY <1>0, <1>1 DEF UserType
<1>3. /\ "read" \notin Active0 /\ "write" \notin Active0 /\ "post_read" \notin Active0
      /\ (user.writes <=> "post_write" \in Active0)
  BY <1>0, <1>1 DEF Ctrl
<1>4. ASSUME conn' \in ConnType, sock' \in SockType, Ctrl',
             UNCHANGED <<conn.buffer, conn.read_buffer, conn.write_buffer, sock.inbox, sock.outbox>>,
             epoll' \in EpollType, Good(tasks'), "post_read" \notin Active0' \/ conn'.read_type = "none",
             conn'.read_type \in {"none", "connect"}
      PROVE  IInv'
  <2>1. Stream'
    <3>1. Incoming' = Incoming /\ Outgoing' = Outgoing /\ Len(sock'.outbox) <= SndBuf
      BY <1>0, <1>4 DEF Incoming, Outgoing, Stream
    <3> QED BY <1>0, <1>2, <3>1, StreamKept
  <2>2. Word'
    BY <1>2, <1>4 DEF Word
  <2> QED BY <1>0, <1>1, <1>2, <1>4, <2>1, <2>2, PartsNext
<1>5. CASE /\ sock' = [sock EXCEPT !.state = "connecting"]
           /\ conn' = [conn EXCEPT !.connect_timeout = FALSE,
                                   !.read_type = "connect", !.write_type = "write"]
           /\ epoll' = Enable({"R", "W"}, "read")
           /\ tasks' = Armed(tasks, "read", conn.read_expire)
  <2>1. /\ conn' \in ConnType /\ conn'.read_type = "connect" /\ conn'.write_type = "write"
        /\ UNCHANGED <<conn.buffer, conn.read_buffer, conn.write_buffer>>
    BY <1>0, <1>5 DEF ConnType
  <2>2. /\ sock' \in SockType /\ sock'.state = "connecting" /\ UNCHANGED <<sock.inbox, sock.outbox>>
    BY <1>0, <1>5 DEF SockType
  <2>3. Good(tasks') /\ Active0' \in {Active0, Active0 \cup {"read"}}
    <3>1. conn.read_expire \in BOOLEAN /\ "read" \in Timed
      BY <1>0 DEF ConnType, Timed
    <3> DEFINE e == conn.read_expire
    <3>2. tasks' = Armed(tasks, "read", e) /\ e \in BOOLEAN
      BY <1>5, <3>1
    <3> HIDE DEF e
    <3>3. Good(tasks') /\ Active(tasks') \in {Active(tasks), Active(tasks) \cup {"read"}}
      BY <1>0, <3>1, <3>2, ArmedEffect
    <3> QED BY <3>3 DEF Active0, Active
  <2>4. /\ epoll' \in EpollType /\ "R" \in epoll'.mask /\ "W" \in epoll'.mask
        /\ epoll'.read_task = "read" /\ epoll'.write_task = "read"
    BY <1>0, <1>5, EnableEffect DEF Timed
  <2>5. Ctrl'
    BY <1>0, <1>1, <1>2, <1>3, <2>1, <2>2, <2>3, <2>4 DEF Ctrl, RegistrationMatches
  <2> QED BY <1>3, <1>4, <2>1, <2>2, <2>3, <2>4, <2>5
<1>6. CASE \E ok \in BOOLEAN :
             /\ sock' = [sock EXCEPT !.state = IF ok THEN "up" ELSE "failed"]
             /\ conn' = [conn EXCEPT !.error = @ \/ ~ok]
             /\ tasks' = Schedule(tasks, "post_read") /\ UNCHANGED epoll
  <2>1. PICK ok \in BOOLEAN :
             /\ sock' = [sock EXCEPT !.state = IF ok THEN "up" ELSE "failed"]
             /\ conn' = [conn EXCEPT !.error = @ \/ ~ok]
             /\ tasks' = Schedule(tasks, "post_read") /\ UNCHANGED epoll
    BY <1>6
  <2>2. /\ conn' \in ConnType
        /\ UNCHANGED <<conn.read_type, conn.write_type, conn.buffer, conn.read_buffer, conn.write_buffer>>
    <3> DEFINE e == conn.error \/ ~ok
    <3>1. conn' = [conn EXCEPT !.error = e] /\ e \in BOOLEAN
      BY <2>1
    <3> HIDE DEF e
    <3> QED BY <1>0, <3>1 DEF ConnType
  <2>3. /\ sock' \in SockType /\ sock'.state \in {"up", "failed"} /\ UNCHANGED <<sock.inbox, sock.outbox>>
    BY <1>0, <2>1 DEF SockType
  <2>4. Good(tasks') /\ Active0' = Active0 \cup {"post_read"}
    BY <1>0, <2>1, ScheduleEffect, TasksNext DEF Timed, Post, Active0
  <2>5. Ctrl'
    BY <1>0, <1>1, <1>2, <1>3, <2>1, <2>2, <2>3, <2>4 DEF Ctrl, RegistrationMatches
  <2> QED BY <1>0, <1>1, <1>4, <2>1, <2>2, <2>3, <2>4, <2>5
<1> QED BY <1>5, <1>6 DEF spe_conn_connect

\* spe_conn_read_sync and the delivery leave the stream of bytes as it was.
LEMMA ReadStream ==
  ASSUME conn \in ConnType, sock \in SockType, NEW n \in 0..Len(ReadFd.read_buffer)
  PROVE  /\ ReadFd.buffer \o ReadFd.read_buffer \o SockRead.inbox = Incoming
         /\ Deliver(ReadFd, n).buffer \o Deliver(ReadFd, n).read_buffer \o SockRead.inbox = Incoming
<1> DEFINE c == ReadFd
           d == Deliver(c, n)
           i == SockRead.inbox
<1>1. /\ c \in ConnType /\ c.buffer = conn.buffer /\ i \in ByteSeq
      /\ c.read_buffer \o i = conn.read_buffer \o sock.inbox
  BY ReadFdEffect DEF SockType
<1>2. /\ conn.buffer \in ByteSeq /\ conn.read_buffer \in ByteSeq /\ sock.inbox \in ByteSeq
      /\ c.buffer \in ByteSeq /\ c.read_buffer \in ByteSeq
  <2> HIDE DEF c
  <2> QED BY <1>1 DEF ConnType, SockType
<1>3. d.buffer \o d.read_buffer = c.buffer \o c.read_buffer
  <2> HIDE DEF c
  <2> QED BY <1>1, DeliverEffect DEF c
<1> HIDE DEF c, d, i
<1>4. (c.buffer \o c.read_buffer) \o i = c.buffer \o (c.read_buffer \o i)
  <2> DEFINE x == c.buffer
             y == c.read_buffer
  <2>1. x \in ByteSeq /\ y \in ByteSeq /\ i \in ByteSeq
    BY <1>1, <1>2
  <2> HIDE DEF x, y
  <2>2. (x \o y) \o i = x \o (y \o i)
    BY <2>1, Assoc
  <2> QED BY <2>2 DEF x, y
<1>5. (conn.buffer \o conn.read_buffer) \o sock.inbox = conn.buffer \o (conn.read_buffer \o sock.inbox)
  <2> DEFINE x == conn.buffer
             y == conn.read_buffer
             z == sock.inbox
  <2>1. x \in ByteSeq /\ y \in ByteSeq /\ z \in ByteSeq
    BY <1>2
  <2> HIDE DEF x, y, z
  <2>2. (x \o y) \o z = x \o (y \o z)
    BY <2>1, Assoc
  <2> QED BY <2>2 DEF x, y, z
<1>6. (c.buffer \o c.read_buffer) \o i = Incoming
  BY <1>1, <1>4, <1>5 DEF Incoming
<1> QED BY <1>3, <1>6 DEF c, d, i

\* What Found finds is what was asked for.
Answers(type, n, new) ==
  \/ type = "read" /\ new # <<>>
  \/ type = "bytes" /\ Len(new) = n
  \/ type = "until" /\ {i \in 1..Len(new) : new[i] \in Delims} = {Len(new)}

LEMMA FoundIsKept ==
  ASSUME NEW c \in ConnType, NEW type \in {"read", "until", "bytes"}, NEW n \in 0..2,
         NEW f, f = Found(c, type, n), f > 0
  PROVE  Answers(type, n, Upto(c.read_buffer, f))
<1> DEFINE new == Upto(c.read_buffer, f)
<1>1. /\ f \in 0..Len(c.read_buffer) /\ (type = "bytes" => f = n)
      /\ type = "until" => /\ c.read_buffer[f] \in Delims
                           /\ \A i \in 1..(f - 1) : c.read_buffer[i] \notin Delims
  BY FoundEffect
<1>2. c.read_buffer \in ByteSeq
  BY DEF ConnType
<1>3. Len(new) = f /\ \A i \in 1..f : new[i] = c.read_buffer[i]
  BY <1>1, <1>2, SplitBytes
<1> HIDE DEF new
<1> SUFFICES Answers(type, n, new)
  BY DEF new
<1>4. CASE type = "read"
  BY <1>1, <1>3, <1>4, NoBytes DEF Answers
<1>5. CASE type = "bytes"
  BY <1>1, <1>3, <1>5 DEF Answers
<1>6. CASE type = "until"
  <2>1. f \in 1..f /\ f \in Nat
    BY <1>1, <1>2, ByteSeqs
  <2>2. new[f] \in Delims
    BY <1>1, <1>3, <1>6, <2>1
  <2>3. ASSUME NEW i \in 1..f, new[i] \in Delims PROVE i = f
    <3>1. c.read_buffer[i] \in Delims
      BY <1>3, <2>3
    <3>2. i \notin 1..(f - 1)
      BY <1>1, <1>6, <3>1
    <3> QED BY <2>1, <3>2
  <2>4. {i \in 1..Len(new) : new[i] \in Delims} = {Len(new)}
    BY <1>3, <2>1, <2>2, <2>3
  <2> QED BY <1>6, <2>4 DEF Answers
<1> QED BY <1>4, <1>5, <1>6

\* The user finds what was delivered behind what it had.
LEMMA NewBytes ==
  ASSUME NEW b \in ByteSeq, NEW a \in ByteSeq, NEW took \in Nat
  PROVE  After(b \o a, (took + Len(b)) - took) = a
<1>1. Len(b) \in Nat
  BY ByteSeqs
<1>2. (took + Len(b)) - took = Len(b)
  BY <1>1
<1>3. After(b \o a, Len(b)) = a
  BY AfterConcat DEF ByteSeq
<1> QED BY <1>2, <1>3

LEMMA ReadStep ==
  ASSUME IInv, NEW type \in {"read", "until", "bytes"}, NEW n \in 0..2, SpeConnRead(type, n)
  PROVE  IInv'
<1>0. /\ conn \in ConnType /\ epoll \in EpollType /\ Good(tasks)
      /\ phase \in {"poll", "expire", "run"} /\ sock \in SockType /\ user \in UserType
      /\ Ctrl /\ Stream /\ Word
  BY Parts
<1> DEFINE c == ReadFd
           all == c.closed \/ c.error
           found == IF all THEN Len(c.read_buffer) ELSE Found(c, type, n)
           had == user.took + Len(conn.buffer)
<1>1. /\ user.open /\ ~user.reads /\ conn.read_type = "none" /\ phase' = phase
      /\ user' = [user EXCEPT !.reads = TRUE, !.want = type, !.n = n, !.had = had]
      /\ sock' = SockRead
  BY DEF SpeConnRead, UserRuns
<1>2. /\ conn.buffer \in ByteSeq /\ user.took \in Nat /\ had \in Nat
  BY <1>0, ByteSeqs DEF ConnType, UserType
<1>3. /\ user' \in UserType /\ user'.reads = TRUE /\ user'.want = type /\ user'.n = n /\ user'.had = had
      /\ UNCHANGED <<user.open, user.writes, user.took, user.sent, user.peer, user.written>>
  <2> HIDE DEF had
  <2> QED BY <1>0, <1>1, <1>2 DEF UserType
<1>4. /\ c \in ConnType /\ SameOperation(conn, c)
      /\ c.buffer = conn.buffer /\ c.write_buffer = conn.write_buffer
      /\ sock' \in SockType /\ sock'.state = sock.state /\ sock'.outbox = sock.outbox
  BY <1>0, <1>1, ReadFdEffect
<1>5. found \in 0..Len(c.read_buffer) /\ c.read_buffer \in ByteSeq /\ Len(c.read_buffer) \in Nat
  <2>1. c.read_buffer \in ByteSeq /\ Len(c.read_buffer) \in Nat
    BY <1>4, ByteSeqs DEF ConnType
  <2>2. Found(c, type, n) \in 0..Len(c.read_buffer)
    <3> HIDE DEF c
    <3> QED BY <1>4, FoundEffect
  <2> QED BY <2>1, <2>2
<1>6. /\ "read" \notin Active0 /\ "post_read" \notin Active0
      /\ "write" \in Active0 => conn.write_type # "none"
      /\ user.writes <=> (conn.write_type # "none" \/ "post_write" \in Active0)
  BY <1>0, <1>1 DEF Ctrl
<1>7. ASSUME conn' \in ConnType, Ctrl', Incoming' = Incoming, conn'.write_buffer = conn.write_buffer,
             epoll' \in EpollType, Good(tasks'), Word'
      PROVE  IInv'
  <2>1. Outgoing' = Outgoing /\ Len(sock'.outbox) <= SndBuf
    BY <1>0, <1>4, <1>7 DEF Outgoing, Stream
  <2>2. Stream'
    BY <1>0, <1>3, <1>7, <2>1, StreamKept
  <2> QED BY <1>0, <1>1, <1>3, <1>4, <1>7, <2>2, PartsNext
<1>8. CASE /\ all \/ found > 0
           /\ conn' = Deliver(c, found) /\ tasks' = Told(tasks) /\ UNCHANGED epoll
  <2>1. /\ conn' \in ConnType /\ SameOperation(c, conn')
        /\ conn'.buffer = conn.buffer \o Upto(c.read_buffer, found)
        /\ conn'.write_buffer = conn.write_buffer
    <3> HIDE DEF c, found
    <3> QED BY <1>4, <1>5, <1>8, DeliverEffect
  <2>2. conn'.read_type = "none" /\ conn'.write_type = conn.write_type
    BY <1>1, <1>4, <2>1 DEF SameOperation
  <2>3. Incoming' = Incoming
    <3> HIDE DEF found
    <3>1. conn'.buffer \o conn'.read_buffer \o sock'.inbox = Incoming
      BY <1>0, <1>1, <1>5, <1>8, ReadStream
    <3> QED BY <3>1 DEF Incoming
  <2>4. Good(tasks') /\ Active0' = Active0 \cup {"post_read"}
    BY <1>0, <1>8, ScheduleEffect, TasksNext DEF Timed, Post, Active0, Told
  <2>5. Ctrl'
    BY <1>0, <1>1, <1>3, <1>4, <1>6, <1>8, <2>2, <2>4 DEF Ctrl, RegistrationMatches
  <2>6. Kept'
    <3> DEFINE new == Upto(c.read_buffer, found)
    <3>1. new \in ByteSeq
      <4> HIDE DEF c, found
      <4> QED BY <1>5, SplitBytes
    <3>2. After(conn'.buffer, user'.had - user'.took) = new
      <4> HIDE DEF new
      <4>1. After(conn.buffer \o new, (user.took + Len(conn.buffer)) - user.took) = new
        BY <1>2, <3>1, NewBytes
      <4> QED BY <1>3, <2>1, <4>1 DEF new
    <3>3. CASE all
      <4>1. conn'.closed \/ conn'.error
        BY <2>1, <3>3 DEF SameOperation
      <4> QED BY <4>1 DEF Kept
    <3>4. CASE ~all
      <4>1. found > 0 /\ found = Found(c, type, n)
        BY <1>8, <3>4
      <4> HIDE DEF c, found
      <4>2. Answers(type, n, new)
        BY <1>4, <4>1, FoundIsKept
      <4> HIDE DEF new
      <4> QED BY <1>3, <3>2, <4>2 DEF Kept, Answers
    <3> QED BY <3>3, <3>4
  <2>7. Word'
    BY <2>2, <2>6 DEF Word
  <2> QED BY <1>0, <1>7, <1>8, <2>1, <2>3, <2>4, <2>5, <2>7
<1>9. CASE /\ ~all /\ found = 0 /\ epoll' = Enable({"R"}, "read")
           /\ conn' = [c EXCEPT !.read_type = type, !.read_timeout = FALSE, !.rbytes = n]
           /\ tasks' = Armed(tasks, "read", conn.read_expire)
  <2>1. /\ conn' \in ConnType /\ conn'.read_type = type /\ conn'.rbytes = n
        /\ conn'.write_type = c.write_type /\ conn'.buffer = c.buffer
        /\ conn'.read_buffer = c.read_buffer /\ conn'.write_buffer = c.write_buffer
    <3> HIDE DEF c
    <3>1. c \in ConnType /\ conn' = [c EXCEPT !.read_type = type, !.read_timeout = FALSE, !.rbytes = n]
      BY <1>4, <1>9
    <3>2. type \in {"none", "connect", "read", "until", "bytes"} /\ n \in 0..2
      OBVIOUS
    <3> QED BY <3>1, <3>2 DEF ConnType
  <2>2. conn'.write_type = conn.write_type /\ conn'.buffer = conn.buffer
        /\ conn'.write_buffer = conn.write_buffer
    BY <1>4, <2>1 DEF SameOperation
  <2>3. Incoming' = Incoming
    <3>1. c.buffer \o c.read_buffer \o SockRead.inbox = Incoming
      BY <1>0, <1>5, ReadStream
    <3> HIDE DEF c
    <3> QED BY <1>1, <2>1, <3>1 DEF Incoming
  <2>4. Good(tasks') /\ Active0' \in {Active0, Active0 \cup {"read"}}
    <3>1. conn.read_expire \in BOOLEAN /\ "read" \in Timed
      BY <1>0 DEF ConnType, Timed
    <3> DEFINE e == conn.read_expire
    <3>2. tasks' = Armed(tasks, "read", e) /\ e \in BOOLEAN
      BY <1>9, <3>1
    <3> HIDE DEF e
    <3>3. Good(tasks') /\ Active(tasks') \in {Active(tasks), Active(tasks) \cup {"read"}}
      BY <1>0, <3>1, <3>2, ArmedEffect
    <3> QED BY <3>3 DEF Active0, Active
  <2>5. /\ epoll' \in EpollType /\ "R" \in epoll'.mask /\ epoll'.read_task = "read"
        /\ ("W" \in epoll'.mask <=> "W" \in epoll.mask) /\ epoll'.write_task = epoll.write_task
    BY <1>0, <1>9, EnableEffect DEF Timed
  <2>6. Ctrl'
    BY <1>0, <1>1, <1>3, <1>4, <1>6, <2>1, <2>2, <2>4, <2>5 DEF Ctrl, RegistrationMatches
  <2>7. Word'
    BY <1>3, <1>6, <2>1, <2>2, <2>4 DEF Word
  <2> QED BY <1>7, <2>1, <2>2, <2>3, <2>4, <2>5, <2>6, <2>7
<1> QED BY <1>8, <1>9 DEF SpeConnRead

LEMMA TakeStep ==
  ASSUME IInv, Take
  PROVE  IInv'
<1>0. /\ conn \in ConnType /\ epoll \in EpollType /\ Good(tasks)
      /\ phase \in {"poll", "expire", "run"} /\ sock \in SockType /\ user \in UserType
      /\ Ctrl /\ Stream /\ Word
  BY Parts
<1> DEFINE took == user.took + Len(conn.buffer)
<1>1. /\ user.open /\ ~user.reads /\ conn' = [conn EXCEPT !.buffer = <<>>]
      /\ user' = [user EXCEPT !.took = took] /\ UNCHANGED <<epoll, tasks, phase, sock>>
  BY DEF Take, UserRuns
<1>2. /\ conn.buffer \in ByteSeq /\ conn.read_buffer \in ByteSeq /\ sock.inbox \in ByteSeq
      /\ user.took \in Nat /\ user.sent \in Nat /\ took \in Nat
  BY <1>0, ByteSeqs DEF ConnType, SockType, UserType
<1>3. /\ conn' \in ConnType /\ conn'.buffer = <<>>
      /\ UNCHANGED <<conn.read_type, conn.write_type, conn.read_buffer, conn.write_buffer>>
  BY <1>0, <1>1, NoBytes DEF ConnType
<1>4. /\ user' \in UserType /\ user'.took = took
      /\ UNCHANGED <<user.open, user.reads, user.writes, user.sent, user.peer, user.written>>
  <2> HIDE DEF took
  <2> QED BY <1>0, <1>1, <1>2 DEF UserType
<1>5. Active0' = Active0 /\ conn.read_type = "none" /\ "post_read" \notin Active0
  BY <1>0, <1>1 DEF Ctrl, Active0, Active
<1>6. Ctrl'
  BY <1>0, <1>1, <1>3, <1>4, <1>5, CtrlKept
<1>7. took <= user.sent /\ Incoming' = Numbers(took, user.sent)
  <2> DEFINE b == conn.buffer
             r == conn.read_buffer \o sock.inbox
  <2>1. b \in Seq(Nat) /\ r \in ByteSeq /\ r \in Seq(Nat)
    <3>1. b \in ByteSeq /\ r \in ByteSeq
      BY <1>2, ByteSeqs
    <3> QED BY <3>1, ByteSeqs
  <2>2. user.took <= user.sent /\ Incoming = Numbers(user.took, user.sent)
    BY <1>0, <1>1 DEF Stream
  <2>3. Splits(Numbers(user.took, user.sent), b, r)
    <3>1. (conn.buffer \o conn.read_buffer) \o sock.inbox = b \o r
      BY <1>2, Assoc
    <3> HIDE DEF b, r
    <3> QED BY <2>2, <3>1 DEF Splits, Incoming
  <2>4. user.took + Len(b) <= user.sent /\ r = Numbers(user.took + Len(b), user.sent)
    <3> DEFINE from == user.took
               upto == user.sent
    <3>1. from \in Nat /\ upto \in Nat /\ from <= upto /\ Splits(Numbers(from, upto), b, r)
      BY <1>2, <2>2, <2>3
    <3> HIDE DEF from, upto, b, r
    <3>2. from + Len(b) <= upto /\ r = Numbers(from + Len(b), upto)
      BY <2>1, <3>1, NumbersDrop
    <3> QED BY <3>2 DEF from, upto
  <2>5. Incoming' = r
    <3>1. <<>> \o conn.read_buffer = conn.read_buffer
      BY <1>2, NoBytes
    <3> QED BY <1>1, <1>3, <3>1 DEF Incoming
  <2> QED BY <2>4, <2>5
<1>8. Stream'
  <2> HIDE DEF took
  <2>1. Outgoing' = Outgoing
    BY <1>1, <1>3 DEF Outgoing
  <2> QED BY <1>0, <1>1, <1>4, <1>7, <2>1 DEF Stream
<1>9. Word'
  BY <1>3, <1>5 DEF Word
<1> QED BY <1>0, <1>1, <1>3, <1>4, <1>6, <1>8, <1>9, PartsNext

LEMMA WriteStep ==
  ASSUME IInv, NEW n \in 1..MaxWritten, spe_conn_write(n)
  PROVE  IInv'
<1>0. /\ conn \in ConnType /\ epoll \in EpollType /\ Good(tasks)
      /\ phase \in {"poll", "expire", "run"} /\ sock \in SockType /\ user \in UserType
      /\ Ctrl /\ Stream /\ Word
  BY Parts
<1> DEFINE upto == user.written + n
           x == [i \in 1..n |-> user.written + i]
           b == conn.write_buffer \o x
<1>1. /\ user.open /\ upto <= MaxWritten /\ UNCHANGED <<epoll, tasks, phase, sock>>
      /\ user' = [user EXCEPT !.written = upto] /\ conn' = [conn EXCEPT !.write_buffer = b]
  BY DEF spe_conn_write, UserRuns
<1>2. /\ user.written \in Nat /\ user.peer \in Nat /\ n \in Nat /\ MaxSent \in Nat /\ MaxWritten \in Nat
      /\ upto \in Nat /\ conn.write_buffer \in ByteSeq /\ sock.outbox \in ByteSeq
  BY <1>0, ByteSeqs DEF ConnType, SockType, UserType
<1>3. x \in ByteSeq /\ x = Numbers(user.written, upto)
  <2>1. x = Numbers(user.written, upto)
    <3>1. upto - user.written = n
      BY <1>2
    <3> QED BY <3>1 DEF Numbers
  <2>2. x \in [1..n -> 1..(MaxSent + MaxWritten)]
    <3>1. \A i \in 1..n : user.written + i \in 1..(MaxSent + MaxWritten)
      <4> DEFINE w == user.written
      <4>1. /\ w \in Nat /\ n \in Nat /\ MaxSent \in Nat /\ MaxWritten \in Nat
            /\ w + n <= MaxWritten
        BY <1>1, <1>2
      <4> HIDE DEF w
      <4>2. \A i \in 1..n : w + i \in 1..(MaxSent + MaxWritten)
        BY <4>1
      <4> QED BY <4>2 DEF w
    <3> QED BY <3>1
  <2> HIDE DEF x
  <2>3. x \in ByteSeq
    BY <1>2, <2>2, SeqDef DEF ByteSeq
  <2> QED BY <2>1, <2>3
<1> HIDE DEF x
<1>4. b \in ByteSeq /\ sock.outbox \o b = Outgoing \o x
  <2>1. b \in ByteSeq
    BY <1>2, <1>3, ByteSeqs
  <2>2. (sock.outbox \o conn.write_buffer) \o x = sock.outbox \o b
    BY <1>2, <1>3, Assoc
  <2> QED BY <2>1, <2>2 DEF Outgoing
<1> HIDE DEF b
<1>5. user.peer <= user.written /\ Outgoing = Numbers(user.peer, user.written)
  BY <1>0, <1>1 DEF Stream
<1>6. Outgoing \o x = Numbers(user.peer, upto) /\ user.peer <= upto
  <2>1. user.peer <= user.written /\ user.written <= upto /\ user.peer <= upto
    BY <1>2, <1>5
  <2>2. Numbers(user.peer, user.written) \o Numbers(user.written, upto) = Numbers(user.peer, upto)
    <3> HIDE DEF upto
    <3> QED BY <1>2, <2>1, NumbersConcat
  <2> QED BY <1>3, <1>5, <2>1, <2>2
<1> HIDE DEF upto
<1>7. /\ conn' \in ConnType /\ conn'.write_buffer = b
      /\ UNCHANGED <<conn.read_type, conn.write_type, conn.rbytes, conn.buffer, conn.read_buffer,
                     conn.read_timeout, conn.closed, conn.error>>
  BY <1>0, <1>1, <1>4 DEF ConnType
<1>8. /\ user' \in UserType /\ user'.written = upto
      /\ UNCHANGED <<user.open, user.reads, user.writes, user.want, user.n, user.had, user.took,
                     user.sent, user.peer>>
  BY <1>0, <1>1, <1>2 DEF UserType
<1>9. Active0' = Active0
  BY <1>1 DEF Active0, Active
<1>10. Ctrl'
  BY <1>0, <1>1, <1>7, <1>8, <1>9, CtrlKept
<1>11. Word'
  BY <1>0, <1>7, <1>8, <1>9, WordKept
<1>12. Stream'
  <2>1. Outgoing' = Numbers(user.peer, upto)
    BY <1>1, <1>4, <1>6, <1>7 DEF Outgoing
  <2>2. Incoming' = Incoming
    BY <1>1, <1>7 DEF Incoming
  <2> QED BY <1>0, <1>1, <1>6, <1>8, <2>1, <2>2 DEF Stream
<1> QED BY <1>0, <1>1, <1>7, <1>8, <1>10, <1>11, <1>12, PartsNext

LEMMA FlushStep ==
  ASSUME IInv, spe_conn_flush
  PROVE  IInv'
<1>0. /\ conn \in ConnType /\ epoll \in EpollType /\ Good(tasks)
      /\ phase \in {"poll", "expire", "run"} /\ sock \in SockType /\ user \in UserType
      /\ Ctrl /\ Stream /\ Word
  BY Parts
<1>1. /\ user.open /\ ~user.writes /\ phase' = phase /\ conn.write_type = "none"
      /\ user' = [user EXCEPT !.writes = TRUE]
  BY DEF spe_conn_flush, UserRuns
<1>2. PICK w \in WriteFd :
        LET done == w.conn.closed \/ w.conn.error \/ w.conn.write_buffer = <<>>
        IN /\ sock' = w.sock
           /\ conn' = IF done THEN w.conn
                      ELSE [w.conn EXCEPT !.write_timeout = FALSE, !.write_type = "write"]
           /\ epoll' = IF done THEN epoll ELSE Enable({"W"}, "write")
           /\ tasks' = IF done THEN Schedule(tasks, "post_write")
                       ELSE Armed(tasks, "write", conn.write_expire)
  BY DEF spe_conn_flush
<1>3. /\ w.conn \in ConnType /\ w.sock \in SockType /\ SameOperation(conn, w.conn)
      /\ w.conn.buffer = conn.buffer /\ w.conn.read_buffer = conn.read_buffer
      /\ w.sock.outbox \o w.conn.write_buffer = Outgoing
      /\ w.sock.state = sock.state /\ w.sock.inbox = sock.inbox /\ Len(w.sock.outbox) <= SndBuf
  BY <1>0, WriteFdEffect DEF Outgoing, Stream
<1> DEFINE done == w.conn.closed \/ w.conn.error \/ w.conn.write_buffer = <<>>
<1>4. /\ user' \in UserType /\ user'.writes = TRUE
      /\ UNCHANGED <<user.open, user.reads, user.want, user.n, user.had, user.took,
                     user.sent, user.peer, user.written>>
  BY <1>0, <1>1 DEF UserType
<1>5. /\ "write" \notin Active0 /\ "post_write" \notin Active0
      /\ conn.read_type # "connect"
  BY <1>0, <1>1 DEF Ctrl
<1>6. ASSUME conn' \in ConnType, Ctrl', epoll' \in EpollType, Good(tasks'),
             UNCHANGED <<conn.read_type, conn.rbytes, conn.read_timeout>>,
             UNCHANGED <<conn.buffer, conn.read_buffer>>,
             conn.closed => conn'.closed, conn.error => conn'.error,
             conn'.write_buffer = w.conn.write_buffer, "post_read" \in Active0' => "post_read" \in Active0
      PROVE  IInv'
  <2>1. Word'
    BY <1>0, <1>4, <1>6, WordKept
  <2>2. Stream'
    <3>1. Incoming' = Incoming /\ Outgoing' = Outgoing /\ Len(sock'.outbox) <= SndBuf
      BY <1>2, <1>3, <1>6 DEF Incoming, Outgoing
    <3> QED BY <1>0, <1>4, <3>1, StreamKept
  <2> QED BY <1>0, <1>1, <1>2, <1>3, <1>4, <1>6, <2>1, <2>2, PartsNext
<1>7. CASE done
  <2>1. conn' = w.conn /\ epoll' = epoll /\ tasks' = Schedule(tasks, "post_write")
    BY <1>2, <1>7
  <2>2. /\ UNCHANGED <<conn.read_type, conn.rbytes, conn.read_timeout>> /\ UNCHANGED conn.write_type
        /\ conn.closed => conn'.closed
        /\ conn.error => conn'.error
    BY <1>3, <2>1 DEF SameOperation
  <2>3. Good(tasks') /\ Active0' = Active0 \cup {"post_write"}
    BY <1>0, <2>1, ScheduleEffect, TasksNext DEF Timed, Post, Active0
  <2>4. Ctrl'
    BY <1>0, <1>1, <1>2, <1>3, <1>4, <1>5, <2>1, <2>2, <2>3 DEF Ctrl, RegistrationMatches
  <2>5. /\ conn' \in ConnType /\ epoll' \in EpollType
        /\ UNCHANGED <<conn.buffer, conn.read_buffer>> /\ conn'.write_buffer = w.conn.write_buffer
        /\ "post_read" \in Active0' => "post_read" \in Active0
    BY <1>0, <1>3, <2>1, <2>3
  <2> QED BY <1>6, <2>2, <2>3, <2>4, <2>5
<1>8. CASE ~done
  <2>1. /\ conn' = [w.conn EXCEPT !.write_timeout = FALSE, !.write_type = "write"]
        /\ epoll' = Enable({"W"}, "write") /\ tasks' = Armed(tasks, "write", conn.write_expire)
    BY <1>2, <1>8
  <2> HIDE DEF done
  <2>2. /\ conn' \in ConnType /\ conn'.write_type = "write" /\ conn'.write_buffer = w.conn.write_buffer
        /\ conn'.buffer = w.conn.buffer /\ conn'.read_buffer = w.conn.read_buffer
        /\ conn'.read_type = w.conn.read_type /\ conn'.rbytes = w.conn.rbytes
        /\ conn'.read_timeout = w.conn.read_timeout
        /\ conn'.closed = w.conn.closed /\ conn'.error = w.conn.error
    BY <1>3, <2>1 DEF ConnType
  <2>3. /\ UNCHANGED <<conn.read_type, conn.rbytes, conn.read_timeout>>
        /\ conn.closed => conn'.closed
        /\ conn.error => conn'.error
    BY <1>3, <2>2 DEF SameOperation
  <2>4. Good(tasks') /\ Active0' \in {Active0, Active0 \cup {"write"}}
    <3>1. conn.write_expire \in BOOLEAN /\ "write" \in Timed
      BY <1>0 DEF ConnType, Timed
    <3> DEFINE e == conn.write_expire
    <3>2. tasks' = Armed(tasks, "write", e) /\ e \in BOOLEAN
      BY <2>1, <3>1
    <3> HIDE DEF e
    <3>3. Good(tasks') /\ Active(tasks') \in {Active(tasks), Active(tasks) \cup {"write"}}
      BY <1>0, <3>1, <3>2, ArmedEffect
    <3> QED BY <3>3 DEF Active0, Active
  <2>5. /\ epoll' \in EpollType /\ "W" \in epoll'.mask /\ epoll'.write_task = "write"
        /\ ("R" \in epoll'.mask <=> "R" \in epoll.mask) /\ epoll'.read_task = epoll.read_task
    BY <1>0, <2>1, EnableEffect DEF Timed
  <2>6. Ctrl'
    BY <1>0, <1>1, <1>2, <1>3, <1>4, <1>5, <2>2, <2>3, <2>4, <2>5 DEF Ctrl, RegistrationMatches
  <2>7. /\ conn' \in ConnType /\ epoll' \in EpollType
        /\ UNCHANGED <<conn.buffer, conn.read_buffer>> /\ conn'.write_buffer = w.conn.write_buffer
        /\ "post_read" \in Active0' => "post_read" \in Active0
    BY <1>0, <1>3, <2>2, <2>4, <2>5
  <2> QED BY <1>6, <2>3, <2>4, <2>6, <2>7
<1> QED BY <1>7, <1>8

LEMMA UserStep == IInv /\ User => IInv'
<1> SUFFICES ASSUME IInv, User PROVE IInv'
  OBVIOUS
<1>1. ASSUME NEW read \in Reads, SpeConnRead(read.type, read.n) PROVE IInv'
  <2>1. read.type \in {"read", "until", "bytes"} /\ read.n \in 0..2
    BY DEF Reads
  <2> DEFINE type == read.type
             n == read.n
  <2>2. type \in {"read", "until", "bytes"} /\ n \in 0..2 /\ SpeConnRead(type, n)
    BY <1>1, <2>1
  <2> HIDE DEF type, n
  <2> QED BY <2>2, ReadStep
<1>2. ASSUME NEW t \in Timeouts, spe_conn_set_timeout(t[1], t[2]) PROVE IInv'
  <2>1. t[1] \in BOOLEAN /\ t[2] \in BOOLEAN
    BY ConnAssumption
  <2> QED BY <1>2, <2>1, TimeoutStep
<1>3. ASSUME NEW state \in {"up", "idle"}, spe_conn_create(state) PROVE IInv'
  BY <1>3, CreateStep
<1>4. ASSUME NEW n \in 1..MaxWritten, spe_conn_write(n) PROVE IInv'
  BY <1>4, WriteStep
<1>5. CASE spe_conn_destroy \/ spe_conn_connect \/ spe_conn_flush \/ Take
  BY <1>5, DestroyStep, ConnectStep, FlushStep, TakeStep
<1> QED BY <1>1, <1>2, <1>3, <1>4, <1>5 DEF User

----------------------------------------------------------------------------
(* The loop                                                                *)

\* Neither the connection nor its registration changes.
LEMMA QueueStep ==
  ASSUME IInv, UNCHANGED <<conn, epoll, sock, user>>, Good(tasks'),
         phase' \in {"poll", "expire", "run"},
         "post_read" \in Active0' <=> "post_read" \in Active0,
         "post_write" \in Active0' <=> "post_write" \in Active0,
         "read" \in Active0' => user.open /\ conn.read_type # "none",
         "write" \in Active0' => user.open /\ conn.write_type # "none" /\ conn.read_type # "connect"
  PROVE  IInv'
<1>0. /\ conn \in ConnType /\ epoll \in EpollType /\ Good(tasks)
      /\ phase \in {"poll", "expire", "run"} /\ sock \in SockType /\ user \in UserType
      /\ Ctrl /\ Stream /\ Word
  BY Parts
<1>1. Ctrl'
  BY <1>0 DEF Ctrl, RegistrationMatches
<1>2. Stream'
  <2>1. Incoming' = Incoming /\ Outgoing' = Outgoing /\ Len(sock'.outbox) <= SndBuf
    BY <1>0 DEF Incoming, Outgoing, Stream
  <2> QED BY <1>0, <2>1, StreamKept
<1>3. Word'
  BY <1>0, WordKept
<1> QED BY <1>0, <1>1, <1>2, <1>3, PartsNext

LEMMA PollStep ==
  ASSUME IInv, Poll
  PROVE  IInv'
<1>0. /\ conn \in ConnType /\ epoll \in EpollType /\ Good(tasks)
      /\ phase \in {"poll", "expire", "run"} /\ sock \in SockType /\ user \in UserType
      /\ Ctrl /\ Stream /\ Word
  BY Parts
<1> DEFINE reads == Readable /\ "R" \in epoll.mask
           writes == Writable /\ "W" \in epoll.mask
           ts == IF reads THEN Schedule(tasks, epoll.read_task) ELSE tasks
           us == IF writes THEN Schedule(ts, epoll.write_task) ELSE ts
<1>1. /\ tasks' = us /\ phase' \in {"poll", "expire", "run"} /\ UNCHANGED <<conn, epoll, sock, user>>
  BY DEF Poll
<1>2. /\ reads => user.open /\ conn.read_type # "none" /\ epoll.read_task = "read"
      /\ writes => /\ user.open /\ conn.write_type # "none"
                   /\ epoll.write_task = IF conn.read_type = "connect" THEN "read" ELSE "write"
  BY <1>0 DEF Ctrl, RegistrationMatches
<1> HIDE DEF reads, writes
<1>3. /\ Good(ts) /\ Active(ts) = IF reads THEN Active0 \cup {"read"} ELSE Active0
  BY <1>0, <1>2, ScheduleEffect DEF Timed, Active0
<1> HIDE DEF ts
<1>4. /\ Good(us) /\ Active(us) = IF writes THEN Active(ts) \cup {epoll.write_task} ELSE Active(ts)
  <2>1. writes => epoll.write_task \in Timed
    BY <1>2 DEF Timed
  <2> QED BY <1>3, <2>1, ScheduleEffect
<1> HIDE DEF us
<1>5. Good(tasks') /\ Active0' = Active(us)
  BY <1>1, <1>4, TasksNext
<1>6. /\ "read" \in Active0 => user.open /\ conn.read_type # "none"
      /\ "write" \in Active0 => user.open /\ conn.write_type # "none" /\ conn.read_type # "connect"
  BY <1>0 DEF Ctrl
<1>7. /\ "post_read" \in Active0' <=> "post_read" \in Active0
      /\ "post_write" \in Active0' <=> "post_write" \in Active0
  BY <1>2, <1>3, <1>4, <1>5
<1>8. "read" \in Active0' => user.open /\ conn.read_type # "none"
  BY <1>2, <1>3, <1>4, <1>5, <1>6
<1>9. "write" \in Active0' => user.open /\ conn.write_type # "none" /\ conn.read_type # "connect"
  BY <1>2, <1>3, <1>4, <1>5, <1>6
<1> QED BY <1>1, <1>5, <1>7, <1>8, <1>9, QueueStep

LEMMA ExpireStep ==
  ASSUME IInv, NEW t \in Timed, Expire(t)
  PROVE  IInv'
<1>0. /\ conn \in ConnType /\ epoll \in EpollType /\ Good(tasks)
      /\ phase \in {"poll", "expire", "run"} /\ sock \in SockType /\ user \in UserType
      /\ Ctrl /\ Stream /\ Word
  BY Parts
<1> DEFINE q == Append(tasks.queue, t)
           r == tasks.timers \ {t}
           o == tasks.timeout \cup {t}
<1>1. /\ t \in tasks.timers /\ tasks' = [queue |-> q, timers |-> r, timeout |-> o]
      /\ UNCHANGED <<conn, epoll, phase, sock, user>>
  BY DEF Expire
<1>2. /\ tasks.queue \in Seq(Timed \cup Post) /\ IsInjective(tasks.queue)
      /\ ToSet(tasks.queue) \cap tasks.timers = {} /\ tasks.timers \subseteq Timed
      /\ tasks.timeout \subseteq Timed
  BY <1>0 DEF Good, QueueOK, TasksType
<1>3. q \in Seq(Timed \cup Post) /\ ToSet(q) = ToSet(tasks.queue) \cup {t} /\ IsInjective(q)
  BY <1>1, <1>2, AppendSet
<1>4. r \subseteq Timed /\ o \subseteq Timed /\ r = tasks.timers \ {t}
  BY <1>2
<1> HIDE DEF q, r, o
<1>5. tasks' \in TasksType /\ tasks'.queue = q /\ tasks'.timers = r
  BY <1>1, <1>3, <1>4 DEF TasksType
<1>6. Good(tasks')
  BY <1>1, <1>2, <1>3, <1>4, <1>5 DEF Good, QueueOK
<1>7. Active0' = Active0
  BY <1>1, <1>3, <1>4, <1>5 DEF Active0, Active
<1>8. /\ "read" \in Active0 => user.open /\ conn.read_type # "none"
      /\ "write" \in Active0 => user.open /\ conn.write_type # "none" /\ conn.read_type # "connect"
  BY <1>0 DEF Ctrl
<1> QED BY <1>0, <1>1, <1>6, <1>7, <1>8, QueueStep

LEMMA TurnStep ==
  ASSUME IInv, ExpireDone \/ RunEnd
  PROVE  IInv'
<1>0. /\ conn \in ConnType /\ epoll \in EpollType /\ Good(tasks)
      /\ phase \in {"poll", "expire", "run"} /\ sock \in SockType /\ user \in UserType
      /\ Ctrl /\ Stream /\ Word
  BY Parts
<1>1. UNCHANGED <<conn, epoll, tasks, sock, user>> /\ phase' \in {"poll", "expire", "run"}
  BY DEF ExpireDone, RunEnd
<1>2. Active0' = Active0
  BY <1>1 DEF Active0, Active
<1>3. Good(tasks')
  BY <1>0, <1>1
<1>4. /\ "read" \in Active0 => user.open /\ conn.read_type # "none"
      /\ "write" \in Active0 => user.open /\ conn.write_type # "none" /\ conn.read_type # "connect"
  BY <1>0 DEF Ctrl
<1> QED BY <1>1, <1>2, <1>3, <1>4, QueueStep

LEMMA PostStep ==
  ASSUME IInv, PostRead \/ PostWrite
  PROVE  IInv'
<1>0. /\ conn \in ConnType /\ epoll \in EpollType /\ Good(tasks)
      /\ phase \in {"poll", "expire", "run"} /\ sock \in SockType /\ user \in UserType
      /\ Ctrl /\ Stream /\ Word
  BY Parts
<1>1. UNCHANGED <<conn, epoll, phase, sock>> /\ tasks' = Rest
  BY DEF PostRead, PostWrite
<1>2. ASSUME UNCHANGED <<user.took, user.sent, user.peer, user.written, user.open>>
      PROVE  Stream'
  <2>1. Incoming' = Incoming /\ Outgoing' = Outgoing /\ Len(sock'.outbox) <= SndBuf
    BY <1>0, <1>1 DEF Incoming, Outgoing, Stream
  <2> QED BY <1>0, <1>2, <2>1, StreamKept
<1>3. CASE PostRead
  <2>1. Good(tasks') /\ Active0' = Active0 \ {"post_read"} /\ "post_read" \in Active0
    <3>1. Runs("post_read")
      BY <1>3 DEF PostRead
    <3> QED BY <1>0, <1>1, <3>1, RestEffect, TasksNext DEF Active0
  <2>2. /\ user' \in UserType /\ user'.reads = FALSE
        /\ user'.took = user.took /\ user'.sent = user.sent /\ user'.peer = user.peer
        /\ user'.written = user.written /\ user'.open = user.open /\ user'.writes = user.writes
    <3>1. user' = [user EXCEPT !.reads = FALSE, !.want = "none", !.n = 0, !.had = 0]
      BY <1>3 DEF PostRead
    <3>2. 0 \in 0..2 /\ 0 \in Nat /\ "none" \in {"none", "connect", "read", "until", "bytes"}
      OBVIOUS
    <3> QED BY <1>0, <3>1, <3>2 DEF UserType
  <2>3. user.open /\ conn.read_type = "none"
    BY <1>0, <2>1 DEF Ctrl
  <2>4. Ctrl'
    BY <1>0, <1>1, <2>1, <2>2, <2>3 DEF Ctrl, RegistrationMatches
  <2>5. Word'
    BY <1>1, <2>1, <2>3 DEF Word
  <2> QED BY <1>0, <1>1, <1>2, <2>1, <2>2, <2>4, <2>5, PartsNext
<1>4. CASE PostWrite
  <2>1. Good(tasks') /\ Active0' = Active0 \ {"post_write"} /\ "post_write" \in Active0
    <3>1. Runs("post_write")
      BY <1>4 DEF PostWrite
    <3> QED BY <1>0, <1>1, <3>1, RestEffect, TasksNext DEF Active0
  <2>2. /\ user' \in UserType /\ user'.writes = FALSE /\ user'.reads = user.reads
        /\ user'.took = user.took /\ user'.sent = user.sent /\ user'.peer = user.peer
        /\ user'.written = user.written /\ user'.open = user.open
        /\ user'.want = user.want /\ user'.n = user.n /\ user'.had = user.had
    BY <1>0, <1>4 DEF PostWrite, UserType
  <2>3. Ctrl'
    BY <1>0, <1>1, <2>1, <2>2 DEF Ctrl, RegistrationMatches
  <2>4. Word'
    BY <1>0, <1>1, <2>1, <2>2, WordKept
  <2> QED BY <1>0, <1>1, <1>2, <2>1, <2>2, <2>3, <2>4, PartsNext
<1> QED BY <1>3, <1>4

LEMMA ConnectNormalStep ==
  ASSUME IInv, ConnectNormal
  PROVE  IInv'
<1>0. /\ conn \in ConnType /\ epoll \in EpollType /\ Good(tasks)
      /\ phase \in {"poll", "expire", "run"} /\ sock \in SockType /\ user \in UserType
      /\ Ctrl /\ Stream /\ Word
  BY Parts
<1> DEFINE late == conn.read_expire /\ "read" \in tasks.timeout
           ct == conn.connect_timeout \/ late
           e == conn.error \/ (~late /\ sock.state = "failed")
<1>1. /\ conn.read_type = "connect" /\ UNCHANGED <<phase, sock, user>>
      /\ conn' = [conn EXCEPT !.connect_timeout = ct, !.error = e,
                              !.read_type = "none", !.write_type = "none"]
      /\ epoll' = Disable({"R", "W"}) /\ tasks' = Ended("read", conn.read_expire, "post_read")
      /\ Runs("read")
  BY DEF ConnectNormal
<1>2. ct \in BOOLEAN /\ e \in BOOLEAN
  BY <1>0 DEF ConnType
<1> HIDE DEF ct, e
<1>3. /\ conn' \in ConnType /\ conn'.read_type = "none" /\ conn'.write_type = "none"
      /\ UNCHANGED <<conn.buffer, conn.read_buffer, conn.write_buffer>>
  BY <1>0, <1>1, <1>2 DEF ConnType
<1>4. /\ Good(tasks') /\ Active0' = (Active0 \ {"read"}) \cup {"post_read"} /\ "read" \in Active0
  <2> DEFINE x == conn.read_expire
  <2>1. x \in BOOLEAN /\ "post_read" \in Post
    BY <1>0 DEF ConnType, Post
  <2>2. tasks' = Ended("read", x, "post_read")
    BY <1>1
  <2> HIDE DEF x
  <2>3. /\ Good(tasks') /\ Active(tasks') = (Active(tasks) \ {"read"}) \cup {"post_read"}
        /\ "read" \in Active(tasks)
    BY <1>0, <1>1, <2>1, <2>2, EndedEffect
  <2> QED BY <2>3 DEF Active0, Active
<1>5. epoll' \in EpollType /\ "R" \notin epoll'.mask /\ "W" \notin epoll'.mask
  BY <1>0, <1>1, DisableEffect
<1>6. Ctrl'
  BY <1>0, <1>1, <1>3, <1>4, <1>5 DEF Ctrl, RegistrationMatches
<1>7. Stream'
  <2>1. Incoming' = Incoming /\ Outgoing' = Outgoing /\ Len(sock'.outbox) <= SndBuf
    BY <1>0, <1>1, <1>3 DEF Incoming, Outgoing, Stream
  <2> QED BY <1>0, <1>1, <2>1, StreamKept
<1>8. Word'
  <2>1. user.open /\ user.want = "connect"
    BY <1>0, <1>1, <1>4 DEF Ctrl, Word
  <2> QED BY <1>1, <1>3, <2>1 DEF Word
<1> QED BY <1>0, <1>1, <1>3, <1>4, <1>5, <1>6, <1>7, <1>8, PartsNext

\* A read or a flush ends in its task: its registration and its timer go, and
\* the user is told.
LEMMA ReadEnded ==
  ASSUME IInv, Runs("read"), conn.read_type # "connect", UNCHANGED <<phase, user>>,
         tasks' = Ended("read", conn.read_expire, "post_read"), epoll' = Disable({"R"}),
         conn' \in ConnType, conn'.read_type = "none", conn'.write_type = conn.write_type,
         conn'.write_buffer = conn.write_buffer, sock' \in SockType,
         sock'.state = sock.state, sock'.outbox = sock.outbox, Incoming' = Incoming, Kept'
  PROVE  IInv'
<1>0. /\ conn \in ConnType /\ epoll \in EpollType /\ Good(tasks)
      /\ phase \in {"poll", "expire", "run"} /\ sock \in SockType /\ user \in UserType
      /\ Ctrl /\ Stream /\ Word
  BY Parts
<1>1. /\ Good(tasks') /\ Active0' = (Active0 \ {"read"}) \cup {"post_read"} /\ "read" \in Active0
  <2> DEFINE x == conn.read_expire
  <2>1. x \in BOOLEAN /\ "post_read" \in Post
    BY <1>0 DEF ConnType, Post
  <2>2. tasks' = Ended("read", x, "post_read")
    OBVIOUS
  <2> HIDE DEF x
  <2>3. /\ Good(tasks') /\ Active(tasks') = (Active(tasks) \ {"read"}) \cup {"post_read"}
        /\ "read" \in Active(tasks)
    BY <1>0, <2>1, <2>2, EndedEffect
  <2> QED BY <2>3 DEF Active0, Active
<1>2. /\ epoll' \in EpollType /\ "R" \notin epoll'.mask /\ epoll'.write_task = epoll.write_task
      /\ "W" \in epoll'.mask <=> "W" \in epoll.mask
  BY <1>0, DisableEffect
<1>3. Ctrl'
  BY <1>0, <1>1, <1>2 DEF Ctrl, RegistrationMatches
<1>4. Stream'
  <2>1. Outgoing' = Outgoing /\ Len(sock'.outbox) <= SndBuf
    BY <1>0 DEF Outgoing, Stream
  <2> QED BY <1>0, <2>1, StreamKept
<1>5. Word'
  BY DEF Word
<1> QED BY <1>0, <1>1, <1>2, <1>3, <1>4, <1>5, PartsNext

\* What runs read_normal: an operation of the user's, with what it wants.
LEMMA ReadRuns ==
  ASSUME IInv, Runs("read"), conn.read_type # "connect"
  PROVE  /\ conn.read_type \in {"read", "until", "bytes"} /\ conn.rbytes \in 0..2
         /\ user.want = conn.read_type /\ user.n = conn.rbytes
         /\ user.had = user.took + Len(conn.buffer) /\ user.took \in Nat
<1>0. /\ conn \in ConnType /\ epoll \in EpollType /\ Good(tasks)
      /\ phase \in {"poll", "expire", "run"} /\ sock \in SockType /\ user \in UserType
      /\ Ctrl /\ Stream /\ Word
  BY Parts
<1>1. "read" \in Active0
  BY <1>0, RestEffect DEF Active0
<1>2. user.open /\ conn.read_type # "none"
  BY <1>0, <1>1 DEF Ctrl
<1>3. conn.read_type \in {"none", "connect", "read", "until", "bytes"} /\ conn.rbytes \in 0..2
      /\ user.took \in Nat
  BY <1>0 DEF ConnType, UserType
<1>4. /\ user.want = conn.read_type /\ user.n = conn.rbytes
      /\ user.had = user.took + Len(conn.buffer)
  BY <1>0, <1>2 DEF Word
<1> QED BY <1>2, <1>3, <1>4

LEMMA ReadNormalStep ==
  ASSUME IInv, ReadNormal
  PROVE  IInv'
<1>0. /\ conn \in ConnType /\ epoll \in EpollType /\ Good(tasks)
      /\ phase \in {"poll", "expire", "run"} /\ sock \in SockType /\ user \in UserType
      /\ Ctrl /\ Stream /\ Word
  BY Parts
<1> DEFINE late == conn.read_expire /\ "read" \in tasks.timeout
           type == conn.read_type
           n == conn.rbytes
<1>1. Runs("read") /\ conn.read_type # "connect" /\ UNCHANGED <<phase, user>>
  BY DEF ReadNormal
<1>2. /\ type \in {"read", "until", "bytes"} /\ n \in 0..2 /\ user.want = type /\ user.n = n
      /\ user.had = user.took + Len(conn.buffer) /\ user.took \in Nat
  BY <1>1, ReadRuns
<1>3. conn.buffer \in ByteSeq
  BY <1>0 DEF ConnType
<1>4. CASE late
  <2> DEFINE c == [conn EXCEPT !.read_timeout = TRUE]
             d == Deliver(c, 0)
  <2>1. /\ sock' = sock /\ conn' = [d EXCEPT !.read_type = "none"] /\ epoll' = Disable({"R"})
        /\ tasks' = Ended("read", conn.read_expire, "post_read")
    BY <1>4 DEF ReadNormal
  <2>2. /\ c \in ConnType /\ c.read_timeout = TRUE /\ c.buffer = conn.buffer
        /\ c.read_buffer = conn.read_buffer /\ c.write_buffer = conn.write_buffer
        /\ c.write_type = conn.write_type /\ c.read_buffer \in ByteSeq
    BY <1>0 DEF ConnType
  <2> HIDE DEF c
  <2>3. 0 \in 0..Len(c.read_buffer) /\ Upto(c.read_buffer, 0) = <<>>
    <3>1. 0 \in 0..Len(c.read_buffer)
      BY <2>2, ByteSeqs
    <3> DEFINE u == Upto(c.read_buffer, 0)
    <3>2. u \in ByteSeq /\ Len(u) = 0
      BY <2>2, <3>1, SplitBytes
    <3> HIDE DEF u
    <3>3. u = <<>>
      BY <3>2, EmptySeq DEF ByteSeq
    <3> QED BY <3>1, <3>3 DEF u
  <2>4. /\ d \in ConnType /\ SameOperation(c, d) /\ d.buffer = c.buffer \o <<>>
        /\ d.write_buffer = c.write_buffer /\ d.buffer \o d.read_buffer = c.buffer \o c.read_buffer
    BY <2>2, <2>3, DeliverEffect
  <2> HIDE DEF d
  <2>5. /\ conn' \in ConnType /\ conn'.read_type = "none" /\ conn'.write_type = d.write_type
        /\ conn'.buffer = d.buffer /\ conn'.read_buffer = d.read_buffer
        /\ conn'.write_buffer = d.write_buffer /\ conn'.read_timeout = d.read_timeout
    BY <2>1, <2>4 DEF ConnType
  <2>6. /\ conn'.write_type = conn.write_type /\ conn'.write_buffer = conn.write_buffer
        /\ conn'.read_timeout = TRUE
    BY <2>2, <2>4, <2>5 DEF SameOperation
  <2>7. Incoming' = Incoming
    BY <2>1, <2>2, <2>4, <2>5 DEF Incoming
  <2>8. Kept'
    <3>1. After(conn.buffer \o <<>>, (user.took + Len(conn.buffer)) - user.took) = <<>>
      BY <1>2, <1>3, NoBytes, NewBytes
    <3>2. After(conn'.buffer, user'.had - user'.took) = <<>>
      BY <1>1, <1>2, <2>2, <2>4, <2>5, <3>1
    <3> QED BY <2>6, <3>2 DEF Kept
  <2>9. /\ sock' \in SockType /\ sock'.state = sock.state /\ sock'.outbox = sock.outbox
    BY <1>0, <2>1
  <2> QED BY <1>1, <2>1, <2>5, <2>6, <2>7, <2>8, <2>9, ReadEnded
<1>5. CASE ~late
  <2> DEFINE c == ReadFd
             found == Found(c, type, n)
             d == Deliver(c, found)
  <2>1. sock' = SockRead
    BY <1>5 DEF ReadNormal
  <2>2. /\ c \in ConnType /\ SameOperation(conn, c)
        /\ c.buffer = conn.buffer /\ c.write_buffer = conn.write_buffer
        /\ sock' \in SockType /\ sock'.state = sock.state /\ sock'.outbox = sock.outbox
    BY <1>0, <2>1, ReadFdEffect
  <2>3. \/ /\ found > 0 \/ c.closed \/ c.error
           /\ conn' = [d EXCEPT !.read_type = "none"] /\ epoll' = Disable({"R"})
           /\ tasks' = Ended("read", conn.read_expire, "post_read")
        \/ conn' = c /\ tasks' = Rest /\ UNCHANGED epoll
    BY <1>5 DEF ReadNormal
  <2>4. found \in 0..Len(c.read_buffer) /\ c.read_buffer \in ByteSeq
    <3>1. c.read_buffer \in ByteSeq
      BY <2>2 DEF ConnType
    <3> HIDE DEF c, type, n
    <3> QED BY <1>2, <2>2, <3>1, FoundEffect
  <2>5. CASE /\ found > 0 \/ c.closed \/ c.error
             /\ conn' = [d EXCEPT !.read_type = "none"] /\ epoll' = Disable({"R"})
             /\ tasks' = Ended("read", conn.read_expire, "post_read")
    <3>1. /\ d \in ConnType /\ SameOperation(c, d) /\ d.buffer = c.buffer \o Upto(c.read_buffer, found)
          /\ d.write_buffer = c.write_buffer
      <4> HIDE DEF c, found
      <4> QED BY <2>2, <2>4, DeliverEffect
    <3>2. d.buffer \o d.read_buffer \o sock'.inbox = Incoming
      <4> HIDE DEF found
      <4> QED BY <1>0, <2>1, <2>4, ReadStream
    <3>3. /\ conn' \in ConnType /\ conn'.read_type = "none" /\ conn'.write_type = d.write_type
          /\ conn'.buffer = d.buffer /\ conn'.read_buffer = d.read_buffer
          /\ conn'.write_buffer = d.write_buffer
          /\ conn'.closed = d.closed /\ conn'.error = d.error
      <4> HIDE DEF d
      <4> QED BY <2>5, <3>1 DEF ConnType
    <3>4. conn'.write_type = conn.write_type /\ conn'.write_buffer = conn.write_buffer
      BY <2>2, <3>1, <3>3 DEF SameOperation
    <3>5. Incoming' = Incoming
      <4> HIDE DEF d
      <4> QED BY <3>2, <3>3 DEF Incoming
    <3>6. Kept'
      <4> DEFINE new == Upto(c.read_buffer, found)
      <4>1. new \in ByteSeq
        <5> HIDE DEF c, found
        <5> QED BY <2>4, SplitBytes
      <4>2. After(conn'.buffer, user'.had - user'.took) = new
        <5> HIDE DEF new
        <5>1. After(conn.buffer \o new, (user.took + Len(conn.buffer)) - user.took) = new
          BY <1>2, <1>3, <4>1, NewBytes
        <5> QED BY <1>1, <1>2, <2>2, <3>1, <3>3, <5>1 DEF new
      <4>3. CASE c.closed \/ c.error
        <5>1. conn'.closed \/ conn'.error
          BY <3>1, <3>3, <4>3 DEF SameOperation
        <5> QED BY <5>1 DEF Kept
      <4>4. CASE found > 0
        <5>1. Answers(type, n, new)
          <6> DEFINE f == found
          <6>1. f = Found(c, type, n) /\ f > 0
            BY <4>4
          <6> HIDE DEF f, c, type, n
          <6>2. Answers(type, n, Upto(c.read_buffer, f))
            BY <1>2, <2>2, <6>1, FoundIsKept
          <6> QED BY <6>2 DEF f, c, type, n
        <5>2. user'.want = type /\ user'.n = n
          BY <1>1, <1>2
        <5> HIDE DEF new, type, n
        <5> QED BY <4>2, <5>1, <5>2 DEF Kept, Answers
      <4> QED BY <2>5, <4>3, <4>4
    <3> QED BY <1>1, <2>2, <2>5, <3>3, <3>4, <3>5, <3>6, ReadEnded
  <2>6. CASE conn' = c /\ tasks' = Rest /\ UNCHANGED epoll
    <3>1. /\ UNCHANGED <<conn.rbytes, conn.buffer, conn.read_timeout>> /\ UNCHANGED conn.read_type
          /\ UNCHANGED conn.write_type /\ UNCHANGED conn.write_buffer
          /\ conn.closed => conn'.closed
          /\ conn.error => conn'.error
      BY <2>2, <2>6 DEF SameOperation
    <3>2. Incoming' = Incoming
      <4>1. c.buffer \o c.read_buffer \o SockRead.inbox = Incoming
        BY <1>0, <2>4, ReadStream
      <4> HIDE DEF c
      <4> QED BY <2>1, <2>6, <4>1 DEF Incoming
    <3>3. Good(tasks') /\ Active0' = Active0 \ {"read"}
      BY <1>0, <1>1, <2>6, RestEffect, TasksNext DEF Active0
    <3>4. Ctrl'
      BY <1>0, <1>1, <2>2, <2>6, <3>1, <3>3 DEF Ctrl, RegistrationMatches
    <3>5. Stream'
      <4>1. Outgoing' = Outgoing /\ Len(sock'.outbox) <= SndBuf
        BY <1>0, <2>2, <3>1 DEF Outgoing, Stream
      <4> QED BY <1>0, <1>1, <3>2, <4>1, StreamKept
    <3>6. Word'
      BY <1>0, <1>1, <3>1, <3>3, WordKept
    <3> QED BY <1>0, <1>1, <2>2, <2>6, <3>3, <3>4, <3>5, <3>6, PartsNext
  <2> QED BY <2>3, <2>5, <2>6
<1> QED BY <1>4, <1>5

LEMMA WriteNormalStep ==
  ASSUME IInv, WriteNormal
  PROVE  IInv'
<1>0. /\ conn \in ConnType /\ epoll \in EpollType /\ Good(tasks)
      /\ phase \in {"poll", "expire", "run"} /\ sock \in SockType /\ user \in UserType
      /\ Ctrl /\ Stream /\ Word
  BY Parts
<1> DEFINE late == conn.write_expire /\ "write" \in tasks.timeout
           L == [conn |-> [conn EXCEPT !.write_timeout = TRUE], sock |-> sock]
<1>1. Runs("write") /\ UNCHANGED <<phase, user>>
  BY DEF WriteNormal
<1>2. PICK w \in IF late THEN {L} ELSE WriteFd :
        LET failed == w.sock = sock
        IN /\ sock' = w.sock
           /\ \/ /\ failed \/ w.conn.write_buffer = <<>>
                 /\ conn' = [w.conn EXCEPT !.write_type = "none"]
                 /\ epoll' = Disable({"W"})
                 /\ tasks' = Ended("write", conn.write_expire, "post_write")
              \/ /\ ~failed /\ w.conn.write_buffer # <<>>
                 /\ conn' = w.conn /\ tasks' = Rest
                 /\ UNCHANGED epoll
  BY DEF WriteNormal
<1>3. /\ w.conn \in ConnType /\ w.sock \in SockType /\ SameOperation(conn, w.conn)
      /\ w.conn.buffer = conn.buffer /\ w.conn.read_buffer = conn.read_buffer
      /\ w.sock.outbox \o w.conn.write_buffer = Outgoing
      /\ w.sock.state = sock.state /\ w.sock.inbox = sock.inbox /\ Len(w.sock.outbox) <= SndBuf
  <2>1. CASE late
    <3> DEFINE c == [conn EXCEPT !.write_timeout = TRUE]
    <3>1. c \in ConnType /\ SameOperation(conn, c) /\ c.buffer = conn.buffer
          /\ c.read_buffer = conn.read_buffer /\ c.write_buffer = conn.write_buffer
      BY <1>0 DEF ConnType, SameOperation
    <3> HIDE DEF c
    <3>2. w.conn = c /\ w.sock = sock
      BY <2>1 DEF c
    <3> QED BY <1>0, <3>1, <3>2 DEF Outgoing, Stream
  <2>2. CASE ~late
    <3>1. w \in WriteFd
      BY <2>2
    <3> QED BY <1>0, <3>1, WriteFdEffect DEF Outgoing, Stream
  <2> QED BY <2>1, <2>2
<1>4. /\ "write" \in Active0 /\ user.open /\ conn.write_type # "none" /\ conn.read_type # "connect"
      /\ user.writes /\ "post_write" \notin Active0
  <2>1. "write" \in Active0
    BY <1>0, <1>1, RestEffect DEF Active0
  <2> QED BY <1>0, <2>1 DEF Ctrl
<1>5. sock' = w.sock
  BY <1>2
<1>6. ASSUME conn' \in ConnType, Ctrl', epoll' \in EpollType, Good(tasks'),
             UNCHANGED <<conn.read_type, conn.rbytes, conn.read_timeout>>,
             UNCHANGED <<conn.buffer, conn.read_buffer>>,
             conn.closed => conn'.closed, conn.error => conn'.error,
             conn'.write_buffer = w.conn.write_buffer, "post_read" \in Active0' => "post_read" \in Active0
      PROVE  IInv'
  <2>1. Word'
    BY <1>0, <1>1, <1>6, WordKept
  <2>2. Stream'
    <3>1. Incoming' = Incoming /\ Outgoing' = Outgoing /\ Len(sock'.outbox) <= SndBuf
      BY <1>3, <1>5, <1>6 DEF Incoming, Outgoing
    <3> QED BY <1>0, <1>1, <3>1, StreamKept
  <2> QED BY <1>0, <1>1, <1>3, <1>5, <1>6, <2>1, <2>2, PartsNext
<1>7. CASE /\ conn' = [w.conn EXCEPT !.write_type = "none"] /\ epoll' = Disable({"W"})
           /\ tasks' = Ended("write", conn.write_expire, "post_write")
  <2>1. /\ conn' \in ConnType /\ conn'.write_type = "none" /\ conn'.write_buffer = w.conn.write_buffer
        /\ conn'.buffer = w.conn.buffer /\ conn'.read_buffer = w.conn.read_buffer
        /\ conn'.read_type = w.conn.read_type /\ conn'.rbytes = w.conn.rbytes
        /\ conn'.read_timeout = w.conn.read_timeout
        /\ conn'.closed = w.conn.closed /\ conn'.error = w.conn.error
    BY <1>3, <1>7 DEF ConnType
  <2>2. /\ UNCHANGED <<conn.read_type, conn.rbytes, conn.read_timeout>>
        /\ conn.closed => conn'.closed
        /\ conn.error => conn'.error
    BY <1>3, <2>1 DEF SameOperation
  <2>3. /\ Good(tasks') /\ Active0' = (Active0 \ {"write"}) \cup {"post_write"}
    <3> DEFINE x == conn.write_expire
    <3>1. x \in BOOLEAN /\ "post_write" \in Post
      BY <1>0 DEF ConnType, Post
    <3>2. tasks' = Ended("write", x, "post_write")
      BY <1>7
    <3> HIDE DEF x
    <3>3. Good(tasks') /\ Active(tasks') = (Active(tasks) \ {"write"}) \cup {"post_write"}
      BY <1>0, <1>1, <3>1, <3>2, EndedEffect
    <3> QED BY <3>3 DEF Active0, Active
  <2>4. /\ epoll' \in EpollType /\ "W" \notin epoll'.mask /\ epoll'.read_task = epoll.read_task
        /\ "R" \in epoll'.mask <=> "R" \in epoll.mask
    BY <1>0, <1>7, DisableEffect
  <2>5. Ctrl'
    BY <1>0, <1>1, <1>3, <1>4, <1>5, <2>1, <2>2, <2>3, <2>4 DEF Ctrl, RegistrationMatches
  <2>6. /\ UNCHANGED <<conn.buffer, conn.read_buffer>>
        /\ "post_read" \in Active0' => "post_read" \in Active0
    BY <1>3, <2>1, <2>3
  <2> QED BY <1>6, <2>1, <2>2, <2>3, <2>4, <2>5, <2>6
<1>8. CASE conn' = w.conn /\ tasks' = Rest /\ UNCHANGED epoll
  <2>1. /\ UNCHANGED <<conn.read_type, conn.rbytes, conn.read_timeout>> /\ UNCHANGED conn.write_type
        /\ conn.closed => conn'.closed
        /\ conn.error => conn'.error
    BY <1>3, <1>8 DEF SameOperation
  <2>2. Good(tasks') /\ Active0' = Active0 \ {"write"}
    BY <1>0, <1>1, <1>8, RestEffect, TasksNext DEF Active0
  <2>3. Ctrl'
    BY <1>0, <1>1, <1>3, <1>4, <1>5, <1>8, <2>1, <2>2 DEF Ctrl, RegistrationMatches
  <2>4. /\ conn' \in ConnType /\ epoll' \in EpollType /\ conn'.write_buffer = w.conn.write_buffer
        /\ UNCHANGED <<conn.buffer, conn.read_buffer>>
        /\ "post_read" \in Active0' => "post_read" \in Active0
    BY <1>0, <1>3, <1>8, <2>2
  <2> QED BY <1>6, <2>1, <2>2, <2>3, <2>4
<1> QED BY <1>2, <1>7, <1>8

----------------------------------------------------------------------------
(* The theorems                                                            *)

LEMMA LoopStep == IInv /\ Loop => IInv'
  BY PollStep, TurnStep, ConnectNormalStep, ReadNormalStep, WriteNormalStep, PostStep DEF Loop

LEMMA NextInvariant == IInv /\ [Next]_vars => IInv'
<1> SUFFICES ASSUME IInv, [Next]_vars PROVE IInv'
  OBVIOUS
<1>1. CASE UNCHANGED vars
  <2>1. UNCHANGED <<conn, epoll, tasks, phase, sock, user>>
    BY <1>1 DEF vars
  <2>2. /\ conn \in ConnType /\ epoll \in EpollType /\ Good(tasks)
        /\ phase \in {"poll", "expire", "run"} /\ sock \in SockType /\ user \in UserType
        /\ Ctrl /\ Stream /\ Word
    BY Parts
  <2>3. Active0' = Active0
    BY <2>1 DEF Active0, Active
  <2>4. /\ "read" \in Active0 => user.open /\ conn.read_type # "none"
        /\ "write" \in Active0 => user.open /\ conn.write_type # "none" /\ conn.read_type # "connect"
    BY <2>2 DEF Ctrl
  <2>5. Good(tasks')
    BY <2>1, <2>2
  <2> QED BY <2>1, <2>2, <2>3, <2>4, <2>5, QueueStep
<1>2. ASSUME NEW t \in {"read", "write"}, Expire(t) PROVE IInv'
  BY <1>2, ExpireStep DEF Timed
<1>3. CASE User \/ Loop \/ World
  BY <1>3, UserStep, LoopStep, WorldStep
<1> QED BY <1>1, <1>2, <1>3 DEF Next

LEMMA Invariance == Spec => []IInv
  BY InitInvariant, NextInvariant, PTL DEF Spec

\* Every variable has its type: epoll finds no null task.
THEOREM TypeCorrect == Spec => []TypeOK
<1>1. IInv => TypeOK
  BY DEF IInv
<1> QED BY <1>1, Invariance, PTL

\* What epoll waits for is what the connection waits for, whatever the order
\* of operations, timers and events.
THEOREM RegistrationRight == Spec => []RegistrationMatches
<1>1. IInv => RegistrationMatches
  BY DEF IInv, Ctrl
<1> QED BY <1>1, Invariance, PTL

\* The tasks that notify the user have no timer.
LEMMA PostsAreQueued ==
  ASSUME IInv
  PROVE  /\ "post_read" \in ToSet(tasks.queue) <=> "post_read" \in Active0
         /\ "post_write" \in ToSet(tasks.queue) <=> "post_write" \in Active0
<1>1. tasks.timers \subseteq Timed
  BY Parts DEF Good, TasksType
<1>2. "post_read" \notin tasks.timers /\ "post_write" \notin tasks.timers
  BY <1>1 DEF Timed
<1> QED BY <1>2 DEF Active0, Active

\* The user that was promised an answer gets one, or something is still under
\* way that will give it; nobody is answered twice.
THEOREM NothingForgotten == Spec => []NoneForgotten
<1>1. IInv => NoneForgotten
  <2> SUFFICES ASSUME IInv PROVE NoneForgotten
    OBVIOUS
  <2>1. Ctrl
    BY Parts
  <2> QED BY <2>1, PostsAreQueued DEF NoneForgotten, Ctrl
<1> QED BY <1>1, Invariance, PTL

\* No task runs, and no timer fires, for an operation that has ended or for a
\* connection that was destroyed.
THEOREM TasksRight == Spec => []TasksBelong
<1>1. IInv => TasksBelong
  <2> SUFFICES ASSUME IInv PROVE TasksBelong
    OBVIOUS
  <2>1. Ctrl
    BY Parts
  <2> QED BY <2>1 DEF TasksBelong, Ctrl, Active0, Active
<1> QED BY <1>1, Invariance, PTL

\* The bytes of either direction arrive complete and in order, whatever the
\* sizes of the reads, of the writes and of the socket's buffer.
THEOREM StreamRight == Spec => []StreamIntact
<1>1. IInv => StreamIntact
  BY DEF IInv, Stream, StreamIntact, Incoming, Outgoing
<1> QED BY <1>1, Invariance, PTL

\* A read that ends has given what was asked for, or there is a reason.
THEOREM ReadRight == Spec => []ReadKeepsItsWord
<1>1. IInv => ReadKeepsItsWord
  <2> SUFFICES ASSUME IInv, "post_read" \in ToSet(tasks.queue), user.want # "connect"
               PROVE  Kept
    BY DEF ReadKeepsItsWord, Kept
  <2>1. Word
    BY Parts
  <2> QED BY <2>1, PostsAreQueued DEF Word
<1> QED BY <1>1, Invariance, PTL

----------------------------------------------------------------------------
(* The byte buffers (spe_buf.c).                                           *)

Cell  == Letters \cup {Junk}
IsBuf(b) ==
  b \in [mem : Seq(Cell), off : Nat, len : Nat, bad : {"no", "null", "bounds", "size"}, over : BOOLEAN]

\* The buffer b has memory and holds the string s in it, with a 0 behind it.
Holding(b, s) ==
  /\ IsBuf(b) /\ b.bad = "no"
  /\ s \in Seq(Letters) /\ b.len = Len(s) /\ b.off + b.len < Len(b.mem)
  /\ \A i \in 1..Len(s) : b.mem[b.off + i] = s[i]
TextEnded(b) == b.mem[b.off + b.len + 1] = NUL

\* q is b with s written at the offset at.
PutTo(b, at, s, q) ==
  /\ IsBuf(q) /\ Len(q.mem) = Len(b.mem)
  /\ q.off = b.off /\ q.len = b.len /\ q.bad = b.bad /\ q.over = b.over
  /\ \A i \in 1..Len(b.mem) :
       q.mem[i] = IF at < i /\ i <= at + Len(s) THEN s[i - at] ELSE b.mem[i]

\* A write inside the memory.
LEMMA PutIs ==
  ASSUME NEW b, IsBuf(b), NEW at \in Nat, NEW s \in Seq(Cell), at + Len(s) <= Len(b.mem)
  PROVE  PutTo(b, at, s, B!Put(b, at, s))
<1> DEFINE n == Len(b.mem)
           m == [i \in 1..n |-> IF i \in at + 1..at + Len(s) THEN s[i - at] ELSE b.mem[i]]
<1>1. /\ n \in Nat /\ Len(s) \in Nat /\ b.mem \in Seq(Cell)
      /\ \A i \in 1..n : b.mem[i] \in Cell
      /\ \A i \in 1..Len(s) : s[i] \in Cell
  BY LenProperties, ElementOfSeq DEF IsBuf
<1>2. B!Put(b, at, s) = [b EXCEPT !.mem = m]
  BY <1>1 DEF B!Put, B!Size, IsBuf
<1>3. \A i \in 1..n : m[i] \in Cell
  BY <1>1
<1>4. m \in Seq(Cell) /\ Len(m) = n
  <2>1. m \in [1..n -> Cell]
    BY <1>3
  <2> HIDE DEF m
  <2> QED BY <1>1, <2>1, SeqDef, LenProperties
<1>5. \A i \in 1..n : m[i] = IF at < i /\ i <= at + Len(s) THEN s[i - at] ELSE b.mem[i]
  BY <1>1
<1> HIDE DEF m
<1>6. IsBuf([b EXCEPT !.mem = m])
  BY <1>4 DEF IsBuf
<1>7. [b EXCEPT !.mem = m].mem = m
  BY DEF IsBuf
<1> QED BY <1>2, <1>4, <1>5, <1>6, <1>7 DEF PutTo, IsBuf

\* The 0 behind the text.
LEMMA EndPut ==
  ASSUME B!BufAssumption, NEW b, NEW s, Holding(b, s)
  PROVE  /\ Holding(B!Terminated(b), s) /\ TextEnded(B!Terminated(b))
         /\ B!Terminated(b).off = b.off /\ Len(B!Terminated(b).mem) = Len(b.mem)
         /\ B!Terminated(b).over = b.over
<1> DEFINE q == B!Terminated(b)
<1>1. /\ Len(b.mem) \in Nat /\ b.off \in Nat /\ b.len \in Nat /\ Len(s) \in Nat
      /\ <<NUL>> \in Seq(Cell) /\ Len(<<NUL>>) = 1 /\ <<NUL>>[1] = NUL
      /\ b.off + b.len < Len(b.mem)
  BY LenProperties DEF Holding, IsBuf, Cell, B!BufAssumption
<1>2. PutTo(b, b.off + b.len, <<NUL>>, q)
  <2>1. IsBuf(b) /\ b.off + b.len \in Nat /\ b.off + b.len + Len(<<NUL>>) <= Len(b.mem)
    BY <1>1 DEF Holding
  <2> QED BY <1>1, <2>1, PutIs DEF B!Terminated
<1> HIDE DEF q
<1>3. \A i \in 1..Len(s) : q.mem[b.off + i] = s[i]
  <2> TAKE i \in 1..Len(s)
  <2>1. b.off + i \in 1..Len(b.mem) /\ ~(b.off + b.len < b.off + i) /\ b.mem[b.off + i] = s[i]
    BY <1>1 DEF Holding
  <2> QED BY <1>2, <2>1 DEF PutTo
<1>4. Holding(q, s)
  BY <1>2, <1>3 DEF PutTo, Holding
<1>5. TextEnded(q)
  <2> DEFINE e == b.off + b.len
  <2>1. e \in Nat /\ e < Len(b.mem)
    BY <1>1
  <2>2. PutTo(b, e, <<NUL>>, q)
    BY <1>2
  <2> HIDE DEF e
  <2>3. e + 1 \in 1..Len(b.mem) /\ e < e + 1 /\ e + 1 <= e + Len(<<NUL>>) /\ (e + 1) - e = 1
    BY <1>1, <2>1
  <2>4. q.mem[e + 1] = NUL
    BY <1>1, <2>2, <2>3 DEF PutTo
  <2> QED BY <1>2, <2>4 DEF PutTo, TextEnded, e
<1> QED BY <1>2, <1>4, <1>5 DEF PutTo, q

\* The text of a buffer is what it holds.
LEMMA TextIs ==
  ASSUME NEW b, NEW s, Holding(b, s)
  PROVE  B!Text(b) = s /\ b.len \in Nat
<1>1. Len(b.mem) \in Nat /\ b.off \in Nat /\ b.len \in Nat /\ Len(s) = b.len /\ s \in Seq(Letters)
  BY LenProperties DEF Holding, IsBuf
<1>2. \A i \in 1..b.len : b.off + i <= Len(b.mem) /\ b.mem[b.off + i] = s[i]
  BY <1>1 DEF Holding
<1> DEFINE t == [i \in 1..b.len |-> IF b.off + i <= Len(b.mem) THEN b.mem[b.off + i] ELSE Junk]
<1>3. \A i \in 1..b.len : t[i] = s[i]
  BY <1>2
<1>4. \A i \in 1..b.len : s[i] \in Letters
  BY <1>1, ElementOfSeq
<1>5. t \in Seq(Letters) /\ Len(t) = b.len
  <2>1. t \in [1..b.len -> Letters]
    BY <1>3, <1>4
  <2> HIDE DEF t
  <2> QED BY <1>1, <2>1, SeqDef, LenProperties
<1>6. B!Text(b) = t
  BY DEF B!Text, B!Size
<1> HIDE DEF t
<1> QED BY <1>1, <1>3, <1>5, <1>6, SeqEqual

\* The memmove to the front.
LEMMA FrontMoved ==
  ASSUME B!BufAssumption, NEW b, NEW s, Holding(b, s)
  PROVE  /\ Holding(B!AtFront(b), s) /\ TextEnded(B!AtFront(b))
         /\ B!AtFront(b).off = 0 /\ Len(B!AtFront(b).mem) = Len(b.mem)
         /\ B!AtFront(b).over = b.over
<1> DEFINE p == B!Put(b, 0, s)
           q == [p EXCEPT !.off = 0]
<1>1. /\ Len(b.mem) \in Nat /\ b.off \in Nat /\ b.len \in Nat /\ Len(s) = b.len
      /\ s \in Seq(Letters) /\ IsBuf(b) /\ b.bad = "no" /\ b.off + b.len < Len(b.mem)
  BY LenProperties DEF Holding, IsBuf
<1>2. PutTo(b, 0, s, p)
  <2>1. s \in Seq(Cell) /\ 0 + Len(s) <= Len(b.mem)
    BY <1>1, SeqMonotonic DEF Cell
  <2> QED BY <1>1, <2>1, PutIs
<1>3. B!AtFront(b) = B!Terminated(q)
  BY TextIs DEF B!AtFront
<1> HIDE DEF p
<1>4. IsBuf(q) /\ q.off = 0 /\ q.mem = p.mem /\ q.len = p.len /\ q.bad = p.bad /\ q.over = p.over
  BY <1>2 DEF PutTo, IsBuf
<1>5. \A i \in 1..Len(s) : p.mem[0 + i] = s[i]
  <2> TAKE i \in 1..Len(s)
  <2>1. i \in 1..Len(b.mem) /\ 0 < i /\ i <= 0 + Len(s) /\ i - 0 = i /\ 0 + i = i
    BY <1>1
  <2> QED BY <1>2, <2>1 DEF PutTo
<1> HIDE DEF q
<1>6. Holding(q, s)
  BY <1>1, <1>2, <1>4, <1>5 DEF PutTo, Holding
<1>7. Len(q.mem) = Len(b.mem) /\ q.over = b.over
  BY <1>2, <1>4 DEF PutTo
<1> QED BY <1>3, <1>4, <1>6, <1>7, EndPut

\* The size asked of realloc is enough unless 25 * n is too much for an unsigned.
LEMMA EnoughAsked ==
  ASSUME B!BufAssumption, NEW n \in Nat \ {0}
  PROVE  B!NewSize(n) \in Nat /\ (25 * n < W => B!NewSize(n) >= n)
<1> DEFINE m == (25 * n) % W
<1>1. W \in Nat \ {0} /\ 25 * n \in Nat
  BY DEF B!BufAssumption
<1>2. m \in Nat
  BY <1>1
<1>3. 25 * n < W => m = 25 * n
  BY <1>1
<1> HIDE DEF m
<1>4. m \div 16 \in Nat /\ 16 * (m \div 16) + 15 >= m
  BY <1>2
<1>5. 25 * n < W => m \div 16 >= n
  BY <1>2, <1>3, <1>4
<1>6. B!NewSize(n) = m \div 16
  BY DEF B!NewSize, m
<1> QED BY <1>4, <1>5, <1>6

\* A buffer before its first use, and one in use: what holds the string s.
Unused(b) == IsBuf(b) /\ b.bad = "no" /\ b.mem = <<>> /\ b.off = 0 /\ b.len = 0
Proper(b, s) ==
  /\ ~b.over
  /\ \/ Unused(b) /\ s = <<>>
     \/ Holding(b, s) /\ (s # <<>> => TextEnded(b))

\* After a call with a size that an unsigned does not hold q may be anything, but
\* memory that was there is not written through a null pointer.
Overrun(b, q) ==
  /\ IsBuf(q) /\ q.over
  /\ b.mem = <<>> \/ q.bad = "bounds" \/ (q.mem # <<>> /\ q.bad # "null")

\* Nothing that is written then changes this.
LEMMA OverrunStays ==
  ASSUME NEW b, NEW q, Overrun(b, q), NEW at \in Nat, NEW s \in Seq(Cell)
  PROVE  Overrun(b, B!Put(q, at, s))
<1>1. Len(q.mem) \in Nat /\ Len(s) \in Nat /\ IsBuf(q)
  BY LenProperties DEF Overrun, IsBuf
<1>2. CASE at + Len(s) > Len(q.mem)
  <2> DEFINE f == IF q.bad # "no" THEN q.bad ELSE IF q.mem = <<>> THEN "null" ELSE "bounds"
  <2>1. B!Put(q, at, s) = [q EXCEPT !.bad = f]
    BY <1>2 DEF B!Put, B!Size, Overrun, IsBuf
  <2>2. f \in {"no", "null", "bounds", "size"}
    BY <1>1 DEF IsBuf
  <2>3. b.mem = <<>> \/ f = "bounds" \/ (q.mem # <<>> /\ f # "null")
    BY DEF Overrun
  <2> HIDE DEF f
  <2> QED BY <2>1, <2>2, <2>3 DEF Overrun, IsBuf
<1>3. CASE ~(at + Len(s) > Len(q.mem))
  <2> DEFINE p == B!Put(q, at, s)
  <2>1. PutTo(q, at, s, p)
    <3>1. at + Len(s) <= Len(q.mem)
      BY <1>1, <1>3
    <3> QED BY <1>1, <3>1, PutIs
  <2> HIDE DEF p
  <2>2. q.mem # <<>> => p.mem # <<>>
    <3>1. p.mem \in Seq(Cell) /\ q.mem \in Seq(Cell) /\ Len(p.mem) = Len(q.mem)
      BY <2>1 DEF PutTo, Overrun, IsBuf
    <3> QED BY <3>1, EmptySeq, LenProperties
  <2>3. Overrun(b, p)
    BY <2>1, <2>2 DEF PutTo, Overrun
  <2> QED BY <2>3 DEF p
<1> QED BY <1>2, <1>3

\* A run over the end of the memory is noted for good.
LEMMA OverrunMoved ==
  ASSUME NEW b, NEW q, Overrun(b, q), NEW off \in Nat, NEW len \in Nat
  PROVE  Overrun(b, [q EXCEPT !.off = off, !.len = len])
BY DEF Overrun, IsBuf

\* Writing the terminator does not take the note of an overrun away.
LEMMA OverrunEnded ==
  ASSUME B!BufAssumption, NEW b, NEW q, Overrun(b, q)
  PROVE  Overrun(b, B!Terminated(q)) /\ Overrun(b, B!AtFront(q))
<1>1. /\ q.off \in Nat /\ q.len \in Nat /\ q.off + q.len \in Nat
      /\ Len(q.mem) \in Nat /\ \A i \in 1..Len(q.mem) : q.mem[i] \in Cell
      /\ <<NUL>> \in Seq(Cell)
  BY LenProperties, ElementOfSeq DEF Overrun, IsBuf, B!BufAssumption, Cell
<1>2. Overrun(b, B!Terminated(q))
  BY <1>1, OverrunStays DEF B!Terminated
<1>3. B!Text(q) \in Seq(Cell)
  <2> DEFINE t == [i \in 1..q.len |-> IF q.off + i <= Len(q.mem) THEN q.mem[q.off + i] ELSE Junk]
  <2>1. t \in [1..q.len -> Cell]
    BY <1>1 DEF Cell
  <2>2. B!Text(q) = t
    BY DEF B!Text, B!Size
  <2> HIDE DEF t
  <2> QED BY <1>1, <2>1, <2>2, SeqDef
<1> DEFINE p == B!Put(q, 0, B!Text(q))
           r == [p EXCEPT !.off = 0]
<1>4. Overrun(b, p)
  BY <1>3, OverrunStays
<1>5. B!AtFront(q) = B!Terminated(r)
  BY DEF B!AtFront
<1> HIDE DEF p
<1>6. Overrun(b, r) /\ r.off + r.len \in Nat
  BY <1>4 DEF Overrun, IsBuf
<1> HIDE DEF r
<1>7. Overrun(b, B!Terminated(r))
  BY <1>1, <1>6, OverrunStays DEF B!Terminated
<1> QED BY <1>2, <1>5, <1>7

\* buf_expand: without memory the text has moved at most; with it there is room
\* for n bytes behind the same memory.
Grown(b, s, n, r) ==
  /\ r.done \in BOOLEAN
  /\ ~r.done => Proper(r.buf, s)
  /\ r.done => \/ Overrun(b, r.buf)
               \/ /\ Holding(r.buf, s) /\ ~r.buf.over /\ (s # <<>> => TextEnded(r.buf))
                  /\ Len(r.buf.mem) >= n /\ r.buf.off = 0

\* spe_buf_expand: the memory holds the size asked for, unless that size is one
\* that 25 * n / 16 does not hold.
LEMMA ExpandedIs ==
  ASSUME B!BufAssumption, NEW b, NEW s, Proper(b, s), NEW n \in Nat, n > Len(b.mem),
         NEW r \in B!Expanded(b, n)
  PROVE  Grown(b, s, n, r)
<1> DEFINE moved == IF b.off # 0 THEN B!AtFront(b) ELSE b
           z == B!NewSize(n)
           m == [i \in 1..z |-> IF i <= Len(b.mem) THEN moved.mem[i] ELSE Junk]
           over == moved.over \/ 25 * n >= W
           bad == IF z = 0 /\ b.mem # <<>> THEN "bounds" ELSE moved.bad
           grown == [moved EXCEPT !.mem = m, !.off = 0, !.over = over, !.bad = bad]
<1>1. /\ IsBuf(b) /\ b.bad = "no" /\ ~b.over /\ Len(b.mem) \in Nat /\ b.off \in Nat /\ b.len \in Nat
      /\ Len(<<>>) = 0
  BY LenProperties DEF Proper, Unused, Holding, IsBuf
<1>2. /\ IsBuf(moved) /\ Proper(moved, s) /\ moved.off = 0 /\ Len(moved.mem) = Len(b.mem)
      /\ moved.bad = "no" /\ moved.over = FALSE
  <2>1. CASE b.off = 0
    <3>1. moved = b
      BY <2>1
    <3> HIDE DEF moved
    <3> QED BY <1>1, <2>1, <3>1 DEF IsBuf
  <2>2. CASE b.off # 0
    <3>1. Holding(b, s)
      BY <2>2 DEF Proper, Unused
    <3>2. moved = B!AtFront(b)
      BY <2>2
    <3> HIDE DEF moved
    <3>3. Holding(moved, s) /\ TextEnded(moved) /\ moved.off = 0 /\ Len(moved.mem) = Len(b.mem) /\ moved.over = b.over
      BY <3>1, <3>2, FrontMoved
    <3> QED BY <1>1, <3>3 DEF Proper, Holding, IsBuf
  <2> QED BY <2>1, <2>2
<1>3. B!Expanded(b, n) = {[buf |-> moved, done |-> FALSE], [buf |-> grown, done |-> TRUE]}
  BY DEF B!Expanded, B!Size
<1> HIDE DEF moved
<1>4. z \in Nat /\ (25 * n < W => z >= n) /\ n \in Nat \ {0}
  BY <1>1, EnoughAsked
<1> HIDE DEF z
<1>5. m \in Seq(Cell) /\ Len(m) = z /\ \A i \in 1..Len(b.mem) : i <= z => m[i] = moved.mem[i]
  <2>1. \A i \in 1..Len(b.mem) : moved.mem[i] \in Cell
    BY <1>2, ElementOfSeq DEF IsBuf
  <2>2. m \in [1..z -> Cell]
    BY <1>1, <1>2, <2>1 DEF Cell
  <2>3. \A i \in 1..Len(b.mem) : i <= z => m[i] = moved.mem[i]
    BY <1>1, <1>2, <1>4
  <2> HIDE DEF m
  <2> QED BY <1>4, <2>2, <2>3, SeqDef, LenProperties
<1> HIDE DEF m
<1>6. bad \in {"no", "bounds"} /\ over \in BOOLEAN
  BY <1>2
<1>7. /\ IsBuf(grown) /\ grown.mem = m /\ grown.off = 0 /\ grown.len = moved.len
      /\ grown.over = over /\ grown.bad = bad
  <2> HIDE DEF bad, over
  <2> QED BY <1>2, <1>5, <1>6 DEF IsBuf
<1>8. m = <<>> <=> z = 0
  BY <1>5, EmptySeq, LenProperties
<1> HIDE DEF grown
<1>9. CASE r.done = FALSE
  <2>1. r.buf = moved
    BY <1>3, <1>9
  <2> QED BY <1>2, <1>9, <2>1 DEF Grown
<1>10. CASE r.done = TRUE /\ 25 * n >= W
  <2>1. r.buf = grown
    BY <1>3, <1>10
  <2>2. Overrun(b, grown)
    BY <1>2, <1>4, <1>7, <1>8, <1>10 DEF Overrun
  <2> QED BY <1>10, <2>1, <2>2 DEF Grown
<1>11. CASE r.done = TRUE /\ ~(25 * n >= W)
  <2>1. r.buf = grown
    BY <1>3, <1>11
  <2>2. z >= n /\ n > Len(b.mem) /\ Len(m) = z
    BY <1>4, <1>5, <1>11 DEF B!BufAssumption
  <2>3. grown.bad = "no" /\ ~grown.over
    <3>1. z # 0
      BY <1>1, <1>4, <2>2
    <3>2. bad = "no" /\ over = FALSE
      BY <1>2, <1>11, <3>1
    <3> QED BY <1>7, <3>2
  <2>4. Holding(grown, s) /\ (s # <<>> => TextEnded(grown))
    <3>1. CASE Unused(moved) /\ s = <<>>
      <4>1. grown.len = 0 /\ <<>> \in Seq(Letters)
        BY <1>7, <3>1 DEF Unused
      <4> QED BY <1>1, <1>7, <2>2, <2>3, <3>1, <4>1 DEF Holding
    <3>2. CASE Holding(moved, s) /\ (s # <<>> => TextEnded(moved))
      <4>1. /\ moved.len \in Nat /\ moved.len = Len(s) /\ moved.len < Len(b.mem) /\ s \in Seq(Letters)
            /\ \A i \in 1..Len(s) : moved.mem[i] = s[i]
        BY <1>2, <3>2 DEF Holding, IsBuf
      <4>2. \A i \in 1..Len(s) + 1 : i \in 1..Len(b.mem) /\ i <= z /\ m[i] = moved.mem[i]
        BY <1>1, <1>4, <1>5, <2>2, <4>1
      <4>3. \A i \in 1..Len(s) : m[0 + i] = s[i]
        BY <4>1, <4>2
      <4>4. Holding(grown, s)
        BY <1>1, <1>4, <1>7, <2>2, <2>3, <4>1, <4>3 DEF Holding
      <4>5. TextEnded(moved) => TextEnded(grown)
        BY <1>2, <1>7, <4>1, <4>2 DEF TextEnded
      <4> QED BY <3>2, <4>4, <4>5
    <3> QED BY <1>2, <3>1, <3>2 DEF Proper
  <2>5. Len(grown.mem) >= n /\ grown.off = 0
    BY <1>7, <2>2
  <2> QED BY <1>11, <2>1, <2>3, <2>4, <2>5 DEF Grown
<1>12. r.done = TRUE \/ r.done = FALSE
  BY <1>3
<1> QED BY <1>9, <1>10, <1>11, <1>12

\* What the operations put behind the text, and in its place.
PutBehind(q, a) == B!Terminated([B!Put(q, q.off + q.len, a) EXCEPT !.len = @ + Len(a)])
PutWhole(q, a)  == B!Terminated([B!Put(q, 0, a) EXCEPT !.off = 0, !.len = Len(a)])

\* Letters put behind the text that fit there, and the terminator.
LEMMA PutBehindIs ==
  ASSUME B!BufAssumption, NEW q, NEW s, Holding(q, s), NEW a \in Seq(Letters),
         q.off + q.len + Len(a) < Len(q.mem)
  PROVE  /\ Holding(PutBehind(q, a), s \o a) /\ TextEnded(PutBehind(q, a))
         /\ PutBehind(q, a).over = q.over
<1> DEFINE e == q.off + q.len
           p == B!Put(q, e, a)
           k == p.len + Len(a)
           r == [p EXCEPT !.len = k]
<1>1. s \in Seq(Letters) /\ IsBuf(q) /\ q.bad = "no" /\ Len(s) = q.len
  BY DEF Holding
<1>2. /\ Len(q.mem) \in Nat /\ q.off \in Nat /\ q.len \in Nat /\ Len(a) \in Nat
      /\ e + Len(a) < Len(q.mem) /\ e \in Nat /\ e = q.off + q.len
  BY <1>1, LenProperties DEF IsBuf
<1>3. PutTo(q, e, a, p)
  <2>1. a \in Seq(Cell) /\ e + Len(a) <= Len(q.mem)
    BY <1>2, SeqMonotonic DEF Cell
  <2> HIDE DEF e
  <2> QED BY <1>1, <1>2, <2>1, PutIs
<1>4. PutBehind(q, a) = B!Terminated(r)
  BY DEF PutBehind
<1> HIDE DEF e, p
<1>5. k \in Nat /\ k = q.len + Len(a)
  BY <1>2, <1>3 DEF PutTo
<1> HIDE DEF k
<1>6. /\ IsBuf(r) /\ r.off = q.off /\ r.mem = p.mem /\ r.len = k /\ r.bad = "no" /\ r.over = q.over
      /\ Len(r.mem) = Len(q.mem)
  BY <1>1, <1>3, <1>5 DEF PutTo, IsBuf
<1>7. /\ s \o a \in Seq(Letters) /\ Len(s \o a) = k
      /\ \A i \in 1..k : (s \o a)[i] = IF i <= q.len THEN s[i] ELSE a[i - q.len]
  <2>1. /\ s \o a \in Seq(Letters) /\ Len(s \o a) = Len(s) + Len(a)
        /\ \A i \in 1..(Len(s) + Len(a)) : (s \o a)[i] = IF i <= Len(s) THEN s[i] ELSE a[i - Len(s)]
    BY <1>1, ConcatProperties
  <2> QED BY <1>1, <1>5, <2>1
<1> HIDE DEF r
<1>8. ASSUME NEW i \in 1..k
      PROVE  r.mem[r.off + i] = (s \o a)[i]
  <2> DEFINE n == q.off + i
  <2>1. i \in Nat /\ 1 <= i /\ i <= q.len + Len(a)
    BY <1>2, <1>5
  <2>2. n \in 1..Len(q.mem) /\ n <= e + Len(a) /\ r.off + i = n /\ q.mem[n] = q.mem[q.off + i]
    BY <1>2, <1>6, <2>1
  <2>3. CASE i <= q.len
    <3>1. ~(e < n) /\ q.mem[n] = s[i]
      <4>1. ~(e < n)
        <5> DEFINE o == q.off
                   l == q.len
        <5>1. o \in Nat /\ l \in Nat /\ e = o + l /\ n = o + i /\ i \in Nat /\ i <= l
          BY <1>2, <2>1, <2>3
        <5> HIDE DEF n, o, l
        <5> QED BY <5>1
      <4>2. i \in 1..Len(s)
        BY <1>1, <1>2, <2>1, <2>3
      <4> QED BY <2>2, <4>1, <4>2 DEF Holding
    <3> HIDE DEF n
    <3>2. p.mem[n] = q.mem[n]
      BY <1>3, <2>2, <3>1 DEF PutTo
    <3> QED BY <1>6, <1>7, <2>2, <2>3, <3>1, <3>2
  <2>4. CASE ~(i <= q.len)
    <3>1. e < n /\ n - e = i - q.len
      <4>1. q.off \in Nat /\ q.len \in Nat /\ e = q.off + q.len /\ n = q.off + i /\ i \in Nat
        BY <1>2, <2>1
      <4> HIDE DEF n
      <4>2. i > q.len
        BY <1>2, <2>1, <2>4
      <4> DEFINE o == q.off
                 l == q.len
      <4>3. o \in Nat /\ l \in Nat /\ e = o + l /\ n = o + i /\ i \in Nat /\ i > l
        BY <4>1, <4>2
      <4> HIDE DEF o, l
      <4>4. e < n /\ n - e = i - l
        BY <4>3
      <4> QED BY <4>4 DEF o, l
    <3> HIDE DEF n
    <3>2. p.mem[n] = a[n - e]
      BY <1>3, <2>2, <3>1 DEF PutTo
    <3> QED BY <1>6, <1>7, <2>2, <2>4, <3>1, <3>2
  <2> QED BY <2>3, <2>4
<1>9. r.off + r.len < Len(r.mem)
  BY <1>2, <1>5, <1>6
<1>10. Holding(r, s \o a)
  BY <1>6, <1>7, <1>8, <1>9 DEF Holding
<1> QED BY <1>4, <1>6, <1>10, EndPut

\* Letters put in place of the text, and the terminator.
LEMMA PutWholeIs ==
  ASSUME B!BufAssumption, NEW q, IsBuf(q), q.bad = "no", NEW a \in Seq(Letters), Len(a) < Len(q.mem)
  PROVE  /\ Holding(PutWhole(q, a), a) /\ TextEnded(PutWhole(q, a))
         /\ PutWhole(q, a).over = q.over
<1> DEFINE p == B!Put(q, 0, a)
           r == [p EXCEPT !.off = 0, !.len = Len(a)]
<1>1. Len(q.mem) \in Nat /\ Len(a) \in Nat
  BY LenProperties DEF IsBuf
<1>2. PutTo(q, 0, a, p)
  <2>1. a \in Seq(Cell) /\ 0 + Len(a) <= Len(q.mem)
    BY <1>1, SeqMonotonic DEF Cell
  <2> QED BY <1>1, <2>1, PutIs
<1>3. PutWhole(q, a) = B!Terminated(r)
  BY DEF PutWhole
<1> HIDE DEF p
<1>4. /\ IsBuf(r) /\ r.off = 0 /\ r.mem = p.mem /\ r.len = Len(a) /\ r.bad = "no" /\ r.over = q.over
      /\ Len(r.mem) = Len(q.mem)
  BY <1>1, <1>2 DEF PutTo, IsBuf
<1>5. \A i \in 1..Len(a) : r.mem[r.off + i] = a[i]
  <2> TAKE i \in 1..Len(a)
  <2>1. i \in 1..Len(q.mem) /\ 0 < i /\ i <= 0 + Len(a) /\ i - 0 = i /\ 0 + i = i
    BY <1>1
  <2>2. p.mem[i] = a[i]
    BY <1>2, <2>1 DEF PutTo
  <2> QED BY <1>4, <2>1, <2>2
<1>6. r.off + r.len < Len(r.mem)
  BY <1>1, <1>4
<1> HIDE DEF r
<1>7. Holding(r, a)
  BY <1>4, <1>5, <1>6 DEF Holding
<1> QED BY <1>3, <1>4, <1>7, EndPut

\* Writing more does not take the note of an overrun away.
LEMMA OverrunPut ==
  ASSUME B!BufAssumption, NEW b, NEW q, Overrun(b, q), NEW a \in Seq(Letters)
  PROVE  Overrun(b, PutBehind(q, a)) /\ Overrun(b, PutWhole(q, a))
<1> DEFINE p == B!Put(q, q.off + q.len, a)
           r == B!Put(q, 0, a)
<1>1. /\ q.off + q.len \in Nat /\ a \in Seq(Cell) /\ Len(a) \in Nat
  BY SeqMonotonic, LenProperties DEF Overrun, IsBuf, Cell
<1>2. Overrun(b, p) /\ Overrun(b, r)
  BY <1>1, OverrunStays
<1> DEFINE k == p.len + Len(a)
<1>3. PutBehind(q, a) = B!Terminated([p EXCEPT !.len = k])
  BY DEF PutBehind
<1>4. PutWhole(q, a) = B!Terminated([r EXCEPT !.off = 0, !.len = Len(a)])
  BY DEF PutWhole
<1> HIDE DEF p, r
<1>5. k \in Nat
  BY <1>1, <1>2 DEF Overrun, IsBuf
<1> HIDE DEF k
<1>6. Overrun(b, [p EXCEPT !.len = k]) /\ Overrun(b, [r EXCEPT !.off = 0, !.len = Len(a)])
  BY <1>1, <1>2, <1>5 DEF Overrun, IsBuf
<1> QED BY <1>3, <1>4, <1>6, OverrunEnded

\* The buffer after a call that was to leave t in it.
Left(b, q, t) ==
  Proper(q, t) \/ Overrun(b, q) \/ (Unused(b) /\ IsBuf(q) /\ q.bad = "null")

\* A call that may run out of memory, on a buffer with s, that was to make t of it.
Tried(b, s, t, r) ==
  /\ r.done \in BOOLEAN
  /\ Left(b, r.buf, IF r.done THEN t ELSE s)

\* Room for a string of the size that the buffer may have.
LEMMA RoomIs ==
  ASSUME B!BufAssumption, NEW b, NEW s, Proper(b, s), NEW n \in Nat, n > Len(b.mem), NEW there \in BOOLEAN,
         NEW r \in B!WithRoom(b, there, n)
  PROVE  (there /\ r.done /\ r.buf = b) \/ (~there /\ Grown(b, s, n, r))
<1>1. CASE there
  BY <1>1 DEF B!WithRoom
<1>2. CASE ~there
  <2>1. r \in B!Expanded(b, n)
    BY <1>2 DEF B!WithRoom
  <2> QED BY <1>2, <2>1, ExpandedIs
<1> QED BY <1>1, <1>2

\* spe_buf_append: the bytes come behind the text, or the buffer stays.
LEMMA AppendedIs ==
  ASSUME B!BufAssumption, NEW b, NEW s, Proper(b, s), NEW a \in Seq(Letters), NEW r \in B!Appended(b, a)
  PROVE  Tried(b, s, s \o a, r)
<1> DEFINE there == Len(b.mem) - b.len >= Len(a) + 1
           n == Len(b.mem) + Len(a) + 1
           at(q) == IF Len(q.mem) - q.len - q.off >= Len(a) + 1 THEN q ELSE B!AtFront(q)
<1>1. /\ Len(b.mem) \in Nat /\ b.len \in Nat /\ b.off \in Nat /\ Len(a) \in Nat
      /\ n \in Nat /\ n > Len(b.mem) /\ there \in BOOLEAN /\ Len(<<>>) = 0 /\ ~b.over
  BY LenProperties DEF Proper, Unused, Holding, IsBuf
<1>2. PICK w \in B!WithRoom(b, there, n) :
        r = IF ~w.done THEN w ELSE [buf |-> PutBehind(at(w.buf), a), done |-> TRUE]
  BY DEF B!Appended, B!Size, B!FitsBehind, PutBehind
<1>3. (there /\ w.done /\ w.buf = b) \/ (~there /\ Grown(b, s, n, w))
  <2> HIDE DEF there, n
  <2> QED BY <1>1, RoomIs
<1>4. CASE ~w.done
  <2>1. r = w /\ Proper(w.buf, s) /\ r.done \in BOOLEAN
    BY <1>2, <1>3, <1>4 DEF Grown
  <2> QED BY <1>4, <2>1 DEF Tried, Left
<1>5. CASE w.done
  <2> DEFINE q == at(w.buf)
  <2>1. r.buf = PutBehind(q, a) /\ r.done = TRUE
    BY <1>2, <1>5
  <2>2. CASE Overrun(b, w.buf)
    <3>1. Overrun(b, q)
      BY <2>2, OverrunEnded
    <3> HIDE DEF q
    <3>2. Overrun(b, PutBehind(q, a))
      BY <3>1, OverrunPut
    <3> QED BY <2>1, <3>2 DEF Tried, Left
  <2>3. CASE ~Overrun(b, w.buf)
    <3>1. /\ Holding(w.buf, s) /\ w.buf.over = FALSE /\ w.buf.len \in Nat /\ w.buf.off \in Nat
          /\ Len(w.buf.mem) \in Nat
          /\ Len(w.buf.mem) - w.buf.len >= Len(a) + 1
      <4>1. CASE there /\ w.buf = b
        <5>1. Holding(b, s)
          BY <1>1, <4>1 DEF Proper, Unused
        <5> QED BY <1>1, <4>1, <5>1 DEF Proper, Holding, IsBuf
      <4>2. CASE ~there /\ Grown(b, s, n, w)
        <5>1. Holding(w.buf, s) /\ ~w.buf.over /\ Len(w.buf.mem) >= n
          BY <1>5, <2>3, <4>2 DEF Grown
        <5>2. /\ w.buf.len = Len(s) /\ b.len = Len(s) /\ w.buf.over \in BOOLEAN /\ w.buf.off \in Nat
              /\ Len(w.buf.mem) \in Nat
          BY <1>1, <5>1, LenProperties DEF Holding, Proper, Unused, IsBuf
        <5>3. b.len <= Len(b.mem)
          BY <1>1 DEF Proper, Unused, Holding
        <5> QED BY <1>1, <5>1, <5>2, <5>3
      <4> QED BY <1>3, <4>1, <4>2
    <3>2. Holding(q, s) /\ q.over = FALSE /\ q.off + q.len + Len(a) < Len(q.mem)
      <4>1. CASE Len(w.buf.mem) - w.buf.len - w.buf.off >= Len(a) + 1
        <5> DEFINE o == w.buf.off
                   l == w.buf.len
                   m == Len(w.buf.mem)
        <5>1. o \in Nat /\ l \in Nat /\ m \in Nat /\ m - l - o >= Len(a) + 1 /\ Len(a) \in Nat
          BY <1>1, <3>1, <4>1
        <5> HIDE DEF o, l, m
        <5>2. o + l + Len(a) < m
          BY <5>1
        <5> QED BY <3>1, <4>1, <5>2 DEF o, l, m
      <4>2. CASE ~(Len(w.buf.mem) - w.buf.len - w.buf.off >= Len(a) + 1)
        <5>1. q = B!AtFront(w.buf)
          BY <4>2
        <5> HIDE DEF q
        <5>2. Holding(q, s) /\ q.off = 0 /\ Len(q.mem) = Len(w.buf.mem) /\ q.over = w.buf.over
          BY <3>1, <5>1, FrontMoved
        <5>3. q.len = w.buf.len
          BY <3>1, <5>2 DEF Holding
        <5> QED BY <1>1, <3>1, <5>2, <5>3
      <4> QED BY <4>1, <4>2
    <3> HIDE DEF q
    <3>3. Holding(PutBehind(q, a), s \o a) /\ TextEnded(PutBehind(q, a)) /\ PutBehind(q, a).over = FALSE
      BY <3>2, PutBehindIs
    <3> QED BY <2>1, <3>3 DEF Tried, Left, Proper
  <2> QED BY <2>2, <2>3
<1> QED BY <1>4, <1>5

\* spe_buf_copy: the bytes are the text, or the buffer stays.
LEMMA CopiedIs ==
  ASSUME B!BufAssumption, NEW b, NEW s, Proper(b, s), NEW a \in Seq(Letters), NEW r \in B!Copied(b, a)
  PROVE  Tried(b, s, a, r)
<1> DEFINE there == Len(b.mem) >= Len(a) + 1
           n == Len(a) + 1
<1>1. /\ Len(b.mem) \in Nat /\ Len(a) \in Nat /\ IsBuf(b) /\ b.bad = "no"
      /\ n \in Nat /\ there \in BOOLEAN /\ b.over = FALSE
  BY LenProperties DEF Proper, Unused, Holding, IsBuf
<1>2. PICK w \in B!WithRoom(b, there, n) :
        r = IF ~w.done THEN w ELSE [buf |-> PutWhole(w.buf, a), done |-> TRUE]
  BY DEF B!Copied, B!Size, PutWhole
<1>3. (there /\ w.done /\ w.buf = b) \/ (~there /\ Grown(b, s, n, w))
  <2>1. CASE there
    BY <2>1 DEF B!WithRoom
  <2>2. CASE ~there
    <3>1. n > Len(b.mem)
      BY <1>1, <2>2
    <3> HIDE DEF there, n
    <3> QED BY <1>1, <3>1, RoomIs
  <2> QED BY <2>1, <2>2
<1>4. CASE ~w.done
  <2>1. r = w /\ Proper(w.buf, s) /\ r.done \in BOOLEAN
    BY <1>2, <1>3, <1>4 DEF Grown
  <2> QED BY <1>4, <2>1 DEF Tried, Left
<1>5. CASE w.done
  <2>1. r.buf = PutWhole(w.buf, a) /\ r.done = TRUE
    BY <1>2, <1>5
  <2>2. CASE Overrun(b, w.buf)
    <3>1. Overrun(b, PutWhole(w.buf, a))
      BY <2>2, OverrunPut
    <3> QED BY <2>1, <3>1 DEF Tried, Left
  <2>3. CASE ~Overrun(b, w.buf)
    <3>1. IsBuf(w.buf) /\ w.buf.bad = "no" /\ w.buf.over = FALSE /\ Len(a) < Len(w.buf.mem)
      <4>1. CASE there /\ w.buf = b
        BY <1>1, <4>1
      <4>2. CASE ~there /\ Grown(b, s, n, w)
        <5>1. Holding(w.buf, s) /\ ~w.buf.over /\ Len(w.buf.mem) >= n
          BY <1>5, <2>3, <4>2 DEF Grown
        <5>2. IsBuf(w.buf) /\ w.buf.bad = "no" /\ w.buf.over \in BOOLEAN /\ Len(w.buf.mem) \in Nat
          BY <5>1, LenProperties DEF Holding, IsBuf
        <5> QED BY <1>1, <5>1, <5>2
      <4> QED BY <1>3, <4>1, <4>2
    <3>2. Holding(PutWhole(w.buf, a), a) /\ TextEnded(PutWhole(w.buf, a)) /\ PutWhole(w.buf, a).over = FALSE
      BY <3>1, PutWholeIs
    <3> QED BY <2>1, <3>2 DEF Tried, Left, Proper
  <2> QED BY <2>2, <2>3
<1> QED BY <1>4, <1>5

\* A part of a sequence.
LEMMA PartOf ==
  ASSUME NEW S, NEW s \in Seq(S), NEW i \in Nat, NEW j \in Nat, i <= j, j <= Len(s)
  PROVE  /\ SubSeq(s, i + 1, j) \in Seq(S) /\ Len(SubSeq(s, i + 1, j)) = j - i
         /\ \A n \in 1..j - i : SubSeq(s, i + 1, j)[n] = s[i + n]
<1>1. Len(s) \in Nat /\ \A n \in 1..Len(s) : s[n] \in S
  BY LenProperties, ElementOfSeq
<1>2. /\ SubSeq(s, i + 1, j) \in Seq(S)
      /\ Len(SubSeq(s, i + 1, j)) = IF i + 1 <= j THEN j - (i + 1) + 1 ELSE 0
      /\ \A n \in 1..(j - (i + 1) + 1) : SubSeq(s, i + 1, j)[n] = s[(i + 1) + n - 1]
  <2>1. \A n \in (i + 1)..j : s[n] \in S
    BY <1>1
  <2>2. i + 1 \in Int /\ j \in Int
    OBVIOUS
  <2> QED BY <1>1, <2>1, <2>2, SubSeqProperties, Z3
<1> DEFINE t == SubSeq(s, i + 1, j)
<1>3. t \in Seq(S)
  BY <1>2
<1>4. Len(t) = j - i
  BY <1>2
<1>5. \A n \in 1..j - i : t[n] = s[i + n]
  BY <1>2
<1> QED BY <1>3, <1>4, <1>5

\* Nothing is between a place and one before it.
LEMMA PartOfNothing ==
  ASSUME NEW S, NEW s \in Seq(S), NEW i \in Int, NEW j \in Int, i > j
  PROVE  SubSeq(s, i, j) = <<>>
<1>1. \A n \in i..j : s[n] \in S
  OBVIOUS
<1>2. /\ SubSeq(s, i, j) \in Seq(S)
      /\ Len(SubSeq(s, i, j)) = IF i <= j THEN j - i + 1 ELSE 0
  BY <1>1, SubSeqProperties, Z3
<1>3. Len(SubSeq(s, i, j)) = 0
  BY <1>2
<1> HIDE DEF SubSeq
<1> QED BY <1>2, <1>3, EmptySeq

\* The lesser of two numbers.
LEMMA LesserIs ==
  ASSUME NEW i \in Nat, NEW j \in Nat
  PROVE  B!Min({i, j}) = IF i <= j THEN i ELSE j
<1>1. CASE i <= j
  <2>1. i \in {i, j} /\ \A y \in {i, j} : i <= y
    BY <1>1
  <2>2. \A x \in {i, j} : (\A y \in {i, j} : x <= y) => x = i
    BY <1>1
  <2> QED BY <1>1, <2>1, <2>2 DEF B!Min
<1>2. CASE ~(i <= j)
  <2>1. j \in {i, j} /\ \A y \in {i, j} : j <= y
    BY <1>2
  <2>2. \A x \in {i, j} : (\A y \in {i, j} : x <= y) => x = j
    BY <1>2
  <2> QED BY <1>2, <2>1, <2>2 DEF B!Min
<1> QED BY <1>1, <1>2

\* What is left of a text that loses bytes at its ends.
Shorter(b, i, j) == [b EXCEPT !.off = @ + i, !.len = j - i]

\* A part of the text, when the offset and the length move.
LEMMA ShorterIs ==
  ASSUME B!BufAssumption, NEW b, NEW s, Holding(b, s), ~b.over,
         NEW i \in Nat, NEW j \in Nat, i <= j, j <= Len(s)
  PROVE  /\ Proper(B!Terminated(Shorter(b, i, j)), SubSeq(s, i + 1, j))
         /\ Holding(B!Terminated(Shorter(b, i, j)), SubSeq(s, i + 1, j))
<1> DEFINE q == Shorter(b, i, j)
           t == SubSeq(s, i + 1, j)
           o == b.off + i
           l == j - i
<1>1. s \in Seq(Letters) /\ IsBuf(b) /\ b.bad = "no" /\ b.len = Len(s) /\ b.off + b.len < Len(b.mem)
  BY DEF Holding
<1>2. Len(b.mem) \in Nat /\ b.off \in Nat /\ b.len \in Nat /\ o \in Nat /\ l \in Nat /\ o + l < Len(b.mem)
  BY <1>1, LenProperties DEF IsBuf
<1>3. t \in Seq(Letters) /\ Len(t) = l /\ \A n \in 1..l : t[n] = s[i + n]
  BY <1>1, PartOf
<1>4. q = [b EXCEPT !.off = o, !.len = l]
  BY DEF Shorter
<1>5. ASSUME NEW n \in 1..l
      PROVE  b.mem[o + n] = t[n]
  <2>1. i + n \in 1..Len(s) /\ b.off + (i + n) = o + n
    BY <1>1, <1>2
  <2>2. b.mem[b.off + (i + n)] = s[i + n]
    BY <2>1 DEF Holding
  <2> HIDE DEF o, t
  <2> QED BY <1>3, <2>1, <2>2
<1> HIDE DEF t, o, l, q
<1>6. IsBuf(q) /\ q.off = o /\ q.len = l /\ q.mem = b.mem /\ q.bad = "no" /\ q.over = b.over
  BY <1>1, <1>2, <1>4 DEF IsBuf
<1>7. Holding(q, t)
  BY <1>2, <1>3, <1>5, <1>6 DEF Holding
<1>8. /\ Holding(B!Terminated(q), t) /\ TextEnded(B!Terminated(q))
      /\ B!Terminated(q).over = q.over
  BY <1>7, EndPut
<1>9. ~B!Terminated(q).over
  BY <1>6, <1>8
<1>10. Proper(B!Terminated(q), t)
  BY <1>8, <1>9 DEF Proper
<1> QED BY <1>8, <1>10 DEF q, t

\* A 0 written before the first use goes through a null pointer.
LEMMA EndOfNothing ==
  ASSUME NEW e, Unused(e)
  PROVE  IsBuf(B!Terminated(e)) /\ B!Terminated(e).bad = "null"
<1> DEFINE q == B!Terminated(e)
<1>1. Len(<<NUL>>) = 1 /\ Len(<<>>) = 0
  OBVIOUS
<1>2. IsBuf(e) /\ e.mem = <<>> /\ e.off = 0 /\ e.len = 0 /\ e.bad = "no"
  BY DEF Unused
<1>3. q = [e EXCEPT !.bad = "null"]
  BY <1>1, <1>2 DEF B!Terminated, B!Put, B!Size
<1>4. IsBuf(q) /\ q.bad = "null"
  BY <1>2, <1>3 DEF IsBuf
<1> QED BY <1>4

\* The fields of an unused buffer are 0 anyway.
LEMMA StillUnused ==
  ASSUME NEW b, Unused(b)
  PROVE  [b EXCEPT !.off = 0, !.len = 0] = b /\ [b EXCEPT !.len = 0] = b
BY DEF Unused, IsBuf

\* spe_buf_lconsume: the text loses its first n bytes.
LEMMA LConsumedIs ==
  ASSUME B!BufAssumption, NEW b, NEW s, Proper(b, s), NEW n \in Nat
  PROVE  /\ Left(b, B!LConsumed(b, n), SubSeq(s, n + 1, Len(s)))
         /\ Holding(b, s) => /\ Proper(B!LConsumed(b, n), SubSeq(s, n + 1, Len(s)))
                             /\ Holding(B!LConsumed(b, n), SubSeq(s, n + 1, Len(s)))
<1>1. b.len \in Nat /\ ~b.over /\ b.off \in Nat
  BY DEF Proper, Unused, Holding, IsBuf
<1> DEFINE k == B!Min({n, b.len})
<1>2. k = (IF n <= b.len THEN n ELSE b.len) /\ k \in Nat /\ k <= b.len
  BY <1>1, LesserIs
<1>3. B!LConsumed(b, n) = B!Terminated([b EXCEPT !.off = @ + k, !.len = @ - k])
  BY DEF B!LConsumed
<1> HIDE DEF k
<1>4. CASE Unused(b) /\ ~Holding(b, s)
  <2>1. b.off = 0 /\ b.len = 0
    BY <1>4 DEF Unused
  <2> DEFINE o == b.off + k
             l == b.len - k
  <2>2. o = 0 /\ l = 0
    <3>1. k \in Nat /\ k <= 0
      BY <1>2, <2>1
    <3>2. k = 0
      BY <3>1
    <3> QED BY <2>1, <3>2
  <2>3. B!LConsumed(b, n) = B!Terminated([b EXCEPT !.off = o, !.len = l])
    BY <1>3
  <2> HIDE DEF o, l
  <2>4. [b EXCEPT !.off = o, !.len = l] = b
    BY <1>4, <2>2, StillUnused
  <2>5. B!LConsumed(b, n) = B!Terminated(b)
    BY <2>3, <2>4
  <2>6. IsBuf(B!LConsumed(b, n)) /\ B!LConsumed(b, n).bad = "null"
    BY <1>4, <2>5, EndOfNothing
  <2> QED BY <1>4, <2>6 DEF Left
<1>5. CASE Holding(b, s)
  <2>1. b.len = Len(s) /\ Len(s) \in Nat /\ s \in Seq(Letters)
    BY <1>1, <1>5 DEF Holding
  <2>2. [b EXCEPT !.off = @ + k, !.len = @ - k] = Shorter(b, k, Len(s))
    BY <2>1 DEF Shorter
  <2>3. SubSeq(s, k + 1, Len(s)) = SubSeq(s, n + 1, Len(s))
    <3>1. CASE n <= b.len
      BY <1>2, <3>1
    <3>2. CASE ~(n <= b.len)
      <4>1. k + 1 > Len(s) /\ n + 1 > Len(s) /\ k + 1 \in Int /\ n + 1 \in Int
        BY <1>2, <2>1, <3>2
      <4>2. SubSeq(s, k + 1, Len(s)) = <<>> /\ SubSeq(s, n + 1, Len(s)) = <<>>
        BY <2>1, <4>1, PartOfNothing
      <4> QED BY <4>2
    <3> QED BY <3>1, <3>2
  <2>4. k <= Len(s) /\ Len(s) <= Len(s)
    BY <1>2, <2>1
  <2>5. /\ Proper(B!LConsumed(b, n), SubSeq(s, k + 1, Len(s)))
        /\ Holding(B!LConsumed(b, n), SubSeq(s, k + 1, Len(s)))
    BY <1>1, <1>2, <1>3, <1>5, <2>1, <2>2, <2>4, ShorterIs
  <2> QED BY <2>3, <2>5 DEF Left
<1> QED BY <1>4, <1>5 DEF Proper

\* spe_buf_rconsume: the text loses its last n bytes.
LEMMA RConsumedIs ==
  ASSUME B!BufAssumption, NEW b, NEW s, Proper(b, s), NEW n \in Nat
  PROVE  Left(b, B!RConsumed(b, n), SubSeq(s, 1, Len(s) - n))
<1>1. b.len \in Nat /\ ~b.over /\ b.off \in Nat
  BY DEF Proper, Unused, Holding, IsBuf
<1> DEFINE k == B!Min({n, b.len})
<1>2. k = (IF n <= b.len THEN n ELSE b.len) /\ k \in Nat /\ k <= b.len /\ b.len - k \in Nat
  BY <1>1, LesserIs
<1>3. B!RConsumed(b, n) = B!Terminated([b EXCEPT !.len = @ - k])
  BY DEF B!RConsumed
<1> HIDE DEF k
<1>4. CASE Unused(b) /\ s = <<>>
  <2>1. b.off = 0 /\ b.len = 0 /\ IsBuf(b)
    BY <1>4 DEF Unused
  <2> DEFINE l == b.len - k
  <2>2. l = 0
    <3>1. k \in Nat /\ k <= 0
      BY <1>2, <2>1
    <3>2. k = 0
      BY <3>1
    <3> QED BY <2>1, <3>2
  <2>3. B!RConsumed(b, n) = B!Terminated([b EXCEPT !.len = l])
    BY <1>3
  <2> HIDE DEF l
  <2>4. [b EXCEPT !.len = l] = b
    BY <1>4, <2>2, StillUnused
  <2>5. B!RConsumed(b, n) = B!Terminated(b)
    BY <2>3, <2>4
  <2>6. IsBuf(B!RConsumed(b, n)) /\ B!RConsumed(b, n).bad = "null"
    BY <1>4, <2>5, EndOfNothing
  <2> QED BY <1>4, <2>6 DEF Left
<1>5. CASE Holding(b, s)
  <2>1. b.len = Len(s) /\ Len(s) \in Nat /\ s \in Seq(Letters) /\ IsBuf(b)
    BY <1>1, <1>5 DEF Holding
  <2> DEFINE j == b.len - k
  <2>2. [b EXCEPT !.len = @ - k] = Shorter(b, 0, j)
    <3>1. b.off + 0 = b.off /\ j - 0 = j
      BY <1>1, <1>2
    <3> QED BY <2>1, <3>1 DEF Shorter, IsBuf
  <2>3. SubSeq(s, 0 + 1, j) = SubSeq(s, 1, Len(s) - n)
    <3>1. CASE n <= b.len
      BY <1>2, <2>1, <3>1
    <3>2. CASE ~(n <= b.len)
      <4>1. 1 > j /\ 1 > Len(s) - n /\ j \in Int /\ Len(s) - n \in Int
        BY <1>1, <1>2, <2>1, <3>2
      <4> HIDE DEF j
      <4>2. SubSeq(s, 1, j) = <<>> /\ SubSeq(s, 1, Len(s) - n) = <<>> /\ 0 + 1 = 1
        BY <2>1, <4>1, PartOfNothing
      <4> HIDE DEF SubSeq
      <4> QED BY <4>2
    <3> QED BY <3>1, <3>2
  <2>4. 0 \in Nat /\ j \in Nat /\ 0 <= j /\ j <= Len(s)
    BY <1>1, <1>2, <2>1
  <2> HIDE DEF j
  <2>5. Proper(B!RConsumed(b, n), SubSeq(s, 0 + 1, j))
    <3>1. Proper(B!Terminated(Shorter(b, 0, j)), SubSeq(s, 0 + 1, j))
      BY <1>1, <1>5, <2>4, ShorterIs
    <3> QED BY <1>3, <2>2, <3>1
  <2> QED BY <2>3, <2>5 DEF Left
<1> QED BY <1>4, <1>5 DEF Proper

\* Writing other bytes in the place of those that are there.
LEMMA OverwrittenIs ==
  ASSUME B!BufAssumption, NEW b, NEW s, Proper(b, s), NEW t \in Seq(Letters), Len(t) = Len(s)
  PROVE  Proper(B!Put(b, b.off, t), t)
<1> DEFINE q == B!Put(b, b.off, t)
<1>1. /\ Len(b.mem) \in Nat /\ b.off \in Nat /\ b.len \in Nat /\ Len(t) \in Nat /\ IsBuf(b)
      /\ ~b.over /\ Len(<<>>) = 0 /\ b.bad = "no"
  BY LenProperties DEF Proper, Unused, Holding, IsBuf
<1>2. b.off + b.len <= Len(b.mem) /\ b.len = Len(t)
  <2>1. CASE Unused(b) /\ s = <<>>
    BY <1>1, <2>1 DEF Unused
  <2>2. CASE Holding(b, s)
    BY <1>1, <2>2 DEF Holding
  <2> QED BY <2>1, <2>2 DEF Proper
<1>3. PutTo(b, b.off, t, q)
  <2>1. t \in Seq(Cell)
    BY SeqMonotonic DEF Cell
  <2> QED BY <1>1, <1>2, <2>1, PutIs
<1> HIDE DEF q
<1>4. CASE Unused(b) /\ s = <<>>
  <2>1. q.mem \in Seq(Cell) /\ Len(q.mem) = 0
    BY <1>1, <1>3, <1>4 DEF PutTo, IsBuf, Unused
  <2>2. q.mem = <<>>
    BY <2>1, EmptySeq
  <2>3. t = <<>>
    BY <1>1, <1>4, EmptySeq
  <2> QED BY <1>1, <1>3, <1>4, <2>2, <2>3 DEF PutTo, Unused, Proper, q
<1>5. CASE Holding(b, s) /\ (s # <<>> => TextEnded(b))
  <2>1. b.off + b.len < Len(b.mem)
    BY <1>5 DEF Holding
  <2>2. ASSUME NEW i \in 1..Len(t)
        PROVE  q.mem[b.off + i] = t[i]
    <3> DEFINE k == b.off + i
    <3>1. k \in 1..Len(b.mem) /\ b.off < k /\ k <= b.off + Len(t) /\ k - b.off = i
      BY <1>1, <1>2
    <3> HIDE DEF k
    <3>2. q.mem[k] = t[i]
      BY <1>3, <3>1 DEF PutTo
    <3> QED BY <3>2 DEF k
  <2>3. Holding(q, t)
    BY <1>1, <1>2, <1>3, <2>1, <2>2 DEF PutTo, Holding
  <2>4. TextEnded(b) => TextEnded(q)
    <3> DEFINE k == b.off + b.len + 1
    <3>1. k \in 1..Len(b.mem) /\ ~(k <= b.off + Len(t))
      BY <1>1, <1>2, <2>1
    <3> HIDE DEF k
    <3>2. q.mem[k] = b.mem[k]
      BY <1>3, <3>1 DEF PutTo
    <3> QED BY <1>3, <3>2 DEF PutTo, TextEnded, k
  <2>5. s = <<>> => t = <<>>
    BY <1>1, EmptySeq
  <2> QED BY <1>1, <1>3, <1>5, <2>3, <2>4, <2>5 DEF PutTo, Proper, q
<1> QED BY <1>4, <1>5 DEF Proper

\* spe_buf_to_lower, spe_buf_to_upper: each byte of the text is changed.
LEMMA RecasedIs ==
  ASSUME B!BufAssumption, NEW b, NEW s, Proper(b, s)
  PROVE  /\ Proper(B!Recased(b, Lower), [i \in 1..Len(s) |-> Lower(s[i])])
         /\ Proper(B!Recased(b, Upper), [i \in 1..Len(s) |-> Upper(s[i])])
<1>1. B!Text(b) = s /\ b.len = Len(s) /\ s \in Seq(Letters) /\ Len(s) \in Nat
  <2>1. CASE Holding(b, s)
    BY <2>1, TextIs, LenProperties DEF Holding
  <2>2. CASE Unused(b) /\ s = <<>>
    <3>1. b.len = 0 /\ Len(<<>>) = 0
      BY <2>2 DEF Unused
    <3>2. B!Text(b) = <<>>
      BY <3>1 DEF B!Text
    <3> QED BY <2>2, <3>1, <3>2
  <2> QED BY <2>1, <2>2 DEF Proper
<1> DEFINE t == [i \in 1..Len(s) |-> Lower(s[i])]
           u == [i \in 1..Len(s) |-> Upper(s[i])]
<1>2. B!Recased(b, Lower) = B!Put(b, b.off, t) /\ B!Recased(b, Upper) = B!Put(b, b.off, u)
  BY <1>1 DEF B!Recased
<1>3. \A i \in 1..Len(s) : s[i] \in Letters
  BY <1>1, ElementOfSeq
<1>4. t \in [1..Len(s) -> Letters] /\ u \in [1..Len(s) -> Letters]
  BY <1>3 DEF B!BufAssumption
<1> HIDE DEF t, u
<1>5. t \in Seq(Letters) /\ Len(t) = Len(s) /\ u \in Seq(Letters) /\ Len(u) = Len(s)
  BY <1>1, <1>4, SeqDef, LenProperties, SMTT(20)
<1>6. Proper(B!Put(b, b.off, t), t) /\ Proper(B!Put(b, b.off, u), u)
  BY <1>5, OverwrittenIs
<1> QED BY <1>2, <1>6 DEF t, u

\* spe_buf_clean: the text is empty.
LEMMA CleanedIs ==
  ASSUME B!BufAssumption, NEW b, NEW s, Proper(b, s)
  PROVE  Proper(B!Cleaned(b), <<>>)
<1> DEFINE e == [b EXCEPT !.off = 0, !.len = 0]
<1>1. IsBuf(b) /\ ~b.over /\ Len(b.mem) \in Nat /\ Len(<<>>) = 0 /\ <<>> \in Seq(Letters)
  BY LenProperties DEF Proper, Unused, Holding, IsBuf
<1>2. CASE b.mem = <<>>
  <2>1. Unused(b)
    BY <1>1, <1>2 DEF Proper, Holding, IsBuf
  <2>2. B!Cleaned(b) = b
    BY <1>2, <2>1, StillUnused DEF B!Cleaned
  <2> QED BY <1>1, <2>1, <2>2 DEF Proper
<1>3. CASE b.mem # <<>>
  <2>1. Holding(b, s) /\ Len(b.mem) > 0
    <3>1. Holding(b, s)
      BY <1>3 DEF Proper, Unused
    <3>2. b.off \in Nat /\ b.len \in Nat /\ b.off + b.len < Len(b.mem)
      BY <1>1, <3>1 DEF Holding, IsBuf
    <3> QED BY <1>1, <3>1, <3>2
  <2>2. IsBuf(e) /\ e.mem = b.mem /\ e.bad = "no" /\ e.over = b.over /\ e.off = 0 /\ e.len = 0
    BY <1>1, <2>1 DEF IsBuf, Holding
  <2>3. B!Cleaned(b) = B!Terminated(e)
    BY <1>3 DEF B!Cleaned
  <2> HIDE DEF e
  <2>4. Holding(e, <<>>)
    BY <1>1, <2>1, <2>2 DEF Holding
  <2>5. Holding(B!Terminated(e), <<>>) /\ TextEnded(B!Terminated(e)) /\ B!Terminated(e).over = e.over
    BY <2>4, EndPut
  <2> QED BY <1>1, <2>2, <2>3, <2>5 DEF Proper
<1> QED BY <1>2, <1>3

\* The memory for a read into a buffer, if there is any: more than n bytes of it.
LEMMA ReadyIs ==
  ASSUME B!BufAssumption, NEW b, NEW s, Proper(b, s), NEW n \in Nat, NEW used \in Nat, used <= b.len,
         NEW w \in B!WithRoom(b, Len(b.mem) - used >= n + 1, Len(b.mem) + n + 1)
                     \cup B!WithRoom(b, Len(b.mem) >= n + 1, n + 1)
  PROVE  /\ w.done \in BOOLEAN
         /\ ~w.done => Proper(w.buf, s)
         /\ w.done => \/ Overrun(b, w.buf)
                      \/ Holding(w.buf, s) /\ ~w.buf.over /\ (s # <<>> => TextEnded(w.buf))
<1>1. Len(b.mem) \in Nat /\ Len(<<>>) = 0
  BY LenProperties DEF Proper, Unused, Holding, IsBuf
<1>2. ASSUME NEW there \in BOOLEAN, NEW m \in Nat, m > Len(b.mem) \/ there, there => Len(b.mem) > 0,
             w \in B!WithRoom(b, there, m)
      PROVE  /\ w.done \in BOOLEAN
             /\ ~w.done => Proper(w.buf, s)
             /\ w.done => \/ Overrun(b, w.buf)
                          \/ Holding(w.buf, s) /\ ~w.buf.over /\ (s # <<>> => TextEnded(w.buf))
  <2>1. CASE there
    <3>1. w.done = TRUE /\ w.buf = b
      BY <1>2, <2>1 DEF B!WithRoom
    <3>2. ~Unused(b)
      BY <1>1, <1>2, <2>1 DEF Unused
    <3> QED BY <3>1, <3>2 DEF Proper
  <2>2. CASE ~there
    <3>1. Grown(b, s, m, w)
      BY <1>2, <2>2, RoomIs
    <3> QED BY <3>1 DEF Grown
  <2> QED BY <2>1, <2>2
<1>3. CASE w \in B!WithRoom(b, Len(b.mem) - used >= n + 1, Len(b.mem) + n + 1)
  <2> DEFINE there == Len(b.mem) - used >= n + 1
             m == Len(b.mem) + n + 1
  <2>1. there \in BOOLEAN /\ m \in Nat /\ m > Len(b.mem) /\ (there => Len(b.mem) > 0)
    BY <1>1
  <2>2. w \in B!WithRoom(b, there, m)
    BY <1>3
  <2> HIDE DEF there, m
  <2> QED BY <1>2, <2>1, <2>2
<1>4. CASE w \in B!WithRoom(b, Len(b.mem) >= n + 1, n + 1)
  <2> DEFINE there == Len(b.mem) >= n + 1
             m == n + 1
  <2>1. there \in BOOLEAN /\ m \in Nat /\ (m > Len(b.mem) \/ there) /\ (there => Len(b.mem) > 0)
    BY <1>1
  <2>2. w \in B!WithRoom(b, there, m)
    BY <1>4
  <2> HIDE DEF there, m
  <2> QED BY <1>2, <2>1, <2>2
<1> QED BY <1>3, <1>4

\* spe_buf_read_fd_copy: what read gives is the text.
LEMMA ReadCopiedIs ==
  ASSUME B!BufAssumption, NEW b, NEW s, Proper(b, s), NEW r \in B!ReadyToCopy(b, ReadLen)
  PROVE  /\ r.done \in BOOLEAN
         /\ ~r.done => Left(b, r.buf, s)
         /\ \A a \in Seq(Letters) :
              r.done /\ Len(a) <= B!Room(r.buf, 0) =>
                Left(b, B!ReadCopied(r.buf, a), IF a = <<>> THEN s ELSE a)
<1>1. ReadLen \in Nat /\ 0 \in Nat /\ b.len \in Nat /\ 0 <= b.len
  BY DEF B!BufAssumption, Proper, Unused, Holding, IsBuf
<1>2. r \in B!WithRoom(b, Len(b.mem) >= ReadLen + 1, ReadLen + 1)
  BY DEF B!ReadyToCopy, B!Size
<1>3. /\ r.done \in BOOLEAN
      /\ ~r.done => Proper(r.buf, s)
      /\ r.done => \/ Overrun(b, r.buf)
                   \/ Holding(r.buf, s) /\ ~r.buf.over /\ (s # <<>> => TextEnded(r.buf))
  BY <1>1, <1>2, ReadyIs
<1>4. ASSUME NEW a \in Seq(Letters), r.done, Len(a) <= B!Room(r.buf, 0)
      PROVE  Left(b, B!ReadCopied(r.buf, a), IF a = <<>> THEN s ELSE a)
  <2>1. CASE a = <<>>
    <3>1. B!ReadCopied(r.buf, a) = r.buf
      BY <2>1 DEF B!ReadCopied
    <3> QED BY <1>3, <1>4, <2>1, <3>1 DEF Left, Proper
  <2>2. CASE a # <<>>
    <3>1. B!ReadCopied(r.buf, a) = PutWhole(r.buf, a)
      BY <2>2 DEF B!ReadCopied, PutWhole
    <3>2. CASE Overrun(b, r.buf)
      <4>1. Overrun(b, PutWhole(r.buf, a))
        BY <3>2, OverrunPut
      <4> QED BY <2>2, <3>1, <4>1 DEF Left
    <3>3. CASE Holding(r.buf, s) /\ ~r.buf.over
      <4>1. IsBuf(r.buf) /\ r.buf.bad = "no" /\ Len(a) < Len(r.buf.mem)
        <5>1. IsBuf(r.buf) /\ r.buf.bad = "no" /\ Len(r.buf.mem) \in Nat /\ Len(a) \in Nat
          BY <3>3, LenProperties DEF Holding, IsBuf
        <5>2. Len(a) <= Len(r.buf.mem) - 0 - 1
          BY <1>4 DEF B!Room, B!Size
        <5> QED BY <5>1, <5>2
      <4>2. /\ Holding(PutWhole(r.buf, a), a) /\ TextEnded(PutWhole(r.buf, a))
            /\ PutWhole(r.buf, a).over = r.buf.over
        BY <4>1, PutWholeIs
      <4> QED BY <2>2, <3>1, <3>3, <4>2 DEF Left, Proper
    <3> QED BY <1>3, <1>4, <3>2, <3>3
  <2> QED BY <2>1, <2>2
<1> QED BY <1>3, <1>4 DEF Left

\* spe_buf_read_fd_append: what read gives comes behind the text.
LEMMA ReadAppendedIs ==
  ASSUME B!BufAssumption, NEW b, NEW s, Proper(b, s), NEW r \in B!ReadyToAppend(b, ReadLen)
  PROVE  /\ r.done \in BOOLEAN
         /\ ~r.done => Left(b, r.buf, s)
         /\ \A a \in Seq(Letters) :
              r.done /\ Len(a) <= B!Room(r.buf, r.buf.len) =>
                Left(b, B!ReadAppended(r.buf, a), s \o a)
<1>1. ReadLen \in Nat /\ b.len \in Nat /\ b.len <= b.len /\ s \in Seq(Letters)
  BY DEF B!BufAssumption, Proper, Unused, Holding, IsBuf
<1>2. PICK w \in B!WithRoom(b, Len(b.mem) - b.len >= ReadLen + 1, Len(b.mem) + ReadLen + 1) :
        r = IF w.done /\ w.buf.off # 0 THEN [w EXCEPT !.buf = B!AtFront(w.buf)] ELSE w
  BY DEF B!ReadyToAppend, B!Size
<1>3. /\ w.done \in BOOLEAN
      /\ ~w.done => Proper(w.buf, s)
      /\ w.done => \/ Overrun(b, w.buf)
                   \/ Holding(w.buf, s) /\ ~w.buf.over /\ (s # <<>> => TextEnded(w.buf))
  BY <1>1, ReadyIs
<1>4. w = [buf |-> w.buf, done |-> w.done]
  <2>1. w \in B!Expanded(b, Len(b.mem) + ReadLen + 1) \/ w = [buf |-> b, done |-> TRUE]
    BY <1>2 DEF B!WithRoom
  <2> QED BY <2>1 DEF B!Expanded
<1> DEFINE q == IF w.done /\ w.buf.off # 0 THEN B!AtFront(w.buf) ELSE w.buf
<1>5. r.done = w.done /\ r.buf = q
  BY <1>2, <1>4
<1>6. w.done => \/ Overrun(b, q)
                \/ Holding(q, s) /\ ~q.over /\ (s # <<>> => TextEnded(q)) /\ q.off = 0
  <2>1. CASE w.done /\ w.buf.off # 0
    <3>1. q = B!AtFront(w.buf)
      BY <2>1
    <3> HIDE DEF q
    <3>2. CASE Overrun(b, w.buf)
      BY <3>1, <3>2, OverrunEnded
    <3>3. CASE Holding(w.buf, s) /\ ~w.buf.over
      <4>1. Holding(q, s) /\ TextEnded(q) /\ q.off = 0 /\ q.over = w.buf.over
        BY <3>1, <3>3, FrontMoved
      <4> QED BY <3>3, <4>1
    <3> QED BY <1>3, <2>1, <3>2, <3>3
  <2>2. CASE w.done /\ w.buf.off = 0
    <3>1. q = w.buf
      BY <2>2
    <3> HIDE DEF q
    <3> QED BY <1>3, <2>2, <3>1
  <2> QED BY <2>1, <2>2
<1>7. ~w.done => Proper(q, s)
  <2>1. SUFFICES ASSUME ~w.done PROVE Proper(q, s)
    OBVIOUS
  <2>2. q = w.buf
    BY <2>1
  <2> HIDE DEF q
  <2> QED BY <1>3, <2>1, <2>2
<1> HIDE DEF q
<1>8. ASSUME NEW a \in Seq(Letters), r.done, Len(a) <= B!Room(r.buf, r.buf.len)
      PROVE  Left(b, B!ReadAppended(r.buf, a), s \o a)
  <2>1. CASE a = <<>>
    <3>1. B!ReadAppended(q, a) = q
      BY <2>1 DEF B!ReadAppended
    <3>2. s \o a = s
      BY <1>1, <2>1, ConcatEmptySeq
    <3> QED BY <1>5, <1>6, <1>8, <3>1, <3>2 DEF Left, Proper
  <2>2. CASE a # <<>>
    <3>1. B!ReadAppended(q, a) = PutBehind(q, a)
      BY <2>2 DEF B!ReadAppended, PutBehind
    <3>2. CASE Overrun(b, q)
      <4>1. Overrun(b, PutBehind(q, a))
        BY <3>2, OverrunPut
      <4> QED BY <1>5, <3>1, <4>1 DEF Left
    <3>3. CASE Holding(q, s) /\ ~q.over /\ q.off = 0
      <4>1. q.off + q.len + Len(a) < Len(q.mem)
        <5>1. q.len \in Nat /\ Len(q.mem) \in Nat /\ Len(a) \in Nat
          BY <3>3, LenProperties DEF Holding, IsBuf
        <5>2. Len(a) <= Len(q.mem) - q.len - 1
          BY <1>5, <1>8 DEF B!Room, B!Size
        <5> QED BY <3>3, <5>1, <5>2
      <4>2. /\ Holding(PutBehind(q, a), s \o a) /\ TextEnded(PutBehind(q, a))
            /\ PutBehind(q, a).over = q.over
        BY <3>3, <4>1, PutBehindIs
      <4> QED BY <1>5, <3>1, <3>3, <4>2 DEF Left, Proper
    <3> QED BY <1>5, <1>6, <1>8, <3>2, <3>3
  <2> QED BY <2>1, <2>2
<1> QED BY <1>3, <1>5, <1>7, <1>8 DEF Left

\* The C string at the beginning of the text.
LEMMA UpToNULIs ==
  ASSUME NEW S, NEW s \in Seq(S)
  PROVE  \E m \in 0..Len(s) :
           /\ B!UpToNUL(s) = SubSeq(s, 1, m)
           /\ \A i \in 1..m : s[i] # NUL
           /\ m = Len(s) \/ s[m + 1] = NUL
<1> DEFINE nuls == {i \in 1..Len(s) : s[i] = NUL}
           at   == IF nuls # {} THEN B!Min(nuls) ELSE 0
<1>1. Len(s) \in Nat
  BY LenProperties
<1>2. B!UpToNUL(s) = IF at = 0 THEN s ELSE SubSeq(s, 1, at - 1)
  BY DEF B!UpToNUL, B!SelectInSeq
<1>3. CASE nuls = {}
  <2>1. at = 0 /\ SubSeq(s, 1, Len(s)) = s
    BY <1>3, SubSeqFull
  <2>2. \A i \in 1..Len(s) : s[i] # NUL
    BY <1>3
  <2>3. Len(s) \in 0..Len(s)
    BY <1>1
  <2> HIDE DEF at
  <2> QED BY <1>2, <2>1, <2>2, <2>3
<1>4. CASE nuls # {}
  <2>1. at \in nuls /\ \A i \in nuls : at <= i
    <3>1. nuls \subseteq Nat
      BY <1>1
    <3> HIDE DEF nuls
    <3>2. \E n \in nuls : \A m \in nuls : n <= m
      BY <1>4, <3>1, LeastNatural
    <3> QED BY <1>4, <3>2 DEF B!Min
  <2> HIDE DEF at
  <2>2. at \in 1..Len(s) /\ s[at] = NUL /\ \A i \in 1..at - 1 : s[i] # NUL
    BY <1>1, <2>1
  <2>3. at - 1 \in 0..Len(s) /\ at # 0 /\ (at - 1) + 1 = at
    BY <1>1, <2>2
  <2> QED BY <1>2, <2>2, <2>3
<1> QED BY <1>3, <1>4

\* Sequences that agree somewhere have the same part there.
LEMMA SamePart ==
  ASSUME NEW S, NEW s \in Seq(S), NEW t \in Seq(S), NEW i \in Nat, NEW j \in Nat, i <= j,
         j <= Len(s), j <= Len(t), \A n \in i + 1..j : s[n] = t[n]
  PROVE  SubSeq(s, i + 1, j) = SubSeq(t, i + 1, j)
<1> DEFINE p == SubSeq(s, i + 1, j)
           q == SubSeq(t, i + 1, j)
<1>1. p \in Seq(S) /\ Len(p) = j - i /\ \A n \in 1..j - i : p[n] = s[i + n]
  BY PartOf
<1>2. q \in Seq(S) /\ Len(q) = j - i /\ \A n \in 1..j - i : q[n] = t[i + n]
  BY PartOf
<1>3. \A n \in 1..j - i : s[i + n] = t[i + n]
  <2> TAKE n \in 1..j - i
  <2>1. i + n \in i + 1..j
    OBVIOUS
  <2> QED BY <2>1
<1> HIDE DEF p, q
<1>4. p = q
  BY <1>1, <1>2, <1>3, SeqEqual
<1> QED BY <1>4 DEF p, q

\* spe_buf_search finds the first place of the key that no 0 precedes.
PlacesOf(s, key) == {i \in 0..Len(s) - Len(key) :
                       /\ SubSeq(s, i + 1, i + Len(key)) = key
                       /\ \A j \in 1..i + Len(key) : s[j] # NUL}

\* strstr on bytes of which the first are the string s, with a 0 behind it.
LEMMA FindIs ==
  ASSUME NEW s \in Seq(Letters), NEW mm \in Seq(Cell), Len(s) <= Len(mm),
         Len(s) = Len(mm) \/ mm[Len(s) + 1] = NUL,
         \A i \in 1..Len(s) : mm[i] = s[i], NEW key \in Seq(Letters)
  PROVE  B!Find(mm, key) = IF PlacesOf(s, key) = {} THEN -1 ELSE B!Min(PlacesOf(s, key))
<1>1. Len(s) \in Nat /\ Len(mm) \in Nat /\ Len(key) \in Nat /\ s \in Seq(Cell)
  BY LenProperties, SeqMonotonic DEF Cell
<1>2. PICK m \in 0..Len(mm) : /\ B!UpToNUL(mm) = SubSeq(mm, 1, m)
                              /\ \A i \in 1..m : mm[i] # NUL
                              /\ m = Len(mm) \/ mm[m + 1] = NUL
  BY UpToNULIs
<1>3. m \in 0..Len(s) /\ (\A i \in 1..m : s[i] # NUL) /\ (m = Len(s) \/ s[m + 1] = NUL)
  <2>1. m <= Len(s)
    <3>1. SUFFICES ASSUME m > Len(s) PROVE FALSE
      BY <1>1
    <3>2. Len(s) + 1 \in 1..m
      BY <1>1, <3>1
    <3> QED BY <1>1, <1>2, <3>1, <3>2
  <2>2. \A i \in 1..m : i \in 1..Len(s)
    BY <1>1, <2>1
  <2>3. m # Len(s) => m + 1 \in 1..Len(s) /\ m # Len(mm)
    BY <1>1, <2>1
  <2> QED BY <1>1, <1>2, <2>1, <2>2, <2>3
<1> DEFINE c == SubSeq(mm, 1, m)
           at == {i \in 0..Len(c) - Len(key) : SubSeq(c, i + 1, i + Len(key)) = key}
<1>4. c \in Seq(Cell) /\ Len(c) = m /\ \A i \in 1..m : c[i] = s[i]
  <2>1. c \in Seq(Cell) /\ Len(c) = m /\ \A i \in 1..m : c[i] = mm[i]
    BY SplitAt
  <2>2. \A i \in 1..m : i \in 1..Len(s)
    BY <1>1, <1>3
  <2> HIDE DEF c
  <2> QED BY <2>1, <2>2
<1>5. B!Find(mm, key) = IF at = {} THEN -1 ELSE B!Min(at)
  BY <1>2 DEF B!Find
<1> HIDE DEF c
<1>6. ASSUME NEW i \in Nat, i + Len(key) <= m
      PROVE  SubSeq(c, i + 1, i + Len(key)) = SubSeq(s, i + 1, i + Len(key))
  <2> DEFINE j == i + Len(key)
  <2>1. j \in Nat /\ i <= j /\ j <= Len(c) /\ j <= Len(s)
    BY <1>1, <1>3, <1>4, <1>6
  <2>2. \A n \in i + 1..j : c[n] = s[n]
    BY <1>4, <2>1
  <2> HIDE DEF j
  <2>3. SubSeq(c, i + 1, j) = SubSeq(s, i + 1, j)
    BY <1>1, <1>4, <2>1, <2>2, SamePart
  <2> QED BY <2>3 DEF j
<1>7. ASSUME NEW i \in at PROVE i \in PlacesOf(s, key)
  <2>1. i \in Nat /\ i + Len(key) <= m /\ SubSeq(c, i + 1, i + Len(key)) = key /\ i \in 0..Len(s) - Len(key)
    BY <1>1, <1>3, <1>4
  <2>2. \A j \in 1..i + Len(key) : s[j] # NUL
    BY <1>1, <1>3, <2>1
  <2> QED BY <1>6, <2>1, <2>2 DEF PlacesOf
<1>8. ASSUME NEW i \in PlacesOf(s, key) PROVE i \in at
  <2>1. /\ i \in Nat /\ i + Len(key) <= Len(s) /\ SubSeq(s, i + 1, i + Len(key)) = key
        /\ \A j \in 1..i + Len(key) : s[j] # NUL
    BY <1>1 DEF PlacesOf
  <2>2. i + Len(key) <= m
    <3>1. SUFFICES ASSUME i + Len(key) > m PROVE FALSE
      BY <1>1, <2>1
    <3>2. m + 1 \in 1..i + Len(key) /\ m # Len(s)
      BY <1>1, <2>1, <3>1
    <3> QED BY <1>3, <2>1, <3>2
  <2>3. i \in 0..Len(c) - Len(key)
    BY <1>1, <1>4, <2>1, <2>2
  <2> QED BY <1>6, <2>1, <2>2, <2>3
<1> HIDE DEF at
<1>9. at = PlacesOf(s, key)
  BY <1>7, <1>8
<1> QED BY <1>5, <1>9

\* spe_buf_search: the first place of the key in the C string.
LEMMA SearchedIs ==
  ASSUME B!BufAssumption, NEW b, NEW s, Proper(b, s), NEW key \in Seq(Letters)
  PROVE  B!Searched(b, key) = IF s = <<>> \/ PlacesOf(s, key) = {} THEN -1 ELSE B!Min(PlacesOf(s, key))
<1>1. b.len \in Nat /\ b.len = Len(s) /\ s \in Seq(Letters) /\ Len(<<>>) = 0
  BY LenProperties DEF Proper, Unused, Holding, IsBuf
<1>2. b.len = 0 <=> s = <<>>
  BY <1>1, EmptySeq
<1>3. CASE s = <<>>
  BY <1>2, <1>3 DEF B!Searched
<1>4. CASE s # <<>>
  <2>1. Holding(b, s) /\ TextEnded(b)
    BY <1>4 DEF Proper
  <2>2. /\ b.mem \in Seq(Cell) /\ Len(b.mem) \in Nat /\ b.off \in Nat /\ b.off + b.len < Len(b.mem)
        /\ \A i \in 1..Len(s) : b.mem[b.off + i] = s[i]
        /\ b.mem[b.off + b.len + 1] = NUL
    BY <2>1, LenProperties DEF Holding, IsBuf, TextEnded
  <2> DEFINE mm == SubSeq(b.mem, b.off + 1, Len(b.mem))
  <2>3. /\ mm \in Seq(Cell) /\ Len(mm) = Len(b.mem) - b.off
        /\ \A i \in 1..Len(b.mem) - b.off : mm[i] = b.mem[b.off + i]
    <3> DEFINE hi == b.mem
               o == b.off
               n == Len(hi)
    <3>1. hi \in Seq(Cell) /\ o \in Nat /\ n \in Nat /\ o <= n /\ n <= Len(hi) /\ n = Len(b.mem)
      BY <1>1, <2>2
    <3>2. mm = SubSeq(hi, o + 1, n)
      OBVIOUS
    <3> HIDE DEF hi, o, n, mm
    <3>3. /\ mm \in Seq(Cell) /\ Len(mm) = n - o
          /\ \A i \in 1..n - o : mm[i] = hi[o + i]
      BY <3>1, <3>2, PartOf
    <3> QED BY <3>3 DEF hi, o, n
  <2>4. B!Searched(b, key) = B!Find(mm, key)
    BY <1>2, <1>4 DEF B!Searched, B!From
  <2> HIDE DEF mm
  <2>5. Len(s) <= Len(mm)
    BY <1>1, <2>2, <2>3
  <2>6. mm[Len(s) + 1] = NUL
    <3>1. b.len + 1 \in 1..Len(b.mem) - b.off /\ b.off + (b.len + 1) = b.off + b.len + 1
      BY <1>1, <2>2, SMTT(20)
    <3>2. mm[b.len + 1] = b.mem[b.off + (b.len + 1)]
      BY <2>3, <3>1
    <3> QED BY <1>1, <2>2, <3>1, <3>2
  <2>7. \A i \in 1..Len(s) : mm[i] = s[i]
    <3> TAKE i \in 1..Len(s)
    <3>1. i \in 1..Len(b.mem) - b.off
      BY <1>1, <2>2
    <3> QED BY <2>2, <2>3, <3>1
  <2>8. B!Find(mm, key) = IF PlacesOf(s, key) = {} THEN -1 ELSE B!Min(PlacesOf(s, key))
    BY <1>1, <2>3, <2>5, <2>6, <2>7, FindIs
  <2> QED BY <1>4, <2>4, <2>8
<1> QED BY <1>3, <1>4

\* The least of a set of places.
LEMMA LeastIs ==
  ASSUME NEW S, S \subseteq Int, NEW m \in S, \A y \in S : m <= y
  PROVE  B!Min(S) = m
<1>1. \A x \in S : (\A y \in S : x <= y) => x = m
  OBVIOUS
<1> QED BY <1>1 DEF B!Min

\* The greatest of a set of places.
LEMMA GreatestIs ==
  ASSUME NEW S, S \subseteq Int, NEW m \in S, \A y \in S : m >= y
  PROVE  B!Max(S) = m
<1>1. \A x \in S : (\A y \in S : x >= y) => x = m
  OBVIOUS
<1> QED BY <1>1 DEF B!Max

\* A set of places in a text that is not empty has a first and a last one.
LEMMA EndsOf ==
  ASSUME NEW n \in Nat, NEW S, S \subseteq 1..n, S # {}
  PROVE  /\ B!Min(S) \in S /\ \A y \in S : B!Min(S) <= y
         /\ B!Max(S) \in S /\ \A y \in S : B!Max(S) >= y
<1>1. S \subseteq Nat /\ S \subseteq Int
  OBVIOUS
<1>2. PICK m \in S : \A y \in S : m <= y
  BY <1>1, LeastNatural
<1> DEFINE R == {n - y : y \in S}
<1>3. R \subseteq Nat /\ R # {}
  OBVIOUS
<1>4. \A y \in S : n - y \in R
  OBVIOUS
<1>5. \A r \in R : \E y \in S : r = n - y
  OBVIOUS
<1> HIDE DEF R
<1>6. PICK r \in R : \A q \in R : r <= q
  BY <1>3, LeastNatural
<1>7. PICK k \in S : r = n - k
  BY <1>5
<1>8. \A y \in S : k >= y
  <2> TAKE y \in S
  <2>1. r <= n - y
    BY <1>4, <1>6
  <2>2. k \in Nat /\ y \in Nat
    BY <1>1
  <2> QED BY <1>7, <2>1, <2>2
<1>9. B!Min(S) = m
  BY <1>1, <1>2, LeastIs
<1>10. B!Max(S) = k
  BY <1>1, <1>8, GreatestIs
<1> QED BY <1>2, <1>8, <1>9, <1>10

\* The places of a text whose bytes are not to be trimmed.
Stays(s, T) == {i \in 1..Len(s) : s[i] \notin T}

\* The loop of spe_buf_strim over the front of the text.
LEMMA LTrimmedIs ==
  ASSUME B!BufAssumption, NEW b, NEW s, Holding(b, s), ~b.over, s # <<>> => TextEnded(b), NEW token
  PROVE  LET S == Stays(s, B!Trims(token))
             t == IF S = {} THEN <<>> ELSE SubSeq(s, B!Min(S), Len(s))
             q == B!LTrimmed(b, token)
         IN Holding(q, t) /\ ~q.over
<1> DEFINE T == B!Trims(token)
           S == Stays(s, T)
           t == IF S = {} THEN <<>> ELSE SubSeq(s, B!Min(S), Len(s))
           pos == IF S = {} THEN Len(s) ELSE B!Min(S) - 1
           q == B!LTrimmed(b, token)
<1>1. B!Text(b) = s /\ b.len = Len(s) /\ Len(s) \in Nat /\ s \in Seq(Letters) /\ Proper(b, s)
  BY TextIs, LenProperties DEF Holding, Proper
<1>2. q = IF pos > 0 THEN B!LConsumed(b, pos) ELSE b
  BY <1>1 DEF B!LTrimmed, Stays
<1>3. S # {} => B!Min(S) \in 1..Len(s)
  <2>1. S \subseteq 1..Len(s)
    BY DEF Stays
  <2> HIDE DEF S
  <2> QED BY <1>1, <2>1, EndsOf
<1> HIDE DEF q, S
<1>4. pos \in Nat /\ pos <= Len(s)
  BY <1>1, <1>3
<1>5. SubSeq(s, pos + 1, Len(s)) = t
  <2>1. CASE S = {}
    <3>1. Len(s) + 1 > Len(s) /\ Len(s) + 1 \in Int /\ pos = Len(s)
      BY <1>1, <2>1
    <3>2. SubSeq(s, Len(s) + 1, Len(s)) = <<>>
      BY <1>1, <3>1, PartOfNothing
    <3> HIDE DEF pos
    <3> QED BY <2>1, <3>1, <3>2
  <2>2. CASE S # {}
    <3>1. pos + 1 = B!Min(S)
      BY <1>3, <2>2
    <3> HIDE DEF pos
    <3> QED BY <2>2, <3>1
  <2> QED BY <2>1, <2>2
<1> HIDE DEF pos, t
<1>6. CASE pos > 0
  <2>1. Proper(B!LConsumed(b, pos), SubSeq(s, pos + 1, Len(s))) /\ Holding(B!LConsumed(b, pos), SubSeq(s, pos + 1, Len(s)))
    BY <1>1, <1>4, LConsumedIs
  <2> HIDE DEF SubSeq
  <2>2. Proper(q, t) /\ Holding(q, t)
    BY <1>2, <1>5, <1>6, <2>1
  <2> QED BY <2>2 DEF Proper, q, t, S
<1>7. CASE ~(pos > 0)
  <2>1. pos = 0 /\ 0 + 1 = 1
    BY <1>4, <1>7
  <2>2. t = s
    BY <1>1, <1>5, <2>1, SubSeqFull
  <2>3. q = b
    BY <1>2, <1>7
  <2>4. Holding(q, t) /\ ~q.over
    BY <2>2, <2>3
  <2> QED BY <2>4 DEF q, t, S
<1> QED BY <1>6, <1>7

\* The loop of spe_buf_strim over the end of the text.
LEMMA RTrimmedIs ==
  ASSUME B!BufAssumption, NEW b, NEW s, Holding(b, s), ~b.over, NEW token
  PROVE  LET S == Stays(s, B!Trims(token))
             t == IF S = {} THEN <<>> ELSE SubSeq(s, 1, B!Max(S))
         IN Proper(B!RTrimmed(b, token), t)
<1> DEFINE S == Stays(s, B!Trims(token))
           t == IF S = {} THEN <<>> ELSE SubSeq(s, 1, B!Max(S))
           e == IF S = {} THEN 0 ELSE B!Max(S)
           q == B!RTrimmed(b, token)
<1>1. B!Text(b) = s /\ b.len = Len(s) /\ Len(s) \in Nat /\ s \in Seq(Letters) /\ IsBuf(b) /\ b.off \in Nat
  BY TextIs, LenProperties DEF Holding, IsBuf
<1>2. q = B!Terminated([b EXCEPT !.len = e])
  BY <1>1 DEF B!RTrimmed, Stays
<1>3. S # {} => B!Max(S) \in 1..Len(s)
  <2>1. S \subseteq 1..Len(s)
    BY DEF Stays
  <2> HIDE DEF S
  <2> QED BY <1>1, <2>1, EndsOf
<1> HIDE DEF q, S
<1>4. e \in Nat /\ e <= Len(s) /\ 0 <= e /\ 0 \in Nat
  BY <1>1, <1>3
<1>5. SubSeq(s, 0 + 1, e) = t
  <2>1. CASE S = {}
    <3>1. 1 > 0 /\ 1 \in Int /\ 0 \in Int
      OBVIOUS
    <3>2. SubSeq(s, 1, 0) = <<>>
      BY <1>1, <3>1, PartOfNothing
    <3>3. e = 0 /\ 0 + 1 = 1
      BY <2>1
    <3> HIDE DEF e
    <3> QED BY <2>1, <3>2, <3>3
  <2>2. CASE S # {}
    <3>1. e = B!Max(S) /\ 0 + 1 = 1
      BY <2>2
    <3> HIDE DEF e
    <3> QED BY <2>2, <3>1
  <2> QED BY <2>1, <2>2
<1> HIDE DEF e, t
<1>6. [b EXCEPT !.len = e] = Shorter(b, 0, e)
  <2>1. b.off + 0 = b.off /\ e - 0 = e
    BY <1>1, <1>4
  <2> QED BY <1>1, <2>1 DEF Shorter, IsBuf
<1>7. Proper(B!Terminated(Shorter(b, 0, e)), SubSeq(s, 0 + 1, e))
  BY <1>4, ShorterIs
<1> HIDE DEF SubSeq
<1>8. Proper(q, t)
  BY <1>2, <1>5, <1>6, <1>7
<1> QED BY <1>8 DEF q, t, S

\* spe_buf_strim leaves what is between the first byte to stay and the last.
LEMMA TrimmedIs ==
  ASSUME B!BufAssumption, NEW b, NEW s, Proper(b, s), NEW token
  PROVE  LET S == Stays(s, B!Trims(token))
         IN Left(b, B!Trimmed(b, token), IF S = {} THEN <<>> ELSE SubSeq(s, B!Min(S), B!Max(S)))
<1> DEFINE T == B!Trims(token)
           S == Stays(s, T)
           m == B!Min(S)
           q == B!LTrimmed(b, token)
           t == IF S = {} THEN <<>> ELSE SubSeq(s, m, Len(s))
           U == Stays(t, T)
           u == IF U = {} THEN <<>> ELSE SubSeq(t, 1, B!Max(U))
           w == IF S = {} THEN <<>> ELSE SubSeq(s, m, B!Max(S))
<1>1. B!Trimmed(b, token) = B!RTrimmed(q, token) /\ Len(<<>>) = 0
  BY DEF B!Trimmed
<1>2. CASE Unused(b) /\ s = <<>>
  <2>1. b.len = 0 /\ b.off = 0
    BY <1>2 DEF Unused
  <2>2. q = b
    BY <2>1 DEF B!LTrimmed
  <2> HIDE DEF q
  <2>3. B!RTrimmed(b, token) = B!Terminated([b EXCEPT !.len = 0])
    BY <2>1 DEF B!RTrimmed
  <2>4. B!Trimmed(b, token) = B!Terminated(b)
    BY <1>1, <1>2, <2>2, <2>3, StillUnused
  <2>5. IsBuf(B!Terminated(b)) /\ B!Terminated(b).bad = "null"
    BY <1>2, EndOfNothing
  <2> QED BY <1>2, <2>4, <2>5 DEF Left
<1>3. CASE Holding(b, s) /\ (s # <<>> => TextEnded(b))
  <2>1. ~b.over /\ s \in Seq(Letters) /\ Len(s) \in Nat
    BY <1>3, LenProperties DEF Proper, Holding
  <2>2. Holding(q, t) /\ ~q.over
    BY <1>3, <2>1, LTrimmedIs
  <2> HIDE DEF q
  <2>3. Proper(B!RTrimmed(q, token), u)
    BY <2>2, RTrimmedIs
  <2>4. CASE S = {}
    <3>1. t = <<>>
      BY <2>4
    <3> HIDE DEF t
    <3>2. U = {}
      BY <1>1, <3>1 DEF Stays
    <3>3. u = <<>> /\ w = <<>>
      BY <2>4, <3>2
    <3> HIDE DEF u
    <3> QED BY <1>1, <2>3, <2>4, <3>3 DEF Left
  <2>5. CASE S # {}
    <3> DEFINE hi == B!Max(S)
    <3>1. m \in S /\ hi \in S /\ (\A y \in S : m <= y) /\ (\A y \in S : hi >= y)
      <4>1. S \subseteq 1..Len(s)
        BY DEF Stays
      <4> HIDE DEF S
      <4> QED BY <2>1, <2>5, <4>1, EndsOf
    <3>2. /\ m \in 1..Len(s) /\ hi \in 1..Len(s) /\ m <= hi /\ s[hi] \notin T
          /\ \A y \in 1..Len(s) : y > hi => s[y] \in T
      <4>1. \A y \in S : y \in 1..Len(s) /\ s[y] \notin T
        BY DEF Stays
      <4>2. \A y \in 1..Len(s) : s[y] \notin T => y \in S
        BY DEF Stays
      <4> HIDE DEF S, m, hi, T
      <4> QED BY <2>1, <3>1, <4>1, <4>2
    <3> DEFINE i == m - 1
               k == hi - i
    <3>3. i \in Nat /\ i + 1 = m /\ i <= Len(s) /\ k \in 1..Len(s) - i /\ i + k = hi /\ k \in Nat
      <4> HIDE DEF m, hi, S, T
      <4> QED BY <2>1, <3>2
    <3>4. t = SubSeq(s, i + 1, Len(s))
      <4> HIDE DEF i, m
      <4> QED BY <2>5, <3>3
    <3>5. w = SubSeq(s, i + 1, hi)
      <4> HIDE DEF i, m, hi
      <4> QED BY <2>5, <3>3 DEF hi
    <3> HIDE DEF t, w, i, k, m, hi, T
    <3>6. /\ t \in Seq(Letters) /\ Len(t) = Len(s) - i /\ \A n \in 1..Len(s) - i : t[n] = s[i + n]
      <4>1. Len(s) <= Len(s)
        BY <2>1
      <4> QED BY <2>1, <3>3, <3>4, <4>1, PartOf
    <3>7. w \in Seq(Letters) /\ Len(w) = hi - i /\ \A n \in 1..hi - i : w[n] = s[i + n]
      <4>1. hi \in Nat /\ i <= hi /\ hi <= Len(s)
        BY <2>1, <3>2, <3>3
      <4> QED BY <2>1, <3>3, <3>5, <4>1, PartOf
    <3>8. k \in U /\ \A y \in U : k >= y
      <4>1. k \in 1..Len(t) /\ t[k] = s[hi]
        BY <2>1, <3>3, <3>6
      <4>2. ASSUME NEW y \in 1..Len(t), y > k PROVE t[y] \in T
        <5>1. y \in 1..Len(s) - i /\ i + y \in 1..Len(s) /\ i + y > hi
          BY <2>1, <3>2, <3>3, <3>6, <4>2
        <5> QED BY <3>2, <3>6, <5>1
      <4>3. \A y \in U : y \in 1..Len(t) /\ t[y] \notin T
        BY DEF Stays
      <4>4. Len(t) \in Nat
        BY <2>1, <3>3, <3>6
      <4> QED BY <3>2, <3>3, <4>1, <4>2, <4>3, <4>4 DEF Stays
    <3>9. B!Max(U) = k /\ U # {}
      <4>1. U \subseteq Int
        BY <2>1, <3>3, <3>6 DEF Stays
      <4> HIDE DEF U
      <4> QED BY <3>8, <4>1, GreatestIs
    <3>10. u = SubSeq(t, 1, k)
      <4> HIDE DEF U
      <4> QED BY <3>9
    <3>11. /\ SubSeq(t, 1, k) \in Seq(Letters) /\ Len(SubSeq(t, 1, k)) = k
           /\ \A n \in 1..k : SubSeq(t, 1, k)[n] = t[n]
      <4>1. k \in 0..Len(t)
        BY <2>1, <3>3, <3>6
      <4> QED BY <3>6, <4>1, SplitAt
    <3> HIDE DEF u
    <3>12. u \in Seq(Letters) /\ Len(u) = k /\ \A n \in 1..k : u[n] = w[n]
      <4>1. \A n \in 1..k : n \in 1..Len(s) - i /\ n \in 1..hi - i
        BY <2>1, <3>2, <3>3
      <4> HIDE DEF SubSeq
      <4> QED BY <3>6, <3>7, <3>10, <3>11, <4>1
    <3>13. Len(w) = k
      BY <2>1, <3>2, <3>3, <3>7
    <3>14. u = w
      BY <3>7, <3>12, <3>13, SeqEqual
    <3>15. Left(b, B!Trimmed(b, token), w)
      BY <1>1, <2>3, <3>14 DEF Left
    <3> QED BY <3>15 DEF w, m, T
  <2> QED BY <2>4, <2>5
<1> QED BY <1>2, <1>3 DEF Proper

\* u is given by what it is at greater numbers, up to L.
Given(L, stop, P, Q, nx, u) ==
  u = [i \in 0..L |-> IF i \in stop THEN P[i] ELSE Q[i] \o u[nx[i]]]

\* There is such a function.
LEMMA Downward ==
  ASSUME NEW L \in Nat, NEW stop, NEW P, NEW Q, NEW nx,
         \A i \in 0..L : i \notin stop => nx[i] \in i + 1..L
  PROVE  \E u : Given(L, stop, P, Q, nx, u)
<1> DEFINE G(u, i) == IF i \in stop THEN P[i] ELSE Q[i] \o u[nx[i]]
           Below(m, u) == u = [i \in 0..L |-> u[i]] /\ \A i \in 0..L : i > m => u[i] = G(u, i)
           T == {m \in 0..L + 1 : \E u : Below(m - 1, u)}
<1>1. T \subseteq Nat /\ T # {}
  <2>1. L + 1 \in T
    <3> DEFINE u == [i \in 0..L |-> 0]
    <3>1. u = [i \in 0..L |-> u[i]]
      OBVIOUS
    <3>2. \A i \in 0..L : ~(i > L + 1 - 1)
      OBVIOUS
    <3> HIDE DEF u, G
    <3>3. Below(L + 1 - 1, u)
      BY <3>1, <3>2
    <3> QED BY <3>3
  <2> QED BY <2>1
<1> HIDE DEF T
<1>2. PICK m \in T : \A k \in T : m <= k
  BY <1>1, LeastNatural
<1>3. m \in 0..L + 1 /\ \E u : Below(m - 1, u)
  <2> HIDE DEF Below
  <2> QED BY <1>2 DEF T
<1> HIDE DEF Below
<1>4. PICK u : Below(m - 1, u)
  BY <1>3
<1>5. CASE m = 0
  <2>1. u = [i \in 0..L |-> u[i]] /\ \A i \in 0..L : u[i] = G(u, i)
    BY <1>4, <1>5 DEF Below
  <2>2. [i \in 0..L |-> u[i]] = [i \in 0..L |-> G(u, i)]
    <3> HIDE DEF G
    <3> QED BY <2>1
  <2>3. u = [i \in 0..L |-> G(u, i)]
    <3> HIDE DEF G
    <3> QED BY <2>1, <2>2
  <2> QED BY <2>3 DEF Given
<1>6. CASE m # 0
  <2> DEFINE k == m - 1
             w == [i \in 0..L |-> IF i = k THEN G(u, k) ELSE u[i]]
  <2>1. k \in 0..L /\ k = m - 1
    BY <1>3, <1>6
  <2>2. \A i \in 0..L : i > k => u[i] = G(u, i)
    BY <1>4 DEF Below
  <2>3. \A i \in 0..L : w[i] = IF i = k THEN G(u, k) ELSE u[i]
    OBVIOUS
  <2>4. w = [i \in 0..L |-> w[i]]
    OBVIOUS
  <2> HIDE DEF w, k
  <2>5. ASSUME NEW i \in 0..L, i > k - 1
        PROVE  w[i] = G(w, i)
    <3>1. i >= k
      BY <2>1, <2>5
    <3>2. w[i] = G(u, i)
      <4>1. CASE i = k
        BY <2>3, <4>1
      <4>2. CASE i # k
        <5>1. i > k
          BY <2>1, <3>1, <4>2
        <5> HIDE DEF G
        <5> QED BY <2>2, <2>3, <4>2, <5>1
      <4> QED BY <4>1, <4>2
    <3>3. i \notin stop => w[nx[i]] = u[nx[i]]
      <4>1. SUFFICES ASSUME i \notin stop PROVE w[nx[i]] = u[nx[i]]
        OBVIOUS
      <4> DEFINE n == nx[i]
      <4>2. n \in i + 1..L
        BY <4>1
      <4> HIDE DEF n
      <4>3. n \in 0..L /\ n # k
        BY <2>1, <3>1, <4>2
      <4>4. w[n] = u[n]
        BY <2>3, <4>3
      <4> QED BY <4>4 DEF n
    <3> QED BY <3>2, <3>3
  <2>6. Below(k - 1, w)
    <3> HIDE DEF G
    <3> QED BY <2>4, <2>5 DEF Below
  <2>7. k \in T
    BY <2>1, <2>6 DEF T
  <2> QED BY <1>2, <1>3, <2>1, <2>7
<1> QED BY <1>5, <1>6

\* The places of a token in a text that count, and the pieces between them.
CutsOf(s, c) == {i \in 1..Len(s) : s[i] = c /\ \A j \in 1..i : s[j] # NUL}
RunsOf(s, c) ==
  {r \in (1..Len(s)) \X (1..Len(s)) :
     /\ r[1] <= r[2] /\ \A i \in CutsOf(s, c) : ~(r[1] <= i /\ i <= r[2])
     /\ r[1] = 1 \/ r[1] - 1 \in CutsOf(s, c)
     /\ r[2] = Len(s) \/ r[2] + 1 \in CutsOf(s, c)}
RunsBehind(s, c, i) == {r \in RunsOf(s, c) : r[1] > i}

Piece(s, run) == SubSeq(s, run[1], run[2])

\* a has the pieces behind the place i, from the first to the last.
Listed(s, c, i, a) ==
  \E n \in 0..Len(s) - i : \E r \in [1..n -> RunsBehind(s, c, i)] :
    /\ \A k \in 1..n : \A m \in 1..n : k < m => r[k][1] < r[m][1]
    /\ \A run \in RunsBehind(s, c, i) : \E k \in 1..n : r[k] = run
    /\ a = [k \in 1..n |-> Piece(s, r[k])]

\* Behind the last token.
LEMMA LastRun ==
  ASSUME NEW s \in Seq(Letters), NEW c, NEW i \in {0} \cup CutsOf(s, c),
         \A k \in CutsOf(s, c) : k <= i
  PROVE  /\ i \in 0..Len(s)
         /\ RunsBehind(s, c, i) = IF i = Len(s) THEN {} ELSE {<<i + 1, Len(s)>>}
<1> DEFINE C == CutsOf(s, c)
<1>1. Len(s) \in Nat /\ i \in 0..Len(s) /\ C \subseteq 1..Len(s)
  BY LenProperties DEF CutsOf
<1> HIDE DEF C
<1>2. ASSUME NEW r \in RunsBehind(s, c, i)
      PROVE  i # Len(s) /\ r = <<i + 1, Len(s)>>
  <2>1. /\ r \in (1..Len(s)) \X (1..Len(s)) /\ r[1] > i /\ r[1] <= r[2]
        /\ r[1] = 1 \/ r[1] - 1 \in C
        /\ r[2] = Len(s) \/ r[2] + 1 \in C
    BY DEF RunsBehind, RunsOf, C
  <2>2. r[1] \in 1..Len(s) /\ r[2] \in 1..Len(s) /\ r = <<r[1], r[2]>>
    BY <2>1
  <2>3. r[1] = i + 1
    BY <1>1, <2>1, <2>2 DEF C
  <2>4. r[2] = Len(s)
    BY <1>1, <2>1, <2>2 DEF C
  <2> QED BY <1>1, <2>2, <2>3, <2>4
<1>3. ASSUME i # Len(s)
      PROVE  <<i + 1, Len(s)>> \in RunsBehind(s, c, i)
  <2> DEFINE r == <<i + 1, Len(s)>>
  <2>1. r \in (1..Len(s)) \X (1..Len(s)) /\ r[1] = i + 1 /\ r[2] = Len(s)
    BY <1>1, <1>3
  <2>2. /\ r[1] <= r[2] /\ r[1] > i
        /\ \A k \in C : ~(r[1] <= k /\ k <= r[2])
        /\ r[1] = 1 \/ r[1] - 1 \in C
    <3>1. /\ i = 0 \/ i \in C
          /\ \A k \in C : k \in 1..Len(s) /\ k <= i
      BY <1>1 DEF C
    <3>2. (i + 1) - 1 = i
      BY <1>1
    <3> HIDE DEF r
    <3> QED BY <1>1, <1>3, <2>1, <3>1, <3>2
  <2> HIDE DEF r
  <2>3. r \in RunsBehind(s, c, i)
    BY <2>1, <2>2 DEF RunsBehind, RunsOf, C
  <2> QED BY <2>3 DEF r
<1> QED BY <1>1, <1>2, <1>3

\* Between two tokens that follow one another.
LEMMA FirstRun ==
  ASSUME NEW s \in Seq(Letters), NEW c, NEW i \in {0} \cup CutsOf(s, c), NEW k \in CutsOf(s, c), i < k,
         \A m \in CutsOf(s, c) : m <= i \/ m >= k
  PROVE  /\ i \in 0..Len(s) /\ k \in 1..Len(s)
         /\ RunsBehind(s, c, i) =
              (IF k = i + 1 THEN {} ELSE {<<i + 1, k - 1>>}) \cup RunsBehind(s, c, k)
<1> DEFINE C == CutsOf(s, c)
<1>1. Len(s) \in Nat /\ i \in 0..Len(s) /\ k \in 1..Len(s) /\ C \subseteq 1..Len(s)
  BY LenProperties DEF CutsOf
<1> HIDE DEF C
<1>2. ASSUME NEW r \in RunsBehind(s, c, i), r \notin RunsBehind(s, c, k)
      PROVE  k # i + 1 /\ r = <<i + 1, k - 1>>
  <2>1. /\ r \in (1..Len(s)) \X (1..Len(s)) /\ r[1] > i /\ r[1] <= r[2]
        /\ \A m \in C : ~(r[1] <= m /\ m <= r[2])
        /\ r[1] = 1 \/ r[1] - 1 \in C
        /\ r[2] = Len(s) \/ r[2] + 1 \in C
        /\ ~(r[1] > k)
    BY <1>2 DEF RunsBehind, RunsOf, C
  <2>2. r[1] \in 1..Len(s) /\ r[2] \in 1..Len(s) /\ r = <<r[1], r[2]>>
    BY <2>1
  <2>3. k \in C /\ \A m \in C : m \in 1..Len(s) /\ (m <= i \/ m >= k)
    BY <1>1 DEF C
  <2> DEFINE a == r[1]
             b == r[2]
  <2>4. /\ a \in 1..Len(s) /\ b \in 1..Len(s) /\ a > i /\ a <= b /\ a <= k
        /\ ~(a <= k /\ k <= b) /\ (a = 1 \/ a - 1 \in C) /\ (b = Len(s) \/ b + 1 \in C)
    BY <1>1, <2>1, <2>2, <2>3
  <2> HIDE DEF a, b
  <2>5. b < k
    BY <1>1, <2>4
  <2>6. a = i + 1
    BY <1>1, <2>3, <2>4, <2>5
  <2>7. b = k - 1
    BY <1>1, <2>3, <2>4, <2>5
  <2>8. k # i + 1 /\ r = <<a, b>>
    BY <1>1, <2>2, <2>4, <2>5, <2>6, <2>7 DEF a, b
  <2> QED BY <2>6, <2>7, <2>8
<1>3. ASSUME k # i + 1
      PROVE  <<i + 1, k - 1>> \in RunsBehind(s, c, i)
  <2> DEFINE r == <<i + 1, k - 1>>
  <2>1. r \in (1..Len(s)) \X (1..Len(s)) /\ r[1] = i + 1 /\ r[2] = k - 1
    BY <1>1, <1>3
  <2>2. /\ r[1] <= r[2] /\ r[1] > i
        /\ \A m \in C : ~(r[1] <= m /\ m <= r[2])
        /\ r[1] = 1 \/ r[1] - 1 \in C
        /\ r[2] + 1 \in C
    <3>1. k \in C /\ (i = 0 \/ i \in C) /\ \A m \in C : m \in 1..Len(s) /\ (m <= i \/ m >= k)
      BY <1>1 DEF C
    <3>2. (i + 1) - 1 = i /\ (k - 1) + 1 = k
      BY <1>1
    <3> QED BY <1>1, <1>3, <2>1, <3>1, <3>2
  <2> HIDE DEF r
  <2>3. r \in RunsBehind(s, c, i)
    BY <2>1, <2>2 DEF RunsBehind, RunsOf, C
  <2> QED BY <2>3 DEF r
<1>4. ASSUME NEW r \in RunsBehind(s, c, k)
      PROVE  r \in RunsBehind(s, c, i)
  <2>1. r \in RunsOf(s, c) /\ r[1] \in 1..Len(s) /\ r[1] > k
    BY DEF RunsBehind, RunsOf
  <2>2. r[1] > i
    BY <1>1, <2>1
  <2> QED BY <2>1, <2>2 DEF RunsBehind
<1> QED BY <1>1, <1>2, <1>3, <1>4

\* A part of the text is a string.
LEMMA PieceIs ==
  ASSUME NEW s \in Seq(Letters), NEW i \in Nat, NEW j \in Nat, i <= j, j <= Len(s)
  PROVE  /\ Piece(s, <<i + 1, j>>) = SubSeq(s, i + 1, j)
         /\ Piece(s, <<i + 1, j>>) \in Seq(Letters)
<1>1. Piece(s, <<i + 1, j>>) = SubSeq(s, i + 1, j)
  BY DEF Piece
<1>2. SubSeq(s, i + 1, j) \in Seq(Letters)
  BY PartOf
<1> QED BY <1>1, <1>2

\* What stands between two tokens is not empty.
LEMMA PieceOfRun ==
  ASSUME NEW s \in Seq(Letters), NEW c, NEW r \in RunsOf(s, c)
  PROVE  Piece(s, r) \in Seq(Letters)
<1>1. r[1] \in 1..Len(s) /\ r[2] \in 1..Len(s) /\ r[1] <= r[2] /\ r = <<r[1], r[2]>> /\ Len(s) \in Nat
  BY LenProperties DEF RunsOf
<1> DEFINE i == r[1] - 1
           j == r[2]
<1>2. i \in Nat /\ j \in Nat /\ i <= j /\ j <= Len(s) /\ i + 1 = r[1]
  BY <1>1
<1>3. r = <<i + 1, j>>
  BY <1>1, <1>2
<1> HIDE DEF i, j
<1>4. Piece(s, <<i + 1, j>>) \in Seq(Letters)
  BY <1>2, PieceIs
<1> QED BY <1>3, <1>4

\* The last piece of spe_buf_split.
LEMMA LastListed ==
  ASSUME NEW s \in Seq(Letters), NEW c, NEW i \in {0} \cup CutsOf(s, c),
         \A k \in CutsOf(s, c) : k <= i
  PROVE  Listed(s, c, i, IF i = Len(s) THEN <<>> ELSE <<Piece(s, <<i + 1, Len(s)>>)>>)
<1> DEFINE R == RunsBehind(s, c, i)
           run == <<i + 1, Len(s)>>
<1>1. i \in 0..Len(s) /\ R = (IF i = Len(s) THEN {} ELSE {run}) /\ Len(s) \in Nat
  BY LastRun, LenProperties
<1> HIDE DEF R
<1>2. CASE i = Len(s)
  <2> DEFINE r == [k \in 1..0 |-> run]
             a == [k \in 1..0 |-> Piece(s, r[k])]
  <2>1. r \in [1..0 -> R] /\ 0 \in 0..Len(s) - i /\ a = <<>> /\ \A k \in 1..0 : FALSE
    BY <1>1
  <2>2. \A x \in R : FALSE
    BY <1>1, <1>2
  <2> HIDE DEF r
  <2>3. /\ \A k \in 1..0 : \A m \in 1..0 : k < m => r[k][1] < r[m][1]
        /\ \A x \in R : \E k \in 1..0 : r[k] = x
    BY <2>1, <2>2
  <2>4. Listed(s, c, i, a)
    BY <2>1, <2>3 DEF Listed, R
  <2> HIDE DEF a
  <2> QED BY <1>2, <2>1, <2>4
<1>3. CASE i # Len(s)
  <2> DEFINE r == [k \in 1..1 |-> run]
             a == [k \in 1..1 |-> Piece(s, r[k])]
  <2>1. r \in [1..1 -> R] /\ 1 \in 0..Len(s) - i
    BY <1>1, <1>3
  <2>2. \A k \in 1..1 : r[k] = run /\ k = 1
    OBVIOUS
  <2>3. 1 \in 1..1 /\ r[1] = run
    OBVIOUS
  <2> HIDE DEF r, run
  <2>4. /\ \A k \in 1..1 : \A m \in 1..1 : k < m => r[k][1] < r[m][1]
        /\ \A x \in R : \E k \in 1..1 : r[k] = x
    <3>1. \A k \in 1..1 : \A m \in 1..1 : ~(k < m)
      OBVIOUS
    <3>2. \A x \in R : x = run
      BY <1>1, <1>3
    <3> QED BY <2>3, <3>1, <3>2
  <2>5. Listed(s, c, i, a)
    <3>1. a = [k \in 1..1 |-> Piece(s, r[k])]
      OBVIOUS
    <3> HIDE DEF a
    <3> QED BY <2>1, <2>4, <3>1 DEF Listed, R
  <2>6. a = <<Piece(s, run)>>
    BY <2>2
  <2> HIDE DEF a
  <2> QED BY <1>3, <2>5, <2>6 DEF run
<1> QED BY <1>2, <1>3

\* A piece in front of the pieces behind it.
LEMMA OnePieceMore ==
  ASSUME NEW s \in Seq(Letters), NEW c, NEW i \in {0} \cup CutsOf(s, c), NEW k \in CutsOf(s, c), i < k,
         \A m \in CutsOf(s, c) : m <= i \/ m >= k, NEW a, Listed(s, c, k, a)
  PROVE  /\ a \in Seq(Seq(Letters))
         /\ Listed(s, c, i, IF k = i + 1 THEN a ELSE <<Piece(s, <<i + 1, k - 1>>)>> \o a)
<1> DEFINE R == RunsBehind(s, c, i)
           Q == RunsBehind(s, c, k)
           run == <<i + 1, k - 1>>
           x == Piece(s, run)
<1>1. /\ i \in 0..Len(s) /\ k \in 1..Len(s) /\ Len(s) \in Nat
      /\ R = (IF k = i + 1 THEN {} ELSE {run}) \cup Q
  BY FirstRun, LenProperties
<1>2. \A q \in Q : q[1] > k /\ q[1] \in Nat /\ Piece(s, q) \in Seq(Letters)
  <2> TAKE q \in Q
  <2>1. q \in RunsOf(s, c) /\ q[1] > k /\ q[1] \in Nat
    BY DEF RunsBehind, RunsOf
  <2> QED BY <2>1, PieceOfRun
<1>3. run[1] = i + 1
  OBVIOUS
<1>4. k # i + 1 => x \in Seq(Letters)
  <2> SUFFICES ASSUME k # i + 1 PROVE x \in Seq(Letters)
    OBVIOUS
  <2> DEFINE j == k - 1
  <2>1. i \in Nat /\ j \in Nat /\ i <= j /\ j <= Len(s)
    BY <1>1
  <2> HIDE DEF j
  <2>2. Piece(s, <<i + 1, j>>) \in Seq(Letters)
    BY <2>1, PieceIs
  <2> QED BY <2>2 DEF j
<1>5. PICK n \in 0..Len(s) - k : \E r \in [1..n -> Q] :
        /\ \A l \in 1..n : \A m \in 1..n : l < m => r[l][1] < r[m][1]
        /\ \A q \in Q : \E l \in 1..n : r[l] = q
        /\ a = [l \in 1..n |-> Piece(s, r[l])]
  BY DEF Listed
<1> HIDE DEF R, Q, run, x
<1>6. PICK r \in [1..n -> Q] :
        /\ \A l \in 1..n : \A m \in 1..n : l < m => r[l][1] < r[m][1]
        /\ \A q \in Q : \E l \in 1..n : r[l] = q
        /\ a = [l \in 1..n |-> Piece(s, r[l])]
  BY <1>5
<1>7. n \in Nat /\ n \in 0..Len(s) - i /\ n + 1 \in 0..Len(s) - i
  BY <1>1
<1>8. a \in Seq(Seq(Letters)) /\ Len(a) = n
  <2>1. a \in [1..n -> Seq(Letters)]
    BY <1>2, <1>6
  <2> QED BY <1>7, <2>1, SeqDef, LenProperties
<1>9. CASE k = i + 1
  <2>1. R = Q
    BY <1>1, <1>9
  <2>2. Listed(s, c, i, a)
    BY <1>6, <1>7, <2>1 DEF Listed, R
  <2> QED BY <1>8, <1>9, <2>2
<1>10. CASE k # i + 1
  <2> DEFINE p == [m \in 1..n + 1 |-> IF m = 1 THEN run ELSE r[m - 1]]
             b == <<x>> \o a
             d == [m \in 1..n + 1 |-> Piece(s, p[m])]
  <2>1. R = {run} \cup Q
    BY <1>1, <1>10
  <2>2. /\ p[1] = run
        /\ \A m \in 2..n + 1 : m - 1 \in 1..n /\ p[m] = r[m - 1] /\ p[m] \in Q
        /\ \A l \in 1..n : p[l + 1] = r[l]
    BY <1>6, <1>7
  <2>3. p \in [1..n + 1 -> R]
    <3>1. \A m \in 1..n + 1 : p[m] \in R
      <4> HIDE DEF p
      <4>1. \A m \in 1..n + 1 : m = 1 \/ m \in 2..n + 1
        BY <1>7
      <4> QED BY <2>1, <2>2, <4>1
    <3> QED BY <3>1
  <2>4. \A m \in 1..n + 1 : d[m] = Piece(s, p[m])
    OBVIOUS
  <2>5. d \in [1..n + 1 -> Seq(Letters)]
    <3>1. \A m \in 1..n + 1 : Piece(s, p[m]) \in Seq(Letters)
      <4> HIDE DEF p
      <4>1. \A m \in 1..n + 1 : m = 1 \/ m \in 2..n + 1
        BY <1>7
      <4>2. Piece(s, run) \in Seq(Letters)
        BY <1>4, <1>10 DEF x
      <4> QED BY <1>2, <2>2, <4>1, <4>2
    <3> HIDE DEF p
    <3> QED BY <3>1
  <2>a. d = [m \in 1..n + 1 |-> Piece(s, p[m])]
    OBVIOUS
  <2> HIDE DEF p, d
  <2>6. d \in Seq(Seq(Letters)) /\ Len(d) = n + 1
    <3>1. n + 1 \in Nat
      BY <1>7
    <3> QED BY <2>5, <3>1, SeqDef, LenProperties
  <2>7. <<x>> \in Seq(Seq(Letters)) /\ Len(<<x>>) = 1 /\ <<x>>[1] = x
    BY <1>4, <1>10
  <2>8. /\ b \in Seq(Seq(Letters)) /\ Len(b) = 1 + n
        /\ \A m \in 1..1 + n : b[m] = IF m <= 1 THEN <<x>>[m] ELSE a[m - 1]
    BY <1>8, <2>7, ConcatProperties
  <2> HIDE DEF b
  <2>9. ASSUME NEW m \in 1..n + 1
        PROVE  b[m] = d[m]
    <3>1. CASE m = 1
      BY <1>7, <2>2, <2>4, <2>7, <2>8, <3>1 DEF x
    <3>2. CASE m # 1
      <4>1. m \in 2..n + 1 /\ m \in 1..1 + n /\ ~(m <= 1)
        BY <1>7, <3>2
      <4> DEFINE l == m - 1
      <4>2. l \in 1..n /\ p[m] = r[l]
        BY <2>2, <4>1
      <4>3. b[m] = a[l]
        BY <2>8, <4>1
      <4> HIDE DEF l
      <4>4. a[l] = Piece(s, r[l])
        BY <1>6, <4>2
      <4> QED BY <2>4, <4>2, <4>3, <4>4
    <3> QED BY <3>1, <3>2
  <2>10. b = d
    <3>1. Len(b) = Len(d) /\ Len(b) = n + 1
      BY <1>7, <2>6, <2>8
    <3> QED BY <2>6, <2>8, <2>9, <3>1, SeqEqual
  <2>11. \A l \in 1..n + 1 : \A m \in 1..n + 1 : l < m => p[l][1] < p[m][1]
    <3> SUFFICES ASSUME NEW l \in 1..n + 1, NEW m \in 1..n + 1, l < m
                 PROVE  p[l][1] < p[m][1]
      OBVIOUS
    <3>1. m \in 2..n + 1 /\ p[m] = r[m - 1] /\ p[m] \in Q /\ m - 1 \in 1..n
      <4>1. m \in 2..n + 1
        BY <1>7
      <4> QED BY <2>2, <4>1
    <3>2. CASE l = 1
      <4>1. p[l][1] = i + 1
        BY <1>3, <2>2, <3>2
      <4>2. p[m][1] > k /\ p[m][1] \in Nat
        BY <1>2, <3>1
      <4> QED BY <1>1, <4>1, <4>2
    <3>3. CASE l # 1
      <4>1. l \in 2..n + 1
        BY <1>7, <3>3
      <4>2. p[l] = r[l - 1] /\ l - 1 \in 1..n
        BY <2>2, <4>1
      <4>3. l - 1 < m - 1
        BY <1>7
      <4> DEFINE l1 == l - 1
                 m1 == m - 1
      <4>4. l1 \in 1..n /\ m1 \in 1..n /\ l1 < m1 /\ p[l] = r[l1] /\ p[m] = r[m1]
        BY <3>1, <4>2, <4>3
      <4> HIDE DEF l1, m1
      <4> QED BY <1>6, <4>4
    <3> QED BY <3>2, <3>3
  <2>12. \A q \in R : \E l \in 1..n + 1 : p[l] = q
    <3> TAKE q \in R
    <3>1. CASE q = run
      <4>1. 1 \in 1..n + 1
        BY <1>7
      <4> QED BY <2>2, <3>1, <4>1
    <3>2. CASE q \in Q
      <4>1. PICK l \in 1..n : r[l] = q
        BY <1>6, <3>2
      <4>2. l + 1 \in 1..n + 1
        BY <1>7
      <4> QED BY <2>2, <4>1, <4>2
    <3> QED BY <2>1, <3>1, <3>2
  <2>13. Listed(s, c, i, d)
    <3> DEFINE N == n + 1
    <3>1. N \in 0..Len(s) - i /\ p \in [1..N -> R] /\ d = [m \in 1..N |-> Piece(s, p[m])]
      BY <1>7, <2>3, <2>a
    <3>2. /\ \A l \in 1..N : \A m \in 1..N : l < m => p[l][1] < p[m][1]
          /\ \A q \in R : \E l \in 1..N : p[l] = q
      BY <2>11, <2>12
    <3> HIDE DEF N
    <3> QED BY <3>1, <3>2 DEF Listed, R
  <2>14. Listed(s, c, i, b)
    BY <2>10, <2>13
  <2> QED BY <1>8, <1>10, <2>14 DEF b, x, run
<1> QED BY <1>9, <1>10

\* The token is found in the bytes behind i, if a token that counts is there.
Behind(s, i) == SubSeq(s, i + 1, Len(s))

\* strpbrk in the loop of spe_buf_split finds the next token.
LEMMA FindCut ==
  ASSUME B!BufAssumption, NEW s \in Seq(Letters), NEW c \in Letters \ {NUL},
         NEW i \in {0} \cup CutsOf(s, c)
  PROVE  \/ B!Find(Behind(s, i), <<c>>) = -1 /\ \A k \in CutsOf(s, c) : k <= i
         \/ \E k \in CutsOf(s, c) : /\ i < k /\ B!Find(Behind(s, i), <<c>>) = k - i - 1
                                    /\ \A m \in CutsOf(s, c) : m <= i \/ m >= k
<1> DEFINE rest == Behind(s, i)
           key == <<c>>
           Pl == PlacesOf(rest, key)
           C == CutsOf(s, c)
<1>1. /\ Len(s) \in Nat /\ i \in 0..Len(s) /\ C \subseteq 1..Len(s)
      /\ \A j \in 1..i : s[j] # NUL
  BY LenProperties DEF CutsOf
<1>2. /\ rest \in Seq(Letters) /\ Len(rest) = Len(s) - i
      /\ \A n \in 1..Len(s) - i : rest[n] = s[i + n]
  BY <1>1, SplitAt DEF Behind
<1>3. key \in Seq(Letters) /\ Len(key) = 1 /\ key[1] = c
  OBVIOUS
<1> HIDE DEF rest, key
<1>4. B!Find(rest, key) = IF Pl = {} THEN -1 ELSE B!Min(Pl)
  <2>1. rest \in Seq(Cell) /\ Len(rest) <= Len(rest)
    BY <1>1, <1>2, SeqMonotonic DEF Cell
  <2> QED BY <1>2, <1>3, <2>1, FindIs
<1>5. ASSUME NEW j \in 0..Len(rest) - 1
      PROVE  /\ SubSeq(rest, j + 1, j + Len(key)) = key <=> rest[j + 1] = c
  <2> DEFINE k == j + 1
             p == SubSeq(rest, j + 1, k)
  <2>1. j \in Nat /\ k \in Nat /\ j <= k /\ k <= Len(rest) /\ k - j = 1
    BY <1>1, <1>2
  <2> HIDE DEF k
  <2>2. p \in Seq(Letters) /\ Len(p) = k - j /\ \A n \in 1..k - j : p[n] = rest[j + n]
    BY <1>2, <2>1, PartOf
  <2> HIDE DEF p
  <2>3. Len(p) = 1 /\ p[1] = rest[j + 1]
    BY <2>1, <2>2
  <2>4. p = key <=> p[1] = c
    <3>1. p[1] = c => p = key
      BY <1>3, <2>2, <2>3, SeqEqual
    <3> QED BY <1>3, <3>1
  <2> QED BY <1>3, <2>3, <2>4 DEF p, k
<1>6. ASSUME NEW j \in Pl
      PROVE  j \in Nat /\ i + j + 1 \in C
  <2>1. /\ j \in 0..Len(rest) - 1 /\ SubSeq(rest, j + 1, j + Len(key)) = key
        /\ \A m \in 1..j + Len(key) : rest[m] # NUL
    BY <1>3 DEF PlacesOf
  <2>2. rest[j + 1] = c
    BY <1>5, <2>1
  <2>3. j + 1 \in 1..Len(s) - i /\ i + (j + 1) = i + j + 1 /\ i + j + 1 \in 1..Len(s)
    BY <1>1, <1>2, <2>1
  <2>4. s[i + j + 1] = c
    BY <1>2, <2>2, <2>3
  <2>5. ASSUME NEW m \in 1..i + j + 1
        PROVE  s[m] # NUL
    <3>1. CASE m <= i
      <4>1. m \in 1..i
        BY <1>1, <2>1, <3>1
      <4> QED BY <1>1, <4>1
    <3>2. CASE ~(m <= i)
      <4> DEFINE n == m - i
      <4>1. n \in 1..Len(s) - i /\ n \in 1..j + Len(key) /\ i + n = m
        BY <1>1, <1>2, <1>3, <2>1, <2>3, <3>2
      <4> HIDE DEF n
      <4> QED BY <1>2, <2>1, <4>1
    <3> QED BY <3>1, <3>2
  <2> QED BY <2>1, <2>3, <2>4, <2>5 DEF CutsOf
<1>7. ASSUME NEW k \in C, k > i
      PROVE  k - i - 1 \in Pl
  <2> DEFINE j == k - i - 1
  <2>1. k \in 1..Len(s) /\ s[k] = c /\ \A m \in 1..k : s[m] # NUL
    BY DEF CutsOf
  <2>2. j \in 0..Len(rest) - 1 /\ j + 1 \in 1..Len(s) - i /\ i + (j + 1) = k
    BY <1>1, <1>2, <1>7, <2>1
  <2> HIDE DEF j
  <2>3. rest[j + 1] = c
    BY <1>2, <2>1, <2>2
  <2>4. ASSUME NEW m \in 1..j + Len(key)
        PROVE  rest[m] # NUL
    <3>1. m \in 1..Len(s) - i /\ i + m \in 1..k
      BY <1>1, <1>2, <1>3, <2>1, <2>2
    <3> QED BY <1>2, <2>1, <3>1
  <2>5. j \in Pl
    BY <1>3, <1>5, <2>2, <2>3, <2>4 DEF PlacesOf
  <2> QED BY <2>5 DEF j
<1>8. CASE Pl = {}
  <2>1. \A k \in C : k <= i
    <3> HIDE DEF Pl
    <3> QED BY <1>1, <1>7, <1>8
  <2> QED BY <1>4, <1>8, <2>1 DEF rest, key
<1>9. CASE Pl # {}
  <2>1. Pl \subseteq Nat /\ Pl \subseteq Int
    <3> HIDE DEF Pl
    <3> QED BY <1>6
  <2> HIDE DEF Pl
  <2>2. PICK j \in Pl : \A n \in Pl : j <= n
    BY <1>9, <2>1, LeastNatural
  <2>3. B!Find(rest, key) = j
    BY <1>4, <1>9, <2>1, <2>2, LeastIs
  <2> DEFINE k == i + j + 1
  <2>4. k \in C /\ j \in Nat
    BY <1>6
  <2>5. i < k /\ j = k - i - 1 /\ k \in Nat
    BY <1>1, <2>4
  <2>6. \A m \in C : m <= i \/ m >= k
    <3> TAKE m \in C
    <3>1. m \in Nat
      BY <1>1
    <3>2. CASE m > i
      <4>1. m - i - 1 \in Pl
        BY <1>7, <3>2
      <4>2. j <= m - i - 1
        BY <2>2, <4>1
      <4> QED BY <1>1, <2>4, <3>1, <4>2
    <3> QED BY <1>1, <3>1, <3>2
  <2> HIDE DEF k
  <2> QED BY <2>3, <2>4, <2>5, <2>6 DEF rest, key
<1> QED BY <1>8, <1>9

\* What is found is inside.
LEMMA FindInside ==
  ASSUME NEW s \in Seq(Letters), NEW c \in Letters
  PROVE  B!Find(s, <<c>>) = -1 \/ B!Find(s, <<c>>) \in 0..Len(s) - 1
<1> DEFINE key == <<c>>
           Pl == PlacesOf(s, key)
<1>1. key \in Seq(Letters) /\ Len(key) = 1 /\ Len(s) \in Nat
  BY LenProperties
<1> HIDE DEF key
<1>2. B!Find(s, key) = IF Pl = {} THEN -1 ELSE B!Min(Pl)
  <2>1. s \in Seq(Cell) /\ Len(s) <= Len(s)
    BY <1>1, SeqMonotonic DEF Cell
  <2> QED BY <1>1, <2>1, FindIs
<1>3. Pl \subseteq 0..Len(s) - 1
  BY <1>1 DEF PlacesOf
<1> HIDE DEF Pl
<1>4. CASE Pl # {}
  <2>1. Pl \subseteq Nat /\ Pl \subseteq Int
    BY <1>3
  <2>2. PICK j \in Pl : \A n \in Pl : j <= n
    BY <1>4, <2>1, LeastNatural
  <2>3. B!Min(Pl) = j
    BY <2>1, <2>2, LeastIs
  <2> QED BY <1>2, <1>3, <1>4, <2>3 DEF key
<1> QED BY <1>2, <1>4 DEF key

\* The pieces that the loop of spe_buf_split puts down.
LEMMA PieceTaken ==
  ASSUME NEW s \in Seq(Letters), NEW i \in Nat, NEW k \in Nat, i < k, k <= Len(s)
  PROVE  /\ SubSeq(Behind(s, i), 1, k - i - 1) = Piece(s, <<i + 1, k - 1>>)
         /\ i < Len(s)
         /\ SubSeq(Behind(s, i), 1, Len(Behind(s, i))) = Piece(s, <<i + 1, Len(s)>>)
<1> DEFINE L == Len(s)
           rest == Behind(s, i)
           e == k - i - 1
           j == k - 1
           p == SubSeq(rest, 1, e)
           q == SubSeq(s, i + 1, j)
<1>1. L \in Nat /\ i \in 0..L /\ i < L /\ k <= L
  BY LenProperties
<1>2. rest \in Seq(Letters) /\ Len(rest) = L - i /\ \A n \in 1..L - i : rest[n] = s[i + n]
  BY <1>1, SplitAt DEF Behind
<1>3. e \in 0..L - i /\ j \in Nat /\ i <= j /\ j <= L /\ j - i = e
  BY <1>1
<1> HIDE DEF rest, e, j
<1>4. p \in Seq(Letters) /\ Len(p) = e /\ \A n \in 1..e : p[n] = rest[n]
  BY <1>2, <1>3, SplitAt
<1>5. q \in Seq(Letters) /\ Len(q) = j - i /\ \A n \in 1..j - i : q[n] = s[i + n]
  BY <1>3, PartOf
<1> HIDE DEF p, q
<1>6. p = q
  <2>1. \A n \in 1..e : p[n] = q[n]
    <3> TAKE n \in 1..e
    <3>1. n \in 1..L - i /\ n \in 1..j - i
      BY <1>1, <1>3
    <3> QED BY <1>2, <1>4, <1>5, <3>1
  <2> QED BY <1>3, <1>4, <1>5, <2>1, SeqEqual
<1>7. SubSeq(rest, 1, Len(rest)) = rest
  BY <1>2, SubSeqFull
<1>8. Piece(s, <<i + 1, L>>) = SubSeq(s, i + 1, L) /\ Piece(s, <<i + 1, j>>) = SubSeq(s, i + 1, j)
  BY DEF Piece
<1> QED BY <1>1, <1>6, <1>7, <1>8 DEF p, q, rest, e, j, Behind

\* spe_buf_split gives the pieces between the tokens.
LEMMA SplitIs ==
  ASSUME B!BufAssumption, NEW b, NEW s, Proper(b, s), NEW c \in Letters \ {NUL}
  PROVE  Listed(s, c, 0, B!Split(b, <<c>>))
<1> DEFINE L == Len(s)
           C == CutsOf(s, c)
           at(i) == B!Find(Behind(s, i), <<c>>)
           piece(i, k) == IF k = 0 THEN <<>> ELSE << SubSeq(Behind(s, i), 1, k) >>
           G(u) == [i \in 0..L |->
                     IF i = L THEN <<>>
                     ELSE IF at(i) = -1 THEN piece(i, Len(Behind(s, i)))
                     ELSE piece(i, at(i)) \o u[i + at(i) + 1]]
           H(u) == [i \in 0..b.len |->
                     LET rest == B!From(B!Text(b), i)
                         place == B!Find(rest, <<c>>)
                         taken(k) == IF k = 0 THEN <<>> ELSE << B!First(rest, k) >>
                     IN IF i = b.len THEN <<>>
                        ELSE IF place = -1 THEN taken(Len(rest))
                        ELSE taken(place) \o u[i + place + Len(<<c>>)]]
           f == CHOOSE u : u = H(u)
<1>1. B!Text(b) = s /\ b.len = L /\ L \in Nat /\ s \in Seq(Letters)
  <2>1. CASE Holding(b, s)
    BY <2>1, TextIs, LenProperties DEF Holding
  <2>2. CASE Unused(b) /\ s = <<>>
    <3>1. b.len = 0 /\ Len(<<>>) = 0
      BY <2>2 DEF Unused
    <3>2. B!Text(b) = <<>>
      BY <3>1 DEF B!Text
    <3> QED BY <2>2, <3>1, <3>2
  <2> QED BY <2>1, <2>2 DEF Proper
<1>2. Len(<<c>>) = 1
  OBVIOUS
<1>3. B!Split(b, <<c>>) = f[0]
  BY DEF B!Split
<1>a. ASSUME NEW u PROVE H(u) = G(u)
  BY <1>1, <1>2 DEF B!From, B!First, Behind
<1> HIDE DEF H
<1>4. ASSUME NEW i \in 0..L
      PROVE  at(i) = -1 \/ (at(i) \in Nat /\ i + at(i) + 1 \in i + 1..L)
  <2> DEFINE t == Behind(s, i)
  <2>1. t \in Seq(Letters) /\ Len(t) = L - i
    BY <1>1, SplitAt DEF Behind
  <2> HIDE DEF t
  <2>2. B!Find(t, <<c>>) = -1 \/ B!Find(t, <<c>>) \in 0..Len(t) - 1
    BY <2>1, FindInside
  <2>3. at(i) = B!Find(t, <<c>>)
    BY DEF t
  <2> HIDE DEF at
  <2> QED BY <1>1, <2>1, <2>2, <2>3
<1> HIDE DEF at
<1>5. \E u : u = G(u)
  <2> DEFINE stop == {i \in 0..L : i = L \/ at(i) = -1}
             P == [i \in 0..L |-> IF i = L THEN <<>> ELSE piece(i, Len(Behind(s, i)))]
             Q == [i \in 0..L |-> piece(i, at(i))]
             nx == [i \in 0..L |-> i + at(i) + 1]
  <2>1. \A i \in 0..L : i \notin stop => nx[i] \in i + 1..L
    BY <1>4
  <2>2. \A i \in 0..L : /\ i \in stop <=> (i = L \/ at(i) = -1)
                        /\ P[i] = IF i = L THEN <<>> ELSE piece(i, Len(Behind(s, i)))
                        /\ Q[i] = piece(i, at(i))
                        /\ nx[i] = i + at(i) + 1
    BY <1>4
  <2> HIDE DEF stop, P, Q, nx
  <2> HIDE DEF L
  <2>3. PICK u : Given(L, stop, P, Q, nx, u)
    BY <1>1, <2>1, Downward
  <2>4. [i \in 0..L |-> IF i \in stop THEN P[i] ELSE Q[i] \o u[nx[i]]] = G(u)
    <3> HIDE DEF piece
    <3>1. \A i \in 0..L : (IF i \in stop THEN P[i] ELSE Q[i] \o u[nx[i]]) =
             IF i = L THEN <<>>
                     ELSE IF at(i) = -1 THEN piece(i, Len(Behind(s, i)))
                     ELSE piece(i, at(i)) \o u[i + at(i) + 1]
      BY <2>2
    <3> QED BY <3>1
  <2> HIDE DEF G
  <2> QED BY <2>3, <2>4 DEF Given
<1>6. f = G(f)
  <2> HIDE DEF G
  <2>1. \E u : u = H(u)
    BY <1>5, <1>a
  <2>2. f = H(f)
    BY <2>1
  <2> HIDE DEF f
  <2> QED BY <2>2, <1>a
<1>7. \A i \in 0..L : f[i] = G(f)[i]
  <2> HIDE DEF f, G
  <2> QED BY <1>6
<1> HIDE DEF f
<1>8. \A i \in 0..L : f[i] = IF i = L THEN <<>>
                     ELSE IF at(i) = -1 THEN piece(i, Len(Behind(s, i)))
                     ELSE piece(i, at(i)) \o f[i + at(i) + 1]
  <2> HIDE DEF piece
  <2> QED BY <1>7
<1> HIDE DEF G
<1>9. C \subseteq 1..L
  BY DEF CutsOf
<1> DEFINE bad == {i \in {0} \cup C : ~Listed(s, c, i, f[i])}
<1>10. CASE bad = {}
  BY <1>3, <1>10
<1>11. CASE bad # {}
  <2> DEFINE T == {L - i : i \in bad}
  <2>1. bad \subseteq 0..L
    <3>1. \A i \in bad : i \in {0} \cup C
      OBVIOUS
    <3> HIDE DEF C, bad, L
    <3>2. {0} \cup C \subseteq 0..L
      BY <1>1, <1>9
    <3> QED BY <3>1, <3>2
  <2>2. \A i \in {0} \cup C : i \notin bad => Listed(s, c, i, f[i])
    OBVIOUS
  <2>3. \A i \in bad : i \in {0} \cup C /\ ~Listed(s, c, i, f[i])
    OBVIOUS
  <2> HIDE DEF bad
  <2>4. T \subseteq Nat /\ T # {} /\ \A t \in T : \E i \in bad : t = L - i
    <3>1. \A t \in T : \E i \in bad : t = L - i
      OBVIOUS
    <3>2. \A i \in bad : L - i \in T
      OBVIOUS
    <3> HIDE DEF T, L
    <3>3. T # {}
      BY <1>11, <3>2
    <3>4. ASSUME NEW t \in T PROVE t \in Nat
      <4>1. PICK i \in bad : t = L - i
        BY <3>1
      <4>2. i \in 0..L
        BY <2>1
      <4> QED BY <1>1, <4>1, <4>2
    <3> QED BY <3>1, <3>3, <3>4
  <2>5. \A i \in bad : L - i \in T
    OBVIOUS
  <2> HIDE DEF T
  <2>6. PICK t \in T : \A r \in T : t <= r
    BY <2>4, LeastNatural
  <2>7. PICK i \in bad : t = L - i
    BY <2>4
  <2>8. \A k \in bad : k <= i
    <3> TAKE k \in bad
    <3>1. L - i <= L - k
      BY <2>5, <2>6, <2>7
    <3>2. i \in Nat /\ k \in Nat
      BY <2>1
    <3> QED BY <1>1, <3>1, <3>2
  <2>9. i \in {0} \cup C /\ i \in 0..L
    BY <2>1, <2>3
  <2>10. \/ at(i) = -1 /\ \A k \in C : k <= i
         \/ \E k \in C : i < k /\ at(i) = k - i - 1 /\ \A m \in C : m <= i \/ m >= k
    BY <1>1, <2>9, FindCut DEF at
  <2>11. CASE at(i) = -1 /\ \A k \in C : k <= i
    <3>1. Listed(s, c, i, IF i = L THEN <<>> ELSE <<Piece(s, <<i + 1, L>>)>>)
      BY <1>1, <2>9, <2>11, LastListed
    <3>2. CASE i = L
      BY <1>8, <2>3, <2>9, <3>1, <3>2
    <3>3. CASE i # L
      <4>1. f[i] = piece(i, Len(Behind(s, i)))
        BY <1>8, <2>9, <2>11, <3>3
      <4>2. Len(Behind(s, i)) = L - i /\ L - i # 0
        BY <1>1, <2>9, <3>3, SplitAt DEF Behind
      <4>3. SubSeq(Behind(s, i), 1, Len(Behind(s, i))) = Piece(s, <<i + 1, Len(s)>>)
        <5>1. i \in Nat /\ L \in Nat /\ i < L /\ L <= Len(s)
          BY <1>1, <2>9, <3>3
        <5> QED BY <1>1, <5>1, PieceTaken
      <4>4. f[i] = <<Piece(s, <<i + 1, L>>)>>
        BY <4>1, <4>2, <4>3
      <4> QED BY <2>3, <3>1, <3>3, <4>4
    <3> QED BY <3>2, <3>3
  <2>12. CASE \E k \in C : i < k /\ at(i) = k - i - 1 /\ \A m \in C : m <= i \/ m >= k
    <3>1. PICK k \in C : i < k /\ at(i) = k - i - 1 /\ \A m \in C : m <= i \/ m >= k
      BY <2>12
    <3>2. k \in 1..L /\ i # L /\ at(i) # -1 /\ i + at(i) + 1 = k
      BY <1>1, <1>9, <2>9, <3>1
    <3>3. Listed(s, c, k, f[k])
      <4>1. k \notin bad
        BY <1>1, <2>8, <2>9, <3>1, <3>2
      <4> QED BY <2>2, <4>1
    <3> DEFINE a == f[k]
    <3>4. f[i] = piece(i, k - i - 1) \o a
      BY <1>8, <2>9, <3>1, <3>2
    <3>5. /\ a \in Seq(Seq(Letters))
          /\ Listed(s, c, i, IF k = i + 1 THEN a ELSE <<Piece(s, <<i + 1, k - 1>>)>> \o a)
      BY <1>1, <2>9, <3>1, <3>3, OnePieceMore
    <3> HIDE DEF a
    <3>6. CASE k = i + 1
      <4>1. k - i - 1 = 0
        BY <1>1, <2>9, <3>6
      <4>2. <<>> \o a = a
        BY <3>5, ConcatEmptySeq
      <4>3. f[i] = a
        BY <3>4, <4>1, <4>2
      <4> QED BY <2>3, <3>5, <3>6, <4>3
    <3>7. CASE k # i + 1
      <4>1. k - i - 1 # 0
        BY <1>1, <2>9, <3>2, <3>7
      <4>2. SubSeq(Behind(s, i), 1, k - i - 1) = Piece(s, <<i + 1, k - 1>>)
        <5>1. i \in Nat /\ k \in Nat /\ i < k /\ k <= Len(s)
          BY <1>1, <2>9, <3>1, <3>2
        <5> QED BY <1>1, <5>1, PieceTaken
      <4>3. f[i] = <<Piece(s, <<i + 1, k - 1>>)>> \o a
        BY <3>4, <4>1, <4>2
      <4> QED BY <2>3, <3>5, <3>7, <4>3
    <3> QED BY <3>6, <3>7
  <2> QED BY <2>10, <2>11, <2>12
<1> QED BY <1>10, <1>11

\* What is not kept between two calls.
LEMMA TidyIs ==
  ASSUME B!BufAssumption, NEW q, NEW t, Proper(q, t)
  PROVE  Proper(B!Tidy(q), t)
<1> DEFINE n == Len(q.mem)
           m == [i \in 1..n |-> IF i \in q.off + 1..q.off + q.len + 1 THEN q.mem[i] ELSE Junk]
           r == B!Tidy(q)
<1>1. /\ IsBuf(q) /\ q.bad = "no" /\ ~q.over /\ n \in Nat /\ q.off \in Nat /\ q.len \in Nat
      /\ \A i \in 1..n : q.mem[i] \in Cell
  BY LenProperties, ElementOfSeq DEF Proper, Unused, Holding, IsBuf
<1>2. r = [q EXCEPT !.mem = m]
  BY DEF B!Tidy, B!Size, Proper, Unused, Holding, IsBuf
<1>3. m \in Seq(Cell) /\ Len(m) = n
  <2>1. m \in [1..n -> Cell]
    BY <1>1 DEF Cell
  <2> HIDE DEF m
  <2> QED BY <1>1, <2>1, SeqDef, LenProperties
<1>4. \A i \in 1..n : i \in q.off + 1..q.off + q.len + 1 => m[i] = q.mem[i]
  OBVIOUS
<1> HIDE DEF m, r, n
<1>5. /\ IsBuf(r) /\ r.mem = m /\ r.off = q.off /\ r.len = q.len /\ r.bad = "no" /\ r.over = q.over
  BY <1>1, <1>2, <1>3 DEF IsBuf
<1>6. CASE Unused(q) /\ t = <<>>
  <2>1. Len(m) = 0
    BY <1>3, <1>6 DEF Unused, n
  <2>2. m = <<>>
    BY <1>3, <2>1, EmptySeq
  <2> QED BY <1>1, <1>5, <1>6, <2>2 DEF Proper, Unused, r
<1>7. CASE Holding(q, t) /\ (t # <<>> => TextEnded(q))
  <2>1. q.off + q.len < n /\ q.len = Len(t) /\ t \in Seq(Letters) /\ \A i \in 1..Len(t) : q.mem[q.off + i] = t[i]
    BY <1>7 DEF Holding, n
  <2>2. ASSUME NEW i \in 1..q.len + 1
        PROVE  m[q.off + i] = q.mem[q.off + i]
    <3> DEFINE k == q.off + i
    <3>1. k \in 1..n /\ k \in q.off + 1..q.off + q.len + 1
      BY <1>1, <2>1
    <3> HIDE DEF k
    <3> QED BY <1>4, <3>1 DEF k
  <2>3. \A i \in 1..Len(t) : m[q.off + i] = t[i]
    BY <1>1, <2>1, <2>2
  <2>4. Holding(r, t)
    BY <1>1, <1>3, <1>5, <2>1, <2>3 DEF Holding
  <2>5. TextEnded(q) => TextEnded(r)
    <3>1. q.len + 1 \in 1..q.len + 1 /\ q.off + (q.len + 1) = q.off + q.len + 1
      BY <1>1
    <3>2. m[q.off + (q.len + 1)] = q.mem[q.off + (q.len + 1)]
      BY <2>2, <3>1
    <3> QED BY <1>5, <3>1, <3>2 DEF TextEnded
  <2> QED BY <1>1, <1>5, <1>7, <2>4, <2>5 DEF Proper, r
<1> QED BY <1>6, <1>7 DEF Proper

\* The invariant: until something went wrong the buffer holds its text.
BufInv ==
  /\ buf.bad = "no" => Proper(buf, B!Text(buf))
  /\ buf.bad = "bounds" => buf.over
  /\ buf.bad = "null" => buf.mem = <<>>

\* A sound buffer has a text that is a string.
LEMMA GoodText ==
  ASSUME NEW b, NEW s, Proper(b, s)
  PROVE  B!Text(b) = s /\ s \in Seq(Letters) /\ Len(s) \in Nat
<1>1. CASE Holding(b, s)
  BY <1>1, TextIs, LenProperties DEF Holding
<1>2. CASE Unused(b) /\ s = <<>>
  <2>1. b.len = 0 /\ Len(<<>>) = 0
    BY <1>2 DEF Unused
  <2>2. B!Text(b) = <<>>
    BY <2>1 DEF B!Text
  <2> QED BY <1>2, <2>1, <2>2
<1> QED BY <1>1, <1>2 DEF Proper

\* The inductive invariant says more than InBounds.
LEMMA BufInvBounds == BufInv => B!InBounds
<1> SUFFICES ASSUME BufInv PROVE B!InBounds
  OBVIOUS
<1>1. CASE buf.bad = "no"
  <2> DEFINE s == B!Text(buf)
  <2>1. Proper(buf, s)
    BY <1>1 DEF BufInv
  <2>2. s \in Seq(Letters) /\ Len(s) \in Nat
    BY <2>1, GoodText
  <2> HIDE DEF s
  <2>3. CASE Unused(buf) /\ s = <<>>
    BY <1>1, <2>3 DEF Unused, B!InBounds, B!Sound
  <2>4. CASE Holding(buf, s) /\ (s # <<>> => TextEnded(buf))
    <3>1. buf.off + buf.len < B!Size(buf) /\ buf.len = Len(s)
      BY <2>4 DEF Holding, B!Size
    <3>2. buf.len > 0 => s # <<>>
      BY <2>2, <3>1, EmptySeq
    <3> QED BY <1>1, <2>4, <3>1, <3>2 DEF TextEnded, B!InBounds, B!Sound
  <2> QED BY <2>1, <2>3, <2>4 DEF Proper
<1>2. CASE buf.bad # "no"
  BY <1>2 DEF BufInv, B!InBounds, B!Sound
<1> QED BY <1>1, <1>2

\* The end of a call: the buffer has the new text, or something went wrong.
LEMMA LeavesIs ==
  ASSUME B!BufAssumption, BufInv, B!Sound, NEW q, NEW t, NEW name, NEW arg, NEW answer,
         Left(buf, q, t), B!Leaves(q, name, arg, answer)
  PROVE  /\ BufInv'
         /\ \/ B!Text(buf)' = t /\ last' = <<name, arg, answer>>
            \/ B!Text(buf)' = B!Text(buf) /\ last' = last
<1>1. Proper(buf, B!Text(buf)) /\ buf.bad = "no" /\ IsBuf(buf)
  BY DEF BufInv, B!Sound, Proper, Unused, Holding
<1>2. CASE q.bad = "no" /\ ~q.over
  <2>1. Proper(q, t)
    BY <1>2 DEF Left, Overrun
  <2> DEFINE r == B!Tidy(q)
  <2>2. buf' = r /\ last' = <<name, arg, answer>>
    BY <1>2 DEF B!Leaves
  <2>3. Proper(r, t)
    BY <2>1, TidyIs
  <2>4. B!Text(r) = t
    BY <2>3, GoodText
  <2>5. r.bad = "no"
    BY <2>3 DEF Proper, Unused, Holding
  <2> HIDE DEF r
  <2>6. B!Text(buf)' = t
    BY <2>2, <2>4 DEF B!Text, B!Size
  <2>7. BufInv'
    <3>1. (buf.bad = "no")' /\ ~(buf.bad = "bounds")' /\ ~(buf.bad = "null")'
      BY <2>2, <2>5
    <3>2. Proper(buf, t)'
      BY <2>2, <2>3 DEF Proper, Unused, Holding, TextEnded, IsBuf
    <3>3. Proper(buf, B!Text(buf))'
      BY <2>6, <3>2 DEF Proper, Unused, Holding, TextEnded, IsBuf
    <3> QED BY <3>1, <3>3 DEF BufInv
  <2> QED BY <2>2, <2>6, <2>7
<1>3. CASE ~(q.bad = "no" /\ ~q.over)
  <2> DEFINE bad == IF q.bad = "no" THEN "size" ELSE q.bad
             r == [buf EXCEPT !.bad = bad, !.over = q.over]
  <2>1. buf' = r /\ last' = last
    BY <1>3 DEF B!Leaves
  <2>2. r.bad = bad /\ r.mem = buf.mem /\ r.off = buf.off /\ r.len = buf.len /\ r.over = q.over
    BY <1>1 DEF IsBuf
  <2>3. Overrun(buf, q) \/ (Unused(buf) /\ q.bad = "null")
    BY <1>3 DEF Left, Proper, Unused, Holding
  <2>4. bad # "no" /\ (bad = "bounds" => q.over) /\ (bad = "null" => buf.mem = <<>>)
    BY <2>3 DEF Overrun, Unused
  <2> HIDE DEF r, bad
  <2>5. B!Text(buf)' = B!Text(buf)
    BY <2>1, <2>2 DEF B!Text, B!Size
  <2>6. (buf.bad # "no")' /\ (buf.bad = "bounds" => buf.over)' /\ (buf.bad = "null" => buf.mem = <<>>)'
    BY <2>1, <2>2, <2>4
  <2>7. BufInv'
    BY <2>6 DEF BufInv
  <2> QED BY <2>1, <2>5, <2>7
<1> QED BY <1>2, <1>3

\* A step of the string, or none, that keeps the invariant.
BufStep == BufInv' /\ [B!String!Next]_(B!String!vars)

\* The strings handed to the calls are strings.
LEMMA Arguments ==
  ASSUME B!BufAssumption
  PROVE  /\ \A s \in B!Strings : s \in Seq(Letters) /\ s \in B!Strings \cup Keys
         /\ \A k \in Keys : k \in Seq(Letters) /\ k \in B!Strings \cup Keys
         /\ B!Counts \subseteq Nat
<1>1. MaxArg \in Nat /\ Keys \subseteq Seq(Letters)
  BY DEF B!BufAssumption
<1>2. ASSUME NEW s \in B!Strings PROVE s \in Seq(Letters)
  <2>1. PICK n \in 0..MaxArg : s \in [1..n -> Letters]
    BY DEF B!Strings
  <2>2. n \in Nat
    BY <1>1
  <2> QED BY <2>1, <2>2, SeqDef
<1>3. B!Counts \subseteq Nat
  BY <1>1 DEF B!Counts
<1> QED BY <1>1, <1>2, <1>3

\* A call that leaves text and answer alone is no step of the string.
LEMMA Stutters ==
  ASSUME BufInv', B!Text(buf)' = B!Text(buf), last' = last
  PROVE  BufStep
BY DEF BufStep, B!String!vars

\* spe_buf_create: an empty string.
LEMMA InitBuf ==
  ASSUME B!BufAssumption, B!Init
  PROVE  BufInv /\ B!String!Init
<1>1. buf = [mem |-> <<>>, off |-> 0, len |-> 0, bad |-> "no", over |-> FALSE] /\ last = <<"create", 0, 0>>
  BY DEF B!Init, B!Fresh
<1>2. <<>> \in Seq(Cell) /\ 0 \in Nat /\ FALSE \in BOOLEAN /\ "no" \in {"no", "null", "bounds", "size"}
  OBVIOUS
<1>3. IsBuf(buf)
  BY <1>1, <1>2 DEF IsBuf
<1>4. Proper(buf, <<>>)
  BY <1>1, <1>3 DEF Proper, Unused
<1>5. B!Text(buf) = <<>>
  BY <1>4, GoodText
<1> QED BY <1>1, <1>4, <1>5 DEF BufInv, B!String!Init

\* spe_buf_append adds the bytes or refuses.
LEMMA AppendStep ==
  ASSUME B!BufAssumption, BufInv, NEW s \in B!Strings, B!spe_buf_append(s)
  PROVE  BufStep
<1>1. B!Sound /\ Proper(buf, B!Text(buf)) /\ s \in Seq(Letters) /\ s \in B!Strings \cup Keys
  BY Arguments DEF BufInv, B!Sound, B!spe_buf_append
<1>2. PICK r \in B!Appended(buf, s) : B!Leaves(r.buf, "append", s, r.done)
  BY DEF B!spe_buf_append
<1> DEFINE t == IF r.done THEN B!Text(buf) \o s ELSE B!Text(buf)
<1>3. Left(buf, r.buf, t) /\ r.done \in BOOLEAN
  BY <1>1, AppendedIs DEF Tried
<1> HIDE DEF t
<1>4. /\ BufInv'
      /\ \/ B!Text(buf)' = t /\ last' = <<"append", s, r.done>>
         \/ B!Text(buf)' = B!Text(buf) /\ last' = last
  BY <1>1, <1>2, <1>3, LeavesIs
<1>5. CASE B!Text(buf)' = t /\ last' = <<"append", s, r.done>>
  <2>1. CASE r.done = TRUE
    <3>1. B!String!Add(s)
      BY <1>5, <2>1 DEF t, B!String!Add, B!String!Call
    <3> QED BY <1>1, <1>4, <3>1 DEF BufStep, B!String!Next
  <2>2. CASE r.done = FALSE
    <3>1. B!String!Refuse("append", s, FALSE)
      BY <1>5, <2>2 DEF t, B!String!Refuse, B!String!Call
    <3> QED BY <1>1, <1>4, <3>1 DEF BufStep, B!String!Next
  <2> QED BY <1>3, <2>1, <2>2
<1> QED BY <1>4, <1>5, Stutters

\* spe_buf_copy takes the bytes or refuses.
LEMMA CopyStep ==
  ASSUME B!BufAssumption, BufInv, NEW s \in B!Strings, B!spe_buf_copy(s)
  PROVE  BufStep
<1>1. B!Sound /\ Proper(buf, B!Text(buf)) /\ s \in Seq(Letters) /\ s \in B!Strings \cup Keys
  BY Arguments DEF BufInv, B!Sound, B!spe_buf_copy
<1>2. PICK r \in B!Copied(buf, s) : B!Leaves(r.buf, "copy", s, r.done)
  BY DEF B!spe_buf_copy
<1> DEFINE t == IF r.done THEN s ELSE B!Text(buf)
<1>3. Left(buf, r.buf, t) /\ r.done \in BOOLEAN
  BY <1>1, CopiedIs DEF Tried
<1> HIDE DEF t
<1>4. /\ BufInv'
      /\ \/ B!Text(buf)' = t /\ last' = <<"copy", s, r.done>>
         \/ B!Text(buf)' = B!Text(buf) /\ last' = last
  BY <1>1, <1>2, <1>3, LeavesIs
<1>5. CASE B!Text(buf)' = t /\ last' = <<"copy", s, r.done>>
  <2>1. CASE r.done = TRUE
    <3>1. B!String!Copy(s)
      BY <1>5, <2>1 DEF t, B!String!Copy, B!String!Call
    <3> QED BY <1>1, <1>4, <3>1 DEF BufStep, B!String!Next
  <2>2. CASE r.done = FALSE
    <3>1. B!String!Refuse("copy", s, FALSE)
      BY <1>5, <2>2 DEF t, B!String!Refuse, B!String!Call
    <3> QED BY <1>1, <1>4, <3>1 DEF BufStep, B!String!Next
  <2> QED BY <1>3, <2>1, <2>2
<1> QED BY <1>4, <1>5, Stutters

\* spe_buf_read_fd_append adds what was read.
LEMMA ReadAppendStep ==
  ASSUME B!BufAssumption, BufInv, NEW s \in B!Strings, B!spe_buf_read_fd_append(s)
  PROVE  BufStep
<1>1. B!Sound /\ Proper(buf, B!Text(buf)) /\ s \in Seq(Letters) /\ s \in B!Strings \cup Keys
  BY Arguments DEF BufInv, B!Sound, B!spe_buf_read_fd_append
<1>2. PICK r \in B!ReadyToAppend(buf, ReadLen) :
        \/ /\ r.done /\ Len(s) <= B!Room(r.buf, r.buf.len)
           /\ B!Leaves(B!ReadAppended(r.buf, s), "read_fd_append", s, Len(s))
        \/ ~r.done /\ B!Leaves(r.buf, "read_fd_append", s, -2)
  BY DEF B!spe_buf_read_fd_append
<1>3. CASE /\ r.done /\ Len(s) <= B!Room(r.buf, r.buf.len)
           /\ B!Leaves(B!ReadAppended(r.buf, s), "read_fd_append", s, Len(s))
  <2>1. Left(buf, B!ReadAppended(r.buf, s), B!Text(buf) \o s)
    BY <1>1, <1>3, ReadAppendedIs
  <2>2. /\ BufInv'
        /\ \/ B!Text(buf)' = B!Text(buf) \o s /\ last' = <<"read_fd_append", s, Len(s)>>
           \/ B!Text(buf)' = B!Text(buf) /\ last' = last
    BY <1>1, <1>3, <2>1, LeavesIs
  <2>3. CASE B!Text(buf)' = B!Text(buf) \o s /\ last' = <<"read_fd_append", s, Len(s)>>
    <3>1. B!String!ReadAppend(s)
      BY <2>3 DEF B!String!ReadAppend, B!String!Call
    <3> QED BY <1>1, <2>2, <3>1 DEF BufStep, B!String!Next
  <2> QED BY <2>2, <2>3, Stutters
<1>4. CASE ~r.done /\ B!Leaves(r.buf, "read_fd_append", s, -2)
  <2>1. Left(buf, r.buf, B!Text(buf))
    BY <1>1, <1>4, ReadAppendedIs
  <2>2. /\ BufInv'
        /\ \/ B!Text(buf)' = B!Text(buf) /\ last' = <<"read_fd_append", s, -2>>
           \/ B!Text(buf)' = B!Text(buf) /\ last' = last
    BY <1>1, <1>4, <2>1, LeavesIs
  <2>3. CASE B!Text(buf)' = B!Text(buf) /\ last' = <<"read_fd_append", s, -2>>
    <3>1. B!String!Refuse("read_fd_append", s, -2)
      BY <2>3 DEF B!String!Refuse, B!String!Call
    <3> QED BY <1>1, <2>2, <3>1 DEF BufStep, B!String!Next
  <2> QED BY <2>2, <2>3, Stutters
<1> QED BY <1>2, <1>3, <1>4

\* spe_buf_read_fd_copy takes what was read.
LEMMA ReadCopyStep ==
  ASSUME B!BufAssumption, BufInv, NEW s \in B!Strings, B!spe_buf_read_fd_copy(s)
  PROVE  BufStep
<1>1. B!Sound /\ Proper(buf, B!Text(buf)) /\ s \in Seq(Letters) /\ s \in B!Strings \cup Keys
  BY Arguments DEF BufInv, B!Sound, B!spe_buf_read_fd_copy
<1>2. PICK r \in B!ReadyToCopy(buf, ReadLen) :
        \/ /\ r.done /\ Len(s) <= B!Room(r.buf, 0)
           /\ B!Leaves(B!ReadCopied(r.buf, s), "read_fd_copy", s, Len(s))
        \/ ~r.done /\ B!Leaves(r.buf, "read_fd_copy", s, -2)
  BY DEF B!spe_buf_read_fd_copy
<1>3. CASE /\ r.done /\ Len(s) <= B!Room(r.buf, 0)
           /\ B!Leaves(B!ReadCopied(r.buf, s), "read_fd_copy", s, Len(s))
  <2> DEFINE t == IF s = <<>> THEN B!Text(buf) ELSE s
  <2>1. Left(buf, B!ReadCopied(r.buf, s), t)
    BY <1>1, <1>3, ReadCopiedIs
  <2> HIDE DEF t
  <2>2. /\ BufInv'
        /\ \/ B!Text(buf)' = t /\ last' = <<"read_fd_copy", s, Len(s)>>
           \/ B!Text(buf)' = B!Text(buf) /\ last' = last
    BY <1>1, <1>3, <2>1, LeavesIs
  <2>3. CASE B!Text(buf)' = t /\ last' = <<"read_fd_copy", s, Len(s)>>
    <3>1. B!String!ReadCopy(s)
      BY <2>3 DEF t, B!String!ReadCopy, B!String!Call
    <3> QED BY <1>1, <2>2, <3>1 DEF BufStep, B!String!Next
  <2> QED BY <2>2, <2>3, Stutters
<1>4. CASE ~r.done /\ B!Leaves(r.buf, "read_fd_copy", s, -2)
  <2>1. Left(buf, r.buf, B!Text(buf))
    BY <1>1, <1>4, ReadCopiedIs
  <2>2. /\ BufInv'
        /\ \/ B!Text(buf)' = B!Text(buf) /\ last' = <<"read_fd_copy", s, -2>>
           \/ B!Text(buf)' = B!Text(buf) /\ last' = last
    BY <1>1, <1>4, <2>1, LeavesIs
  <2>3. CASE B!Text(buf)' = B!Text(buf) /\ last' = <<"read_fd_copy", s, -2>>
    <3>1. B!String!Refuse("read_fd_copy", s, -2)
      BY <2>3 DEF B!String!Refuse, B!String!Call
    <3> QED BY <1>1, <2>2, <3>1 DEF BufStep, B!String!Next
  <2> QED BY <2>2, <2>3, Stutters
<1> QED BY <1>2, <1>3, <1>4

\* spe_buf_lconsume and spe_buf_rconsume take bytes from an end.
LEMMA ConsumeStep ==
  ASSUME B!BufAssumption, BufInv, NEW n \in B!Counts, B!spe_buf_lconsume(n) \/ B!spe_buf_rconsume(n)
  PROVE  BufStep
<1>1. B!Sound /\ Proper(buf, B!Text(buf)) /\ n \in Nat
  BY Arguments DEF BufInv, B!Sound, B!spe_buf_lconsume, B!spe_buf_rconsume
<1>2. CASE B!spe_buf_lconsume(n)
  <2> DEFINE t == SubSeq(B!Text(buf), n + 1, Len(B!Text(buf)))
  <2>1. Left(buf, B!LConsumed(buf, n), t)
    BY <1>1, LConsumedIs
  <2>2. B!Leaves(B!LConsumed(buf, n), "lconsume", n, 0)
    BY <1>2 DEF B!spe_buf_lconsume
  <2> HIDE DEF t
  <2>3. /\ BufInv'
        /\ \/ B!Text(buf)' = t /\ last' = <<"lconsume", n, 0>>
           \/ B!Text(buf)' = B!Text(buf) /\ last' = last
    BY <1>1, <2>1, <2>2, LeavesIs
  <2>4. CASE B!Text(buf)' = t /\ last' = <<"lconsume", n, 0>>
    <3>1. B!String!LConsume(n)
      BY <2>4 DEF t, B!String!LConsume, B!String!Call
    <3> QED BY <2>3, <3>1 DEF BufStep, B!String!Next
  <2> QED BY <2>3, <2>4, Stutters
<1>3. CASE B!spe_buf_rconsume(n)
  <2> DEFINE t == SubSeq(B!Text(buf), 1, Len(B!Text(buf)) - n)
  <2>1. Left(buf, B!RConsumed(buf, n), t)
    BY <1>1, RConsumedIs
  <2>2. B!Leaves(B!RConsumed(buf, n), "rconsume", n, 0)
    BY <1>3 DEF B!spe_buf_rconsume
  <2> HIDE DEF t
  <2>3. /\ BufInv'
        /\ \/ B!Text(buf)' = t /\ last' = <<"rconsume", n, 0>>
           \/ B!Text(buf)' = B!Text(buf) /\ last' = last
    BY <1>1, <2>1, <2>2, LeavesIs
  <2>4. CASE B!Text(buf)' = t /\ last' = <<"rconsume", n, 0>>
    <3>1. B!String!RConsume(n)
      BY <2>4 DEF t, B!String!RConsume, B!String!Call
    <3> QED BY <2>3, <3>1 DEF BufStep, B!String!Next
  <2> QED BY <2>3, <2>4, Stutters
<1> QED BY <1>2, <1>3

\* spe_buf_search answers with the first place of the key.
LEMMA SearchStep ==
  ASSUME B!BufAssumption, BufInv, NEW k \in Keys, B!spe_buf_search(k)
  PROVE  BufStep
<1>1. B!Sound /\ Proper(buf, B!Text(buf)) /\ k \in Seq(Letters) /\ k \in B!Strings \cup Keys
  BY Arguments DEF BufInv, B!Sound, B!spe_buf_search
<1> DEFINE s == B!Text(buf)
           answer == IF s = <<>> \/ PlacesOf(s, k) = {} THEN -1 ELSE B!Min(PlacesOf(s, k))
<1>2. B!Searched(buf, k) = answer
  BY <1>1, SearchedIs
<1>3. B!Leaves(buf, "search", k, B!Searched(buf, k))
  BY DEF B!spe_buf_search
<1>4. Left(buf, buf, B!Text(buf))
  BY <1>1 DEF Left
<1>5. /\ BufInv'
      /\ \/ B!Text(buf)' = B!Text(buf) /\ last' = <<"search", k, B!Searched(buf, k)>>
         \/ B!Text(buf)' = B!Text(buf) /\ last' = last
  BY <1>1, <1>3, <1>4, LeavesIs
<1>6. CASE B!Text(buf)' = B!Text(buf) /\ last' = <<"search", k, B!Searched(buf, k)>>
  <2>1. B!String!Search(k)
    BY <1>2, <1>6 DEF B!String!Search, B!String!Call, PlacesOf, B!Min, B!String!Min
  <2> QED BY <1>1, <1>5, <2>1 DEF BufStep, B!String!Next
<1> QED BY <1>5, <1>6, Stutters

\* spe_buf_strim takes the bytes of the token and zeros from both ends.
LEMMA TrimStep ==
  ASSUME B!BufAssumption, BufInv, NEW k \in Keys, B!spe_buf_strim(k)
  PROVE  BufStep
<1> DEFINE s == B!Text(buf)
           S == Stays(s, B!Trims(k))
           t == IF S = {} THEN <<>> ELSE SubSeq(s, B!Min(S), B!Max(S))
<1>1. B!Sound /\ Proper(buf, B!Text(buf)) /\ k \in Seq(Letters) /\ k \in B!Strings \cup Keys
  BY Arguments DEF BufInv, B!Sound, B!spe_buf_strim
<1>2. s \in Seq(Letters) /\ DOMAIN s = 1..Len(s)
  BY <1>1, GoodText, LenProperties
<1>3. Left(buf, B!Trimmed(buf, k), t)
  BY <1>1, TrimmedIs
<1>4. B!Leaves(B!Trimmed(buf, k), "strim", k, 0)
  BY DEF B!spe_buf_strim
<1> HIDE DEF t
<1>5. /\ BufInv'
      /\ \/ B!Text(buf)' = t /\ last' = <<"strim", k, 0>>
         \/ B!Text(buf)' = B!Text(buf) /\ last' = last
  BY <1>1, <1>3, <1>4, LeavesIs
<1>6. CASE B!Text(buf)' = t /\ last' = <<"strim", k, 0>>
  <2>1. {i \in DOMAIN B!Text(buf) : B!Text(buf)[i] \notin B!String!Range(k) \cup {NUL}} = S
    BY <1>2 DEF Stays, B!Trims, B!Range, B!String!Range
  <2>2. t = IF S = {} THEN <<>> ELSE SubSeq(s, B!String!Min(S), B!String!Max(S))
    BY DEF t, B!Min, B!String!Min, B!Max, B!String!Max
  <2> HIDE DEF S
  <2>3. B!String!Trim(k)
    BY <1>6, <2>1, <2>2 DEF B!String!Trim, B!String!Call
  <2> QED BY <1>1, <1>5, <2>3 DEF BufStep, B!String!Next
<1> QED BY <1>5, <1>6, Stutters

\* spe_buf_split gives the pieces between the tokens.
LEMMA SplitStep ==
  ASSUME B!BufAssumption, BufInv, NEW c \in Letters \ {NUL}, B!spe_buf_split(c)
  PROVE  BufStep
<1> DEFINE s == B!Text(buf)
           a == B!Split(buf, <<c>>)
<1>1. B!Sound /\ Proper(buf, B!Text(buf))
  BY DEF BufInv, B!Sound, B!spe_buf_split
<1>2. Len(s) \in Nat
  BY <1>1, GoodText
<1>3. Listed(s, c, 0, a)
  BY <1>1, SplitIs
<1>4. Left(buf, buf, B!Text(buf))
  BY <1>1 DEF Left
<1>5. B!Leaves(buf, "split", c, B!Split(buf, <<c>>))
  BY DEF B!spe_buf_split
<1>6. /\ BufInv'
      /\ \/ B!Text(buf)' = B!Text(buf) /\ last' = <<"split", c, B!Split(buf, <<c>>)>>
         \/ B!Text(buf)' = B!Text(buf) /\ last' = last
  BY <1>1, <1>4, <1>5, LeavesIs
<1>7. CASE B!Text(buf)' = B!Text(buf) /\ last' = <<"split", c, a>>
  <2> HIDE DEF a
  <2>1. B!String!Runs(c) = RunsOf(s, c)
    BY DEF B!String!Runs, B!String!Cuts, RunsOf, CutsOf
  <2>2. RunsBehind(s, c, 0) = RunsOf(s, c)
    BY <1>2 DEF RunsBehind, RunsOf
  <2>3. PICK n \in 0..Len(s) : \E r \in [1..n -> RunsOf(s, c)] :
          /\ \A k \in 1..n : \A m \in 1..n : k < m => r[k][1] < r[m][1]
          /\ \A run \in RunsOf(s, c) : \E k \in 1..n : r[k] = run
          /\ a = [k \in 1..n |-> Piece(s, r[k])]
    BY <1>2, <1>3, <2>2, SMTT(20) DEF Listed
  <2>4. PICK r \in [1..n -> RunsOf(s, c)] :
          /\ \A k \in 1..n : \A m \in 1..n : k < m => r[k][1] < r[m][1]
          /\ \A run \in RunsOf(s, c) : \E k \in 1..n : r[k] = run
          /\ a = [k \in 1..n |-> Piece(s, r[k])]
    BY <2>3
  <2>5. a = [k \in 1..n |-> SubSeq(s, r[k][1], r[k][2])]
    BY <2>4 DEF Piece
  <2>6. B!Text(buf)' = B!Text(buf)
    BY <1>7
  <2>7. r \in [1..n -> B!String!Runs(c)]
    BY <2>1
  <2>8. \A run \in B!String!Runs(c) : \E k \in 1..n : r[k] = run
    BY <2>1, <2>4
  <2>9. B!String!Call("split", c,
          [k \in 1..n |-> SubSeq(B!Text(buf), r[k][1], r[k][2])])
    BY <1>7, <2>5 DEF B!String!Call
  <2>10. \E q \in [1..n -> B!String!Runs(c)] :
           /\ \A k \in 1..n : \A m \in 1..n : k < m => q[k][1] < q[m][1]
           /\ \A run \in B!String!Runs(c) : \E k \in 1..n : q[k] = run
           /\ B!String!Call("split", c,
                [k \in 1..n |-> SubSeq(B!Text(buf), q[k][1], q[k][2])])
    <3> WITNESS r \in [1..n -> B!String!Runs(c)]
    <3> QED BY <2>4, <2>8, <2>9
  <2>11. B!String!Split(c)
    <3>1. n \in 0..Len(B!Text(buf))
      BY <2>3
    <3> QED BY <2>6, <2>10, <3>1, Zenon DEF B!String!Split
  <2> QED BY <1>6, <2>11 DEF BufStep, B!String!Next
<1> QED BY <1>6, <1>7, Stutters

\* spe_buf_to_lower and spe_buf_to_upper change every byte.
LEMMA CaseStep ==
  ASSUME B!BufAssumption, BufInv, B!spe_buf_to_lower \/ B!spe_buf_to_upper
  PROVE  BufStep
<1> DEFINE s == B!Text(buf)
           l == [i \in 1..Len(s) |-> Lower(s[i])]
           u == [i \in 1..Len(s) |-> Upper(s[i])]
<1>1. B!Sound /\ Proper(buf, B!Text(buf))
  BY DEF BufInv, B!Sound, B!spe_buf_to_lower, B!spe_buf_to_upper
<1>2. DOMAIN s = 1..Len(s)
  BY <1>1, GoodText, LenProperties
<1>3. Left(buf, B!Recased(buf, Lower), l) /\ Left(buf, B!Recased(buf, Upper), u)
  BY <1>1, RecasedIs DEF Left
<1> HIDE DEF l, u
<1>4. CASE B!spe_buf_to_lower
  <2>1. B!Leaves(B!Recased(buf, Lower), "to_lower", 0, 0)
    BY <1>4 DEF B!spe_buf_to_lower
  <2>2. /\ BufInv'
        /\ \/ B!Text(buf)' = l /\ last' = <<"to_lower", 0, 0>>
           \/ B!Text(buf)' = B!Text(buf) /\ last' = last
    BY <1>1, <1>3, <2>1, LeavesIs
  <2>3. CASE B!Text(buf)' = l /\ last' = <<"to_lower", 0, 0>>
    <3>1. B!String!ToLower
      BY <1>2, <2>3 DEF l, B!String!ToLower, B!String!Call
    <3> QED BY <2>2, <3>1 DEF BufStep, B!String!Next
  <2> QED BY <2>2, <2>3, Stutters
<1>5. CASE B!spe_buf_to_upper
  <2>1. B!Leaves(B!Recased(buf, Upper), "to_upper", 0, 0)
    BY <1>5 DEF B!spe_buf_to_upper
  <2>2. /\ BufInv'
        /\ \/ B!Text(buf)' = u /\ last' = <<"to_upper", 0, 0>>
           \/ B!Text(buf)' = B!Text(buf) /\ last' = last
    BY <1>1, <1>3, <2>1, LeavesIs
  <2>3. CASE B!Text(buf)' = u /\ last' = <<"to_upper", 0, 0>>
    <3>1. B!String!ToUpper
      BY <1>2, <2>3 DEF u, B!String!ToUpper, B!String!Call
    <3> QED BY <2>2, <3>1 DEF BufStep, B!String!Next
  <2> QED BY <2>2, <2>3, Stutters
<1> QED BY <1>4, <1>5

\* spe_buf_clean empties the string.
LEMMA CleanBufStep ==
  ASSUME B!BufAssumption, BufInv, B!spe_buf_clean
  PROVE  BufStep
<1>1. B!Sound /\ Proper(buf, B!Text(buf))
  BY DEF BufInv, B!Sound, B!spe_buf_clean
<1>2. Left(buf, B!Cleaned(buf), <<>>)
  BY <1>1, CleanedIs DEF Left
<1>3. B!Leaves(B!Cleaned(buf), "clean", 0, 0)
  BY DEF B!spe_buf_clean
<1>4. /\ BufInv'
      /\ \/ B!Text(buf)' = <<>> /\ last' = <<"clean", 0, 0>>
         \/ B!Text(buf)' = B!Text(buf) /\ last' = last
  BY <1>1, <1>2, <1>3, LeavesIs
<1>5. CASE B!Text(buf)' = <<>> /\ last' = <<"clean", 0, 0>>
  <2>1. B!String!Clean
    BY <1>5 DEF B!String!Clean, B!String!Call
  <2> QED BY <1>4, <2>1 DEF BufStep, B!String!Next
<1> QED BY <1>4, <1>5, Stutters

\* The inductive step: one case per operation of the buffer.
LEMMA NextBuf ==
  ASSUME B!BufAssumption, BufInv, [B!Next]_(B!vars)
  PROVE  BufStep
<1>1. CASE UNCHANGED B!vars
  <2>1. buf' = buf /\ last' = last
    BY <1>1 DEF B!vars
  <2>2. B!Text(buf)' = B!Text(buf)
    BY <2>1 DEF B!Text, B!Size
  <2>3. Proper(buf, B!Text(buf))' <=> Proper(buf, B!Text(buf))
    BY <2>1, <2>2 DEF Proper, Unused, Holding, TextEnded, IsBuf
  <2>4. BufInv'
    BY <2>1, <2>3 DEF BufInv
  <2> QED BY <2>1, <2>2, <2>4, Stutters
<1>2. ASSUME NEW s \in B!Strings,
             \/ B!spe_buf_append(s) \/ B!spe_buf_copy(s)
             \/ B!spe_buf_read_fd_append(s) \/ B!spe_buf_read_fd_copy(s)
      PROVE  BufStep
  BY <1>2, AppendStep, CopyStep, ReadAppendStep, ReadCopyStep
<1>3. ASSUME NEW k \in Keys, B!spe_buf_search(k) \/ B!spe_buf_strim(k)
      PROVE  BufStep
  BY <1>3, SearchStep, TrimStep
<1>4. ASSUME NEW n \in B!Counts, B!spe_buf_lconsume(n) \/ B!spe_buf_rconsume(n)
      PROVE  BufStep
  BY <1>4, ConsumeStep
<1>5. ASSUME NEW c \in Letters \ {NUL}, B!spe_buf_split(c)
      PROVE  BufStep
  BY <1>5, SplitStep
<1>6. CASE B!spe_buf_to_lower \/ B!spe_buf_to_upper \/ B!spe_buf_clean
  BY <1>6, CaseStep, CleanBufStep
<1> QED BY <1>1, <1>2, <1>3, <1>4, <1>5, <1>6 DEF B!Next

\* Every behaviour of the byte buffer is one of a string of bytes (ByteString): each
\* operation changes and answers what it should, and the bytes stay inside the memory
\* with the terminator behind them.  For every string, and every width of unsigned.
THEOREM BufImplementsString ==
  ASSUME B!BufAssumption
  PROVE  B!Spec => []B!InBounds /\ B!IsByteString
<1>1. B!Init => BufInv /\ B!String!Init
  BY InitBuf
<1>2. BufInv /\ [B!Next]_(B!vars) => BufInv' /\ [B!String!Next]_(B!String!vars)
  BY NextBuf DEF BufStep
<1>3. BufInv => B!InBounds
  BY BufInvBounds
<1> QED BY <1>1, <1>2, <1>3, PTL DEF B!Spec, B!IsByteString, B!String!Spec

\* A buffer is the string of bytes that the calls make of it, and its bytes stay
\* inside its memory.  For strings of any length.
THEOREM BufferRight == BuffersSpec => BufferIsString
<1>1. B!BufAssumption
  BY BuffersAssumption
<1>2. [BuffersNext]_<<part, buf, last>> => [B!Next]_(B!vars)
  BY DEF BuffersNext, B!vars
<1>3. B!Spec => []B!InBounds /\ B!IsByteString
  BY <1>1, BufImplementsString
<1>4. ASSUME [BuffersNext]_<<part, buf, last>>, [B!String!Next]_(B!String!vars)
      PROVE  [part = "buf" /\ B!String!Next]_(B!String!vars)
  <2>1. CASE part = "buf"
    BY <1>4, <2>1
  <2>2. CASE part # "buf"
    <3>1. UNCHANGED <<buf, last>>
      BY <1>4, <2>2 DEF BuffersNext
    <3>2. UNCHANGED B!String!vars
      BY <3>1 DEF B!String!vars, B!Text
    <3> QED BY <3>2
  <2> QED BY <2>1, <2>2
<1> QED
  BY <1>2, <1>3, <1>4, PTL
     DEF BuffersSpec, BufferIsString, B!Spec, B!IsByteString, B!String!Spec
=============================================================================
