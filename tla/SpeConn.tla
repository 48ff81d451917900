------------------------------ MODULE SpeConn ------------------------------
(***************************************************************************)
(* spe_conn.c on top of spe_epoll.c and spe_task.c: one connection of a    *)
(* worker, from spe_conn_create to spe_conn_destroy, and those that come   *)
(* after it on the same descriptor.                                        *)
(*                                                                         *)
(* The user starts an operation (connect, one of the three reads, flush).  *)
(* It ends at once or, when the socket has nothing to give or to take,     *)
(* later in read_task or write_task, which epoll or their timer schedule;  *)
(* then post_read_task or post_write_task is scheduled to tell the user.   *)
(*                                                                         *)
(* All this is one thread, the loop of spe_worker_process: it finds what   *)
(* is ready, fires the timers that are due, and runs tasks until           *)
(* the queue is empty.  User code runs in tasks, or in the accept handler. *)
(* Socket and peer go on meanwhile.  Time is left out: a timer that is set *)
(* may fire in any turn of the loop.                                       *)
(*                                                                         *)
(* The bytes of either direction are numbered as they are sent.            *)
(***************************************************************************)
EXTENDS Integers, Sequences, FiniteSets, SequencesExt

CONSTANTS
  BUF_SIZE,    \* most bytes of one read
  SndBuf,      \* bytes the socket takes before the peer reads them
  Delims,      \* which of the peer's bytes are the delimiter
  MaxSent,     \* bound: bytes the peer sends in a connection
  MaxWritten,  \* bound: bytes the user writes in a connection
  Reuse,       \* is the descriptor used again once it is closed?
  Timeouts,    \* the pairs of expire times the user sets: is there one?
  Faults       \* may the peer reset, a connect fail?

ASSUME ConnAssumption ==
  /\ {BUF_SIZE, SndBuf} \subseteq Nat \ {0}
  /\ {MaxSent, MaxWritten} \subseteq Nat
  /\ Delims \subseteq Nat /\ {Reuse, Faults} \subseteq BOOLEAN
  /\ Timeouts \subseteq BOOLEAN \X BOOLEAN

VARIABLES
  conn,   \* the spe_conn_t
  epoll,  \* its entry of epolls
  tasks,  \* spe_task.c, for the four tasks of the connection
  phase,  \* where the loop is
  sock,   \* the socket
  user    \* what the user waits for, and history

vars == <<conn, epoll, tasks, phase, sock, user>>

Reads == [type : {"read"}, n : {0}] \cup [type : {"until"}, n : {0}] \cup [type : {"bytes"}, n : 1..2]

NewSock(state) == [state |-> state, inbox |-> <<>>, fin |-> FALSE, outbox |-> <<>>]

NewUser(open) ==
  [open |-> open, reads |-> FALSE, writes |-> FALSE, want |-> "none", n |-> 0,
   had |-> 0, took |-> 0, sent |-> 0, written |-> 0, peer |-> 0]

Init ==
  /\ conn = [read_type |-> "none", write_type |-> "none", rbytes |-> 0,
             read_expire |-> FALSE, write_expire |-> FALSE,
             buffer |-> <<>>, read_buffer |-> <<>>, write_buffer |-> <<>>,
             connect_timeout |-> FALSE, read_timeout |-> FALSE, write_timeout |-> FALSE,
             closed |-> FALSE, error |-> FALSE]
  /\ epoll = [mask |-> {}, read_task |-> "null", write_task |-> "null"]
  /\ tasks = [queue |-> <<>>, timers |-> {}, timeout |-> {}]
  /\ phase = "poll"
  /\ sock = NewSock("none")
  /\ user = NewUser(FALSE)

----------------------------------------------------------------------------
\* spe_task.c: `timers` are the tasks in the timer tree, `timeout' those with
\* the flag set.
Schedule(ts, t) ==
  IF t \in ToSet(ts.queue) THEN ts
  ELSE [ts EXCEPT !.queue = Append(@, t), !.timers = @ \ {t}]

ScheduleTimeout(ts, t) ==
  IF t \in ToSet(ts.queue) THEN ts
  ELSE [ts EXCEPT !.timers = @ \cup {t}, !.timeout = @ \ {t}]

Dequeue(ts, t) ==
  [ts EXCEPT !.queue = IF t \in ToSet(@) THEN RemoveAt(@, CHOOSE i \in DOMAIN @ : @[i] = t) ELSE @,
             !.timers = @ \ {t}]

\* spe_epoll.c.  The kernel's interest list follows the mask.  A slip only
\* sets the tasks.
EnableTask(mask, t) ==
  [epoll EXCEPT !.read_task = IF "R" \in mask THEN t ELSE @,
                !.write_task = IF "W" \in mask THEN t ELSE @]
Enable(mask, t) ==
  [mask |-> epoll.mask \cup mask,
   read_task |-> IF "R" \in mask THEN t ELSE epoll.read_task,
   write_task |-> IF "W" \in mask THEN t ELSE epoll.write_task]

\* A slip forgets the mask.
DisableTask(mask) ==
  [epoll EXCEPT !.read_task = IF "R" \in mask THEN "null" ELSE @,
                !.write_task = IF "W" \in mask THEN "null" ELSE @]
Disable(mask) ==
  [mask |-> epoll.mask \ mask,
   read_task |-> IF "R" \in mask THEN "null" ELSE epoll.read_task,
   write_task |-> IF "W" \in mask THEN "null" ELSE epoll.write_task]

----------------------------------------------------------------------------
\* The socket.
Broken == sock.state \in {"reset", "failed"}
Room == SndBuf - Len(sock.outbox)
Readable == sock.inbox # <<>> \/ sock.fin \/ Broken
Writable == Broken \/ (sock.state = "up" /\ Room > 0)

Least(a, b) == IF a < b THEN a ELSE b
Upto(s, n) == SubSeq(s, 1, n)
After(s, n) == SubSeq(s, n + 1, Len(s))

\* spe_buf_read_fd_append and the look at its result: some bytes, an error,
\* the end of the stream, or nothing.  A slip overlooks the end.
Chunk == Least(BUF_SIZE, Len(sock.inbox))
ReadFdEndless ==
  [conn EXCEPT !.read_buffer = @ \o Upto(sock.inbox, Chunk),
               !.error = @ \/ (Chunk = 0 /\ Broken)]
ReadFd ==
  [conn EXCEPT !.read_buffer = @ \o Upto(sock.inbox, Chunk),
               !.error = @ \/ (Chunk = 0 /\ Broken),
               !.closed = @ \/ (Chunk = 0 /\ ~Broken /\ sock.fin)]
SockRead == [sock EXCEPT !.inbox = After(@, Chunk)]

\* The first n bytes of the read buffer go to the user's.  A slip forgets to
\* take them out.
DeliverCopy(c, n) == [c EXCEPT !.buffer = @ \o Upto(c.read_buffer, n)]
Deliver(c, n) ==
  [c EXCEPT !.buffer = @ \o Upto(c.read_buffer, n), !.read_buffer = After(@, n)]

\* How many bytes of the read buffer the operation asks for; 0 if they are
\* not there yet.  A slip gives what is there.
FoundAny(c, type, n) == IF type = "bytes" THEN Least(n, Len(c.read_buffer)) ELSE Len(c.read_buffer)
Found(c, type, n) ==
  CASE type = "read" -> Len(c.read_buffer)
    [] type = "bytes" -> IF n <= Len(c.read_buffer) THEN n ELSE 0
    [] type = "until" ->
         LET at == {i \in 1..Len(c.read_buffer) : c.read_buffer[i] \in Delims}
         IN IF at = {} THEN 0 ELSE CHOOSE i \in at : \A j \in at : i <= j

\* write(2) on the write buffer: some bytes, or an error, EAGAIN included.
WriteFd ==
  IF Broken
  THEN {[conn |-> [conn EXCEPT !.closed = TRUE], sock |-> sock],
        [conn |-> [conn EXCEPT !.error = TRUE], sock |-> sock]}
  ELSE LET n == Least(Room, Len(conn.write_buffer))
       IN {IF n = 0 THEN [conn |-> [conn EXCEPT !.error = TRUE], sock |-> sock]
           ELSE [conn |-> [conn EXCEPT !.write_buffer = After(@, n)],
                 sock |-> [sock EXCEPT !.outbox = @ \o Upto(conn.write_buffer, n)]]}

----------------------------------------------------------------------------
\* User code: in a task, or in the accept handler that spe_epoll_process calls.
UserRuns == phase \in {"poll", "run"} /\ user.open
Sound == ~conn.closed /\ ~conn.error

\* spe_conn_create for a descriptor that was accepted, or is to be connected.
\* A slip leaves the buffers as they were.
CreateDirty(c) == c
CreateClean(c) == [c EXCEPT !.buffer = <<>>, !.read_buffer = <<>>, !.write_buffer = <<>>]

spe_conn_create(state) ==
  /\ phase \in {"poll", "run"} /\ sock.state \in {"none"} \cup (IF Reuse THEN {"closed"} ELSE {})
  /\ conn' = [CreateClean(conn) EXCEPT !.read_expire = FALSE, !.write_expire = FALSE,
                 !.read_type = "none", !.write_type = "none",
                 !.closed = FALSE, !.error = FALSE]
  /\ sock' = NewSock(state)
  /\ user' = NewUser(TRUE)
  /\ UNCHANGED <<epoll, tasks, phase>>

\* The tasks of the connection leave the queues.  A slip forgets those that
\* notify the user.
DestroyedHalf == Dequeue(Dequeue(tasks, "read"), "write")
Destroyed == Dequeue(Dequeue(DestroyedHalf, "post_read"), "post_write")

spe_conn_destroy ==
  /\ UserRuns
  /\ tasks' = Destroyed
  /\ epoll' = Disable({"R", "W"})
  /\ sock' = NewSock("closed")
  /\ user' = NewUser(FALSE)
  /\ UNCHANGED <<conn, phase>>

spe_conn_set_timeout(r, w) ==
  /\ UserRuns
  /\ conn' = [conn EXCEPT !.read_expire = r, !.write_expire = w]
  /\ UNCHANGED <<epoll, tasks, phase, sock, user>>

\* The task waits for its event, and for its timer if there is one.
Armed(ts, t, expire) == IF expire THEN ScheduleTimeout(ts, t) ELSE ts

\* spe_conn_connect: under way, or done at once, well or not.
spe_conn_connect ==
  /\ UserRuns /\ sock.state = "idle" /\ ~user.reads
  /\ conn.read_type = "none" /\ conn.write_type = "none"
  /\ user' = [user EXCEPT !.reads = TRUE, !.want = "connect"]
  /\ \/ /\ sock' = [sock EXCEPT !.state = "connecting"]
        /\ conn' = [conn EXCEPT !.connect_timeout = FALSE,
                                !.read_type = "connect", !.write_type = "write"]
        /\ epoll' = Enable({"R", "W"}, "read")
        /\ tasks' = Armed(tasks, "read", conn.read_expire)
     \/ \E ok \in BOOLEAN :
          /\ ok \/ Faults
          /\ sock' = [sock EXCEPT !.state = IF ok THEN "up" ELSE "failed"]
          /\ conn' = [conn EXCEPT !.error = @ \/ ~ok]
          /\ tasks' = Schedule(tasks, "post_read")
          /\ UNCHANGED epoll
  /\ UNCHANGED phase

\* spe_conn_read, spe_conn_readbytes, spe_conn_read_until: spe_conn_read_sync
\* and a look at the buffer; then spe_conn_read_async.
\* A slip: a read that is complete at once tells nobody.
ToldLater(ts) == ts
Told(ts) == Schedule(ts, "post_read")

SpeConnRead(type, n) ==
  /\ UserRuns /\ sock.state \notin {"idle", "connecting"} /\ ~user.reads
  /\ conn.read_type = "none" /\ Sound
  /\ user' = [user EXCEPT !.reads = TRUE, !.want = type, !.n = n,
                          !.had = user.took + Len(conn.buffer)]
  /\ sock' = SockRead
  /\ LET c == ReadFd
         all == c.closed \/ c.error
         found == IF all THEN Len(c.read_buffer) ELSE Found(c, type, n)
     IN \/ /\ all \/ found > 0
           /\ conn' = Deliver(c, found)
           /\ tasks' = Told(tasks)
           /\ UNCHANGED epoll
        \/ /\ ~all /\ found = 0
           /\ conn' = [c EXCEPT !.read_type = type, !.read_timeout = FALSE, !.rbytes = n]
           /\ epoll' = Enable({"R"}, "read")
           /\ tasks' = Armed(tasks, "read", conn.read_expire)
  /\ UNCHANGED phase

\* The user takes what it was given out of `buffer'.
Take ==
  /\ UserRuns /\ ~user.reads /\ conn.buffer # <<>>
  /\ user' = [user EXCEPT !.took = @ + Len(conn.buffer)]
  /\ conn' = [conn EXCEPT !.buffer = <<>>]
  /\ UNCHANGED <<epoll, tasks, phase, sock>>

spe_conn_write(n) ==
  /\ UserRuns /\ Sound /\ user.written + n <= MaxWritten
  /\ user' = [user EXCEPT !.written = @ + n]
  /\ conn' = [conn EXCEPT !.write_buffer = @ \o [i \in 1..n |-> user.written + i]]
  /\ UNCHANGED <<epoll, tasks, phase, sock>>

\* spe_conn_flush, of a buffer something was written to.
spe_conn_flush ==
  /\ UserRuns /\ sock.state \notin {"idle", "connecting"} /\ ~user.writes
  /\ conn.write_type = "none" /\ Sound /\ conn.write_buffer # <<>>
  /\ user' = [user EXCEPT !.writes = TRUE]
  /\ \E w \in WriteFd :
       LET done == w.conn.closed \/ w.conn.error \/ w.conn.write_buffer = <<>>
       IN /\ sock' = w.sock
          /\ conn' = IF done THEN w.conn
                     ELSE [w.conn EXCEPT !.write_timeout = FALSE, !.write_type = "write"]
          /\ epoll' = IF done THEN epoll ELSE Enable({"W"}, "write")
          /\ tasks' = IF done THEN Schedule(tasks, "post_write")
                      ELSE Armed(tasks, "write", conn.write_expire)
  /\ UNCHANGED phase

User ==
  \/ \E state \in {"up", "idle"} : spe_conn_create(state)
  \/ spe_conn_destroy \/ spe_conn_connect \/ spe_conn_flush \/ Take
  \/ \E t \in Timeouts : spe_conn_set_timeout(t[1], t[2])
  \/ \E read \in Reads : SpeConnRead(read.type, read.n)
  \/ \E n \in 1..MaxWritten : spe_conn_write(n)

----------------------------------------------------------------------------
\* The loop: spe_epoll_process, then spe_task_process.
Poll ==
  /\ phase = "poll"
  /\ LET r == IF Readable /\ "R" \in epoll.mask THEN Schedule(tasks, epoll.read_task) ELSE tasks
     IN tasks' = IF Writable /\ "W" \in epoll.mask THEN Schedule(r, epoll.write_task) ELSE r
  /\ phase' = IF tasks'.timers # {} THEN "expire" ELSE "run"
  /\ UNCHANGED <<conn, epoll, sock, user>>

Expire(t) ==
  /\ phase = "expire" /\ t \in tasks.timers
  /\ tasks' = [queue |-> Append(tasks.queue, t), timers |-> tasks.timers \ {t},
               timeout |-> tasks.timeout \cup {t}]
  /\ UNCHANGED <<conn, epoll, phase, sock, user>>

ExpireDone ==
  /\ phase = "expire" /\ phase' = "run"
  /\ UNCHANGED <<conn, epoll, tasks, sock, user>>

RunEnd ==
  /\ phase = "run" /\ tasks.queue = <<>>
  /\ phase' = "poll"
  /\ UNCHANGED <<conn, epoll, tasks, sock, user>>

\* The first task of the queue is run.
Runs(t) == phase = "run" /\ tasks.queue # <<>> /\ Head(tasks.queue) = t
Rest == [tasks EXCEPT !.queue = Tail(@)]

\* end_out: the timer is stopped, the user is told.
Ended(t, expire, post) ==
  Schedule(IF expire THEN Dequeue(Rest, t) ELSE Rest, post)

\* connect_normal
ConnectNormal ==
  /\ Runs("read") /\ conn.read_type = "connect"
  /\ LET late == conn.read_expire /\ "read" \in tasks.timeout
     IN conn' = [conn EXCEPT !.connect_timeout = @ \/ late,
                             !.error = @ \/ (~late /\ sock.state = "failed"),
                             !.read_type = "none", !.write_type = "none"]
  /\ epoll' = Disable({"R", "W"})
  /\ tasks' = Ended("read", conn.read_expire, "post_read")
  /\ UNCHANGED <<phase, sock, user>>

\* read_normal: timed out, or as much as there is.
ReadNormal ==
  /\ Runs("read") /\ conn.read_type # "connect"
  /\ LET late == conn.read_expire /\ "read" \in tasks.timeout
         c == IF late THEN [conn EXCEPT !.read_timeout = TRUE] ELSE ReadFd
         found == IF late THEN 0 ELSE Found(c, conn.read_type, conn.rbytes)
     IN /\ sock' = IF late THEN sock ELSE SockRead
        /\ \/ /\ late \/ found > 0 \/ c.closed \/ c.error
              /\ conn' = [Deliver(c, found) EXCEPT !.read_type = "none"]
              /\ epoll' = Disable({"R"})
              /\ tasks' = Ended("read", conn.read_expire, "post_read")
           \/ /\ ~late /\ found = 0 /\ ~c.closed /\ ~c.error
              /\ conn' = c /\ tasks' = Rest
              /\ UNCHANGED epoll
  /\ UNCHANGED <<phase, user>>

\* write_normal
WriteNormal ==
  /\ Runs("write")
  /\ LET late == conn.write_expire /\ "write" \in tasks.timeout
     IN \E w \in IF late THEN {[conn |-> [conn EXCEPT !.write_timeout = TRUE], sock |-> sock]}
                 ELSE WriteFd :
          LET failed == w.sock = sock
          IN /\ sock' = w.sock
             /\ \/ /\ failed \/ w.conn.write_buffer = <<>>
                   /\ conn' = [w.conn EXCEPT !.write_type = "none"]
                   /\ epoll' = Disable({"W"})
                   /\ tasks' = Ended("write", conn.write_expire, "post_write")
                \/ /\ ~failed /\ w.conn.write_buffer # <<>>
                   /\ conn' = w.conn /\ tasks' = Rest
                   /\ UNCHANGED epoll
  /\ UNCHANGED <<phase, user>>

\* The handlers of the user are told that an operation has ended.
PostRead ==
  /\ Runs("post_read")
  /\ tasks' = Rest
  /\ user' = [user EXCEPT !.reads = FALSE, !.want = "none", !.n = 0, !.had = 0]
  /\ UNCHANGED <<conn, epoll, phase, sock>>

PostWrite ==
  /\ Runs("post_write")
  /\ tasks' = Rest
  /\ user' = [user EXCEPT !.writes = FALSE]
  /\ UNCHANGED <<conn, epoll, phase, sock>>

Loop ==
  Poll \/ ExpireDone \/ RunEnd \/ ConnectNormal \/ ReadNormal \/ WriteNormal \/ PostRead \/ PostWrite

----------------------------------------------------------------------------
\* The network and the peer.
Peer(s, u) == sock' = s /\ user' = u /\ UNCHANGED <<conn, epoll, tasks, phase>>

ConnectDone ==
  /\ sock.state = "connecting"
  /\ \E state \in {"up"} \cup (IF Faults THEN {"failed"} ELSE {}) :
       Peer([sock EXCEPT !.state = state], user)

PeerSend ==
  /\ sock.state = "up" /\ ~sock.fin /\ user.sent < MaxSent
  /\ Peer([sock EXCEPT !.inbox = Append(@, user.sent + 1)], [user EXCEPT !.sent = @ + 1])

PeerRead ==
  /\ sock.state = "up" /\ sock.outbox # <<>>
  /\ Peer([sock EXCEPT !.outbox = Tail(@)], [user EXCEPT !.peer = @ + 1])

PeerClose ==
  /\ sock.state = "up" /\ ~sock.fin
  /\ Peer([sock EXCEPT !.fin = TRUE], user)

PeerReset ==
  /\ sock.state = "up" /\ Faults
  /\ Peer([sock EXCEPT !.state = "reset"], user)

World == ConnectDone \/ PeerSend \/ PeerRead \/ PeerClose \/ PeerReset

Next == User \/ Loop \/ (\E t \in {"read", "write"} : Expire(t)) \/ World

Spec == Init /\ [][Next]_vars

\* The loop goes round, a timer that stays set is due in some turn, a connect
\* ends and the peer reads what it is sent.
Fairness ==
  /\ WF_vars(Loop) /\ WF_vars(ConnectDone) /\ WF_vars(PeerRead)
  /\ \A t \in {"read", "write"} : SF_vars(Expire(t))

FairSpec == Spec /\ Fairness

----------------------------------------------------------------------------
\* Every variable has its type: in particular epoll finds no null task.
Post == {"post_read", "post_write"}
ByteSeq == Seq(1..(MaxSent + MaxWritten))

TypeOK ==
  /\ conn \in [read_type : {"none", "connect", "read", "until", "bytes"},
               write_type : {"none", "write"}, rbytes : 0..2,
               read_expire : BOOLEAN, write_expire : BOOLEAN,
               buffer : ByteSeq, read_buffer : ByteSeq, write_buffer : ByteSeq,
               connect_timeout : BOOLEAN, read_timeout : BOOLEAN, write_timeout : BOOLEAN,
               closed : BOOLEAN, error : BOOLEAN]
  /\ epoll \in [mask : SUBSET {"R", "W"}, read_task : {"read", "null"},
                write_task : {"read", "write", "null"}]
  /\ tasks \in [queue : Seq({"read", "write"} \cup Post), timers : SUBSET {"read", "write"},
                timeout : SUBSET {"read", "write"}]
  /\ phase \in {"poll", "expire", "run"}
  /\ sock \in [state : {"none", "closed", "idle", "connecting", "up", "failed", "reset"},
               inbox : ByteSeq, fin : BOOLEAN, outbox : ByteSeq]
  /\ user \in [open : BOOLEAN, reads : BOOLEAN, writes : BOOLEAN,
               want : {"none", "connect", "read", "until", "bytes"}, n : 0..2, had : Nat,
               took : Nat, sent : Nat, written : Nat, peer : Nat]

\* epoll waits for what the connection waits for, with the task that deals
\* with it; for nothing when there is no connection.
RegistrationMatches ==
  /\ "R" \in epoll.mask <=> user.open /\ conn.read_type # "none"
  /\ "W" \in epoll.mask <=> user.open /\ conn.write_type # "none"
  /\ "R" \in epoll.mask => epoll.read_task = "read"
  /\ "W" \in epoll.mask =>
       epoll.write_task = IF conn.read_type = "connect" THEN "read" ELSE "write"

\* No operation is forgotten: the user that was promised an answer waits for
\* the socket, or the answer is on its way; and there is no answer unasked.
NoneForgotten ==
  LET queued == ToSet(tasks.queue)
      connecting == conn.read_type = "connect"
  IN /\ user.reads <=> user.open /\ (conn.read_type # "none" \/ "post_read" \in queued)
     /\ user.writes <=> user.open /\ ((conn.write_type # "none" /\ ~connecting) \/ "post_write" \in queued)
     /\ ~(user.open /\ conn.read_type # "none" /\ "post_read" \in queued)

\* A task that is queued, or whose timer runs, belongs to an operation: none
\* runs for a connection that was destroyed, nor for the one after it.
TasksBelong ==
  LET active == ToSet(tasks.queue) \cup tasks.timers
  IN /\ "read" \in active => user.open /\ conn.read_type # "none"
     /\ "write" \in active => user.open /\ conn.write_type # "none" /\ conn.read_type # "connect"
     /\ "post_read" \in active => user.reads
     /\ "post_write" \in active => user.writes

\* The bytes numbered from + 1 to upto.
Numbers(from, upto) == [i \in 1..(upto - from) |-> from + i]

\* No byte is lost, doubled or out of order, in either direction, by however
\* many reads and writes.
StreamIntact ==
  user.open =>
    /\ conn.buffer \o conn.read_buffer \o sock.inbox = Numbers(user.took, user.sent)
    /\ sock.outbox \o conn.write_buffer = Numbers(user.peer, user.written)

\* When it is told that a read has ended, the user finds what it asked for,
\* or the reason why not.
ReadKeepsItsWord ==
  user.reads /\ "post_read" \in ToSet(tasks.queue) /\ user.want # "connect" =>
    LET new == After(conn.buffer, user.had - user.took)
    IN \/ user.want = "read" /\ new # <<>>
       \/ user.want = "bytes" /\ Len(new) = user.n
       \/ user.want = "until" /\ {i \in 1..Len(new) : new[i] \in Delims} = {Len(new)}
       \/ conn.closed \/ conn.error
       \/ conn.read_timeout /\ new = <<>>

\* A read ends when the peer has closed, or has sent something.
ReadEnds ==
  user.reads /\ (sock.fin \/ Broken \/ (user.want = "read" /\ sock.inbox # <<>>)) ~> ~user.reads

\* A flush ends, as the peer reads.
FlushEnds == user.writes ~> ~user.writes

\* "check timeout": a read whose timer was started ends.
TimedReadEnds == "read" \in tasks.timers ~> ~user.reads
============================================================================
