# A TLA+ model of spe2

spe2 is a small framework for network servers in C: a master process, worker
processes that take turns at the listening sockets, and in each worker one
thread with an event loop, tasks, timers and connections.  This directory
describes it in TLA+, checks small instances with TLC and proves theorems for
every instance with TLAPS.

- [Running it](#running-it)
- [Inventory](#inventory): the parts of spe2
- [The modules](#the-modules): how state and actions correspond to the code
- [The runs](#the-runs): bounds, fairness, and what each shows
- [Where the code differs from what it says](#where-the-code-differs-from-what-it-says)
- [What is proved](#what-is-proved), [what is only model-checked](#what-is-only-model-checked)
  and [what is not modelled](#what-is-not-modelled)
- [The plan](#the-plan)

## Running it

    tlc -workers 2 -config SpeTask_all.cfg MCSpeTask.tla
    tlapm SpeTaskProofs.tla

`PROJECT.json` lists every run with its module and configuration, every
definition with the source lines it stands for, the hazards of the code with
the properties that answer them, and the theorems.

Next to a definition there is often a second one whose comment calls it *a
slip*: the same operation with a mistake one could plausibly make in that code
(a list insertion at the wrong end, a flag not cleared, a task forgotten when a
connection is destroyed).  `PROJECT.json` names under "mutants", for each
property of each run that is to pass, a slip with which TLC finds that property
violated.  They are used for nothing else.

## Inventory

Paths are relative to `src/src/`.  "Status": modelled (M), partly (p), not (-).

| Component | Files | Status | State | Operations |
|---|---|---|---|---|
| task queue | `spe_task`, `spe_handler.h` | M | run queue (list), timer queue (red-black tree), `_status`, `_expire`, `timeout`, `_fast` of each task | schedule, schedule_timeout, dequeue, process |
| signals | `spe_signal` | M | `signal_queue`, its length, count and handler of each signal | register, the common handler, process |
| connections | `spe_conn` | M | `conn_pool`: type of the read and write under way, buffers, time-outs, `_closed`, `_error`, four tasks | create, destroy, connect, read, readbytes, read_until, write, flush, set_timeout, and the two tasks |
| event polling | `spe_epoll` | p | mask and the two task pointers of each descriptor | enable, disable, process |
| accepting | `spe_server` | p | the list of servers, `_accept_mutex`, `_accept_mutex_hold` | preloop, postloop, accept, register, unregister |
| shared memory | `spe_shm` | p | process-shared mutexes | create, lock, trylock, unlock |
| worker process | `spe_worker` | p | `spe_workers` (pid and socket pair per slot), the control task, `worker_stop` | fork, reset, stop, the loop |
| master process | `spe` | p | `spe_reap_worker`, `spe_stop` | fork the workers, reap and replace, stop |
| module table | `spe_module` | - | modules in order | init, exit, start, end, worker init and exit |
| options, cycle | `spe_opt`, `spe_cycle` | M | list of (section, key, value), the settings | parse a file, look up, take the settings |
| byte buffers | `spe_buf` | M | storage, start, length, size | append, copy, consume at either end, strip, search, split, change case, read from a descriptor |
| blocking file reader | `spe_io` | M | read buffer, read under way, end of file, error | read, readbytes, readuntil, write |
| thread pool | `spe_tpool` | M | threads with lock, condition, handler and stop flag; free list; counter | init, submit, the threads' loop, deinit |
| hash map | `spe_map` | M | chains, list of items, count | get, set, delete, clean, next |
| remote procedure calls | `spe_rpc` | M | parser state, request and reply per connection | the parser's steps, done |
| red-black tree | `spe_rbtree` | p | parent, colour and kids of each node | insert, erase, replace, first, last, next, previous |
| linked lists | `spe_list.h` | M | two pointers per entry | add, delete, move, replace, splice, cut, rotate, the hash lists |
| sockets | `spe_sock` | p | the kernel's | wrappers of system calls |
| utilities, log | `spe_util`, `spe_log` | p | | the clock; text and files |
| Lua binding, demonstration, unit tests | `spe_lua`, `spe_test`, `spe_*_test` | - | | |
| cJSON, Lua | `cJSON`, `../support/lua` | - | third party | |

### How the parts work together

The **master** (`main`, `spe_master_process`) forks the workers and sleeps in
`sigsuspend`.  A handler only notes a signal in `signal_queue`;
`spe_signal_process`, after the sleep, calls what was registered, which sets
`spe_reap_worker` or `spe_stop`.  Master and worker share a socket pair: the
master writes a stop command to it, and the worker takes the end of file as
the death of the master.

A **worker** (`spe_worker_process`) does the same turn over and over: try the
accept mutexes (`spe_server_preloop`), poll (`spe_epoll_process`), unlock
(`spe_server_postloop`), run tasks (`spe_task_process`), look at signals and at
`worker_stop`.  Between the workers only the accept mutexes and the backlogs of
the listening sockets are shared.

A **connection** starts an operation and, if the socket is not ready, registers
a task with epoll and a timer with the task queue.  Either of the two schedules
the task; it tries again and, at the end, takes the registration and the timer
back and schedules the task the user gave.  The task queue knows nothing of
connections: what it offers is that a task is in one queue at a time, that its
handler runs alone, and a flag that says whether it was the timer.

### What is hard about it

- Handlers of different signals interrupt each other inside
  `signal_common_handler`, which has no protection (`spe_signal.c:45`).
- No signal is blocked between looking at the queue and going to sleep
  (`spe.c:33`).
- A worker can die anywhere, with a process-shared mutex locked
  (`spe_server.c:45`).
- `_accept_mutex_hold` outlives the unlock and decides in the next turn about
  registration and unlocking (`spe_server.c:67`).
- A timer and an event can call the same task in the same turn; the flag they
  leave is read later (`spe_task.c:77`, `spe_conn.c:137`).
- Scheduling a task by an event takes it out of the timer tree, whether or not
  the operation then ends (`spe_conn.c:135`, `:268`).
- Connections, tasks and epoll entries are used again with the same descriptor
  (`spe_conn.c:387`).
- Fast handlers run in the middle of their caller (`spe_task.c:56`).
- Later workers inherit the descriptors by which earlier ones learn of the
  master's death (`spe_worker.c:63`).
- A thread pool whose shutdown does not wait and whose free list is tested
  outside the lock (`spe_tpool.c:183`, `:113`).
- 32-bit times and sizes (`spe_task.c:76`, `spe_buf.c:12`).
- Results nobody looks at: of `epoll_ctl` (`spe_server.c:48`), `pthread_create`
  (`spe_tpool.c:100`), `spe_buf_append` (`spe_io.c:28`), reads of the
  configuration (`spe_opt.c:99`).
- Requests that come in pieces ending anywhere (`spe_rpc.c:44`).

`PROJECT.json` lists them and more under "hazards", each at its line, with the
properties that would catch it going wrong or the reason why there is none.

### What makes each part correct

| Component | Correct when |
|---|---|
| task queue | `_status` is true of both queues; timers fire in order and when what is stored of their time says; the flag says what called the handler; handlers run alone; nothing in a queue is left there |
| signals | no signal is lost or handled from an index outside the array; what was raised is handled |
| accepting | one acceptor per socket at a time; the flag agrees with the mutex; no connection waits for ever |
| master and workers | the table of workers is the set of the children; dead ones are replaced; descriptors are not leaked; everything stops, asked or orphaned |
| connections | every operation is answered once; registration, timers and tasks follow the operation and do not outlive the connection; bytes are neither lost nor doubled; a read gives what was asked or the reason; operations end |
| buffers, map, options, reader, tree | they compute what the sequence, the function or the list of lines they stand for would |
| thread pool | every submitted handler runs once; a thread is in one place; no thread touches freed memory |
| requests | what is handled is what was meant, however the bytes come |
| module table | what was initialised is undone, in reverse order, once |

## The modules

| Module | Models | Uses |
|---|---|---|
| `SpeTask` | `spe_task.c` in one worker | |
| `Accept` | `spe_server.c`, `spe_shm.c`, the turn of `spe_worker.c`, for all workers | |
| `SpeSignal` | `spe_signal.c`: the state and its operations | |
| `SignalLoop` | a program that uses them: the specification, and what it promises its users | `SpeSignal` |
| `Master` | `spe.c`, the master's side of `spe_worker.c` | `SpeSignal`; implements `SignalLoop` |
| `SpeConn` | `spe_conn.c` on `spe_epoll.c` and `spe_task.c`, with socket and peer | |
| `Tpool` | `spe_tpool.c` with its threads and those that call it | |
| `Buf`, `BufOps` | `spe_buf.c`: the operations as functions, and a buffer under any sequence of them | `Bytes`; implements `ByteString` |
| `Io` | `spe_io.c` and the file | `Bytes` |
| `Opt` | `spe_opt.c`, `spe_cycle.c` | `Bytes` |
| `SpeMap` | `spe_map.c` | implements `KeyTable` |
| `Rpc` | `spe_rpc.c` and the client's bytes | `Bytes` |
| `Rbtree` | `spe_rbtree.c`, the descent of `spe_task.c` | implements `SortedQueue` |
| `List`, `Hlist` | the two kinds of lists of `spe_list.h` | implement `ListSpec` |
| `Parts`, `Buffers`, `Data`, `Lists` | the structures side by side: `Buf`; `Io`, `Opt` and `SpeMap`; `List` and `Hlist` | those |
| `MCData` | a structure of those from `Buf` on at a time | `Buffers`, `Data`, `Lists`, `Rpc`, `Rbtree` |
| other `MC...` | instances for TLC: sets of model values, symmetry | the module |
| `QueueLemmas` | facts about removing from and inserting into sequences | |
| `AcceptProofs`, `SignalProofs`, `MasterProofs`, `TpoolProofs` | theorems | the module |
| `SpeTaskProofs` | theorems about `SpeTask`, and about the lists its queue is made of | `SpeTask`, `Lists` |
| `SpeConnProofs` | theorems about `SpeConn`, and about the buffers of a connection | `SpeConn`, `Buffers` |
| `DataProofs` | theorems about the reader, the options and the map | `Data` |

### SpeTask

`task_head` is the list and `timer_head` the in-order sequence of the tree:
`spe_task_schedule_timeout` descends to the right past all timers due no later,
which is the place `TimerPlace` names; `rb_first` is the head.  `status`,
`timeout` and `expire` are the fields of the tasks.  `expire` keeps a time
modulo `ExpireMod`, as the `unsigned` it is; the clock `now` is not truncated.

What handlers do is up to other components.  Here a handler makes any finite
number of calls of the three functions, on any tasks, and returns: `stack` holds
the frames that run, innermost first, each with the number of calls it may
still make.  The event loop is the bottom frame between two calls of
`spe_task_process`, for it schedules tasks out of `spe_epoll_process`.  A fast
task's handler is a new frame on top of its caller's.

`spe_task_process` is split where other code runs or time passes: `ProcessBegin`
(reads the clock if there is a timer), `ExpireFirst` and `ExpireDone` (the loop
over due timers), `RunTask` (takes the first task off and calls its handler),
`ProcessEnd`.  Expiry uses the time read at the start, so `Tick` between the
steps matters.  `armed`, `cause` and `deadline` are history variables that
properties are stated with.

### Accept

Every worker has a program counter `pc` that goes through the turn of
`spe_worker_process`, and an index `next` into the list of servers for the
passes of preloop and postloop.  `mutex` and `backlog` are shared; each action
touches at most one of them once.  `hold` is `_accept_mutex_hold`, `listen` the
registration in the worker's epoll instance, `ready` the events of the last
`epoll_wait` not yet handled.

`Crash` can come between any two actions and leaves the mutex with the value
`Gone`, as a process-shared mutex that is not robust is left; `Restart` is the
worker the master forks in its place, with flags cleared and a new epoll
instance.  Registering can fail (`Registers`): the flag is set all the same, and
the worker does not poll that socket until it has missed the mutex once
(`Deaf`).  `spe_server_register` runs in the master before the forks and is the
initial state.

### SpeSignal and SignalLoop

`signal()` blocks a signal in its own handler only.  So instances of
`signal_common_handler` for different signals stack up (`frames`), each
stopped between two accesses: the test of count and length, the write-back of
the length (`store`), the write of the entry, the count.  The main line moves
only when the stack is empty; `spe_signal_process` blocks all signals, so `pos`,
its index, at 0 or above excludes delivery.  Counts above `MaxCount` are not
told apart: the code asks whether a count is 0.

`SignalLoop` is the program around them: any registration, any order, flags
taken back at will.  Its guard on `Register`, that the signal is not in the
queue, is the rule users must keep, for registration resets the count.

### Master

The variables of `SpeSignal` are the master's signals; `at` is its place in
`main` and `spe_master_process`.  `workers` is the table of slots, `worker` what
the kernel knows of each worker, numbered in the order of the forks.  `holders`
says who has the master's end of each socket pair open: the master, and every
worker that was forked after it and did not close it.  A worker leaves when it
was sent the stop command or when nobody holds the other end any more.

A fork can fail in three ways (no slot, no socket pair, no process) that leak
nothing, nothing or a pair.  In `ReapOne` one turn of the inner loop is a single
step: `waitpid`, the reset of the slot and the fork read and write nothing a
signal handler or a worker touches, except the descriptors the child inherits,
which are those at the moment of the fork.

`Master` is shown to implement `SignalLoop` (`UsesSignals`, with its variables
as they are): what is proved of every `SignalLoop` holds for the master.

### SpeConn

Six records: the `spe_conn_t`, its entry of `epolls`, the task queue for the
four tasks of the connection, the place of the loop, the socket, and the user
(what was asked, and how many bytes went each way).  Bytes are numbers in the
order they were sent, so that loss, doubling and reordering can be seen;
`Delims` says which of the peer's bytes are the delimiter of `read_until`.

User actions are whole calls: they run in one thread, in a task or in the accept
handler.  `Poll` is one `spe_epoll_process`, `Expire` and `ExpireDone` the timer
phase and `ConnectNormal`, `ReadNormal`, `WriteNormal`, `PostRead` and
`PostWrite` the tasks, each with everything it calls.  Socket and peer move
between any two of these, inside a pass of the run loop as well.  Time is left
out: a timer that is set may fire in any turn.  `ReadFd` takes as much as
there is, at most `BUF_SIZE`; a write to a full socket is an error (EAGAIN is
treated as one).  Once closed, the descriptor comes back with the next
connection if `Reuse` is set, and finds `conn`, `epoll` and `tasks` as the last
one left them.

The user keeps the rules that the return codes enforce or the interface
suggests: one read and one flush at a time, no read before the connect has
ended, no flush of nothing, no use after destroy.

### Tpool

A step is one access to memory the threads share, or one section under a lock.
The lock of a thread is a variable, because a thread keeps it from its look at
the handler until `pthread_cond_wait` gives it up; the list's lock is held for
one step at a time and is not one.  `pc` is the place of each thread of the pool,
`once` that of a thread made for a single job, `call` that of each submitter.
`pthread_cond_signal` wakes a thread only if it sleeps at that moment, and a
thread may also wake by itself.  Threads that `pthread_create` did not make are in
the list and the counter like the others.  `SpeTpoolInit` publishes the pool first
(`spe_tpool.c:146`) and makes the threads then, one by one (`InitThread`, `built`); each
runs as soon as it is there, while the list, whose lock the loop does not take, is
still being filled.

Where C leaves undefined what the code does (the list head taken for a thread, an
element of the pool's array freed by itself, the pool used after it was freed or by a call
to a pool that is not yet set up),
`ub` says which and the model ends.  `overlapped` remembers that two calls were
between the test of the free list and the lock at the same time.
A pool made anew after a shutdown is not modelled: the threads of the old one, which
nobody waits for, use its freed memory first.

### Buf, Io, Opt, Rpc

`BufOps` has the memory at `_start` as a sequence, `data` as an offset in it;
all writes go through `Put`, which notes a write outside.  Sizes are counted
modulo `W`, 128 in place of 2^32: `25 * len / 16` then overflows at six bytes
instead of 171 million.  Every allocation may fail.  `Buf` calls the functions in any
order and is shown to implement `ByteString`, the string with answers; that is
what entitles `Io`, `Opt`, `Rpc` and `SpeConn` to take a buffer for a string.

`Io` reads a file or a stream in pieces of any size, may fail at any of them or for
want of memory before them (-1 and -2), and
may have no memory for what it gives the user (`lost`).  A file that `spe_io_create` opened has one
`offset` for reading and writing: a write goes where the reading ahead has got to, over
what was not read yet (`Overwritten`), and is itself skipped.  `disk` is the content now,
`file` what it was when it was opened, `places` where each byte that was read stood and `own` where
was written; `MaxFile` bounds how far writing gets.  `spe_io_create_fd` may be given a
stream, where writing leaves what is read alone.  `Opt` gets a file
as lines, each with what it is meant to say (a section, an entry, nothing, an
error), so that the list it builds can be compared with the meaning of the file;
names are cut after two characters instead of 15.  `Rpc` gets a stream as the
requests meant, with something wrong behind them perhaps; the bytes come in any
pieces and the connection may end between any two.

### SpeMap, Rbtree, List, Hlist

`SpeMap` keeps the chains and the list of items; an item holds the name it was
made under, and `Kept` is what the code stores of it.  `KeyTable` is a sequence
of entries with a relation `Same` between the name looked for and the one
stored, equality for names that fit.  `Rbtree` has the pointers and colours of the
nodes; the mirrored halves of the code are written once for a side and the
opposite one.  `SortedQueue` is the in-order sequence that `SpeTask` takes the tree
for.  `List` and `Hlist` are stores to pointers; `ListSpec` does to sequences what
the names of the calls say.

They share no state, each graph is small, and one run with one property per
structure shows what eight would.  So `Buffers`, `Data` and `Lists` put them side
by side, `part` (`Parts`) says which one a behaviour uses, and `MCData` adds
`Rpc` and `Rbtree`, of which nothing is proved.  Refinement is stated with `part` as a
guard (`[][part = "buf" /\ B!String!Next]_...`), which asks more than the
specification alone, not less: no other part may change the structure.

## The runs

All bounds are constants of the modules; the runs finish in a few seconds to a
few minutes.

| Run | Configuration | Distinct states | Question |
|---|---|---|---|
| `task` | `SpeTask_all.cfg` | 428 thousand | queues, flags, timers and progress of the task queue |
| `task_truncated` | `SpeTask_truncated.cfg` | stops at a violation | the same clock, wider than `_expire` |
| `accept` | `Accept_all.cfg` | 585 thousand | the turn at the listening sockets, with a crash and a failed registration |
| `signal_nested` | `Signal_nested.cfg` | 937 thousand | handlers interrupting each other: array and queue |
| `signal_lost` | `Signal_lost.cfg` | violation | is a caught signal always in the queue? |
| `master` | `Master_all.cfg` | 41 thousand | table, descriptors, stopping, orphans; use of the signals |
| `master_wakeup` | `Master_wakeup.cfg` | violation | is an announced death always dealt with? |
| `conn_safety` | `Conn_safety.cfg` | 2.4 million | registration, tasks, answers and bytes, over any number of connections |
| `conn_live` | `Conn_live.cfg` | 381 thousand | reads and flushes end |
| `conn_untimed` | `Conn_untimed.cfg` | violation | does a timed read end? |
| `tpool` | `Tpool_all.cfg` | 365 thousand | threads, handlers, undefined behaviour |
| `data` | `Data.cfg` | 174 thousand | each data structure against what it stands for |

Deadlock is checked in the two runs of `SpeTask`, where there is always a step.
In the others the system may stop: all workers told to, the master gone, no
signal pending, nothing more to send, the file read, the pool freed.

**task.** Three tasks, one of them fast, are enough for a task to be set while
another runs and a third waits, and for a fast handler to run inside another
and inside the loop.  Handlers make one call each, but run any number of times,
so that sequences of calls have any length: what a handler does not do in this
run it does in the next, or another handler does it for it.  The clock has three values
and `ExpireMod` is 2, so that the clock passes what `_expire` can hold, as the
program's has since 1970: a deadline is then kept modulo `ExpireMod`, and
`Kept` is what is left of it.  `QueuesInOrder`, `HandlersDoNotNest`,
`TimeoutTellsCause` and `TimersOnTime` are safety.  `TimersOnTime` is
about what is kept: no timer fires before that time (`NoneBefore`), none overtakes
another (`ExpiryInOrder`), and none due is left when the handlers start
(`NoneLeftBehind`).  That what is kept is not the deadline is what `task_truncated`
shows.  `QueuedTaskRuns` says that the run queue is fair
though handlers requeue each other for ever; `TimerFires` that a timer that is
set fires or is taken back, if the run loop drains again and again (a run loop
kept busy never looks at its timers: `spe_task.c:137`) and nobody sets the timer
anew for ever: each `spe_task_schedule_timeout` replaces the deadline
(`spe_task.c:72`), and a handler that does so in every turn can keep a timer from ever
firing.  *Fairness:* handlers
return, `spe_task_process` goes on, time passes: one thread that is scheduled.
No call is forced.

**accept.** Two workers, two servers, two connections, one crash and one failed
registration: a worker can hold one mutex and miss the other, lose a mutex it held
before, hold one in vain, and die with any of them.  `HoldMeansLocked` relates the
flag, the mutex and the place of each worker; `OneAtATime` is what the mutexes are
for.  `AcceptedUnlessLocked` is the most the code gives, since the mutexes are
only ever tried: a worker killed with the mutex ends all accepting at that socket,
and one whose registration failed keeps the others away as long as it gets the mutex.
A crash anywhere else excuses nothing: the other sockets, and this one if the mutex was
free, are served on.
*Fairness:* each live worker goes on with its turn (no step waits for another
process), and the master restarts the dead.

**signal_nested.** Three signals nest two deep below the one on
top, which is all the program has (SIGCHLD; SIGTERM and SIGINT or SIGUSR1).
With nesting the queue keeps its shape (`QueueHoldsOnce`, and the bounds in
`TypeOK`) but loses signals (`signal_lost`).  `LostOnlyOvertaken` says in which way
only: `overtaken` is a history variable with the signals whose entries an
interrupted handler took back when it wrote the length it had read before; a
signal that is counted, not in the queue and not one of these does not exist when no
handler runs.  Of each chain of handlers only those between that read and that write
lose anything.

**master.** Two processes, two slots, one failing fork, two crashes, the master
killed at most once: a slot is freed and taken again, a worker is not replaced,
a later worker holds the end of an earlier one's pair.  At most four forks
follow from two processes and two crashes (`MasterAssumption`), so the bound
cuts nothing.  Signals do not nest here: with nesting they can get lost, as
`signal_lost` shows, and neither reaping nor stopping is then certain.
`TableFollows` says that slots and children are the same and that a worker is lost
only with a failed fork, `EndsFollow` which descriptors are open and where.  `UsesSignals`
says that the master is a `SignalLoop`, and so has its `LostOnlyOvertaken`, nested handlers included.
`WorkersFollowMaster` holds in spite of the inherited descriptors, because they
are held by later workers only (`EndsFollow`) and the last one has no later.
`StopsWhenAsked` needs an operator who repeats the signal: a single one can fall
into the gap before `sigsuspend`.  *Fairness:* master and workers run, delivery
is not postponed for ever, the operator repeats; strong for the master's main
line and for delivery, which interrupt one another.

**conn_safety, conn_live.** Two bytes each way, the second being the delimiter,
reads of one and of two bytes, a socket that takes one byte: reads complete
at once, after several events, with surplus left for the next read, or not at
all; a flush needs several writes.  Timed and untimed, accepted and connected,
with resets and failing connects.  `conn_safety` reuses the descriptor without
limit.  `conn_live` has one connection and one byte from the peer: whether a
read ends depends on the last thing that arrived only.  `ReadEnds` promises an
end when the peer is gone or has given an unconditional read something;
`FlushEnds` as the peer reads.  *Fairness:* the loop goes round, a connect ends,
the peer reads, and a timer that is set again and again is due in some turn (strong).

**tpool.** Two threads, two submitters, three calls, one thread that cannot be
created, a shutdown at any time after the start: two calls meet over the last free thread, one finds
none free and makes a thread, a thread gets its second handler, and shutdown falls
between any two steps of the others.  `ThreadsInOnePlace` says that the free
list, the submitters and the threads never have a thread twice or lose it;
`HandlersKept` that an accepted handler is held by one thread until it runs and
runs once; `SoundWhileServing` that undefined behaviour needs two overlapping calls,
a shutdown, or a call before `SpeTpoolInit` has returned.  `AcceptedRuns` is the liveness: no wake-up is lost.  *Fairness:*
threads and calls under way are scheduled and handlers return; nobody has to
call, and a thread asleep is woken by a signal only.

**data.** Texts of up to three bytes, among them 0 and a letter in both cases, arguments
of up to two; files of up to three bytes with a delimiter of one byte and of two, written to between the reads with
one byte or two, up to the fourth;
files of up to three lines out of twelve kinds, with or without an end; four names for
the map, two of which are longer than what is kept; streams of up to two
requests out of six, with CR LF inside a parameter, with nothing in one, or
with one of nine kinds of nonsense behind; eight timers, two due at the same time,
which is enough for every case of removal with a red or a black sibling on either side
and for recolouring to climb a level; two lists with three entries.
`RequestsFollow` has an action part: the connection ends only when its peer ends it or
sent nonsense.  Nothing here is concurrent and nothing but safety is asked.

## Where the code differs from what it says

Four runs are expected to find a violation, each of a property that states a
comment of the source; `PROJECT.json` quotes them under "findings".

- **Timers fire at once** (`task_truncated`).  `_expire` has 32 bits, the time in
  milliseconds since 1970 needs 41.  The stored value is always below the
  64-bit clock it is compared with.
- **A signal gets lost** (`signal_lost`).  `signal_queue[signal_queue_len++] = sig`
  interrupted by another handler: the interrupted one overwrites the entry of
  the other, whose count then keeps it from ever being queued again.
- **A death goes unnoticed** (`master_wakeup`).  SIGCHLD between
  `spe_signal_process` and `sigsuspend` is noted and slept upon.
- **A timed read waits for ever** (`conn_untimed`).  The first bytes that do not
  complete a read take its timer away, and nothing sets it again; a flush
  behaves in the same way.

Others are exceptions in properties that hold, and cannot be removed from them:

- **A dead worker keeps the accept mutex** (`AcceptedUnlessLocked`).  It is not
  robust (`spe_shm.c:58`): a worker killed between trylock and unlock ends all
  accepting at that socket, restarted workers included.
- **Shutdown of the thread pool does not wait** (`SoundWhileServing`,
  `AcceptedRuns`).  `spe_tpool.c:181` announces `// wait all quit`; the loop's
  condition `sleep_cnt > 10` is false from the start.
- **The pool is public before it is ready** (`SoundWhileServing`): `gTpool` is set at
  `spe_tpool.c:146`, the list and its lock at `:152` and after.
- **Two submitters can take the last thread** (`SoundWhileServing`):
  `spe_tpool.c:113` tests the list outside the lock, and the first entry of an
  empty list is not NULL.
- **What is read without memory for it is lost** (`ReadsKeepTheirWord`, its
  condition `lost = 0`), **a write skips what it has written and destroys what was to be
  read** (`Conserved`, `own`), and **a failing read is the end of the configuration**
  (`OptionsAsMeant`, `broken`).
- **Long keys of the map are never found** (`MapIsTable`, `Same`): they are cut
  when stored and compared in full.
- `conf/spe.conf` spells `Daemon` and `Procs`; `spe_cycle.c:14` asks for `daemon`
  and `procs`, and `spe_opt_int` compares exactly: that file sets neither.

## What is proved

For every value of the constants, with TLAPS (SMT, Zenon, and LS4 for the
temporal steps).  The constants are bound only by the ASSUMEs of the modules.

| Module | Theorem | Property | Further assumption |
|---|---|---|---|
| `SpeTaskProofs` | `TypeCorrect` | `TypeOK` | |
| | `InOrder` (`QueuesAgree`, `TimersInOrder`) | `QueuesInOrder` | |
| | `FlagTruthful` | `TimeoutTellsCause` | |
| | `RunToCompletion` | `HandlersDoNotNest` | |
| | `OnTime` | `TimersOnTime` | |
| | `EveryTimerDue` | (the defect of `task_truncated`, for every clock) | |
| `AcceptProofs` | `TypeCorrect` | `TypeOK` | |
| | `FlagTellsHolder` | `HoldMeansLocked` | |
| | `TurnsTaken` (`AcceptorsAlone`, `AcceptSucceeds`) | `OneAtATime` | |
| `SignalProofs` | `TypeCorrect` | `TypeOK` | |
| | `QueuedOnce` | `QueueHoldsOnce` | |
| | `NoOtherLoss` | `LostOnlyOvertaken` | |
| `MasterProofs` | `TypeCorrect` | `TypeOK` | |
| | `TableRight` | `TableFollows` | |
| | `EndsRight` | `EndsFollow` | |
| | `UsesSignalLoop` | `UsesSignals` | |
| | `NoSignalForgotten` | `LostOnlyOvertaken` | |
| `TpoolProofs` | `TypeCorrect` | `TypeOK` | |
| | `PlacesRight` | `ThreadsInOnePlace` | |
| | `HandlersRight` | `HandlersKept` | |
| | `ServesSoundly` | `SoundWhileServing` | |
| `SpeConnProofs` | `TypeCorrect` | `TypeOK` | |
| | `RegistrationRight` | `RegistrationMatches` | |
| | `NothingForgotten` | `NoneForgotten` | |
| | `TasksRight` | `TasksBelong` | |
| | `StreamRight` | `StreamIntact` | |
| | `ReadRight` | `ReadKeepsItsWord` | |
| | `BufferRight` | `BufferIsString` | |
| `SpeTaskProofs` | `ListsRight` | `ListsAreSequences` | |
| `DataProofs` | `ReadsRight` | `ReadsKeepTheirWord` | |
| | `OptionsRight` | `OptionsAsMeant` | single lines are read as meant (`OptAssumption`) |
| | `MapRight` | `MapIsTable` | |

**SpeTask.** `IInv` is `TypeOK`, `QueueConsistent` and `TimersSorted` together.
None is inductive alone: the order of the tree survives a change of `expire`
only because the task whose `expire` changes is not in the tree, which is what
`QueueConsistent` says; and removal from a queue makes sense only if the
task is in it, once.  `QueueLemmas` has the facts about `RemoveAt`, `InsertAt`,
`Append` and `Tail` of sequences without repetition, `TimerPlaceProperties`
that there is a place in a sorted tree where a timer fits.  The flag is
handled by `FlagInv`: a task whose timer was set since it last ran is still in
the tree with the flag cleared, or was queued and the flag says by whom.
`HandlersDoNotNest` is inductive by itself.  For
expiry, `ClockInv` says that the time read is not ahead of the
clock and that an `expire` in the tree is what `_expire` keeps of the deadline, whatever the clock.
`OnTime` has no assumption on the clock; that what is kept is less than the clock, once
the clock has passed `ExpireMod`, gives `EveryTimerDue`: from then on every turn fires
every timer there is.

**Accept.** `HoldMeansLocked` needs to know where in a pass a worker is
(`PassFollows`) and that only sockets with the flag are registered (`ListenFollows`);
`OneAcceptor` follows from the two, since who polls has the flag and so the
mutex.  `ReadyFollows` adds that an announced connection is still there: only
the holder of the mutex takes from a backlog.

**Signals.** The array is in order only between handlers.  `StackOK` says that
the signals on the stack differ, `SlotsOK` how the entries that handlers have
picked and not written relate, lower frames lower or equal, and
`SettledOnce` that the other entries hold different signals, none of which a
handler is about to put there.  With it the length cannot pass the number of
signals.  `LossInv` adds that a signal that is counted, or that a
handler has entered and is about to count, is in one of those other entries that
`spe_signal_process` has not passed, or in `overtaken`.  It is stated for every stack of
handlers (`LostOnlyOvertaken` is the case of none) and needs no assumption on which signals
interrupt which; a new signal finds room by a counting argument (`QueueHasRoom`).

**Master.** Table, descriptors and children are looked at together: a fork adds
the same worker to all three, and what `waitpid` finds leaves the first two
(`Lists`, `EndsAt`, `ForkEffect`, `SlotFreed`).  That a worker holds ends of older
ones only needs `TableInv`: what a fork inherits are the ends of workers in the
table, whose numbers are smaller.  `CountInv` bounds the forks: while the master is
there only crashes end workers, because each has an end of its pair open
(`NoneStops`), so every fork after the first `Procs` answers a crash; this keeps
`forks` within `MaxForks`, that is, the bound of the model cuts nothing, which
`MasterAssumption` alone guarantees.  `SignalUse` says when the master may
register a handler; with it every step is one of `SignalLoop`
(`UsesSignalLoop`, a refinement), and the theorems of `SignalProofs` carry over:
`NoSignalForgotten` is `NoOtherLoss` seen through it.

**Tpool.** Where a thread is and where a handler is rest on each other.
`PlaceInv` says that a thread in the list, or taken from it by a submitter, has no
handler and is taken by nobody else; `JobInv` that a job is either still with
the submitter, or in one thread, or in the thread made for it, and has run once
exactly where it should have.  A submitter overwrites no handler because of the
first; a thread has a handler to run, and gives itself back only without one,
because of the second.  `ServeInv` is about line 113: as long as no two calls have
been between the test and the lock, the only call there finds the thread it has
seen, since all that others do to the list is to append.  `TypeOK` includes the
value of the counter, which is proved with the sets of those counted in and not yet
out (`Counting`, `CountingOnce`).  The theorems hold in the shutdown too: what they
say of handlers then is that none runs twice, not that each runs.

**SpeConn.** `IInv` has a part for control, one for bytes and one for the promise
of a read.  For control all that matters of the task queue is which tasks are
active (queued, or timed), and that a task is in the queue once and not in the
timer tree as well (`QueueOK`): each function of `spe_task.c` then adds a task to
that set or takes it out (`ScheduleEffect`, `DequeueEffect`, `EndedEffect`).
`Ctrl` is `RegistrationMatches`, `NoneForgotten` and `TasksBelong` together with
what ties them: a connection that is not open has no active task, so that the
next one on the descriptor starts from nothing, and an answer is queued only when
its operation is over.  `Stream` needs that the bytes are numbered without a gap
from the first not taken to the last sent (`NumbersConcat`, `NumbersDrop`); the
functions of `spe_conn.c` move them along (`ReadFdEffect`, `DeliverEffect`,
`WriteFdEffect`).  `Word` remembers, while a read waits, where in the user's
buffer its bytes will begin; `FoundIsKept` is the fact that what is delivered is
what was asked for.

**Buffers.** A refinement: every call on the memory is the call on the string.
`BufInv` says that a buffer nothing went wrong with is `Good`: it has no
memory and no text, or it is `Holding` its text inside the memory, with a 0 behind
it unless the text is empty.  Each operation has a lemma that says with which
string it leaves a good buffer good (`AppendedIs`, `LConsumedIs`, `TrimmedIs`,
...), or that what went wrong is an `Overrun`: a write outside, after a size was asked
for of which `25 * n / 16` is not what an `unsigned` holds (`EnoughAsked`: any
other size is enough).  The widths and lengths are any; `W` is 2^32 in the program.
`spe_buf_split` is a recursive function of the offset; that it gives the pieces
from each offset on (`SplitIs`) is shown from the greatest offset at which it would not
(`Downward`), for the induction theorems of the library cannot be used.  Two things had to
change before this could be proved.  `Put` let a later write overwrite the
note of an earlier one, so that `InBounds` was not inductive; it keeps the first.  And
`ByteString` said what a split is by another recursion; it now says which pieces
there are (`Runs`) and that they come in order.

**Lists.** Another refinement, from stores to pointers to operations on sequences.  `RingInv` says
of `List` that every head that was initialised has a ring of its own (`next` and `prev`
follow a sequence without repetition), that the rings have no entry in common, and
that entries in none are alone or were left by `list_del`; `HlistInv` says the same of the chains of
`Hlist` with `pprev`.  An operation is a few stores, between which some
entries are in no sound ring; so the shape is stated with a set of loose entries of
which nothing is said, and each store is a lemma about it (`SetIs`, `OneRingIs`, `RewiredIs`).
A walk along the pointers gives the sequence (`RingsAreWalked`, `ChainsAreWalked`).

**Reader.** `IoInv` says that what was given out and what the read buffer holds
are the bytes at `places`, which ascend and are all up to the offset but those written by
the user, that the file is as it was outside these, and that a call under way has
not yet what it waits for; a delimiter found late cannot have begun
in what was searched before (`FindIsFirst`).  A write moves the offset and adds the
places it went to to `own`, so that neither a place read before nor one still to be read is
taken for another.

**Map.** `MapInv`: the chain of each bucket has exactly the items of the list whose
name hashes to it, no item twice, no two of the same stored name that fit.  `SpeMapDel` takes
out of both the same item because the walk of the chain stops at the entry that the
table means (`ChainShrinks`, `ListShrinks`).

**Options.** What one line is read as is a computation on characters, done
for each line of a run by TLC: `OptAssumption` says of the set `Lines` that
each is parsed as it is meant, and TLC evaluates it for the twelve kinds of line.  From
it follows, by `OptInv`, what the file as a whole means, for files of any length:
the list holds the entries of the lines read so far under the section they stand in, in order, so that
the first match of a look-up is the first line that sets it (`FirstMatch`,
`FirstEntry`), up to the place where reading failed.

Out of the prover's reach are liveness under fairness and ENABLED, induction
over data as a theorem of the library (what a recursive definition computes for every
input), and RECURSIVE operators; the modules above have none of the last.

## What is only model-checked

- All liveness: `QueuedTaskRuns`, `TimerFires`, `AcceptedUnlessLocked`,
  `WorkersFollowMaster`, `StopsWhenAsked`, `ReadEnds`, `FlushEnds`, `AcceptedRuns`.
- `TreeIsSorted`: `Rbtree` is written with recursive operators, and what it says of
  trees of any size is an induction.
- `RequestsFollow`, of the remote procedure calls: the encoding a stream is compared
  with is a recursive function, and no proof was tried yet.
- That a single line of a configuration file is read as it is meant.

## What is not modelled

- **Daemonizing, pid file, titles, affinity, log**: straight input and output.
  What is read from the configuration is in `Opt`.
- **The wall clock set back or forward.**  With a clock that moves at will
  nothing can be said of timers; the clock of `SpeTask` goes forward.
- **Failing `epoll_ctl` and `malloc` in `SpeConn`.**  `Accept`, `Buf`, `Io`, `Opt`,
  `SpeMap` and `Tpool` have what may fail in them; the other places where a failure leaves
  state behind are listed as hazards.
- **Events of a descriptor closed in the same batch**: `SpeConn` has one
  descriptor.
- **`spe_server_unregister`, `exit_server`**: `spe_server_module` is not in the
  table of modules at this commit.
- **`spe_module.c`**: a constant table.  The hooks that exist are `init_worker` of
  epoll and of tasks, `exit_worker` of epoll and `init_master` of signals, and no two of
  them touch the same state.
- **Small parts of the data structures that change nothing or have no user**: `spe_buf_cmp`,
  `spe_opt_destroy`, the `rb_augment` functions.
- **`spe_lua.c`, the demonstration server**: glue between parts; the former is not
  linked into the program.
- **cJSON and Lua**: third party, and most of the repository: of its 26 thousand
  lines of code 20 thousand are the Lua interpreter in `src/support`.  The
  lines named in `PROJECT.json` are for this reason less than a tenth of all
  lines, but about half of the lines of code in `src/src`.  **`spe_test.c`, `spe_*_test.c`**: read for how the
  interfaces are used.

## The plan

The modules planned at first are done, and so are the proofs of all safety
properties but two.  What is left, in order of use:

1. `RequestsFollow`: the invariant is that the bytes received and not yet taken, and those
   still to come, are the rest of the encoding of the requests meant, from the
   part the parser's `status` stands at.  What a request is encoded as is a
   recursive function of its parameters; `Downward`, with which `spe_buf_split`
   is proved, is the way to reason about it.  It needs an assumption on what
   is wrong in a stream, in the manner of `OptAssumption`.
2. `TreeIsSorted`: `Rbtree` without RECURSIVE, with recursive functions of the nodes.
3. An abstract `Stream` (operations asked and answered, bytes in order) that
   `SpeConn` implements, with the connection's record hidden.
4. Two connections in one event loop, with events of a descriptor that was closed
   and reused in the same batch.
5. `Modules`: start and end of master and workers, should the table grow hooks
   that depend on one another.
