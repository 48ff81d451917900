------------------------------ MODULE SpeTask ------------------------------
(***************************************************************************)
(* spe_task.c: the run queue and the timer queue of one worker process.    *)
(*                                                                         *)
(* A worker is one thread.  Its event loop (spe_worker_process) schedules  *)
(* tasks from spe_epoll_process and then calls spe_task_process, which     *)
(* first moves the tasks whose timer is due to the run queue and then runs *)
(* handlers until the run queue is empty.  A handler is code of another    *)
(* component: all that is said of it here is that it makes finitely many   *)
(* calls of spe_task_schedule, spe_task_schedule_timeout and               *)
(* spe_task_dequeue on tasks of its choice and returns.  A task marked     *)
(* _fast is not queued by spe_task_schedule: its handler runs at once, in  *)
(* the frame of the caller.                                                *)
(*                                                                         *)
(* The red-black tree of spe_rbtree.c is represented by its in-order       *)
(* sequence and the list of spe_list.h by a sequence.                      *)
(***************************************************************************)
EXTENDS Integers, Sequences, FiniteSets, SequencesExt

CONSTANTS
  Tasks,      \* the spe_task_t objects
  Fast,       \* those whose handler was set with _fast = 1
  Loop,       \* stands for the event loop in a call stack
  ExpireMod,  \* _expire is an `unsigned`: 2^32 in the code
  StartTime,  \* spe_current_time() when the worker starts
  MaxNow,     \* bound: the clock stops here
  MaxMs,      \* bound: the longest time-out asked for
  MaxCalls,   \* bound: API calls of one handler, or of one turn of the loop
  MaxDepth    \* bound: nested calls of fast handlers

ASSUME TaskAssumption ==
  /\ Fast \subseteq Tasks
  /\ Loop \notin Tasks
  /\ ExpireMod \in Nat \ {0}
  /\ StartTime \in Nat
  /\ {MaxNow, MaxMs, MaxCalls, MaxDepth} \subseteq Nat

VARIABLES
  task_head,   \* the run queue
  timer_head,  \* the timer queue, in the order of the tree
  status,      \* _status of each task
  timeout,     \* the flag a handler reads: was it the timer?
  expire,      \* _expire of each task
  phase,       \* where the event loop is
  curr_time,   \* the clock as spe_task_process read it
  stack,       \* the loop or handlers that run, the innermost first
  now,         \* the clock
  armed,       \* history: a timer was set since the task last ran
  cause,       \* history: what queued the task last
  deadline     \* history: the time the timer was set for, untruncated

taskvars == <<task_head, timer_head, status, timeout, expire>>
control  == <<phase, curr_time, stack>>
history  == <<armed, cause, deadline>>
vars     == <<taskvars, control, now, history>>

----------------------------------------------------------------------------
Status == {"FREE", "TIMER", "QUEUE"}
Phases == {"idle", "expire", "run"}
Frame  == [who : Tasks \cup {Loop}, left : 0..MaxCalls]

NewFrame(who) == [who |-> who, left |-> MaxCalls]

\* spe_task_init leaves every task like this; the loop is about to start.
Init ==
  /\ task_head  = <<>>
  /\ timer_head = <<>>
  /\ status   = [t \in Tasks |-> "FREE"]
  /\ timeout  = [t \in Tasks |-> FALSE]
  /\ expire   = [t \in Tasks |-> 0]
  /\ phase = "idle"
  /\ curr_time = StartTime
  /\ stack = <<NewFrame(Loop)>>
  /\ now = StartTime
  /\ armed    = [t \in Tasks |-> FALSE]
  /\ cause    = [t \in Tasks |-> "none"]
  /\ deadline = [t \in Tasks |-> 0]

----------------------------------------------------------------------------
\* The queues.

\* A slip: list_add instead of list_add_tail.
list_add(t) == <<t>> \o task_head

\* The run queue with one more task.
list_add_tail(t) == Append(task_head, t)

\* A queue without one of its tasks (list_del_init, rb_erase).
Erase(queue, t) ==
  RemoveAt(queue, CHOOSE i \in DOMAIN queue : queue[i] = t)

\* A slip: rb_link_node at the left-most leaf, or at the right-most one.
FirstPlace(queue, when) == 1
LastPlace(queue, when) == Len(queue) + 1

\* Where the descent of the tree ends: right of every timer that is due no
\* later, left of every timer that is due later.
TimerPlace(queue, when) ==
  CHOOSE i \in 1..(Len(queue) + 1) :
    /\ \A j \in 1..(i - 1) : expire[queue[j]] <= when
    /\ \A j \in i..Len(queue) : when < expire[queue[j]]

\* A slip: rb_erase is forgotten.
TimersKept(t) == timer_head

\* The timer queue once t has left it, if it was there.
TimersWithout(t) ==
  IF status[t] = "TIMER" THEN Erase(timer_head, t) ELSE timer_head

\* What an `unsigned` keeps of a time; a slip rounds it up.
RoundedUp(time) == time + 1
Truncated(time) == time % ExpireMod

\* Is the timer due?  A slip compares with the next tick.
DueAhead(t) == expire[t] <= curr_time + 1
Due(t) == expire[t] <= curr_time

\* The flag cleared; a slip leaves it as it is.
TimeoutKept(t) == timeout
TimeoutCleared(t) == [timeout EXCEPT ![t] = FALSE]

\* Is the handler called from spe_task_schedule?  A slip calls them all.
CalledAlways(t) == TRUE
CalledHere(t) == t \in Fast

\* Does spe_task_process look at the timers?  A slip does so only when there
\* is nothing to run.
TimersCheckedWhenIdle == timer_head # <<>> /\ task_head = <<>>
TimersChecked == timer_head # <<>>

----------------------------------------------------------------------------
\* Who calls: the loop between two turns of spe_task_process, or the handler
\* that runs.  A call uses up one of the calls its frame may still make.

MayCall == stack # <<>> /\ Head(stack).left > 0
Charged == <<[Head(stack) EXCEPT !.left = @ - 1]>> \o Tail(stack)

\* spe_task_schedule
spe_task_schedule(t) ==
  /\ MayCall
  /\ UNCHANGED <<timeout, expire, phase, curr_time, now, deadline>>
  /\ \/ /\ status[t] = "QUEUE"                            \* already queued
        /\ stack' = Charged
        /\ UNCHANGED <<task_head, timer_head, status, armed, cause>>
     \/ /\ status[t] # "QUEUE" /\ CalledHere(t)            \* call it here
        /\ Len(stack) <= MaxDepth
        /\ timer_head' = TimersWithout(t)
        /\ status' = [status EXCEPT ![t] = "FREE"]
        /\ stack' = <<NewFrame(t)>> \o Charged
        /\ armed' = [armed EXCEPT ![t] = FALSE]
        /\ UNCHANGED <<task_head, cause>>
     \/ /\ status[t] # "QUEUE" /\ ~CalledHere(t)         \* queue it
        /\ timer_head' = TimersWithout(t)
        /\ task_head' = list_add_tail(t)
        /\ status' = [status EXCEPT ![t] = "QUEUE"]
        /\ stack' = Charged
        /\ cause' = [cause EXCEPT ![t] = "event"]
        /\ UNCHANGED armed

\* spe_task_schedule_timeout
spe_task_schedule_timeout(t, ms) ==
  /\ MayCall
  /\ stack' = Charged
  /\ UNCHANGED <<task_head, phase, curr_time, now, cause>>
  /\ \/ /\ status[t] = "QUEUE"
        /\ UNCHANGED <<timer_head, status, timeout, expire, armed, deadline>>
     \/ /\ status[t] # "QUEUE"
        /\ LET when == Truncated(now + ms)
               rest == TimersWithout(t)
           IN /\ expire' = [expire EXCEPT ![t] = when]
              /\ timer_head' = InsertAt(rest, TimerPlace(rest, when), t)
        /\ timeout' = TimeoutCleared(t)
        /\ status' = [status EXCEPT ![t] = "TIMER"]
        /\ armed' = [armed EXCEPT ![t] = TRUE]
        /\ deadline' = [deadline EXCEPT ![t] = now + ms]

\* spe_task_dequeue
spe_task_dequeue(t) ==
  /\ MayCall
  /\ stack' = Charged
  /\ timer_head' = TimersWithout(t)
  /\ task_head' = IF status[t] = "QUEUE" THEN Erase(task_head, t) ELSE task_head
  /\ status' = [status EXCEPT ![t] = "FREE"]
  /\ armed' = [armed EXCEPT ![t] = FALSE]
  /\ UNCHANGED <<timeout, expire, phase, curr_time, now, cause, deadline>>

\* The innermost handler returns to its caller.
HandlerReturn ==
  /\ stack # <<>> /\ Head(stack).who # Loop
  /\ stack' = Tail(stack)
  /\ UNCHANGED <<taskvars, phase, curr_time, now, history>>

----------------------------------------------------------------------------
\* spe_task_process

\* The loop enters it; the clock is read once, if there is a timer at all.
ProcessBegin ==
  /\ phase = "idle" /\ Head(stack).who = Loop
  /\ stack' = <<>>
  /\ phase' = IF TimersChecked THEN "expire" ELSE "run"
  /\ curr_time' = IF TimersChecked THEN now ELSE curr_time
  /\ UNCHANGED <<taskvars, now, history>>

\* rb_first is due: to the run queue with it.
ExpireFirst ==
  /\ phase = "expire" /\ timer_head # <<>>
  /\ LET t == Head(timer_head)
     IN /\ Due(t)
        /\ timeout' = [timeout EXCEPT ![t] = TRUE]
        /\ task_head' = list_add_tail(t)
        /\ status' = [status EXCEPT ![t] = "QUEUE"]
        /\ cause' = [cause EXCEPT ![t] = "timer"]
  /\ timer_head' = Tail(timer_head)
  /\ UNCHANGED <<expire, control, now, armed, deadline>>

\* rb_first is not due, or there is none: the run loop starts.
ExpireDone ==
  /\ phase = "expire"
  /\ timer_head # <<>> => ~Due(Head(timer_head))
  /\ phase' = "run"
  /\ UNCHANGED <<taskvars, curr_time, stack, now, history>>

\* The first task of the run queue leaves it and its handler is called.
RunTask ==
  /\ phase = "run" /\ stack = <<>> /\ task_head # <<>>
  /\ LET t == Head(task_head)
     IN /\ status' = [status EXCEPT ![t] = "FREE"]
        /\ stack' = <<NewFrame(t)>>
        /\ armed' = [armed EXCEPT ![t] = FALSE]
  /\ task_head' = Tail(task_head)
  /\ UNCHANGED <<timer_head, timeout, expire, phase, curr_time, now, cause, deadline>>

\* The run queue is empty: back to the event loop.
ProcessEnd ==
  /\ phase = "run" /\ stack = <<>> /\ task_head = <<>>
  /\ phase' = "idle"
  /\ stack' = <<NewFrame(Loop)>>
  /\ UNCHANGED <<taskvars, curr_time, now, history>>

\* Time passes, whatever the worker does.
Tick ==
  /\ now < MaxNow
  /\ now' = now + 1
  /\ UNCHANGED <<taskvars, control, history>>

----------------------------------------------------------------------------
Schedule == \E t \in Tasks : spe_task_schedule(t)
ScheduleTimeout ==
  \E t \in Tasks, ms \in 0..MaxMs :
    now + ms <= MaxNow /\ spe_task_schedule_timeout(t, ms)
Dequeue == \E t \in Tasks : spe_task_dequeue(t)

spe_task_process == ProcessBegin \/ ExpireFirst \/ ExpireDone \/ RunTask \/ ProcessEnd

Next ==
  \/ Schedule \/ ScheduleTimeout \/ Dequeue \/ HandlerReturn
  \/ spe_task_process
  \/ Tick

Spec == Init /\ [][Next]_vars

\* The worker's thread runs on: handlers return, spe_task_process goes from
\* step to step and the loop calls it again.  Time passes.  No call of the
\* API is ever forced.
Fairness ==
  /\ WF_vars(HandlerReturn)
  /\ WF_vars(spe_task_process)
  /\ WF_vars(Tick)

FairSpec == Spec /\ Fairness

----------------------------------------------------------------------------
\* Every variable has its type.
TypeOK ==
  /\ task_head \in Seq(Tasks)
  /\ timer_head \in Seq(Tasks)
  /\ status \in [Tasks -> Status]
  /\ timeout \in [Tasks -> BOOLEAN]
  /\ expire \in [Tasks -> 0..(ExpireMod - 1)]
  /\ phase \in Phases
  /\ curr_time \in Nat
  /\ stack \in Seq(Frame)
  /\ now \in Nat
  /\ armed \in [Tasks -> BOOLEAN]
  /\ cause \in [Tasks -> {"none", "event", "timer"}]
  /\ deadline \in [Tasks -> Nat]

\* A queue holds exactly the tasks with its status, each of them once.
Holds(queue, st) ==
  /\ ToSet(queue) = {t \in Tasks : status[t] = st}
  /\ IsInjective(queue)

\* _status is the only record of where a task is linked, and each function
\* of spe_task.c trusts it when it unlinks: a task is in the run queue iff it
\* is QUEUE, in the tree iff it is TIMER, and never twice.  (The ASSERTs of
\* spe_task_process on _status follow.)
QueueConsistent == Holds(task_head, "QUEUE") /\ Holds(timer_head, "TIMER")

\* The in-order sequence of the tree is sorted: spe_task_process may stop at
\* the first timer that is not due.
TimersSorted ==
  \A i, j \in DOMAIN timer_head :
    i < j => expire[timer_head[i]] <= expire[timer_head[j]]

\* Whatever is scheduled, moved, removed and run in whatever order: the queues,
\* the states of the tasks and the times agree (spe_task.c:46-110).
QueuesInOrder == QueueConsistent /\ TimersSorted

\* Run to completion: only fast handlers run inside another handler or inside
\* the event loop; the handler of any other task starts from the run loop,
\* so that it never meets another handler half way through.
HandlersDoNotNest ==
  \A i \in DOMAIN stack : i < Len(stack) => stack[i].who \in Fast

\* The flag `timeout` tells a handler why it was called: a task whose timer
\* was set since it last ran, and that now waits in the run queue, has the
\* flag iff it was the timer that queued it.  connect_normal, read_normal and
\* write_normal decide by this flag alone whether an operation timed out.
TimeoutTellsCause ==
  \A t \in Tasks :
    status[t] = "QUEUE" /\ armed[t] => (timeout[t] <=> cause[t] = "timer")

\* A timer never fires before the time it was set for.  It is what the caller
\* of spe_task_schedule_timeout asks for; a clock beyond _expire breaks it.
Fires(t) == status[t] = "TIMER" /\ status'[t] = "QUEUE" /\ cause'[t] = "timer"

NoEarlyExpiry == [][\A t \in Tasks : Fires(t) => deadline[t] <= now]_vars

\* What is left of a deadline in the `unsigned` _expire, whatever the clock
\* (spe_task.c:76): all that the timers are kept by.
Kept(t) == deadline[t] % ExpireMod

\* No timer fires before that,
NoneBefore == [][\A t \in Tasks : Fires(t) => Kept(t) <= now]_vars

\* none fires while one that was to fire before it is left behind,
ExpiryInOrder ==
  [][\A t, u \in Tasks :
       Fires(t) /\ status'[u] = "TIMER" => Kept(t) <= Kept(u)]_vars

\* and none that was due when the clock was read is left behind when the
\* handlers start, however many were due at once.
NoneLeftBehind ==
  [][\A t \in Tasks :
       phase = "expire" /\ phase' = "run" /\ status[t] = "TIMER"
         => curr_time < Kept(t)]_vars

\* Timers keep the time that _expire holds for them, over all that handlers
\* and events do to them meanwhile (spe_task.c:68-91, 117-134).
TimersOnTime == NoneBefore /\ ExpiryInOrder /\ NoneLeftBehind

\* The run queue is fair: a queued task leaves it, though handlers may queue
\* each other and themselves for ever.
QueuedTaskRuns ==
  \A t \in Tasks : status[t] = "QUEUE" ~> status[t] # "QUEUE"

\* A timer is set again while it runs, for a later time.
Rearm(t) == status[t] = "TIMER" /\ \E ms \in 0..MaxMs : spe_task_schedule_timeout(t, ms)

\* A timer fires or is taken back, provided the run loop drains again and
\* again (spe_task_process does not come back to its timers before) and nobody
\* sets it anew for ever (spe_task.c:72-76 replaces its deadline).
TimerFires ==
  []<>(phase = "idle") =>
    \A t \in Tasks :
      \/ []<><<Rearm(t)>>_vars
      \/ status[t] = "TIMER" ~> status[t] # "TIMER"
============================================================================
