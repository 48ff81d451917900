----------------------------- MODULE SpeSignal -----------------------------
(***************************************************************************)
(* spe_signal.c: signals are only noted in a handler and dealt with later, *)
(* by spe_signal_process in the main loop.                                 *)
(*                                                                         *)
(* signal() blocks a signal while its own handler runs but no other, so    *)
(* that signal_common_handler can be interrupted by itself, for another    *)
(* signal, at any instruction.  The handlers that run are a stack; the     *)
(* program's main line is below them and goes on when the stack is empty.  *)
(* The handler's steps are its accesses to the variables that handlers     *)
(* share; in `signal_queue[signal_queue_len++] = sig' the length is read,  *)
(* written back and only then the entry written.                           *)
(*                                                                         *)
(* The handlers that users register are those of spe.c: they set a flag,   *)
(* which the main line tests and takes back.                               *)
(***************************************************************************)
EXTENDS Integers, Sequences, FiniteSets

CONSTANTS
  Sigs,       \* the signals the program registers handlers for
  MAX_SIGNAL, \* length of signal_queue
  None,       \* content of an entry never written
  MaxCount,   \* bound: higher counts of a signal are not told apart
  Nests       \* does a signal arrive while the handler of another runs?

ASSUME SignalAssumption ==
  /\ IsFiniteSet(Sigs) /\ None \notin Sigs
  /\ MAX_SIGNAL \in Nat /\ Cardinality(Sigs) <= MAX_SIGNAL
  /\ MaxCount \in Nat \ {0} /\ Nests \in BOOLEAN

VARIABLES
  pending,          \* signals raised and not delivered yet (kernel)
  handled,          \* signals with a handler in signal_state
  frames,           \* the running instances of signal_common_handler, top last
  signal_queue,     \* array of MAX_SIGNAL entries
  signal_queue_len,
  cnt,              \* signal_state[].cnt
  pos,              \* i of spe_signal_process, -1 outside: signals are blocked
  flags,            \* set by the handlers the user registered
  overtaken         \* history: signals whose entry an interrupted handler took back

queuevars == <<signal_queue, signal_queue_len>>
sigvars   == <<pending, handled, frames, queuevars, cnt, pos, flags, overtaken>>

Frame == [sig : Sigs, at : {"test", "store", "write", "count"}, slot : Nat]

Queued == {signal_queue[i] : i \in 0..signal_queue_len - 1}

----------------------------------------------------------------------------
\* signal_init
SignalInit ==
  /\ pending = {} /\ handled = {} /\ frames = <<>>
  /\ signal_queue = [i \in 0..MAX_SIGNAL - 1 |-> None]
  /\ signal_queue_len = 0
  /\ cnt = [s \in Sigs |-> 0]
  /\ pos = -1 /\ flags = {} /\ overtaken = {}

\* A signal is raised for the process.  One that has no handler is ignored,
\* or ends the program.
Raise(s) ==
  /\ s \in handled
  /\ pending' = pending \cup {s}
  /\ UNCHANGED <<handled, frames, queuevars, cnt, pos, flags, overtaken>>

\* The kernel calls signal_common_handler.
Deliver(s) ==
  /\ s \in pending /\ pos = -1
  /\ \A k \in DOMAIN frames : frames[k].sig # s
  /\ Nests \/ frames = <<>>
  /\ pending' = pending \ {s}
  /\ frames' = Append(frames, [sig |-> s, at |-> "test", slot |-> 0])
  /\ UNCHANGED <<handled, queuevars, cnt, pos, flags, overtaken>>

\* Is the signal put in the queue?  Slips forget that it may be there, and
\* the length of the queue as well.
PutAnyway(s) == TRUE
PutAgain(s) == signal_queue_len < MAX_SIGNAL
Put(s) == cnt[s] = 0 /\ signal_queue_len < MAX_SIGNAL

\* The signals whose entries are gone when a handler writes back the length it
\* read, plus one: handlers that interrupted it meanwhile put them there.
TakenBack(f) == {signal_queue[i] : i \in f.slot..signal_queue_len - 1}

\* signal_common_handler, the instance on top of the stack.
CommonHandler ==
  /\ frames # <<>>
  /\ LET n == Len(frames)
         f == frames[n]
     IN \/ /\ f.at = "test"
           /\ frames' = [frames EXCEPT ![n].at = IF Put(f.sig) THEN "store" ELSE "count",
                                       ![n].slot = signal_queue_len]
           /\ UNCHANGED <<queuevars, cnt, overtaken>>
        \/ /\ f.at = "store"
           /\ signal_queue_len' = f.slot + 1
           /\ overtaken' = overtaken \cup TakenBack(f)
           /\ frames' = [frames EXCEPT ![n].at = "write"]
           /\ UNCHANGED <<signal_queue, cnt>>
        \/ /\ f.at = "write"
           /\ signal_queue' = [signal_queue EXCEPT ![f.slot] = f.sig]
           /\ frames' = [frames EXCEPT ![n].at = "count"]
           /\ UNCHANGED <<signal_queue_len, cnt, overtaken>>
        \/ /\ f.at = "count"
           /\ cnt' = [cnt EXCEPT ![f.sig] = IF @ < MaxCount THEN @ + 1 ELSE @]
           /\ frames' = SubSeq(frames, 1, n - 1)
           /\ UNCHANGED <<queuevars, overtaken>>
  /\ UNCHANGED <<pending, handled, pos, flags>>

----------------------------------------------------------------------------
\* The main line, while no handler runs.

\* spe_signal_register: a handler, or SIG_IGN.
Register(s) ==
  /\ frames = <<>> /\ pos = -1
  /\ handled' = handled \cup {s}
  /\ cnt' = [cnt EXCEPT ![s] = 0]
  /\ overtaken' = overtaken \ {s}
  /\ UNCHANGED <<pending, frames, queuevars, pos, flags>>

Ignore(s) ==
  /\ frames = <<>> /\ pos = -1
  /\ handled' = handled \ {s} /\ pending' = pending \ {s}
  /\ cnt' = [cnt EXCEPT ![s] = 0]
  /\ overtaken' = overtaken \ {s}
  /\ UNCHANGED <<frames, queuevars, pos, flags>>

\* spe_signal_process finds the queue not empty and blocks all signals.
ProcessBegin ==
  /\ frames = <<>> /\ pos = -1 /\ signal_queue_len > 0
  /\ pos' = 0
  /\ UNCHANGED <<pending, handled, frames, queuevars, cnt, flags, overtaken>>

\* What is left of the count of a signal.  A slip leaves one behind.
CountKept(s) == cnt[s]
CountTaken(s) == 0

\* One entry of the queue.
ProcessOne ==
  /\ pos >= 0 /\ pos < signal_queue_len
  /\ LET s == signal_queue[pos]
     IN IF cnt[s] > 0
        THEN /\ flags' = IF s \in handled THEN flags \cup {s} ELSE flags
             /\ cnt' = [cnt EXCEPT ![s] = CountTaken(s)]
        ELSE UNCHANGED <<flags, cnt>>
  /\ pos' = pos + 1
  /\ UNCHANGED <<pending, handled, frames, queuevars, overtaken>>

ProcessEnd ==
  /\ pos = signal_queue_len
  /\ signal_queue_len' = 0
  /\ pos' = -1
  /\ UNCHANGED <<pending, handled, frames, signal_queue, cnt, flags, overtaken>>

spe_signal_process == ProcessBegin \/ ProcessOne \/ ProcessEnd
============================================================================
