----------------------------- MODULE SignalLoop -----------------------------
(***************************************************************************)
(* A program that uses spe_signal.c as this one does: its main line        *)
(* registers handlers, calls spe_signal_process again and again, and acts  *)
(* on the flags it finds.  The master (module Master) is such a program.   *)
(***************************************************************************)
EXTENDS SpeSignal

Init == SignalInit

\* The main line acts on some flags and takes them back.
TakeFlags ==
  /\ frames = <<>> /\ pos = -1
  /\ flags' \in SUBSET flags
  /\ UNCHANGED <<pending, handled, frames, queuevars, cnt, pos, overtaken>>

Next ==
  \/ \E s \in Sigs : \/ Raise(s)
                     \/ Deliver(s)
                     \/ s \notin handled \cup Queued /\ Register(s)
                     \/ Ignore(s)
  \/ CommonHandler \/ spe_signal_process \/ TakeFlags

Spec == Init /\ [][Next]_sigvars

----------------------------------------------------------------------------
\* Every variable has its type; in particular no index leaves signal_queue.
TypeOK ==
  /\ pending \subseteq handled /\ handled \subseteq Sigs /\ flags \subseteq Sigs
  /\ frames \in Seq(Frame)
  /\ signal_queue \in [0..MAX_SIGNAL - 1 -> Sigs \cup {None}]
  /\ signal_queue_len \in 0..MAX_SIGNAL
  /\ cnt \in [Sigs -> 0..MaxCount]
  /\ pos \in -1..signal_queue_len
  /\ overtaken \subseteq Sigs

\* The main line finds every signal in the queue once, so that the queue is
\* never full while a signal is to be put in it.
QueueHoldsOnce ==
  frames = <<>> =>
    \A i, j \in 0..signal_queue_len - 1 :
      signal_queue[i] \in Sigs /\ (signal_queue[i] = signal_queue[j] => i = j)

\* The entries spe_signal_process has still to look at.
ToProcess == {signal_queue[i] : i \in (IF pos = -1 THEN 0 ELSE pos)..signal_queue_len - 1}

\* "put signal in queue": a signal that was caught and not processed is in
\* the queue.  (If it is not, cnt keeps it from being put there ever again.)
CaughtIsQueued ==
  frames = <<>> => \A s \in Sigs : cnt[s] > 0 => s \in ToProcess

\* There is one way only to lose a signal: a handler was interrupted between
\* its read and its write-back of signal_queue_len, and took the entries of
\* those that interrupted it back.  Neither a full queue, nor an interruption
\* elsewhere, nor a signal that comes when the queue is processed loses one
\* (spe_signal.c:44-48, 81-92).
LostOnlyOvertaken ==
  frames = <<>> => \A s \in Sigs : cnt[s] > 0 => s \in ToProcess \cup overtaken
=============================================================================
