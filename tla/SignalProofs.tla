---------------------------- MODULE SignalProofs ----------------------------
(***************************************************************************)
(* Theorems about signal_queue, for every set of signals that fits in it.  *)
(*                                                                         *)
(* While handlers run, an entry whose length was counted but that is not   *)
(* written yet holds anything.  The others are settled; the invariant says *)
(* of those that no signal is there twice, nor one that a handler is about *)
(* to put there (SettledOnce).  An interrupted handler may take settled    *)
(* entries back; nothing else loses a signal that was caught (LossInv).    *)
(***************************************************************************)
EXTENDS SignalLoop, FiniteSetTheorems, SequenceTheorems, TLAPS

USE DEF queuevars

\* Handler k of the stack is about to count, or to write, the entry it read.
Putting(k) == frames[k].at \in {"store", "write"}
Writing(k) == frames[k].at = "write"

\* The stack: only handled signals, each once, and above nothing that is
\* blocked.
StackOK ==
  /\ pos >= 0 => frames = <<>>
  /\ \A k \in 1..Len(frames) : frames[k].sig \in handled
  /\ \A j, k \in 1..Len(frames) : frames[j].sig = frames[k].sig => j = k

\* The entries that handlers are about to write.
SlotsOK ==
  /\ \A k \in 1..Len(frames) : Putting(k) =>
       /\ frames[k].slot < MAX_SIGNAL /\ cnt[frames[k].sig] = 0
       /\ frames[k].slot <= signal_queue_len
       /\ Writing(k) => frames[k].slot < signal_queue_len
  /\ \A j, k \in 1..Len(frames) : j < k /\ Putting(j) /\ Putting(k) =>
       /\ frames[j].slot <= frames[k].slot
       /\ Writing(j) => frames[j].slot < frames[k].slot

Settled ==
  {i \in 0..signal_queue_len - 1 :
     \A k \in 1..Len(frames) : Writing(k) => frames[k].slot # i}

\* Has the signal been caught and not been processed?
Caught(s) == cnt[s] > 0 \/ \E k \in 1..Len(frames) : frames[k].sig = s /\ frames[k].at = "count"

SettledOnce ==
  /\ \A i \in Settled :
       /\ signal_queue[i] \in Sigs
       /\ \A k \in 1..Len(frames) : Putting(k) => frames[k].sig # signal_queue[i]
       /\ signal_queue[i] \in handled => i < pos \/ Caught(signal_queue[i])
  /\ \A i, j \in Settled : signal_queue[i] = signal_queue[j] => i = j

IInv == TypeOK /\ StackOK /\ SlotsOK /\ SettledOnce

----------------------------------------------------------------------------
\* What the handler on top of the stack does.
HandlerKeeps(n, where) ==
  /\ frames' \in Seq(Frame) /\ Len(frames') = n
  /\ \A k \in 1..n - 1 : frames'[k] = frames[k]
  /\ frames'[n].sig = frames[n].sig /\ frames'[n].at = where

LEMMA HandlerEffect ==
  ASSUME TypeOK, CommonHandler, NEW n, n = Len(frames)
  PROVE  /\ n \in Nat \ {0} /\ frames[n] \in Frame
         /\ UNCHANGED <<pending, handled, pos, flags>>
         /\ overtaken' = IF frames[n].at = "store"
                         THEN overtaken \cup TakenBack(frames[n]) ELSE overtaken
         /\ \/ /\ frames[n].at = "test" /\ Put(frames[n].sig)
               /\ HandlerKeeps(n, "store") /\ frames'[n].slot = signal_queue_len
               /\ UNCHANGED <<signal_queue, signal_queue_len, cnt>>
            \/ /\ frames[n].at = "test" /\ ~Put(frames[n].sig)
               /\ HandlerKeeps(n, "count")
               /\ UNCHANGED <<signal_queue, signal_queue_len, cnt>>
            \/ /\ frames[n].at = "store"
               /\ HandlerKeeps(n, "write") /\ frames'[n].slot = frames[n].slot
               /\ signal_queue_len' = frames[n].slot + 1
               /\ UNCHANGED <<signal_queue, cnt>>
            \/ /\ frames[n].at = "write"
               /\ HandlerKeeps(n, "count") /\ frames'[n].slot = frames[n].slot
               /\ signal_queue' = [signal_queue EXCEPT ![frames[n].slot] = frames[n].sig]
               /\ UNCHANGED <<signal_queue_len, cnt>>
            \/ /\ frames[n].at = "count"
               /\ frames' \in Seq(Frame) /\ Len(frames') = n - 1
               /\ \A k \in 1..n - 1 : frames'[k] = frames[k]
               /\ cnt' = [cnt EXCEPT ![frames[n].sig] = IF @ < MaxCount THEN @ + 1 ELSE @]
               /\ UNCHANGED <<signal_queue, signal_queue_len>>
<1> USE DEF TypeOK
<1>1. n \in Nat \ {0} /\ frames[n] \in Frame /\ frames \in Seq(Frame)
  <2>1. frames # <<>>
    BY DEF CommonHandler
  <2>2. Len(frames) \in Nat /\ Len(frames) # 0
    BY <2>1, EmptySeq, LenProperties
  <2> QED BY <2>2, ElementOfSeq
<1>2. /\ UNCHANGED <<pending, handled, pos, flags>>
      /\ overtaken' = IF frames[n].at = "store"
                      THEN overtaken \cup TakenBack(frames[n]) ELSE overtaken
  BY DEF CommonHandler
<1>3. CASE frames[n].at = "test"
  <2> DEFINE where == IF Put(frames[n].sig) THEN "store" ELSE "count"
             f == [frames[n] EXCEPT !.at = where, !.slot = signal_queue_len]
  <2>1. /\ frames' = [frames EXCEPT ![n].at = where, ![n].slot = signal_queue_len]
        /\ UNCHANGED <<signal_queue, signal_queue_len, cnt>>
    BY <1>3 DEF CommonHandler
  <2>2. f \in Frame /\ f.sig = frames[n].sig /\ f.at = where /\ f.slot = signal_queue_len
    <3>1. where \in {"store", "count"} /\ signal_queue_len \in Nat
      BY SignalAssumption
    <3> HIDE DEF where
    <3> QED BY <1>1, <3>1 DEF Frame
  <2>3. frames' = [frames EXCEPT ![n] = f]
    BY <1>1, <2>1
  <2> HIDE DEF f, where
  <2>4. HandlerKeeps(n, where) /\ frames'[n] = f
    BY <1>1, <2>2, <2>3, ExceptSeq DEF HandlerKeeps
  <2> QED BY <1>1, <1>2, <1>3, <2>1, <2>2, <2>4 DEF where
<1>4. CASE frames[n].at = "store"
  <2> DEFINE f == [frames[n] EXCEPT !.at = "write"]
  <2>1. /\ frames' = [frames EXCEPT ![n].at = "write"]
        /\ signal_queue_len' = frames[n].slot + 1
        /\ UNCHANGED <<signal_queue, cnt>>
    BY <1>4 DEF CommonHandler
  <2>2. f \in Frame /\ f.sig = frames[n].sig /\ f.at = "write" /\ f.slot = frames[n].slot
    BY <1>1 DEF Frame
  <2>3. frames' = [frames EXCEPT ![n] = f]
    BY <1>1, <2>1
  <2> HIDE DEF f
  <2>4. HandlerKeeps(n, "write") /\ frames'[n] = f
    BY <1>1, <2>2, <2>3, ExceptSeq DEF HandlerKeeps
  <2> QED BY <1>1, <1>2, <1>4, <2>1, <2>2, <2>4
<1>5. CASE frames[n].at = "write"
  <2> DEFINE f == [frames[n] EXCEPT !.at = "count"]
  <2>1. /\ frames' = [frames EXCEPT ![n].at = "count"]
        /\ signal_queue' = [signal_queue EXCEPT ![frames[n].slot] = frames[n].sig]
        /\ UNCHANGED <<signal_queue_len, cnt>>
    BY <1>5 DEF CommonHandler
  <2>2. f \in Frame /\ f.sig = frames[n].sig /\ f.at = "count" /\ f.slot = frames[n].slot
    BY <1>1 DEF Frame
  <2>3. frames' = [frames EXCEPT ![n] = f]
    BY <1>1, <2>1
  <2> HIDE DEF f
  <2>4. HandlerKeeps(n, "count") /\ frames'[n] = f
    BY <1>1, <2>2, <2>3, ExceptSeq DEF HandlerKeeps
  <2> QED BY <1>1, <1>2, <1>5, <2>1, <2>2, <2>4
<1>6. CASE frames[n].at = "count"
  <2>1. /\ frames' = SubSeq(frames, 1, n - 1)
        /\ cnt' = [cnt EXCEPT ![frames[n].sig] = IF @ < MaxCount THEN @ + 1 ELSE @]
        /\ UNCHANGED <<signal_queue, signal_queue_len>>
    BY <1>6 DEF CommonHandler
  <2>2. /\ frames' \in Seq(Frame) /\ Len(frames') = n - 1
        /\ \A k \in 1..n - 1 : frames'[k] = frames[k]
    <3>1. \A i \in 1..n - 1 : frames[i] \in Frame
      BY <1>1, ElementOfSeq
    <3>2. /\ frames' \in Seq(Frame)
          /\ Len(frames') = IF 1 <= n - 1 THEN (n - 1) - 1 + 1 ELSE 0
          /\ \A i \in 1..((n - 1) - 1 + 1) : frames'[i] = frames[1 + i - 1]
      BY <1>1, <2>1, <3>1, SubSeqProperties, Z3
    <3> QED BY <1>1, <3>2
  <2> QED BY <1>1, <1>2, <1>6, <2>1, <2>2
<1> QED BY <1>1, <1>3, <1>4, <1>5, <1>6 DEF Frame
\* What a delivery does to the stack.
LEMMA DeliverEffect ==
  ASSUME TypeOK, NEW s \in Sigs, Deliver(s), NEW n, n = Len(frames)
  PROVE  /\ n \in Nat /\ s \in handled /\ pos = -1
         /\ frames' \in Seq(Frame) /\ Len(frames') = n + 1
         /\ \A k \in 1..n : frames'[k] = frames[k] /\ frames[k].sig # s
         /\ frames'[n + 1].sig = s /\ frames'[n + 1].at = "test"
         /\ pending' = pending \ {s} /\ (Nests \/ n = 0)
         /\ UNCHANGED <<handled, signal_queue, signal_queue_len, cnt, pos, flags, overtaken>>
<1> USE DEF TypeOK
<1> DEFINE f == [sig |-> s, at |-> "test", slot |-> 0]
<1>1. f \in Frame
  BY DEF Frame
<1>2. /\ frames' = Append(frames, f) /\ pending' = pending \ {s}
      /\ s \in pending /\ pos = -1
      /\ \A k \in DOMAIN frames : frames[k].sig # s
      /\ Nests \/ frames = <<>>
      /\ UNCHANGED <<handled, signal_queue, signal_queue_len, cnt, pos, flags, overtaken>>
  BY DEF Deliver
<1>3. n \in Nat /\ DOMAIN frames = 1..n /\ (Nests \/ n = 0)
  BY <1>2, LenProperties, EmptySeq
<1>4. f.sig = s /\ f.at = "test"
  OBVIOUS
<1> HIDE DEF f
<1>5. /\ frames' \in Seq(Frame) /\ Len(frames') = n + 1
      /\ \A k \in 1..n : frames'[k] = frames[k]
      /\ frames'[n + 1] = f
  BY <1>1, <1>2, AppendProperties
<1> QED BY <1>2, <1>3, <1>4, <1>5

\* The steps of the main line leave the stack alone: it is empty.
MainStep == \/ \E s \in Sigs : Raise(s)
            \/ \E s \in Sigs : s \notin handled \cup Queued /\ Register(s)
            \/ \E s \in Sigs : Ignore(s)
            \/ spe_signal_process
            \/ TakeFlags

LEMMA NextCases ==
  ASSUME Next
  PROVE  MainStep \/ CommonHandler \/ \E s \in Sigs : Deliver(s)
BY DEF Next, MainStep

----------------------------------------------------------------------------
\* What a handler takes back was settled: who is about to write does so below.
LEMMA TakenBackSettled ==
  ASSUME IInv, NEW n \in 1..Len(frames), n = Len(frames), frames[n].at = "store",
         frames[n] \in Frame
  PROVE  \A i \in frames[n].slot..signal_queue_len - 1 :
           i \in Settled /\ signal_queue[i] \in Sigs
<1> SUFFICES ASSUME NEW i \in frames[n].slot..signal_queue_len - 1
             PROVE  i \in Settled
  BY DEF IInv, SettledOnce
<1>1. frames[n].slot \in Nat /\ signal_queue_len \in Nat
  BY SignalAssumption DEF Frame, IInv, TypeOK
<1>2. i \in 0..signal_queue_len - 1
  BY <1>1
<1>3. \A k \in 1..Len(frames) : Writing(k) => frames[k].slot < frames[n].slot
  <2> SUFFICES ASSUME NEW k \in 1..Len(frames), Writing(k)
               PROVE  frames[k].slot < frames[n].slot
    OBVIOUS
  <2>1. k # n /\ Putting(k) /\ Putting(n)
    BY DEF Writing, Putting
  <2>2. k < n
    <3>1. Len(frames) \in Nat
      BY LenProperties DEF IInv, TypeOK
    <3> QED BY <2>1, <3>1
  <2> QED BY <2>1, <2>2 DEF IInv, SlotsOK
<1>4. \A k \in 1..Len(frames) : Writing(k) => frames[k].slot # i
  BY <1>1, <1>3
<1> QED BY <1>2, <1>4 DEF Settled

\* Types are preserved; that no index leaves the queue needs SlotsOK.
LEMMA TypeStep == IInv /\ [Next]_sigvars => TypeOK'
<1> SUFFICES ASSUME IInv, [Next]_sigvars PROVE TypeOK'
  OBVIOUS
<1> USE SignalAssumption DEF IInv, TypeOK
<1>1. CASE CommonHandler
  <2> DEFINE n == Len(frames)
  <2>1. /\ n \in Nat \ {0} /\ frames[n] \in Frame /\ pos = -1
        /\ frames[n].sig \in Sigs /\ frames[n].slot \in Nat
    <3>1. n \in Nat \ {0} /\ frames[n] \in Frame
      BY <1>1, HandlerEffect
    <3>2. frames # <<>>
      BY <1>1 DEF CommonHandler
    <3> QED BY <3>1, <3>2 DEF Frame, StackOK
  <2>2. frames' \in Seq(Frame)
    BY <1>1, HandlerEffect DEF HandlerKeeps
  <2>3. signal_queue_len' \in 0..MAX_SIGNAL
    <3>1. signal_queue_len' = signal_queue_len \/ (Putting(n) /\ signal_queue_len' = frames[n].slot + 1)
      BY <1>1, HandlerEffect DEF Putting
    <3> QED BY <2>1, <3>1 DEF SlotsOK
  <2>4. signal_queue' \in [0..MAX_SIGNAL - 1 -> Sigs \cup {None}]
    <3>1. \/ signal_queue' = signal_queue
          \/ signal_queue' = [signal_queue EXCEPT ![frames[n].slot] = frames[n].sig]
      BY <1>1, HandlerEffect
    <3> QED BY <2>1, <3>1
  <2>5. cnt' \in [Sigs -> 0..MaxCount]
    <3>1. \/ cnt' = cnt
          \/ cnt' = [cnt EXCEPT ![frames[n].sig] = IF @ < MaxCount THEN @ + 1 ELSE @]
      BY <1>1, HandlerEffect
    <3> QED BY <2>1, <3>1
  <2>6. UNCHANGED <<pending, handled, pos, flags>>
    BY <1>1, HandlerEffect
  <2>7. pos' \in -1..signal_queue_len'
    BY <2>1, <2>3, <2>6
  <2>8. overtaken' \subseteq Sigs
    <3>1. CASE frames[n].at = "store"
      <4>1. TakenBack(frames[n]) \subseteq Sigs
        BY <2>1, <3>1, TakenBackSettled DEF TakenBack
      <4> QED BY <1>1, <3>1, <4>1, HandlerEffect
    <3>2. CASE frames[n].at # "store"
      BY <1>1, <3>2, HandlerEffect
    <3> QED BY <3>1, <3>2
  <2> QED BY <2>2, <2>3, <2>4, <2>5, <2>6, <2>7, <2>8
<1>2. ASSUME NEW s \in Sigs, Deliver(s) PROVE TypeOK'
  <2>1. /\ frames' \in Seq(Frame) /\ pending' = pending \ {s}
        /\ UNCHANGED <<handled, signal_queue, signal_queue_len, cnt, pos, flags, overtaken>>
    BY <1>2, DeliverEffect
  <2> QED BY <2>1
<1>3. CASE MainStep
  <2>1. ASSUME NEW s \in Sigs, Raise(s) PROVE TypeOK'
    BY <2>1 DEF Raise
  <2>2. ASSUME NEW s \in Sigs, Register(s) PROVE TypeOK'
    BY <2>2 DEF Register
  <2>3. ASSUME NEW s \in Sigs, Ignore(s) PROVE TypeOK'
    BY <2>3 DEF Ignore
  <2>4. CASE ProcessBegin
    BY <2>4 DEF ProcessBegin
  <2>5. CASE ProcessOne
    <3>1. /\ pos' \in -1..signal_queue_len /\ flags' \subseteq Sigs
          /\ cnt' \in [Sigs -> 0..MaxCount]
      BY <2>5 DEF ProcessOne, CountTaken
    <3> QED BY <2>5, <3>1 DEF ProcessOne
  <2>6. CASE ProcessEnd
    BY <2>6 DEF ProcessEnd
  <2>7. CASE TakeFlags
    BY <2>7 DEF TakeFlags
  <2> QED BY <1>3, <2>1, <2>2, <2>3, <2>4, <2>5, <2>6, <2>7 DEF MainStep, spe_signal_process
<1>4. CASE UNCHANGED sigvars
  BY <1>4 DEF sigvars
<1> QED BY <1>1, <1>2, <1>3, <1>4, NextCases
----------------------------------------------------------------------------
\* The stack of handlers stays as StackOK says.
LEMMA StackStep == IInv /\ [Next]_sigvars => StackOK'
<1> SUFFICES ASSUME IInv, [Next]_sigvars PROVE StackOK'
  OBVIOUS
<1> PICK n : n = Len(frames)
  OBVIOUS
<1>0. /\ n \in Nat /\ pos \in Int /\ frames \in Seq(Frame)
      /\ pos >= 0 => frames = <<>>
      /\ \A k \in 1..n : frames[k].sig \in handled
      /\ \A j, k \in 1..n : frames[j].sig = frames[k].sig => j = k
  BY SignalAssumption, LenProperties DEF IInv, TypeOK, StackOK
<1>1. CASE CommonHandler
  <2>1. n \in Nat \ {0} /\ pos = -1 /\ pos' = pos /\ handled' = handled
    <3>1. frames # <<>>
      BY <1>1 DEF CommonHandler
    <3>2. pos = -1
      BY <1>0, <3>1, SignalAssumption DEF IInv, TypeOK
    <3>3. n \in Nat \ {0} /\ pos' = pos /\ handled' = handled
      BY <1>1, HandlerEffect DEF IInv
    <3> QED BY <3>2, <3>3
  <2>2. /\ Len(frames') \in {n - 1, n}
        /\ \A k \in 1..Len(frames') : frames'[k].sig = frames[k].sig
    <3>1. CASE \E where \in {"store", "write", "count"} : HandlerKeeps(n, where)
      <4>1. /\ Len(frames') = n /\ frames'[n].sig = frames[n].sig
            /\ \A k \in 1..n - 1 : frames'[k] = frames[k]
        BY <3>1 DEF HandlerKeeps
      <4>2. ASSUME NEW k \in 1..n, k # n PROVE k \in 1..n - 1
        BY <2>1, <4>2
      <4> QED BY <4>1, <4>2
    <3>2. CASE Len(frames') = n - 1 /\ \A k \in 1..n - 1 : frames'[k] = frames[k]
      BY <3>2
    <3> QED BY <1>1, <3>1, <3>2, HandlerEffect DEF IInv
  <2> QED BY <1>0, <2>1, <2>2 DEF StackOK
<1>2. ASSUME NEW s \in Sigs, Deliver(s) PROVE StackOK'
  <2>1. /\ n \in Nat /\ s \in handled /\ pos' = -1 /\ handled' = handled
        /\ Len(frames') = n + 1
        /\ \A k \in 1..n : frames'[k] = frames[k] /\ frames[k].sig # s
        /\ frames'[n + 1].sig = s
    BY <1>2, DeliverEffect DEF IInv
  <2>2. ASSUME NEW k \in 1..n + 1, k # n + 1 PROVE k \in 1..n
    BY <2>1, <2>2
  <2> HIDE <1>2
  <2>3. \A k \in 1..n + 1 : frames'[k].sig \in handled
    BY <1>0, <2>1, <2>2
  <2>4. ASSUME NEW j \in 1..n + 1, NEW k \in 1..n + 1, frames'[j].sig = frames'[k].sig
        PROVE  j = k
    BY <1>0, <2>1, <2>2, <2>4
  <2> QED BY <2>1, <2>3, <2>4 DEF StackOK
<1>3. CASE MainStep
  <2>1. ASSUME NEW s \in Sigs, Raise(s) PROVE StackOK'
    BY <1>0, <2>1 DEF Raise, StackOK
  <2>2. ASSUME NEW s \in Sigs, Register(s) \/ Ignore(s) PROVE StackOK'
    BY <2>2, EmptySeq DEF Register, Ignore, StackOK
  <2>3. CASE spe_signal_process
    <3>1. frames = <<>> /\ frames' = frames
      BY <1>0, <2>3, SignalAssumption
      DEF IInv, TypeOK, spe_signal_process, ProcessBegin, ProcessOne, ProcessEnd
    <3> QED BY <3>1, EmptySeq DEF StackOK
  <2>4. CASE TakeFlags
    BY <1>0, <2>4 DEF TakeFlags, StackOK
  <2> QED BY <1>3, <2>1, <2>2, <2>3, <2>4 DEF MainStep
<1>4. CASE UNCHANGED sigvars
  BY <1>0, <1>4 DEF sigvars, StackOK
<1> QED BY <1>1, <1>2, <1>3, <1>4, NextCases

\* Main-line steps run on an empty stack.
LEMMA MainStepStack ==
  ASSUME IInv, MainStep
  PROVE  \/ frames = <<>> /\ frames' = <<>> /\ Len(frames') = 0
         \/ \E s \in Sigs : Raise(s)
<1>1. Len(<<>>) = 0
  BY EmptySeq
<1>2. CASE \E s \in Sigs : Register(s) \/ Ignore(s)
  BY <1>1, <1>2 DEF Register, Ignore
<1>3. CASE spe_signal_process
  <2>1. frames = <<>> /\ frames' = frames
    <3>1. signal_queue_len \in Nat
      BY SignalAssumption DEF IInv, TypeOK
    <3> QED BY <1>3, <3>1 DEF spe_signal_process, ProcessBegin, ProcessOne, ProcessEnd, IInv, StackOK
  <2> QED BY <1>1, <2>1
<1>4. CASE TakeFlags
  BY <1>1, <1>4 DEF TakeFlags
<1> QED BY <1>2, <1>3, <1>4 DEF MainStep

\* A step that neither begins an entry nor shortens the queue keeps SlotsOK.
LEMMA SlotsKept ==
  ASSUME IInv, Len(frames') \in Nat, signal_queue_len' = signal_queue_len,
         \A k \in 1..Len(frames') : Putting(k)' =>
           /\ k \in 1..Len(frames) /\ Putting(k) /\ (Writing(k)' => Writing(k))
           /\ frames'[k].slot = frames[k].slot
           /\ cnt'[frames'[k].sig] = cnt[frames[k].sig]
  PROVE  SlotsOK'
<1>1. SlotsOK /\ Len(frames) \in Nat
  BY LenProperties DEF IInv, TypeOK
<1>2. ASSUME NEW k \in 1..Len(frames'), Putting(k)'
      PROVE  /\ frames'[k].slot < MAX_SIGNAL /\ cnt'[frames'[k].sig] = 0
             /\ frames'[k].slot <= signal_queue_len'
             /\ Writing(k)' => frames'[k].slot < signal_queue_len'
  BY <1>1, <1>2 DEF SlotsOK
<1>3. ASSUME NEW j \in 1..Len(frames'), NEW k \in 1..Len(frames'),
             j < k, Putting(j)', Putting(k)'
      PROVE  /\ frames'[j].slot <= frames'[k].slot
             /\ Writing(j)' => frames'[j].slot < frames'[k].slot
  <2>1. /\ j \in 1..Len(frames) /\ Putting(j) /\ (Writing(j)' => Writing(j))
        /\ k \in 1..Len(frames) /\ Putting(k)
        /\ frames'[j].slot = frames[j].slot /\ frames'[k].slot = frames[k].slot
    BY <1>3
  <2> QED BY <1>1, <1>3, <2>1 DEF SlotsOK
<1> QED BY <1>2, <1>3 DEF SlotsOK

\* The entries about to be written stay inside the queue, those of handlers
\* further up behind those below.
LEMMA SlotsStep == IInv /\ [Next]_sigvars => SlotsOK'
<1> SUFFICES ASSUME IInv, [Next]_sigvars PROVE SlotsOK'
  OBVIOUS
<1> PICK n : n = Len(frames)
  OBVIOUS
<1>0. /\ n \in Nat /\ signal_queue_len \in Nat /\ signal_queue_len <= MAX_SIGNAL
      /\ \A k \in 1..n : frames[k] \in Frame /\ frames[k].slot \in Nat /\ frames[k].sig \in Sigs
  <2>1. n \in Nat /\ signal_queue_len \in Nat /\ signal_queue_len <= MAX_SIGNAL
    BY SignalAssumption, LenProperties DEF IInv, TypeOK
  <2>2. ASSUME NEW k \in 1..n PROVE frames[k] \in Frame
    BY <2>2, ElementOfSeq DEF IInv, TypeOK
  <2> QED BY <2>1, <2>2 DEF Frame
<1>1. CASE CommonHandler
  <2>1. n \in Nat \ {0} /\ n \in 1..n /\ \A k \in 1..n : k # n => k \in 1..n - 1
    BY <1>1, HandlerEffect DEF IInv
  <2>2. CASE /\ frames[n].at = "test" /\ Put(frames[n].sig)
             /\ HandlerKeeps(n, "store") /\ frames'[n].slot = signal_queue_len
             /\ UNCHANGED <<signal_queue_len, cnt>>
    <3>1. /\ Len(frames') = n /\ frames'[n].sig = frames[n].sig /\ frames'[n].at = "store"
          /\ \A k \in 1..n - 1 : frames'[k] = frames[k]
      BY <2>2 DEF HandlerKeeps
    <3>2. signal_queue_len < MAX_SIGNAL /\ cnt[frames[n].sig] = 0
      BY <2>2 DEF Put
    <3>3. ASSUME NEW k \in 1..n, Putting(k)'
          PROVE  /\ frames'[k].slot < MAX_SIGNAL /\ cnt'[frames'[k].sig] = 0
                 /\ frames'[k].slot <= signal_queue_len'
                 /\ Writing(k)' => frames'[k].slot < signal_queue_len'
      <4>1. CASE k = n
        BY <1>0, <2>2, <3>1, <3>2, <4>1 DEF Writing
      <4>2. CASE k # n
        BY <2>1, <2>2, <3>1, <3>3, <4>2 DEF IInv, SlotsOK, Putting, Writing
      <4> QED BY <4>1, <4>2
    <3>4. ASSUME NEW j \in 1..n, NEW k \in 1..n, j < k, Putting(j)', Putting(k)'
          PROVE  /\ frames'[j].slot <= frames'[k].slot
                 /\ Writing(j)' => frames'[j].slot < frames'[k].slot
      <4>1. j # n
        BY <2>1, <3>4
      <4>2. CASE k = n
        BY <2>1, <2>2, <3>1, <3>4, <4>1, <4>2 DEF IInv, SlotsOK, Putting, Writing
      <4>3. CASE k # n
        BY <2>1, <3>1, <3>4, <4>1, <4>3 DEF IInv, SlotsOK, Putting, Writing
      <4> QED BY <4>2, <4>3
    <3> QED BY <3>1, <3>3, <3>4 DEF SlotsOK
  <2>3. CASE /\ HandlerKeeps(n, "count") /\ UNCHANGED <<signal_queue_len, cnt>>
    <3>1. /\ Len(frames') = n /\ frames'[n].at = "count"
          /\ \A k \in 1..n - 1 : frames'[k] = frames[k]
      BY <2>3 DEF HandlerKeeps
    <3>2. ASSUME NEW k \in 1..n, Putting(k)'
          PROVE  frames'[k] = frames[k] /\ Putting(k) /\ (Writing(k)' => Writing(k))
      <4>1. k # n
        BY <3>1, <3>2 DEF Putting
      <4> QED BY <2>1, <3>1, <3>2, <4>1 DEF Putting, Writing
    <3> QED BY <1>0, <2>3, <3>1, <3>2, SlotsKept
  <2>4. CASE /\ frames[n].at = "store"
             /\ HandlerKeeps(n, "write") /\ frames'[n].slot = frames[n].slot
             /\ signal_queue_len' = frames[n].slot + 1
             /\ cnt' = cnt
    <3>1. /\ Len(frames') = n /\ frames'[n].at = "write"
          /\ \A k \in 1..n - 1 : frames'[k] = frames[k]
          /\ frames'[n].sig = frames[n].sig
      BY <2>4 DEF HandlerKeeps
    <3>2. ASSUME NEW k \in 1..n, Putting(k)'
          PROVE  /\ Putting(k) /\ frames'[k].slot = frames[k].slot
                 /\ frames'[k].sig = frames[k].sig
                 /\ Writing(k)' => Writing(k) \/ k = n
      <4>1. CASE k = n
        BY <2>4, <3>1, <4>1 DEF Putting
      <4>2. CASE k # n
        BY <2>1, <3>1, <3>2, <4>2 DEF Putting, Writing
      <4> QED BY <4>1, <4>2
    <3>3. Putting(n)
      BY <2>4 DEF Putting
    <3>4. ASSUME NEW k \in 1..n, Putting(k)'
          PROVE  /\ frames'[k].slot < MAX_SIGNAL /\ cnt'[frames'[k].sig] = 0
                 /\ frames'[k].slot <= signal_queue_len'
                 /\ Writing(k)' => frames'[k].slot < signal_queue_len'
      <4>1. /\ Putting(k) /\ frames'[k].slot = frames[k].slot
            /\ frames[k].slot < MAX_SIGNAL /\ cnt'[frames'[k].sig] = 0
            /\ frames[k].slot \in Nat /\ frames[n].slot \in Nat
        BY <1>0, <2>1, <2>4, <3>2, <3>4 DEF IInv, SlotsOK
      <4>2. frames[k].slot <= frames[n].slot
        <5>1. k = n \/ k < n
          BY <2>1
        <5>2. CASE k = n
          BY <4>1, <5>2
        <5>3. CASE k < n
          BY <2>1, <3>3, <4>1, <5>3 DEF IInv, SlotsOK
        <5> QED BY <5>1, <5>2, <5>3
      <4> QED BY <2>4, <4>1, <4>2
    <3>5. ASSUME NEW j \in 1..n, NEW k \in 1..n, j < k, Putting(j)', Putting(k)'
          PROVE  /\ frames'[j].slot <= frames'[k].slot
                 /\ Writing(j)' => frames'[j].slot < frames'[k].slot
      <4>1. j # n
        BY <2>1, <3>5
      <4>2. /\ Putting(j) /\ frames'[j].slot = frames[j].slot /\ (Writing(j)' => Writing(j))
            /\ Putting(k) /\ frames'[k].slot = frames[k].slot
        BY <3>2, <3>5, <4>1
      <4> QED BY <3>5, <4>2 DEF IInv, SlotsOK
    <3> QED BY <3>1, <3>4, <3>5 DEF SlotsOK
  <2>5. CASE /\ frames[n].at = "count" /\ Len(frames') = n - 1
             /\ \A k \in 1..n - 1 : frames'[k] = frames[k]
             /\ cnt' = [cnt EXCEPT ![frames[n].sig] = IF @ < MaxCount THEN @ + 1 ELSE @]
             /\ UNCHANGED signal_queue_len
    <3>1. ASSUME NEW k \in 1..n - 1
          PROVE  k \in 1..n /\ frames'[k] = frames[k] /\ cnt'[frames[k].sig] = cnt[frames[k].sig]
      <4>1. k \in 1..n /\ k # n
        BY <2>1
      <4>2. frames[k].sig # frames[n].sig /\ frames[k].sig \in Sigs
        BY <1>0, <2>1, <4>1 DEF IInv, StackOK
      <4> QED BY <2>5, <4>1, <4>2 DEF IInv, TypeOK
    <3>2. n - 1 \in Nat
      BY <2>1
    <3> QED BY <2>5, <3>1, <3>2, SlotsKept DEF Putting, Writing
  <2> QED BY <1>1, <2>2, <2>3, <2>4, <2>5, HandlerEffect DEF IInv
<1>2. ASSUME NEW s \in Sigs, Deliver(s) PROVE SlotsOK'
  <2>1. /\ n \in Nat /\ Len(frames') = n + 1
        /\ \A k \in 1..n : frames'[k] = frames[k]
        /\ frames'[n + 1].at = "test"
        /\ UNCHANGED <<signal_queue_len, cnt>>
    BY <1>2, DeliverEffect DEF IInv
  <2>2. ASSUME NEW k \in 1..n + 1, Putting(k)'
        PROVE  k \in 1..n /\ frames'[k] = frames[k]
    <3>1. k # n + 1
      BY <2>1, <2>2 DEF Putting
    <3> QED BY <2>1, <3>1
  <2> QED BY <2>1, <2>2, SlotsKept DEF Putting, Writing
<1>3. CASE MainStep
  <2>1. CASE Len(frames') = 0
    BY <2>1 DEF SlotsOK
  <2>2. ASSUME NEW s \in Sigs, Raise(s) PROVE SlotsOK'
    BY <1>0, <2>2, SlotsKept DEF Raise, Putting, Writing
  <2> QED BY <1>3, <2>1, <2>2, MainStepStack
<1>4. CASE UNCHANGED sigvars
  BY <1>0, <1>4, SlotsKept DEF sigvars, Putting, Writing
<1> QED BY <1>1, <1>2, <1>3, <1>4, NextCases
----------------------------------------------------------------------------
\* Caught, after the step.
CaughtNext(x) ==
  cnt'[x] > 0 \/ \E k \in 1..Len(frames') : frames'[k].sig = x /\ frames'[k].at = "count"

\* Settled entries that stay as they are, in the queue and on the stack.
LEMMA SettledKept ==
  ASSUME IInv,
         \A i \in Settled' :
           /\ i \in Settled /\ signal_queue'[i] = signal_queue[i]
           /\ signal_queue[i] \in handled' => i < pos' \/ CaughtNext(signal_queue[i])
           /\ \A k \in 1..Len(frames') : Putting(k)' => frames'[k].sig # signal_queue[i]
  PROVE  SettledOnce'
<1>1. SettledOnce
  BY DEF IInv
<1>2. ASSUME NEW i \in Settled'
      PROVE  /\ signal_queue'[i] \in Sigs
             /\ \A k \in 1..Len(frames') : Putting(k)' => frames'[k].sig # signal_queue'[i]
             /\ signal_queue'[i] \in handled' => i < pos' \/ CaughtNext(signal_queue'[i])
  BY <1>1 DEF SettledOnce
<1>3. ASSUME NEW i \in Settled', NEW j \in Settled', signal_queue'[i] = signal_queue'[j]
      PROVE  i = j
  BY <1>1, <1>3 DEF SettledOnce
<1> QED BY <1>2, <1>3 DEF SettledOnce, Caught, CaughtNext

\* Handlers that go on with other entries keep the settled ones.
LEMMA SettledByStack ==
  ASSUME IInv, UNCHANGED <<handled, pos>>,
         \A i \in Settled' : i \in Settled /\ signal_queue'[i] = signal_queue[i],
         \A x \in Sigs : Caught(x) => CaughtNext(x),
         \A k \in 1..Len(frames') : Putting(k)' =>
           \/ k \in 1..Len(frames) /\ Putting(k) /\ frames'[k].sig = frames[k].sig
           \/ \A i \in Settled : frames'[k].sig # signal_queue[i]
  PROVE  SettledOnce'
<1>1. SettledOnce
  BY DEF IInv
<1>2. ASSUME NEW i \in Settled'
      PROVE  /\ i \in Settled /\ signal_queue'[i] = signal_queue[i]
             /\ signal_queue[i] \in handled' => i < pos' \/ CaughtNext(signal_queue[i])
             /\ \A k \in 1..Len(frames') : Putting(k)' => frames'[k].sig # signal_queue[i]
  BY <1>1 DEF SettledOnce
<1> QED BY <1>2, SettledKept

\* The settled entries stay as SettledOnce says.
LEMMA SettledStep == IInv /\ [Next]_sigvars => SettledOnce'
<1> SUFFICES ASSUME IInv, [Next]_sigvars PROVE SettledOnce'
  OBVIOUS
<1> PICK n : n = Len(frames)
  OBVIOUS
<1>0. /\ n \in Nat /\ signal_queue_len \in Nat /\ signal_queue_len <= MAX_SIGNAL
      /\ \A k \in 1..n : frames[k].slot \in Nat /\ frames[k].sig \in Sigs
      /\ cnt \in [Sigs -> 0..MaxCount] /\ MaxCount \in Nat \ {0}
      /\ pos \in Int /\ handled \subseteq Sigs
      /\ signal_queue \in [0..MAX_SIGNAL - 1 -> Sigs \cup {None}] /\ MAX_SIGNAL \in Nat
  <2>1. ASSUME NEW k \in 1..n PROVE frames[k] \in Frame
    BY <2>1, ElementOfSeq DEF IInv, TypeOK
  <2> QED BY <2>1, SignalAssumption, LenProperties DEF IInv, TypeOK, Frame
<1>1. CASE CommonHandler
  <2>0. frames # <<>> /\ pos < 0
    BY <1>0, <1>1 DEF CommonHandler, IInv, StackOK
  <2>1. /\ n \in Nat \ {0} /\ n \in 1..n /\ (\A k \in 1..n : k # n => k \in 1..n - 1)
        /\ UNCHANGED <<handled, pos>>
    BY <1>1, HandlerEffect DEF IInv
  <2>2. CASE /\ frames[n].at = "test" /\ Put(frames[n].sig)
             /\ HandlerKeeps(n, "store")
             /\ UNCHANGED <<signal_queue, signal_queue_len, cnt>>
    <3>1. /\ Len(frames') = n /\ frames'[n].sig = frames[n].sig /\ frames'[n].at = "store"
          /\ \A k \in 1..n - 1 : frames'[k] = frames[k]
      BY <2>2 DEF HandlerKeeps
    <3>2. \A k \in 1..n : Writing(k)' <=> Writing(k)
      <4>1. ASSUME NEW k \in 1..n, k # n PROVE Writing(k)' <=> Writing(k)
        BY <2>1, <3>1, <4>1 DEF Writing
      <4>2. ~Writing(n) /\ ~Writing(n)'
        BY <2>2, <3>1 DEF Writing
      <4> QED BY <4>1, <4>2
    <3>3. \A i \in Settled' : i \in Settled
      <4>1. ASSUME NEW i \in Settled', NEW k \in 1..n, Writing(k) PROVE frames[k].slot # i
        <5>1. k # n
          BY <2>2, <4>1 DEF Writing
        <5>2. frames'[k] = frames[k] /\ Writing(k)'
          BY <2>1, <3>1, <3>2, <4>1, <5>1
        <5> QED BY <3>1, <4>1, <5>2 DEF Settled
      <4> QED BY <2>2, <4>1 DEF Settled
    <3>4. \A x \in Sigs : Caught(x) => CaughtNext(x)
      <4>1. ASSUME NEW k \in 1..n, frames[k].at = "count" PROVE frames'[k] = frames[k]
        BY <2>1, <2>2, <3>1, <4>1
      <4> QED BY <2>2, <3>1, <4>1 DEF Caught, CaughtNext
    <3>5. ASSUME NEW i \in Settled PROVE frames'[n].sig # signal_queue[i]
      <4>1. SUFFICES ASSUME frames[n].sig = signal_queue[i] PROVE FALSE
        BY <3>1
      <4>2. frames[n].sig \in handled /\ cnt[frames[n].sig] = 0
        BY <2>1, <2>2 DEF Put, IInv, StackOK
      <4>3. i >= 0 /\ i \in Int
        BY <1>0 DEF Settled
      <4>4. Caught(frames[n].sig)
        BY <1>0, <2>0, <4>1, <4>2, <4>3 DEF IInv, SettledOnce
      <4>5. PICK k \in 1..n : frames[k].sig = frames[n].sig /\ frames[k].at = "count"
        BY <4>2, <4>4 DEF Caught
      <4>6. k = n
        BY <2>1, <4>5 DEF IInv, StackOK
      <4> QED BY <2>2, <4>5, <4>6
    <3>6. ASSUME NEW k \in 1..n, Putting(k)'
          PROVE  \/ Putting(k) /\ frames'[k].sig = frames[k].sig
                 \/ \A i \in Settled : frames'[k].sig # signal_queue[i]
      BY <2>1, <3>1, <3>5, <3>6 DEF Putting
    <3> QED BY <2>1, <2>2, <3>1, <3>3, <3>4, <3>6, SettledByStack
  <2>3. CASE /\ frames[n].at = "test" /\ HandlerKeeps(n, "count")
             /\ UNCHANGED <<signal_queue, signal_queue_len, cnt>>
    <3>1. /\ Len(frames') = n /\ frames'[n].at = "count"
          /\ \A k \in 1..n - 1 : frames'[k] = frames[k]
      BY <2>3 DEF HandlerKeeps
    <3>2. ASSUME NEW k \in 1..n, k # n
          PROVE  frames'[k] = frames[k] /\ (Writing(k)' <=> Writing(k)) /\ (Putting(k)' <=> Putting(k))
      BY <2>1, <3>1, <3>2 DEF Writing, Putting
    <3>3. ~Writing(n) /\ ~Putting(n)'
      BY <2>3, <3>1 DEF Writing, Putting
    <3>4. \A i \in Settled' : i \in Settled
      <4>1. ASSUME NEW i \in Settled', NEW k \in 1..n, Writing(k) PROVE frames[k].slot # i
        BY <3>1, <3>2, <3>3, <4>1 DEF Settled
      <4> QED BY <2>3, <4>1 DEF Settled
    <3>5. \A x \in Sigs : Caught(x) => CaughtNext(x)
      <4>1. ASSUME NEW k \in 1..n, frames[k].at = "count" PROVE frames'[k] = frames[k]
        BY <2>3, <3>2, <4>1
      <4> QED BY <2>3, <3>1, <4>1 DEF Caught, CaughtNext
    <3> QED BY <2>1, <2>3, <3>1, <3>2, <3>3, <3>4, <3>5, SettledByStack
  <2>4. CASE /\ frames[n].at = "store"
             /\ HandlerKeeps(n, "write") /\ frames'[n].slot = frames[n].slot
             /\ signal_queue_len' = frames[n].slot + 1
             /\ UNCHANGED <<signal_queue, cnt>>
    <3>1. /\ Len(frames') = n /\ frames'[n].at = "write" /\ frames'[n].sig = frames[n].sig
          /\ \A k \in 1..n - 1 : frames'[k] = frames[k]
      BY <2>4 DEF HandlerKeeps
    <3>2. ASSUME NEW k \in 1..n, k # n
          PROVE  frames'[k] = frames[k] /\ (Writing(k)' <=> Writing(k)) /\ (Putting(k)' <=> Putting(k))
      BY <2>1, <3>1, <3>2 DEF Writing, Putting
    <3>3. ~Writing(n) /\ Putting(n) /\ Writing(n)' /\ frames[n].slot <= signal_queue_len
      BY <2>1, <2>4, <3>1 DEF Writing, Putting, IInv, SlotsOK
    <3>4. ASSUME NEW i \in Settled' PROVE i \in Settled
      <4>1. i \in 0..frames[n].slot /\ i # frames[n].slot
        <5>1. i \in 0..signal_queue_len' - 1 /\ frames'[n].slot # i
          BY <2>1, <3>1, <3>3 DEF Settled
        <5> QED BY <1>0, <2>1, <2>4, <5>1
      <4>2. i \in 0..signal_queue_len - 1
        BY <1>0, <2>1, <3>3, <4>1
      <4>3. ASSUME NEW k \in 1..n, Writing(k) PROVE frames[k].slot # i
        BY <3>1, <3>2, <3>3, <4>3 DEF Settled
      <4> QED BY <4>2, <4>3 DEF Settled
    <3>5. \A x \in Sigs : Caught(x) => CaughtNext(x)
      <4>1. ASSUME NEW k \in 1..n, frames[k].at = "count" PROVE frames'[k] = frames[k]
        BY <2>4, <3>2, <4>1
      <4> QED BY <2>4, <3>1, <4>1 DEF Caught, CaughtNext
    <3> QED BY <2>1, <2>4, <3>1, <3>2, <3>3, <3>4, <3>5, SettledByStack
  <2>5. CASE /\ frames[n].at = "write"
             /\ HandlerKeeps(n, "count")
             /\ signal_queue' = [signal_queue EXCEPT ![frames[n].slot] = frames[n].sig]
             /\ UNCHANGED <<signal_queue_len, cnt>>
    <3>1. /\ Len(frames') = n /\ frames'[n].at = "count" /\ frames'[n].sig = frames[n].sig
          /\ \A k \in 1..n - 1 : frames'[k] = frames[k]
      BY <2>5 DEF HandlerKeeps
    <3>2. ASSUME NEW k \in 1..n, k # n
          PROVE  frames'[k] = frames[k] /\ (Writing(k)' <=> Writing(k)) /\ (Putting(k)' <=> Putting(k))
      BY <2>1, <3>1, <3>2 DEF Writing, Putting
    <3>3. /\ Writing(n) /\ Putting(n) /\ ~Putting(n)'
          /\ frames[n].slot \in 0..MAX_SIGNAL - 1
          /\ frames[n].sig \in Sigs /\ frames[n].sig \in handled
      <4>1. Writing(n) /\ Putting(n) /\ ~Putting(n)'
        BY <2>5, <3>1 DEF Writing, Putting
      <4>2. frames[n].slot < MAX_SIGNAL
        BY <2>1, <4>1 DEF IInv, SlotsOK
      <4> QED BY <1>0, <2>1, <4>1, <4>2 DEF IInv, StackOK
    <3>4. signal_queue'[frames[n].slot] = frames[n].sig
      BY <1>0, <2>5, <3>3
    <3>5. ASSUME NEW i \in Settled', i # frames[n].slot
          PROVE  i \in Settled /\ signal_queue'[i] = signal_queue[i] /\ i \in 0..MAX_SIGNAL - 1
      <4>1. i \in 0..signal_queue_len - 1
        BY <2>5 DEF Settled
      <4>2. ASSUME NEW k \in 1..n, Writing(k) PROVE frames[k].slot # i
        BY <3>1, <3>2, <3>5, <4>2 DEF Settled
      <4>3. i \in 0..MAX_SIGNAL - 1
        BY <1>0, <4>1
      <4> QED BY <1>0, <2>5, <3>5, <4>1, <4>2, <4>3 DEF Settled
    <3>6. \A x \in Sigs : Caught(x) => CaughtNext(x)
      <4>1. ASSUME NEW k \in 1..n, frames[k].at = "count" PROVE frames'[k] = frames[k]
        BY <2>5, <3>2, <4>1
      <4> QED BY <2>5, <3>1, <4>1 DEF Caught, CaughtNext
    <3>7. CaughtNext(frames[n].sig)
      BY <2>1, <3>1 DEF CaughtNext
    <3>8. ASSUME NEW k \in 1..n, Putting(k)'
          PROVE  k # n /\ Putting(k) /\ frames'[k].sig = frames[k].sig /\ frames[k].sig # frames[n].sig
      <4>1. k # n
        BY <3>3, <3>8
      <4> QED BY <2>1, <3>2, <3>8, <4>1 DEF IInv, StackOK
    <3>9. ASSUME NEW i \in Settled'
          PROVE  /\ signal_queue'[i] \in Sigs
                 /\ \A k \in 1..Len(frames') : Putting(k)' => frames'[k].sig # signal_queue'[i]
                 /\ signal_queue'[i] \in handled' => i < pos' \/ CaughtNext(signal_queue'[i])
      <4>1. CASE i = frames[n].slot
        BY <3>1, <3>3, <3>4, <3>7, <3>8, <4>1
      <4>2. CASE i # frames[n].slot
        <5>1. i \in Settled /\ signal_queue'[i] = signal_queue[i]
          BY <3>5, <4>2
        <5> QED BY <2>1, <3>1, <3>6, <3>8, <5>1 DEF IInv, SettledOnce
      <4> QED BY <4>1, <4>2
    <3>10. ASSUME NEW i \in Settled', i # frames[n].slot PROVE signal_queue'[i] # frames[n].sig
      BY <2>1, <3>3, <3>5, <3>10 DEF IInv, SettledOnce
    <3>11. ASSUME NEW i \in Settled', NEW j \in Settled', signal_queue'[i] = signal_queue'[j]
           PROVE  i = j
      <4>1. CASE i # frames[n].slot /\ j # frames[n].slot
        BY <3>5, <3>11, <4>1 DEF IInv, SettledOnce
      <4> QED BY <3>4, <3>10, <3>11, <4>1
    <3> QED BY <3>9, <3>11 DEF SettledOnce, Caught, CaughtNext
  <2>6. CASE /\ frames[n].at = "count" /\ Len(frames') = n - 1
             /\ \A k \in 1..n - 1 : frames'[k] = frames[k]
             /\ cnt' = [cnt EXCEPT ![frames[n].sig] = IF @ < MaxCount THEN @ + 1 ELSE @]
             /\ UNCHANGED <<signal_queue, signal_queue_len>>
    <3>1. ASSUME NEW k \in 1..n - 1
          PROVE  /\ k \in 1..n /\ frames'[k] = frames[k]
                 /\ (Writing(k)' <=> Writing(k)) /\ (Putting(k)' <=> Putting(k))
      BY <2>1, <2>6, <3>1 DEF Writing, Putting
    <3>2. ~Writing(n)
      BY <2>6 DEF Writing
    <3>3. \A i \in Settled' : i \in Settled
      <4>1. ASSUME NEW i \in Settled', NEW k \in 1..n, Writing(k) PROVE frames[k].slot # i
        <5>1. k \in 1..n - 1
          BY <2>1, <3>2, <4>1
        <5> QED BY <2>6, <3>1, <4>1, <5>1 DEF Settled
      <4> QED BY <2>6, <4>1 DEF Settled
    <3>4. ASSUME NEW x \in Sigs, Caught(x) PROVE CaughtNext(x)
      <4>1. cnt[x] \in Nat /\ cnt'[x] = IF x # frames[n].sig THEN cnt[x]
                                        ELSE IF cnt[x] < MaxCount THEN cnt[x] + 1 ELSE cnt[x]
        BY <1>0, <2>6
      <4>2. CASE cnt[x] > 0
        BY <4>1, <4>2 DEF CaughtNext
      <4>3. CASE x = frames[n].sig
        BY <1>0, <4>1, <4>3 DEF CaughtNext
      <4>4. ASSUME NEW k \in 1..n, frames[k].sig = x, frames[k].at = "count", x # frames[n].sig
            PROVE  CaughtNext(x)
        <5>1. k \in 1..n - 1
          BY <2>1, <4>4
        <5> QED BY <2>6, <3>1, <4>4, <5>1 DEF CaughtNext
      <4> QED BY <3>4, <4>2, <4>3, <4>4 DEF Caught
    <3> QED BY <2>1, <2>6, <3>1, <3>3, <3>4, SettledByStack
  <2> QED BY <1>1, <2>2, <2>3, <2>4, <2>5, <2>6, HandlerEffect DEF IInv
<1>2. ASSUME NEW s \in Sigs, Deliver(s) PROVE SettledOnce'
  <2>1. /\ n \in Nat /\ Len(frames') = n + 1
        /\ \A k \in 1..n : frames'[k] = frames[k]
        /\ frames'[n + 1].at = "test"
        /\ UNCHANGED <<handled, signal_queue, signal_queue_len, cnt, pos>>
    BY <1>2, DeliverEffect DEF IInv
  <2>2. ASSUME NEW k \in 1..n + 1, Putting(k)'
        PROVE  k \in 1..n /\ frames'[k] = frames[k] /\ Putting(k)
    <3>1. k # n + 1
      BY <2>1, <2>2 DEF Putting
    <3> QED BY <2>1, <2>2, <3>1 DEF Putting
  <2>3. \A k \in 1..n : k \in 1..n + 1 /\ frames'[k] = frames[k] /\ (Writing(k)' <=> Writing(k))
    BY <2>1 DEF Writing
  <2>4. \A i \in Settled' : i \in Settled
    BY <2>1, <2>3 DEF Settled
  <2>5. \A x \in Sigs : Caught(x) => CaughtNext(x)
    BY <2>1, <2>3 DEF Caught, CaughtNext
  <2> QED BY <2>1, <2>2, <2>4, <2>5, SettledByStack
<1>3. CASE MainStep
  <2>1. ASSUME frames' = frames, UNCHANGED <<handled, signal_queue, signal_queue_len, cnt, pos>>
        PROVE  SettledOnce'
    <3>1. Settled' = Settled
      BY <2>1 DEF Settled, Writing
    <3>2. \A x \in Sigs : Caught(x) => CaughtNext(x)
      BY <2>1 DEF Caught, CaughtNext
    <3> QED BY <2>1, <3>1, <3>2, SettledByStack DEF Putting
  <2>2. ASSUME NEW s \in Sigs, Raise(s) PROVE SettledOnce'
    BY <2>1, <2>2 DEF Raise
  <2>3. CASE TakeFlags
    BY <2>1, <2>3 DEF TakeFlags
  <2>4. ASSUME frames = <<>>, Len(frames') = 0, UNCHANGED signal_queue,
               signal_queue_len' = signal_queue_len,
               \A i \in 0..signal_queue_len - 1 :
                 signal_queue[i] \in handled' =>
                   \/ i < pos'
                   \/ signal_queue[i] \in handled /\ i >= pos /\ cnt'[signal_queue[i]] = cnt[signal_queue[i]]
        PROVE  SettledOnce'
    <3>1. Len(frames) = 0
      BY <2>4, EmptySeq
    <3>2. /\ Settled = 0..signal_queue_len - 1 /\ Settled' = 0..signal_queue_len - 1
      BY <2>4, <3>1 DEF Settled
    <3>3. ASSUME NEW i \in Settled, signal_queue[i] \in handled'
          PROVE  i < pos' \/ CaughtNext(signal_queue[i])
      <4>1. CASE signal_queue[i] \in handled /\ i >= pos /\ cnt'[signal_queue[i]] = cnt[signal_queue[i]]
        <5>1. Caught(signal_queue[i])
          BY <1>0, <3>2, <4>1 DEF IInv, SettledOnce
        <5> QED BY <3>1, <4>1, <5>1 DEF Caught, CaughtNext
      <4> QED BY <2>4, <3>2, <3>3, <4>1
    <3> QED BY <2>4, <3>2, <3>3, SettledKept
  <2>5. ASSUME frames = <<>> PROVE Settled = 0..signal_queue_len - 1
    <3>1. Len(frames) = 0
      BY <2>5, EmptySeq
    <3> QED BY <3>1 DEF Settled
  <2>6. ASSUME frames = <<>>, frames' = frames PROVE Len(frames') = 0
    BY <2>6, EmptySeq
  <2>7. ASSUME NEW s \in Sigs, s \notin handled \cup Queued, Register(s) PROVE SettledOnce'
    <3>1. /\ frames = <<>> /\ frames' = frames /\ pos = -1 /\ handled' = handled \cup {s}
          /\ cnt' = [cnt EXCEPT ![s] = 0]
          /\ UNCHANGED <<signal_queue, signal_queue_len, pos>>
      BY <2>7 DEF Register
    <3>2. \A i \in 0..signal_queue_len - 1 : signal_queue[i] # s
      BY <2>7 DEF Queued
    <3> QED BY <1>0, <2>4, <2>6, <3>1, <3>2
  <2>8. ASSUME NEW s \in Sigs, Ignore(s) PROVE SettledOnce'
    <3>1. /\ frames = <<>> /\ frames' = frames /\ pos = -1 /\ handled' = handled \ {s}
          /\ cnt' = [cnt EXCEPT ![s] = 0]
          /\ UNCHANGED <<signal_queue, signal_queue_len, pos>>
      BY <2>8 DEF Ignore
    <3> QED BY <1>0, <2>4, <2>6, <3>1
  <2>9. CASE ProcessBegin
    <3>1. /\ frames = <<>> /\ frames' = frames /\ pos = -1 /\ pos' = 0
          /\ UNCHANGED <<handled, signal_queue, signal_queue_len, cnt>>
      BY <2>9 DEF ProcessBegin
    <3> QED BY <1>0, <2>4, <2>6, <3>1
  <2>10. CASE ProcessOne
    <3>1. /\ frames = <<>> /\ frames' = frames /\ pos >= 0 /\ pos < signal_queue_len
          /\ pos' = pos + 1
          /\ UNCHANGED <<handled, signal_queue, signal_queue_len>>
          /\ cnt' = [cnt EXCEPT ![signal_queue[pos]] = 0] \/ cnt' = cnt
      BY <2>10 DEF ProcessOne, CountTaken, IInv, StackOK
    <3>2. Settled = 0..signal_queue_len - 1
      BY <2>5, <3>1
    <3>3. \A i \in 0..signal_queue_len - 1 : signal_queue[i] = signal_queue[pos] => i = pos
      BY <1>0, <3>1, <3>2 DEF IInv, SettledOnce
    <3>4. \A i \in 0..signal_queue_len - 1 : signal_queue[i] \in Sigs
      BY <3>2 DEF IInv, SettledOnce
    <3>5. ASSUME NEW i \in 0..signal_queue_len - 1, i >= pos'
          PROVE  i >= pos /\ cnt'[signal_queue[i]] = cnt[signal_queue[i]]
      <4>1. i # pos /\ i >= pos
        BY <1>0, <3>1, <3>5
      <4> QED BY <1>0, <3>1, <3>3, <3>4, <4>1
    <3> QED BY <1>0, <2>4, <2>6, <3>1, <3>5
  <2>11. CASE ProcessEnd
    <3>1. signal_queue_len' = 0
      BY <2>11 DEF ProcessEnd
    <3>2. Settled' = {}
      BY <3>1 DEF Settled
    <3> QED BY <3>2 DEF SettledOnce
  <2> QED BY <1>3, <2>2, <2>3, <2>7, <2>8, <2>9, <2>10, <2>11 DEF MainStep, spe_signal_process
<1>4. CASE UNCHANGED sigvars
  <2>1. frames' = frames /\ UNCHANGED <<handled, signal_queue, signal_queue_len, cnt, pos>>
    BY <1>4 DEF sigvars
  <2>2. Settled' = Settled
    BY <2>1 DEF Settled, Writing
  <2>3. \A x \in Sigs : Caught(x) => CaughtNext(x)
    BY <2>1 DEF Caught, CaughtNext
  <2> QED BY <2>1, <2>2, <2>3, SettledByStack DEF Putting
<1> QED BY <1>1, <1>2, <1>3, <1>4, NextCases

----------------------------------------------------------------------------
LEMMA InitInvariant == Init => IInv
<1> SUFFICES ASSUME Init PROVE IInv
  OBVIOUS
<1>1. frames = <<>> /\ Len(frames) = 0 /\ frames \in Seq(Frame)
  BY EmptySeq DEF Init, SignalInit
<1>2. /\ pending = {} /\ handled = {} /\ signal_queue_len = 0 /\ pos = -1 /\ flags = {}
      /\ signal_queue = [i \in 0..MAX_SIGNAL - 1 |-> None]
      /\ cnt = [s \in Sigs |-> 0] /\ overtaken = {}
  BY DEF Init, SignalInit
<1>3. TypeOK
  BY <1>1, <1>2, SignalAssumption DEF TypeOK
<1>4. Settled = {}
  BY <1>2 DEF Settled
<1> QED BY <1>1, <1>2, <1>3, <1>4 DEF IInv, StackOK, SlotsOK, SettledOnce

\* signal_queue, its length and the handlers that run stay as IInv says.
THEOREM Invariance == Spec => []IInv
<1>1. IInv /\ [Next]_sigvars => IInv'
  BY TypeStep, StackStep, SlotsStep, SettledStep DEF IInv
<1> QED BY <1>1, InitInvariant, PTL DEF Spec

\* No handler, whatever it interrupts, writes beyond signal_queue, and the
\* main line reads only entries that are there (spe_signal.c:44-45, 83-91).
THEOREM TypeCorrect == Spec => []TypeOK
<1>1. IInv => TypeOK
  BY DEF IInv
<1> QED BY <1>1, Invariance, PTL

\* The main line finds in signal_queue only signals, each of them once
\* (spe_signal.c:44).
THEOREM QueuedOnce == Spec => []QueueHoldsOnce
<1>1. IInv => QueueHoldsOnce
  <2> SUFFICES ASSUME IInv, frames = <<>>
               PROVE  \A i, j \in 0..signal_queue_len - 1 :
                        signal_queue[i] \in Sigs /\ (signal_queue[i] = signal_queue[j] => i = j)
    BY DEF QueueHoldsOnce
  <2>1. Len(frames) = 0
    BY EmptySeq
  <2>2. Settled = 0..signal_queue_len - 1
    BY <2>1 DEF Settled
  <2> QED BY <2>2 DEF IInv, SettledOnce
<1> QED BY <1>1, Invariance, PTL
----------------------------------------------------------------------------
\* What was caught is in the queue, or was taken back.
InQueue(x) == \E i \in Settled : signal_queue[i] = x /\ i >= pos
Safe(x) == InQueue(x) \/ x \in overtaken

LossInv ==
  /\ \A s \in Sigs : cnt[s] > 0 => Safe(s)
  /\ \A k \in 1..Len(frames) : frames[k].at = "count" => Safe(frames[k].sig)

\* Each entry of the queue belongs to a signal: the one that is there, or the
\* one that a handler is about to write there.
Owns(i, x) ==
  \/ i \in Settled /\ x = signal_queue[i]
  \/ \E k \in 1..Len(frames) : Writing(k) /\ frames[k].slot = i /\ x = frames[k].sig

\* The numbers, and the stack, as the invariant gives them.
LEMMA Numbers ==
  ASSUME IInv
  PROVE  /\ Len(frames) \in Nat /\ (Len(frames) = 0 <=> frames = <<>>)
         /\ \A k \in 1..Len(frames) : /\ frames[k].sig \in Sigs /\ frames[k].sig \in handled
                                      /\ frames[k].slot \in Nat
         /\ signal_queue_len \in Nat /\ MAX_SIGNAL \in Nat /\ signal_queue_len <= MAX_SIGNAL
         /\ pos \in Int /\ pos <= signal_queue_len /\ (frames # <<>> => pos = -1)
         /\ cnt \in [Sigs -> 0..MaxCount] /\ MaxCount \in Nat \ {0}
         /\ signal_queue \in [0..MAX_SIGNAL - 1 -> Sigs \cup {None}]
         /\ \A i \in Settled : i \in Nat /\ i < signal_queue_len
<1>1. frames \in Seq(Frame) /\ pos \in -1..signal_queue_len
  BY DEF IInv, TypeOK
<1>2. Len(frames) \in Nat /\ (Len(frames) = 0 <=> frames = <<>>)
  BY <1>1, EmptySeq, LenProperties
<1>3. \A k \in 1..Len(frames) : frames[k] \in Frame /\ frames[k].sig \in handled
  BY <1>1, ElementOfSeq DEF IInv, StackOK
<1>4. \A k \in 1..Len(frames) : /\ frames[k].sig \in Sigs /\ frames[k].sig \in handled
                                /\ frames[k].slot \in Nat
  BY <1>3 DEF Frame
<1>5. signal_queue_len \in Nat /\ MAX_SIGNAL \in Nat /\ signal_queue_len <= MAX_SIGNAL
  BY SignalAssumption DEF IInv, TypeOK
<1>6. \A i \in Settled : i \in Nat /\ i < signal_queue_len
  BY <1>5 DEF Settled
<1>7. pos \in Int /\ pos <= signal_queue_len /\ (frames # <<>> => pos = -1)
  BY <1>1, <1>5 DEF IInv, StackOK
<1> QED BY <1>2, <1>4, <1>5, <1>6, <1>7, SignalAssumption DEF IInv, TypeOK

\* A signal that is to be put in the queue finds room: the others that are
\* there, or on their way, are different from it and from each other.
LEMMA QueueHasRoom ==
  ASSUME IInv, NEW n, n = Len(frames), frames # <<>>,
         frames[n].at = "test", cnt[frames[n].sig] = 0
  PROVE  signal_queue_len < MAX_SIGNAL
<1> DEFINE s == frames[n].sig
           Entries == 0..signal_queue_len - 1
<1>0. n \in Nat \ {0} /\ n \in 1..Len(frames) /\ pos = -1 /\ s \in Sigs /\ s \in handled
  BY Numbers
<1>1. \A k \in 1..Len(frames) : frames[k].at # "test" => frames[k].sig # s
  BY <1>0 DEF IInv, StackOK
<1>2. ~Caught(s)
  BY <1>1 DEF Caught
<1>3. \A i \in Settled : signal_queue[i] \in Sigs /\ signal_queue[i] # s
  BY <1>0, <1>2, Numbers DEF IInv, SettledOnce
<1>4. \A i \in Entries : \E x \in Sigs \ {s} : Owns(i, x)
  <2> SUFFICES ASSUME NEW i \in Entries PROVE \E x \in Sigs \ {s} : Owns(i, x)
    OBVIOUS
  <2>1. CASE i \in Settled
    BY <2>1, <1>3 DEF Owns
  <2>2. CASE i \notin Settled
    <3>1. PICK k \in 1..Len(frames) : Writing(k) /\ frames[k].slot = i
      BY <2>2 DEF Settled
    <3>2. frames[k].sig \in Sigs \ {s}
      BY <1>1, <3>1, Numbers DEF Writing
    <3> QED BY <3>1, <3>2 DEF Owns
  <2> QED BY <2>1, <2>2
<1>5. \A i, j \in Entries, x \in Sigs : Owns(i, x) /\ Owns(j, x) => i = j
  <2> SUFFICES ASSUME NEW i \in Entries, NEW j \in Entries, NEW x \in Sigs,
                      Owns(i, x), Owns(j, x)
               PROVE  i = j
    OBVIOUS
  <2>1. CASE i \in Settled /\ x = signal_queue[i]
    <3>1. \A k \in 1..Len(frames) : Writing(k) => frames[k].sig # x
      BY <2>1 DEF IInv, SettledOnce, Writing, Putting
    <3>2. j \in Settled /\ x = signal_queue[j]
      BY <3>1 DEF Owns
    <3> QED BY <2>1, <3>2 DEF IInv, SettledOnce
  <2>2. CASE j \in Settled /\ x = signal_queue[j]
    <3>1. \A k \in 1..Len(frames) : Writing(k) => frames[k].sig # x
      BY <2>2 DEF IInv, SettledOnce, Writing, Putting
    <3>2. i \in Settled /\ x = signal_queue[i]
      BY <3>1 DEF Owns
    <3> QED BY <2>2, <3>2 DEF IInv, SettledOnce
  <2>3. CASE /\ \E k \in 1..Len(frames) : frames[k].slot = i /\ x = frames[k].sig
             /\ \E k \in 1..Len(frames) : frames[k].slot = j /\ x = frames[k].sig
    BY <2>3 DEF IInv, StackOK
  <2> QED BY <2>1, <2>2, <2>3 DEF Owns
<1> DEFINE owner == [i \in Entries |-> CHOOSE x \in Sigs \ {s} : Owns(i, x)]
<1>6. \A i \in Entries : owner[i] \in Sigs \ {s} /\ Owns(i, owner[i])
  BY <1>4
<1>7. owner \in Injection(Entries, Sigs \ {s})
  <2>1. owner \in [Entries -> Sigs \ {s}]
    BY <1>6
  <2> HIDE DEF owner, Entries, s
  <2>2. \A i, j \in Entries : owner[i] = owner[j] => i = j
    BY <1>5, <1>6
  <2> QED BY <2>1, <2>2 DEF Injection, IsInjective
<1> HIDE DEF owner
<1>8. Cardinality(Sigs \ {s}) = Cardinality(Sigs) - 1 /\ IsFiniteSet(Sigs \ {s})
  <2>1. IsFiniteSet(Sigs)
    BY SignalAssumption
  <2> QED BY <1>0, <2>1, FS_RemoveElement
<1>9. Cardinality(Entries) = signal_queue_len
  <2>1. signal_queue_len \in Nat
    BY Numbers
  <2> QED BY <2>1, FS_Interval
<1>10. Cardinality(Entries) <= Cardinality(Sigs \ {s})
  BY <1>7, <1>8, FS_Injection
<1>11. Cardinality(Sigs) \in Nat
  BY FS_CardinalityType, SignalAssumption
<1> QED BY <1>8, <1>9, <1>10, <1>11, SignalAssumption, Numbers

\* What was caught is safe after a step.
SafeNext(x) == (\E i \in Settled' : signal_queue'[i] = x /\ i >= pos') \/ x \in overtaken'

LEMMA LossFrom ==
  ASSUME \A s \in Sigs : cnt'[s] > 0 => SafeNext(s),
         \A k \in 1..Len(frames') : frames'[k].at = "count" => SafeNext(frames'[k].sig)
  PROVE  LossInv'
BY DEF LossInv, Safe, InQueue, SafeNext

\* A handler makes its steps: it takes back what may be lost, and writes what
\* it counts afterwards.
LEMMA LossHandler == IInv /\ LossInv /\ CommonHandler => LossInv'
<1> SUFFICES ASSUME IInv, LossInv, CommonHandler PROVE LossInv'
  OBVIOUS
<1> PICK n : n = Len(frames)
  OBVIOUS
<1>0. /\ n \in Nat \ {0} /\ n \in 1..Len(frames) /\ frames[n] \in Frame
      /\ frames[n].sig \in Sigs /\ frames[n].slot \in Nat
      /\ pos = -1 /\ pos' = -1 /\ frames # <<>>
  <2>1. frames # <<>>
    BY DEF CommonHandler
  <2>2. n \in Nat \ {0} /\ frames[n] \in Frame /\ pos' = pos
    BY HandlerEffect DEF IInv
  <2> QED BY <2>1, <2>2, Numbers DEF Frame
\* The others of the stack are as safe as before, and so is what was counted.
<1>1. ASSUME NEW where, HandlerKeeps(n, where),
             \A x \in Sigs : Safe(x) => SafeNext(x), cnt' = cnt,
             where = "count" => SafeNext(frames[n].sig)
      PROVE  LossInv'
  <2>1. /\ Len(frames') = n /\ frames'[n].sig = frames[n].sig /\ frames'[n].at = where
        /\ \A k \in 1..n - 1 : frames'[k] = frames[k]
    BY <1>1 DEF HandlerKeeps
  <2>2. ASSUME NEW k \in 1..n, frames'[k].at = "count" PROVE SafeNext(frames'[k].sig)
    <3>1. CASE k = n
      BY <1>1, <2>1, <2>2, <3>1
    <3>2. CASE k # n
      <4>1. k \in 1..n - 1
        BY <1>0, <3>2
      <4>2. frames'[k] = frames[k] /\ frames[k].sig \in Sigs
        BY <2>1, <4>1, Numbers
      <4>3. Safe(frames[k].sig)
        BY <2>2, <4>2 DEF LossInv
      <4> QED BY <1>1, <4>2, <4>3
    <3> QED BY <3>1, <3>2
  <2>3. \A s \in Sigs : cnt'[s] > 0 => SafeNext(s)
    BY <1>1 DEF LossInv
  <2> QED BY <2>1, <2>2, <2>3, LossFrom
<1>2. ASSUME \A i \in Settled : i \in Settled' /\ signal_queue'[i] = signal_queue[i],
             overtaken' = overtaken
      PROVE  \A x \in Sigs : Safe(x) => SafeNext(x)
  BY <1>0, <1>2 DEF Safe, InQueue, SafeNext
<1>3. CASE frames[n].at = "test"
  <2>1. /\ \E where \in {"store", "count"} : HandlerKeeps(n, where)
        /\ HandlerKeeps(n, "count") \/ HandlerKeeps(n, "store")
        /\ ~HandlerKeeps(n, "store") => ~Put(frames[n].sig)
        /\ UNCHANGED <<signal_queue, signal_queue_len, cnt>> /\ overtaken' = overtaken
    BY <1>3, HandlerEffect DEF IInv
  <2>2. \A k \in 1..Len(frames) : Writing(k) => k # n
    BY <1>3 DEF Writing
  <2>3. Settled' = Settled
    <3>1. ASSUME NEW where \in {"store", "count"}, HandlerKeeps(n, where)
          PROVE  /\ Len(frames') = n /\ frames'[n].at = where
                 /\ \A k \in 1..n - 1 : frames'[k] = frames[k]
      BY <3>1 DEF HandlerKeeps
    <3>2. Len(frames') = n /\ frames'[n].at # "write"
          /\ \A k \in 1..n - 1 : frames'[k] = frames[k]
      BY <2>1, <3>1
    <3>3. \A k \in 1..n : k # n => k \in 1..n - 1
      BY <1>0
    <3> QED BY <1>0, <2>1, <2>2, <3>2, <3>3 DEF Settled, Writing
  <2>4. \A x \in Sigs : Safe(x) => SafeNext(x)
    BY <1>2, <2>1, <2>3
  <2>5. CASE HandlerKeeps(n, "store")
    BY <1>1, <2>1, <2>4, <2>5
  <2>6. CASE HandlerKeeps(n, "count") /\ ~Put(frames[n].sig)
    <3>1. cnt[frames[n].sig] # 0
      BY <1>0, <1>3, <2>6, QueueHasRoom DEF Put
    <3>2. cnt[frames[n].sig] > 0
      BY <1>0, <3>1, Numbers
    <3>3. Safe(frames[n].sig)
      BY <1>0, <3>2 DEF LossInv
    <3> QED BY <1>0, <1>1, <2>1, <2>4, <2>6, <3>3
  <2> QED BY <2>1, <2>5, <2>6
<1>4. CASE frames[n].at = "store"
  <2>1. /\ HandlerKeeps(n, "write") /\ frames'[n].slot = frames[n].slot
        /\ signal_queue_len' = frames[n].slot + 1
        /\ UNCHANGED <<signal_queue, cnt>>
        /\ overtaken' = overtaken \cup TakenBack(frames[n])
    BY <1>4, HandlerEffect DEF IInv
  <2>2. /\ Len(frames') = n /\ frames'[n].at = "write"
        /\ \A k \in 1..n - 1 : frames'[k] = frames[k]
    BY <2>1 DEF HandlerKeeps
  <2>3. ASSUME NEW i \in Settled, i < frames[n].slot PROVE i \in Settled'
    <3>1. i \in 0..signal_queue_len' - 1
      BY <1>0, <2>1, <2>3, Numbers
    <3>2. ASSUME NEW k \in 1..n, frames'[k].at = "write" PROVE frames'[k].slot # i
      <4>1. CASE k = n
        BY <1>0, <2>1, <2>3, <4>1, Numbers
      <4>2. CASE k # n
        <5>1. k \in 1..n - 1 /\ frames'[k] = frames[k] /\ k \in 1..Len(frames)
          BY <1>0, <2>2, <4>2
        <5> QED BY <3>2, <5>1 DEF Settled, Writing
      <4> QED BY <4>1, <4>2
    <3> QED BY <2>2, <3>1, <3>2 DEF Settled, Writing
  <2>4. ASSUME NEW x \in Sigs, Safe(x) PROVE SafeNext(x)
    <3>1. CASE x \in overtaken
      BY <2>1, <3>1 DEF SafeNext
    <3>2. CASE x \notin overtaken
      <4>1. PICK i \in Settled : signal_queue[i] = x
        BY <2>4, <3>2 DEF Safe, InQueue, SafeNext
      <4>2. i \in Nat /\ i < signal_queue_len /\ signal_queue_len \in Nat
        BY Numbers
      <4>3. CASE i < frames[n].slot
        <5>1. i \in Settled' /\ signal_queue'[i] = x /\ i >= pos'
          BY <1>0, <2>1, <2>3, <4>1, <4>2, <4>3
        <5> QED BY <5>1 DEF Safe, InQueue, SafeNext
      <4>4. CASE ~(i < frames[n].slot)
        <5>1. i \in frames[n].slot..signal_queue_len - 1
          BY <1>0, <4>2, <4>4
        <5> QED BY <2>1, <4>1, <5>1 DEF Safe, SafeNext, TakenBack
      <4> QED BY <4>3, <4>4
    <3> QED BY <3>1, <3>2
  <2> QED BY <1>1, <2>1, <2>4
<1>5. CASE frames[n].at = "write"
  <2>1. /\ HandlerKeeps(n, "count") /\ frames'[n].slot = frames[n].slot
        /\ signal_queue' = [signal_queue EXCEPT ![frames[n].slot] = frames[n].sig]
        /\ UNCHANGED <<signal_queue_len, cnt>> /\ overtaken' = overtaken
    BY <1>5, HandlerEffect DEF IInv
  <2>2. /\ Len(frames') = n /\ frames'[n].at = "count"
        /\ \A k \in 1..n - 1 : frames'[k] = frames[k]
    BY <2>1 DEF HandlerKeeps
  <2>3. /\ frames[n].slot \in 0..signal_queue_len - 1
        /\ frames[n].slot \in 0..MAX_SIGNAL - 1
    <3>1. frames[n].slot < signal_queue_len
      BY <1>0, <1>5 DEF IInv, SlotsOK, Putting, Writing
    <3> QED BY <1>0, <3>1, Numbers
  <2>4. ASSUME NEW i \in 0..signal_queue_len - 1,
               \A k \in 1..n - 1 : Writing(k) => frames[k].slot # i
        PROVE  i \in Settled'
    <3>1. \A k \in 1..n : k # n => k \in 1..n - 1
      BY <1>0
    <3> QED BY <2>1, <2>2, <2>4, <3>1 DEF Settled, Writing
  <2>5. \A i \in Settled : i \in Settled' /\ signal_queue'[i] = signal_queue[i]
    <3> SUFFICES ASSUME NEW i \in Settled
                 PROVE  i \in Settled' /\ signal_queue'[i] = signal_queue[i]
      OBVIOUS
    <3>1. i \in 0..signal_queue_len - 1 /\ i # frames[n].slot
      BY <1>0, <1>5 DEF Settled, Writing
    <3>2. \A k \in 1..n - 1 : Writing(k) => frames[k].slot # i
      BY <1>0 DEF Settled
    <3>3. i \in 0..MAX_SIGNAL - 1
      BY <3>1, Numbers
    <3> QED BY <2>1, <2>3, <2>4, <3>1, <3>2, <3>3, Numbers
  <2>6. frames[n].slot \in Settled' /\ signal_queue'[frames[n].slot] = frames[n].sig
    <3>1. \A k \in 1..n - 1 : Writing(k) => frames[k].slot < frames[n].slot
      <4> SUFFICES ASSUME NEW k \in 1..n - 1, Writing(k)
                   PROVE  frames[k].slot < frames[n].slot
        OBVIOUS
      <4>1. k \in 1..Len(frames) /\ k < n /\ Putting(k) /\ Putting(n)
        BY <1>0, <1>5 DEF Writing, Putting
      <4> QED BY <1>0, <4>1 DEF IInv, SlotsOK
    <3>2. \A k \in 1..n - 1 : Writing(k) => frames[k].slot # frames[n].slot
      BY <1>0, <3>1
    <3> QED BY <2>1, <2>3, <2>4, <3>2, Numbers
  <2>7. SafeNext(frames[n].sig)
    <3>1. frames[n].slot >= pos'
      BY <1>0
    <3>2. frames'[n].sig = frames[n].sig
      BY <2>1 DEF HandlerKeeps
    <3> QED BY <2>6, <3>1, <3>2 DEF Safe, InQueue, SafeNext
  <2>8. \A x \in Sigs : Safe(x) => SafeNext(x)
    BY <1>2, <2>1, <2>5
  <2> QED BY <1>1, <2>1, <2>7, <2>8
<1>6. CASE frames[n].at = "count"
  <2>1. /\ Len(frames') = n - 1 /\ \A k \in 1..n - 1 : frames'[k] = frames[k]
        /\ cnt' = [cnt EXCEPT ![frames[n].sig] = IF @ < MaxCount THEN @ + 1 ELSE @]
        /\ UNCHANGED <<signal_queue, signal_queue_len>> /\ overtaken' = overtaken
    BY <1>6, HandlerEffect DEF IInv
  <2>2. Settled' = Settled
    <3>1. \A k \in 1..n : Writing(k) => k \in 1..n - 1
      BY <1>0, <1>6 DEF Writing
    <3>2. \A k \in 1..n - 1 : k \in 1..n
      BY <1>0
    <3> QED BY <2>1, <3>1, <3>2 DEF Settled, Writing
  <2>3. \A x \in Sigs : Safe(x) => SafeNext(x)
    BY <1>2, <2>1, <2>2
  <2>4. ASSUME NEW s \in Sigs, cnt'[s] > 0 PROVE Safe(s)
    <3>1. CASE s = frames[n].sig
      BY <1>0, <1>6, <3>1 DEF LossInv
    <3>2. CASE s # frames[n].sig
      <4>1. cnt'[s] = cnt[s]
        BY <1>0, <2>1, <3>2, Numbers
      <4> QED BY <2>4, <4>1 DEF LossInv
    <3> QED BY <3>1, <3>2
  <2>5. ASSUME NEW k \in 1..n - 1, frames'[k].at = "count" PROVE SafeNext(frames'[k].sig)
    <3>1. frames'[k] = frames[k] /\ k \in 1..Len(frames) /\ frames[k].sig \in Sigs
      BY <1>0, <2>1, Numbers
    <3> QED BY <2>3, <2>5, <3>1 DEF LossInv
  <2>6. \A s \in Sigs : cnt'[s] > 0 => SafeNext(s)
    BY <2>3, <2>4
  <2> QED BY <2>1, <2>5, <2>6, LossFrom
<1> QED BY <1>0, <1>3, <1>4, <1>5, <1>6 DEF Frame

\* The main line forgets a count only when it has dealt with it.
LEMMA LossStep == IInv /\ LossInv /\ [Next]_sigvars => LossInv'
<1> SUFFICES ASSUME IInv, LossInv, [Next]_sigvars PROVE LossInv'
  OBVIOUS
<1> PICK n : n = Len(frames)
  OBVIOUS
<1>1. CASE CommonHandler
  BY <1>1, LossHandler
<1>2. ASSUME NEW s \in Sigs, Deliver(s) PROVE LossInv'
  <2>1. /\ n \in Nat /\ pos = -1 /\ Len(frames') = n + 1
        /\ \A k \in 1..n : frames'[k] = frames[k]
        /\ frames'[n + 1].at = "test"
        /\ UNCHANGED <<signal_queue, signal_queue_len, cnt, pos, overtaken>>
    BY <1>2, DeliverEffect DEF IInv
  <2>2. \A k \in 1..n + 1 : k \in 1..n \/ k = n + 1
    BY <2>1
  <2>3. \A k \in 1..n : k \in 1..n + 1
    BY <2>1
  <2>4. Settled' = Settled
    BY <2>1, <2>2, <2>3 DEF Settled, Writing
  <2>5. \A x : Safe(x) => SafeNext(x)
    BY <2>1, <2>4 DEF Safe, InQueue, SafeNext
  <2>6. \A k \in 1..n + 1 : frames'[k].at = "count" => SafeNext(frames'[k].sig)
    BY <2>1, <2>2, <2>5 DEF LossInv
  <2>7. \A x \in Sigs : cnt'[x] > 0 => SafeNext(x)
    BY <2>1, <2>5 DEF LossInv
  <2> QED BY <2>1, <2>6, <2>7, LossFrom
<1>3. CASE \E s \in Sigs : Raise(s)
  <2>1. UNCHANGED <<frames, signal_queue, signal_queue_len, cnt, pos, overtaken>>
    BY <1>3 DEF Raise
  <2> QED BY <2>1 DEF LossInv, Safe, InQueue, SafeNext, Settled, Writing
<1>4. ASSUME frames = <<>>, frames' = <<>>, signal_queue' = signal_queue,
             \A x \in Sigs : cnt'[x] > 0 => SafeNext(x)
      PROVE  LossInv'
  <2>1. Len(frames') = 0
    BY <1>4, EmptySeq
  <2>2. \A k \in 1..Len(frames') : FALSE
    BY <2>1
  <2> QED BY <1>4, <2>2, LossFrom
<1>5. ASSUME NEW s \in Sigs, Register(s) \/ Ignore(s) PROVE LossInv'
  <2>1. /\ frames = <<>> /\ frames' = <<>> /\ UNCHANGED <<signal_queue, signal_queue_len, pos>>
        /\ cnt' = [cnt EXCEPT ![s] = 0] /\ overtaken' = overtaken \ {s}
    BY <1>5 DEF Register, Ignore
  <2>2. Settled' = Settled
    BY <2>1 DEF Settled, Writing
  <2>3. ASSUME NEW x \in Sigs, cnt'[x] > 0 PROVE x # s /\ cnt[x] > 0
    BY <2>1, <2>3, Numbers
  <2>4. \A x \in Sigs : cnt'[x] > 0 => SafeNext(x)
    BY <2>1, <2>2, <2>3 DEF LossInv, Safe, InQueue, SafeNext
  <2> QED BY <1>4, <2>1, <2>4
<1>6. CASE ProcessBegin
  <2>1. /\ frames = <<>> /\ frames' = <<>> /\ pos' = 0
        /\ UNCHANGED <<signal_queue, signal_queue_len, cnt, overtaken>>
    BY <1>6 DEF ProcessBegin
  <2>2. Settled' = Settled
    BY <2>1 DEF Settled, Writing
  <2>3. \A i \in Settled : i >= pos'
    BY <2>1, Numbers
  <2>4. \A x \in Sigs : cnt'[x] > 0 => SafeNext(x)
    BY <2>1, <2>2, <2>3 DEF LossInv, Safe, InQueue, SafeNext
  <2> QED BY <1>4, <2>1, <2>4
<1>7. CASE ProcessOne
  <2>1. /\ frames = <<>> /\ frames' = <<>> /\ pos >= 0 /\ pos < signal_queue_len
        /\ pos' = pos + 1 /\ overtaken' = overtaken
        /\ UNCHANGED <<signal_queue, signal_queue_len>>
        /\ IF cnt[signal_queue[pos]] > 0 THEN cnt' = [cnt EXCEPT ![signal_queue[pos]] = 0]
                                         ELSE cnt' = cnt
    BY <1>7, Numbers DEF ProcessOne, CountTaken
  <2>2. Settled' = Settled
    BY <2>1 DEF Settled, Writing
  <2>3. ASSUME NEW x \in Sigs, cnt'[x] > 0 PROVE cnt[x] > 0 /\ x # signal_queue[pos]
    BY <2>1, <2>3, Numbers
  <2>4. ASSUME NEW x \in Sigs, cnt'[x] > 0 PROVE SafeNext(x)
    <3>1. Safe(x) /\ x # signal_queue[pos]
      BY <2>3, <2>4 DEF LossInv
    <3>2. CASE x \in overtaken
      BY <2>1, <3>2 DEF SafeNext
    <3>3. CASE x \notin overtaken
      <4>1. PICK i \in Settled : signal_queue[i] = x /\ i >= pos
        BY <3>1, <3>3 DEF Safe, InQueue, SafeNext
      <4>2. i # pos /\ i \in Nat /\ pos \in Int
        BY <3>1, <4>1, Numbers
      <4>3. i >= pos'
        BY <2>1, <4>1, <4>2
      <4> QED BY <2>1, <2>2, <4>1, <4>3 DEF Safe, InQueue, SafeNext
    <3> QED BY <3>2, <3>3
  <2> QED BY <1>4, <2>1, <2>4
<1>8. CASE ProcessEnd
  <2>1. /\ frames = <<>> /\ frames' = <<>> /\ pos = signal_queue_len /\ cnt' = cnt
        /\ UNCHANGED <<signal_queue, overtaken>>
    BY <1>8, Numbers DEF ProcessEnd, IInv, StackOK
  <2>2. \A i \in Settled : ~(i >= pos)
    BY <2>1, Numbers
  <2>3. \A x \in Sigs : cnt'[x] > 0 => SafeNext(x)
    BY <2>1, <2>2 DEF LossInv, Safe, InQueue, SafeNext
  <2> QED BY <1>4, <2>1, <2>3
<1>9. CASE TakeFlags \/ UNCHANGED sigvars
  <2>1. UNCHANGED <<frames, signal_queue, signal_queue_len, cnt, pos, overtaken>>
    BY <1>9 DEF TakeFlags, sigvars
  <2> QED BY <2>1 DEF LossInv, Safe, InQueue, SafeNext, Settled, Writing
<1> QED BY <1>1, <1>2, <1>3, <1>5, <1>6, <1>7, <1>8, <1>9, NextCases
        DEF MainStep, spe_signal_process

\* However the handlers interrupt each other, a signal that was caught and not
\* processed is in the queue, but for those whose entries an interrupted
\* handler took back (spe_signal.c:44-48, 81-92).
THEOREM NoOtherLoss == Spec => []LostOnlyOvertaken
<1>1. Init => LossInv
  <2> SUFFICES ASSUME Init PROVE LossInv
    OBVIOUS
  <2>1. frames = <<>> /\ Len(frames) = 0 /\ cnt = [s \in Sigs |-> 0]
    BY EmptySeq DEF Init, SignalInit
  <2> QED BY <2>1 DEF LossInv
<1>2. IInv /\ LossInv /\ [Next]_sigvars => LossInv'
  BY LossStep
<1>3. IInv /\ LossInv => LostOnlyOvertaken
  <2> SUFFICES ASSUME IInv, LossInv, NEW s \in Sigs, cnt[s] > 0, s \notin overtaken
               PROVE  s \in ToProcess
    BY DEF LostOnlyOvertaken
  <2>1. PICK i \in Settled : signal_queue[i] = s /\ i >= pos
    BY DEF LossInv, Safe, InQueue, SafeNext
  <2>2. i \in (IF pos = -1 THEN 0 ELSE pos)..signal_queue_len - 1
    BY <2>1, Numbers
  <2> QED BY <2>1, <2>2 DEF ToProcess
<1> QED BY <1>1, <1>2, <1>3, Invariance, PTL DEF Spec
=============================================================================
