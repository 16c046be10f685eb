-------------------------- MODULE EventLoopProofs ---------------------------
(***************************************************************************)
(* What holds of EventLoop for every set of functors, every set of calling *)
(* threads and every eventfd capacity: its invariants, and that it         *)
(* implements the safety part of LoopExecutor.                             *)
(***************************************************************************)
EXTENDS EventLoop, SequenceTheorems, TLAPS

LEMMA TypeCorrect == SafeSpec => []TypeOK
<1>1. Init => TypeOK
  <2> SUFFICES ASSUME Init PROVE TypeOK
    OBVIOUS
  <2>1. <<>> \in Seq(Functor)
    BY EmptySeq
  <2>2. /\ call \in [Caller -> {"idle", "queueing", "quitting"}]
        /\ quit \in BOOLEAN /\ callingPending \in BOOLEAN
        /\ active \in SUBSET Channel /\ early \in SUBSET Functor
    BY DEF Init
  <2>3. wakeups \in 0 .. EventfdMax /\ pc \in Location
    BY EventfdMaxAssumption DEF Init, Location
  <2>4. /\ pending \in Seq(Functor) /\ batch \in Seq(Functor)
        /\ posted \in Seq(Functor) /\ ran \in Seq(Functor)
    BY <2>1 DEF Init
  <2> QED
    BY <2>2, <2>3, <2>4, Zenon DEF TypeOK
<1>2. TypeOK /\ [Next]_vars => TypeOK'
  <2> SUFFICES ASSUME TypeOK, [Next]_vars PROVE TypeOK'
    OBVIOUS
  <2> USE DEF TypeOK, Location
  <2>1. CASE UNCHANGED vars
    BY <2>1 DEF vars
  <2>2. CASE LoopStep
    <3>1. CASE EnterLoop BY <3>1 DEF EnterLoop
    <3>2. CASE CheckQuit BY <3>2 DEF CheckQuit
    <3>3. CASE PollWoken BY <3>3 DEF PollWoken, PollReturns
    <3>4. CASE HandleRead BY <3>4, EventfdMaxAssumption DEF HandleRead
    <3>5. CASE HandleIo BY <3>5 DEF HandleIo
    <3>6. CASE TakePending BY <3>6 DEF TakePending
    <3>7. CASE RunFunctor
      <4>1. Head(batch) \in Functor /\ Tail(batch) \in Seq(Functor)
        BY <3>7, HeadTailProperties DEF RunFunctor
      <4>2. ran' \in Seq(Functor)
        BY <3>7, <4>1, AppendProperties DEF RunFunctor
      <4> QED BY <3>7, <4>1, <4>2 DEF RunFunctor
    <3>8. CASE CallbackReturns BY <3>8 DEF CallbackReturns
    <3>9. CASE PendingDone BY <3>9 DEF PendingDone
    <3> QED BY <2>2, <3>1, <3>2, <3>3, <3>4, <3>5, <3>6, <3>7, <3>8, <3>9 DEF LoopStep
  <2>3. CASE PollIo \/ PollTimeout
    BY <2>3 DEF PollIo, PollTimeout, PollReturns, Channel
  <2>4. CASE Quit
    BY <2>4 DEF Quit
  <2>5. ASSUME NEW f \in Functor, QueueInLoop(f) PROVE TypeOK'
    BY <2>5, EventfdMaxAssumption DEF QueueInLoop, Enqueue, NeedsWakeup, Wakeup
  <2>6. ASSUME NEW c \in Caller, NEW f \in Functor, CallerQueueInLoop(c, f) PROVE TypeOK'
    BY <2>6 DEF CallerQueueInLoop, Enqueue
  <2>7. ASSUME NEW c \in Caller, CallerQuit(c) PROVE TypeOK'
    BY <2>7 DEF CallerQuit
  <2>8. ASSUME NEW c \in Caller, CallerWakeup(c) PROVE TypeOK'
    BY <2>8, EventfdMaxAssumption DEF CallerWakeup, Wakeup
  <2> QED
    BY <2>1, <2>2, <2>3, <2>4, <2>5, <2>6, <2>7, <2>8 DEF Next, CallbackStep, CallerStep
<1> QED BY <1>1, <1>2, PTL DEF SafeSpec

-----------------------------------------------------------------------------
(***************************************************************************)
(* Facts about the sequences of functors.                                  *)
(***************************************************************************)
LEMMA RangeOfAppend ==
  ASSUME NEW S, NEW s \in Seq(S), NEW e \in S
  PROVE  Range(Append(s, e)) = Range(s) \cup {e}
<1>1. Append(s, e) = s \o <<e>> /\ <<e>> \in Seq(S)
  BY AppendIsConcat
<1>2. Range(<<e>>) = {e}
  <2>1. DOMAIN <<e>> = {1} /\ <<e>>[1] = e
    OBVIOUS
  <2>2. Range(<<e>>) = {<<e>>[x] : x \in DOMAIN <<e>>}
    BY DEF Range
  <2> QED BY <2>1, <2>2
<1>3. Range(s \o <<e>>) = Range(s) \cup Range(<<e>>)
  BY <1>1, RangeConcatenation
<1> QED BY <1>1, <1>2, <1>3, Zenon

LEMMA MoveHead ==
  ASSUME NEW S, NEW s \in Seq(S), NEW t \in Seq(S), t # <<>>
  PROVE  Append(s, Head(t)) \o Tail(t) = s \o t
<1>1. /\ Head(t) \in S
      /\ Tail(t) \in Seq(S)
      /\ <<Head(t)>> \in Seq(S)
      /\ Len(t) \in Nat \ {0}
  BY HeadTailProperties, EmptySeq
<1>2. t = <<Head(t)>> \o Tail(t)
  <2>1. SubSeq(t, 1, Len(t)) = <<t[1]>> \o SubSeq(t, 2, Len(t))
    BY <1>1, SubSeqRecursiveFirst
  <2> QED BY <2>1, SubSeqFull, TailIsSubSeq, <1>1
<1>3. Append(s, Head(t)) = s \o <<Head(t)>>
  BY <1>1, AppendIsConcat
<1>4. (s \o <<Head(t)>>) \o Tail(t) = s \o (<<Head(t)>> \o Tail(t))
  BY <1>1, ConcatAssociative
<1> QED BY <1>2, <1>3, <1>4

-----------------------------------------------------------------------------
(***************************************************************************)
(* The wakeup protocol.                                                    *)
(***************************************************************************)
\* A write to the eventfd leaves it readable, whether or not it was full.
LEMMA WakeupMakesReadable ==
  ASSUME TypeOK, Wakeup
  PROVE  wakeups' > 0
BY EventfdMaxAssumption DEF TypeOK, Wakeup

\* The wakeups sent by queueInLoop, quit and functors that queue functors are
\* enough, and handleRead consumes none too early (EventLoop.cpp:101-190).
THEOREM WakeupProtocol == SafeSpec => []WakeupInv
<1>1. Init => WakeupInv
  BY DEF Init, WakeupInv, SomeoneWaits, Range
<1>2. TypeOK /\ WakeupInv /\ [Next]_vars => WakeupInv'
  <2> SUFFICES ASSUME TypeOK, WakeupInv, [Next]_vars PROVE WakeupInv'
    OBVIOUS
  <2> USE DEF WakeupInv
  <2>1. CASE UNCHANGED vars
    BY <2>1 DEF vars, SomeoneWaits, WakeupUnderway
  <2>2. CASE LoopStep
    <3> USE DEF SomeoneWaits, WakeupUnderway
    <3>1. CASE EnterLoop \/ CheckQuit
      BY <3>1 DEF EnterLoop, CheckQuit
    <3>2. CASE PollWoken BY <3>2 DEF PollWoken, PollReturns
    <3>3. CASE HandleRead \/ HandleIo
      BY <3>3 DEF HandleRead, HandleIo
    <3>4. CASE TakePending
      BY <3>4 DEF TakePending, Range
    <3>5. CASE RunFunctor BY <3>5 DEF RunFunctor
    <3>6. CASE CallbackReturns \/ PendingDone
      BY <3>6 DEF CallbackReturns, PendingDone
    <3> QED BY <2>2, <3>1, <3>2, <3>3, <3>4, <3>5, <3>6 DEF LoopStep
  <2>3. CASE PollIo \/ PollTimeout \/ Quit
    BY <2>3 DEF PollIo, PollTimeout, PollReturns, Quit, SomeoneWaits, WakeupUnderway
  <2>4. ASSUME NEW f \in Functor, QueueInLoop(f) PROVE WakeupInv'
    <3>1. Range(pending') = Range(pending) \cup {f}
      BY <2>4, RangeOfAppend DEF QueueInLoop, Enqueue, TypeOK
    <3>2. CASE pc = "created"
      BY <2>4, <3>1, <3>2 DEF QueueInLoop, NeedsWakeup, SomeoneWaits, WakeupUnderway
    <3>3. CASE pc = "handler"
      BY <2>4, <3>3 DEF QueueInLoop
    <3>4. CASE pc = "functor"
      BY <2>4, <3>4, WakeupMakesReadable DEF QueueInLoop, NeedsWakeup, WakeupUnderway
    <3> QED BY <2>4, <3>2, <3>3, <3>4 DEF QueueInLoop, InCallback
  <2>5. ASSUME NEW c \in Caller, NEW f \in Functor, CallerQueueInLoop(c, f)
        PROVE  WakeupInv'
    <3>1. call'[c] = "queueing"
      BY <2>5 DEF CallerQueueInLoop, NeedsWakeup, TypeOK
    <3> QED BY <2>5, <3>1 DEF CallerQueueInLoop, WakeupUnderway
  <2>6. ASSUME NEW c \in Caller, CallerQuit(c) PROVE WakeupInv'
    <3>1. call'[c] = "quitting"
      BY <2>6 DEF CallerQuit, TypeOK
    <3> QED BY <2>6, <3>1 DEF CallerQuit, WakeupUnderway
  <2>7. ASSUME NEW c \in Caller, CallerWakeup(c) PROVE WakeupInv'
    BY <2>7, WakeupMakesReadable DEF CallerWakeup, WakeupUnderway
  <2> QED
    BY <2>1, <2>2, <2>3, <2>4, <2>5, <2>6, <2>7 DEF Next, CallbackStep, CallerStep
<1> QED BY <1>1, <1>2, TypeCorrect, PTL DEF SafeSpec

\* The loop thread never sleeps in epoll_wait over a functor that no wakeup
\* stands for (EventLoop.cpp:155-190).
THEOREM LoopNeverOversleeps == SafeSpec => []NoLostWakeup
<1>1. WakeupInv => NoLostWakeup
  BY DEF WakeupInv, NoLostWakeup
<1> QED BY <1>1, WakeupProtocol, PTL

-----------------------------------------------------------------------------
(***************************************************************************)
(* The queue.                                                              *)
(***************************************************************************)
\* Every functor is in exactly one place: called, in the batch being called, or
\* in pendingFunctors_, in queueing order (EventLoop.cpp:101-119,155-160).
THEOREM QueueIsExact == SafeSpec => []NothingLost
<1>1. Init => NothingLost
  BY EmptySeq, ConcatEmptySeq DEF Init, NothingLost
<1>2. TypeOK /\ NothingLost /\ [Next]_vars => NothingLost'
  <2> SUFFICES ASSUME TypeOK, NothingLost, [Next]_vars PROVE NothingLost'
    OBVIOUS
  <2> USE DEF NothingLost
  <2>1. CASE UNCHANGED vars
    BY <2>1 DEF vars
  <2>2. CASE LoopStep
    <3>1. CASE EnterLoop \/ CheckQuit
      BY <3>1 DEF EnterLoop, CheckQuit
    <3>2. CASE PollWoken BY <3>2 DEF PollWoken, PollReturns
    <3>3. CASE HandleRead \/ HandleIo
      BY <3>3 DEF HandleRead, HandleIo
    <3>4. CASE TakePending
      <4>1. batch = <<>> /\ batch' = pending /\ pending' = <<>>
        BY <3>4 DEF TakePending
      <4>2. ran \o <<>> = ran /\ ran \o pending \in Seq(Functor)
        BY ConcatEmptySeq, ConcatProperties DEF TypeOK
      <4>3. (ran \o pending) \o <<>> = ran \o pending
        BY <4>2, ConcatEmptySeq
      <4> QED BY <3>4, <4>1, <4>2, <4>3 DEF TakePending
    <3>5. CASE RunFunctor
      <4>1. ran' \o batch' = ran \o batch
        BY <3>5, MoveHead DEF RunFunctor, TypeOK
      <4> QED BY <3>5, <4>1 DEF RunFunctor
    <3>6. CASE CallbackReturns \/ PendingDone
      BY <3>6 DEF CallbackReturns, PendingDone
    <3> QED BY <2>2, <3>1, <3>2, <3>3, <3>4, <3>5, <3>6 DEF LoopStep
  <2>3. CASE PollIo \/ PollTimeout \/ Quit
    BY <2>3 DEF PollIo, PollTimeout, PollReturns, Quit
  <2>4. ASSUME NEW f \in Functor, Enqueue(f), UNCHANGED <<ran, batch, pc>>
        PROVE  NothingLost'
    <3>1. /\ ran \o batch \in Seq(Functor) /\ <<f>> \in Seq(Functor)
          /\ (ran \o batch) \o pending \in Seq(Functor) /\ pending \in Seq(Functor)
      BY <2>4, ConcatProperties DEF TypeOK
    <3>2. /\ posted' = ((ran \o batch) \o pending) \o <<f>>
          /\ pending' = pending \o <<f>>
      BY <2>4, <3>1, AppendIsConcat DEF Enqueue, TypeOK
    <3>3. ((ran \o batch) \o pending) \o <<f>> = (ran \o batch) \o (pending \o <<f>>)
      BY SMTT(60), <3>1, ConcatAssociative
    <3> QED BY <2>4, <3>2, <3>3
  <2>5. ASSUME NEW c \in Caller, CallerQuit(c) \/ CallerWakeup(c) PROVE NothingLost'
    BY <2>5 DEF CallerQuit, CallerWakeup
  <2> QED
    BY <2>1, <2>2, <2>3, <2>4, <2>5
       DEF Next, CallbackStep, CallerStep, QueueInLoop, CallerQueueInLoop
<1> QED BY <1>1, <1>2, TypeCorrect, PTL DEF SafeSpec

\* The functor doPendingFunctors calls next is the oldest one not called yet.
LEMMA NextIsOldest ==
  ASSUME TypeOK, NothingLost, batch # <<>>
  PROVE  Len(ran) < Len(posted) /\ posted[Len(ran) + 1] = Head(batch)
<1>1. /\ ran \in Seq(Functor) /\ batch \in Seq(Functor) /\ pending \in Seq(Functor)
      /\ posted = (ran \o batch) \o pending
  BY DEF TypeOK, NothingLost
<1>2. /\ Len(ran) \in Nat /\ Len(pending) \in Nat
      /\ Len(batch) \in Nat \ {0}
      /\ Head(batch) = batch[1]
  BY <1>1, LenProperties, EmptySeq
<1>3. /\ ran \o batch \in Seq(Functor)
      /\ Len(ran \o batch) = Len(ran) + Len(batch)
      /\ (ran \o batch)[Len(ran) + 1] = batch[1]
  BY <1>1, <1>2, ConcatProperties
<1>4. /\ Len(posted) = Len(ran) + Len(batch) + Len(pending)
      /\ posted[Len(ran) + 1] = (ran \o batch)[Len(ran) + 1]
  BY <1>1, <1>2, <1>3, ConcatProperties
<1> QED BY <1>2, <1>3, <1>4

\* EventLoop implements the safety part of LoopExecutor: functors are called
\* once each, in queueing order, and none after loop() has returned.
THEOREM LoopIsExecutor == SafeSpec => ImplementsExecutor
<1>1. Init => Executor!Init
  BY DEF Init, Executor!Init
<1>2. TypeOK /\ NothingLost /\ [Next]_vars => [Executor!Next]_(Executor!vars)
  <2> SUFFICES ASSUME TypeOK, NothingLost, [Next]_vars
               PROVE  Executor!Next \/ UNCHANGED Executor!vars
    OBVIOUS
  <2> USE DEF Executor!vars
  <2>1. CASE UNCHANGED vars
    BY <2>1 DEF vars
  <2>2. CASE LoopStep
    <3>1. CASE CheckQuit
      BY <3>1 DEF CheckQuit, Executor!Next, Executor!Close
    <3>2. CASE RunFunctor
      <4>1. Executor!Run
        BY <3>2, NextIsOldest DEF RunFunctor, Executor!Run
      <4> QED BY <4>1 DEF Executor!Next
    <3>3. CASE EnterLoop \/ PollWoken \/ HandleRead \/ HandleIo \/ TakePending
      BY <3>3 DEF EnterLoop, PollWoken, PollReturns, HandleRead, HandleIo, TakePending
    <3>4. CASE CallbackReturns \/ PendingDone
      BY <3>4 DEF CallbackReturns, PendingDone
    <3> QED BY <2>2, <3>1, <3>2, <3>3, <3>4 DEF LoopStep
  <2>3. CASE PollIo \/ PollTimeout \/ Quit
    BY <2>3 DEF PollIo, PollTimeout, PollReturns, Quit
  <2>4. ASSUME NEW f \in Functor, Enqueue(f), UNCHANGED <<ran, pc>>
        PROVE  Executor!Next
    <3>1. Executor!Post(f)
      BY <2>4 DEF Enqueue, Executor!Post, Range, Executor!Range
    <3> QED BY <3>1 DEF Executor!Next
  <2>5. ASSUME NEW c \in Caller, CallerQuit(c) \/ CallerWakeup(c)
        PROVE  UNCHANGED Executor!vars
    BY <2>5 DEF CallerQuit, CallerWakeup
  <2> QED
    BY <2>1, <2>2, <2>3, <2>4, <2>5
       DEF Next, CallbackStep, CallerStep, QueueInLoop, CallerQueueInLoop
<1> QED
  BY <1>1, <1>2, TypeCorrect, QueueIsExact, PTL DEF SafeSpec, ImplementsExecutor, Executor!SafeSpec

=============================================================================
