----------------------------- MODULE EventLoop ------------------------------
(***************************************************************************)
(* One EventLoop (src/EventLoop.cpp): the loop thread going round          *)
(*                                                                         *)
(*   while (!quit_) { poll; handle the active channels; doPendingFunctors }*)
(*                                                                         *)
(* and the other threads that call runInLoop, queueInLoop and quit on it.  *)
(* The poller is reduced to what wakes the loop up: the eventfd behind     *)
(* wakeupChannel_, and one more channel standing for the application's     *)
(* sockets.  The bodies of callbacks and functors are arbitrary sequences  *)
(* of calls to the loop made on the loop thread.                           *)
(***************************************************************************)
EXTENDS Naturals, Sequences, Functions

CONSTANTS
    Functor,      \* functor objects; each is queued at most once
    Caller,       \* the threads other than the loop thread
    EventfdMax    \* the largest value an eventfd counter can hold

ASSUME EventfdMaxAssumption == EventfdMax \in Nat \ {0}

VARIABLES
    quit,            \* quit_
    callingPending,  \* callingPendingFunctors_
    pending,         \* pendingFunctors_
    batch,           \* doPendingFunctors' local vector: what is left of it
    active,          \* activeChannels_: what is left to handle
    wakeups,         \* the counter of the eventfd wakeupFd_
    pc,              \* where the loop thread is
    call,            \* Caller -> the call whose wakeup() is still to come
    posted, ran,     \* history: functors in queueing order, in call order
    early            \* history: queued by the loop thread before loop()

vars == <<quit, callingPending, pending, batch, active, wakeups, pc, call,
          posted, ran, early>>

Channel == {"wakeup", "io"}

Location == {"created",   \* constructed, loop() not called yet
             "check",     \* at while (!quit_)
             "polling",   \* in epoll_wait
             "dispatch",  \* in the loop over activeChannels_
             "handler",   \* inside a channel's callback
             "functors",  \* in the loop of doPendingFunctors
             "functor",   \* inside a functor
             "stopped"}   \* loop() has returned

\* The places where application code runs on the loop thread: the thread init
\* callback or main() before loop(), a channel callback, a functor.
InCallback == pc \in {"created", "handler", "functor"}

-----------------------------------------------------------------------------
Init ==
    /\ quit = FALSE
    /\ callingPending = FALSE
    /\ pending = <<>>
    /\ batch = <<>>
    /\ active = {}
    /\ wakeups = 0
    /\ pc = "created"
    /\ call = [c \in Caller |-> "idle"]
    /\ posted = <<>>
    /\ ran = <<>>
    /\ early = {}

(***************************************************************************)
(* The operations any thread may call.                                     *)
(***************************************************************************)
\* wakeup(): a non-blocking write of 1 to the eventfd; a full counter refuses
\* it (the error is only logged), and is readable anyway.
Wakeup == wakeups' = IF wakeups < EventfdMax THEN wakeups + 1 ELSE wakeups

\* Mutant: no wakeup for a functor that queues another functor.
NeedsWakeupNoFlag(inLoopThread) == ~inLoopThread

\* The test of queueInLoop that decides whether to wake the loop up.
NeedsWakeup(inLoopThread) == ~inLoopThread \/ callingPending

\* The critical section of queueInLoop.
Enqueue(f) ==
    /\ f \notin Range(posted)
    /\ pending' = Append(pending, f)
    /\ posted' = Append(posted, f)

\* queueInLoop on the loop thread.  The test after the critical section reads
\* only what the loop thread itself writes, so it is one step with the push.
QueueInLoop(f) ==
    /\ InCallback
    /\ Enqueue(f)
    /\ IF NeedsWakeup(TRUE) THEN Wakeup ELSE UNCHANGED wakeups
    /\ early' = IF pc = "created" THEN early \cup {f} ELSE early
    /\ UNCHANGED <<quit, callingPending, batch, active, pc, call, ran>>

\* queueInLoop, or runInLoop which then calls it, on another thread: the push
\* here, the wakeup of the same call in CallerWakeup.
CallerQueueInLoop(c, f) ==
    /\ call[c] = "idle"
    /\ Enqueue(f)
    /\ call' = [call EXCEPT ![c] = IF NeedsWakeup(FALSE) THEN "queueing" ELSE "idle"]
    /\ UNCHANGED <<quit, callingPending, batch, active, wakeups, pc, ran, early>>

\* quit() on the loop thread.
Quit ==
    /\ InCallback
    /\ quit' = TRUE
    /\ UNCHANGED <<callingPending, pending, batch, active, wakeups, pc, call,
                   posted, ran, early>>

\* Mutant: quit() on another thread does not wake the loop up.
CallerQuitNoWakeup(c) ==
    /\ call[c] = "idle"
    /\ quit' = TRUE
    /\ UNCHANGED <<callingPending, pending, batch, active, wakeups, pc, call,
                   posted, ran, early>>

\* quit() on another thread: the store here, its wakeup in CallerWakeup.
CallerQuit(c) ==
    /\ call[c] = "idle"
    /\ quit' = TRUE
    /\ call' = [call EXCEPT ![c] = "quitting"]
    /\ UNCHANGED <<callingPending, pending, batch, active, wakeups, pc,
                   posted, ran, early>>

\* The wakeup that ends queueInLoop and quit on another thread.
CallerWakeup(c) ==
    /\ call[c] # "idle"
    /\ Wakeup
    /\ call' = [call EXCEPT ![c] = "idle"]
    /\ UNCHANGED <<quit, callingPending, pending, batch, active, pc,
                   posted, ran, early>>

(***************************************************************************)
(* The loop thread.                                                        *)
(***************************************************************************)
\* loop() is entered: quit_ is cleared, whatever was asked before.
EnterLoop ==
    /\ pc = "created"
    /\ quit' = FALSE
    /\ pc' = "check"
    /\ UNCHANGED <<callingPending, pending, batch, active, wakeups, call,
                   posted, ran, early>>

CheckQuit ==
    /\ pc = "check"
    /\ pc' = IF quit THEN "stopped" ELSE "polling"
    /\ UNCHANGED <<quit, callingPending, pending, batch, active, wakeups, call,
                   posted, ran, early>>

\* epoll_wait returns the channels in "ready"; the eventfd is among them
\* exactly when its counter is not zero.
PollReturns(ready) ==
    /\ pc = "polling"
    /\ "wakeup" \in ready <=> wakeups > 0
    /\ active' = ready
    /\ pc' = "dispatch"
    /\ UNCHANGED <<quit, callingPending, pending, batch, wakeups, call,
                   posted, ran, early>>

PollWoken   == \E ready \in SUBSET Channel : "wakeup" \in ready /\ PollReturns(ready)
PollIo      == PollReturns({"io"})
PollTimeout == PollReturns({})

\* handleRead(): reading an eventfd returns its value and clears it.
HandleRead ==
    /\ pc = "dispatch"
    /\ "wakeup" \in active
    /\ wakeups' = 0
    /\ active' = active \ {"wakeup"}
    /\ UNCHANGED <<quit, callingPending, pending, batch, pc, call,
                   posted, ran, early>>

\* An application channel's handleEvent: its callback begins.
HandleIo ==
    /\ pc = "dispatch"
    /\ "io" \in active
    /\ active' = active \ {"io"}
    /\ pc' = "handler"
    /\ UNCHANGED <<quit, callingPending, pending, batch, wakeups, call,
                   posted, ran, early>>

\* Mutant: the functors are copied out of the vector, not swapped with it.
TakePendingCopy ==
    /\ pc = "dispatch"
    /\ active = {}
    /\ callingPending' = TRUE
    /\ batch' = pending
    /\ pc' = "functors"
    /\ UNCHANGED <<quit, pending, active, wakeups, call, posted, ran, early>>

\* doPendingFunctors: the flag is set, the vectors are swapped under the mutex.
TakePending ==
    /\ pc = "dispatch"
    /\ active = {}
    /\ callingPending' = TRUE
    /\ batch' = pending
    /\ pending' = <<>>
    /\ pc' = "functors"
    /\ UNCHANGED <<quit, active, wakeups, call, posted, ran, early>>

\* The next functor of the batch is called.
RunFunctor ==
    /\ pc = "functors"
    /\ batch # <<>>
    /\ ran' = Append(ran, Head(batch))
    /\ batch' = Tail(batch)
    /\ pc' = "functor"
    /\ UNCHANGED <<quit, callingPending, pending, active, wakeups, call,
                   posted, early>>

\* A channel callback or a functor returns.
CallbackReturns ==
    /\ \/ pc = "handler" /\ pc' = "dispatch"
       \/ pc = "functor" /\ pc' = "functors"
    /\ UNCHANGED <<quit, callingPending, pending, batch, active, wakeups, call,
                   posted, ran, early>>

PendingDone ==
    /\ pc = "functors"
    /\ batch = <<>>
    /\ callingPending' = FALSE
    /\ pc' = "check"
    /\ UNCHANGED <<quit, pending, batch, active, wakeups, call,
                   posted, ran, early>>

-----------------------------------------------------------------------------
\* The steps the loop thread takes on its own, without waiting for anything but
\* the eventfd.
LoopStep ==
    \/ EnterLoop \/ CheckQuit \/ PollWoken \/ HandleRead \/ HandleIo
    \/ TakePending \/ RunFunctor \/ CallbackReturns \/ PendingDone

CallbackStep == Quit \/ \E f \in Functor : QueueInLoop(f)

CallerStep(c) ==
    CallerQuit(c) \/ CallerWakeup(c) \/ \E f \in Functor : CallerQueueInLoop(c, f)

Next ==
    \/ LoopStep
    \/ PollIo
    \/ PollTimeout
    \/ CallbackStep
    \/ \E c \in Caller : CallerStep(c)

SafeSpec == Init /\ [][Next]_vars

\* The scheduler runs every thread, callbacks return, and a call that has begun
\* ends.  No fairness on PollIo, nor on PollTimeout: with this specification
\* alone nothing may depend on the ten seconds of kPollTimeMs.
Fairness ==
    /\ WF_vars(LoopStep)
    /\ \A c \in Caller : WF_vars(CallerWakeup(c))

Spec == SafeSpec /\ Fairness

\* With the poll timeout, which does expire.
TimeoutSpec == Spec /\ WF_vars(PollTimeout)

-----------------------------------------------------------------------------
(***************************************************************************)
(* Properties.                                                             *)
(***************************************************************************)
TypeOK ==
    /\ quit \in BOOLEAN
    /\ callingPending \in BOOLEAN
    /\ pending \in Seq(Functor)
    /\ batch \in Seq(Functor)
    /\ active \in SUBSET Channel
    /\ wakeups \in 0 .. EventfdMax
    /\ pc \in Location
    /\ call \in [Caller -> {"idle", "queueing", "quitting"}]
    /\ posted \in Seq(Functor)
    /\ ran \in Seq(Functor)
    /\ early \in SUBSET Functor

\* Some queued functor is entitled to a wakeup of the loop: only what the loop
\* thread queued before it called loop() is not.
SomeoneWaits == ~(Range(pending) \subseteq early)

WakeupUnderway == wakeups > 0 \/ \E c \in Caller : call[c] # "idle"

\* The wakeup protocol of queueInLoop, wakeup, handleRead and doPendingFunctors
\* (EventLoop.cpp:101-190): the loop never sleeps in epoll_wait on a queued
\* functor unless the eventfd is readable or a caller is about to make it so.
NoLostWakeup == pc = "polling" /\ SomeoneWaits => WakeupUnderway

\* Why it holds: a wakeup is consumed by handleRead only between a poll and the
\* next swap, which takes every functor the wakeup stood for; and during the
\* calls that follow the swap callingPendingFunctors_ makes queueInLoop wake.
WakeupInv ==
    /\ callingPending <=> pc \in {"functors", "functor"}
    /\ SomeoneWaits => WakeupUnderway \/ pc \in {"dispatch", "handler"}

\* No functor is lost, duplicated or overtaken between queueInLoop's push, the
\* swap and the calls of doPendingFunctors (EventLoop.cpp:101-119,155-160).
NothingLost ==
    /\ posted = ran \o batch \o pending
    /\ batch # <<>> => pc \in {"functors", "functor"}

Executor == INSTANCE LoopExecutor WITH open <- pc # "stopped"

\* The loop, with its two vectors, flag and eventfd, takes only steps of the
\* executor (EventLoop.cpp:67-119,141-168).
ImplementsExecutor == Executor!SafeSpec

\* Without the poll timeout, a functor queued by another thread, or from inside a
\* callback of the running loop, is called unless the loop stops (EventLoop.cpp:155-168).
QueuedRuns ==
    \A f \in Functor :
        f \in Range(posted) /\ f \notin early ~> f \in Range(ran) \/ pc = "stopped"

\* quit() called by any thread once loop() is running ends it, without waiting
\* for the poll timeout (EventLoop.cpp:127-138).
QuitStops == quit /\ pc # "created" ~> pc = "stopped"

\* The comment at EventLoop.cpp:134-135: a loop on which another thread calls
\* quit() is woken up and ends by itself after the current round of its while.
QuitIsHonoured == (\E c \in Caller : call[c] = "quitting") ~> pc = "stopped"

=============================================================================
