----------------------------- MODULE PollerLoop -----------------------------
(***************************************************************************)
(* The life of the channels of one EventLoop, from construction to         *)
(* destruction, against the rounds of its loop: poll, the callbacks of the *)
(* active channels, the pending functors, until the loop is quit.  A       *)
(* connection is a channel owned by a TcpConnection: it is removed by a    *)
(* functor (connectDestroyed) and freed when its last holder, on whatever  *)
(* thread, lets go.  The others are the acceptor's channel and             *)
(* wakeupChannel_, removed and freed by their owner's destructor.          *)
(* Descriptors are closed with their owner and then given out again by the *)
(* kernel.  A server is not destroyed from within a callback of this loop. *)
(***************************************************************************)
EXTENDS EPollPoller, Naturals, FiniteSets

CONSTANTS
    Connection,          \* the channels that belong to a TcpConnection
    Racers,              \* those whose shutdown() other threads call
    InitEventListSize    \* kInitEventListSize

ASSUME ConnectionAssumption == Racers \subseteq Connection /\ Connection \subseteq Channel
ASSUME SizeAssumption == InitEventListSize \in Nat \ {0}
ASSUME FdAssumption == None \notin Fd

VARIABLES
    poller,     \* the poller and its epoll instance
    life,       \* Channel -> how far its owner has got
    fd,         \* Channel -> its fd_, None when there is no object
    state,      \* Channel -> state_ of its TcpConnection
    calls,      \* the calls of shutdown() that other threads have begun
    shut,       \* external: connections whose write side is closed
    ready,      \* external: descriptors with an event to report
    active,     \* activeChannels_: the channels still to handle
    current,    \* the channel whose callback runs
    pc,         \* where the loop is
    size        \* events_.size()

loopVars == <<active, current, pc, size>>
connVars == <<state, calls, shut>>
vars == <<poller, life, fd, connVars, ready, loopVars>>

Life == {"none",     \* no object
         "made",     \* constructed, never enabled
         "up",       \* connectEstablished or listen has run
         "closed",   \* handleClose has run, connectDestroyed is owed
         "removed"}  \* connectDestroyed has run, somebody still holds the object

State == {"connecting", "connected", "disconnecting", "disconnected"}

\* A call of shutdown() has tested state_; its shutdownInLoop is queued.
Call == Racers \X {"tested", "queued"}

Live == {c \in Channel : life[c] # "none"}

Init ==
    /\ poller = EmptyPoller
    /\ life = [c \in Channel |-> "none"]
    /\ fd = [c \in Channel |-> None]
    /\ state = [c \in Channel |-> "connecting"]
    /\ calls = {}
    /\ shut = {}
    /\ ready = {}
    /\ active = {}
    /\ current = None
    /\ pc = "poll"
    /\ size = InitEventListSize

\* The poller goes to "p"; the kernel forgets what it no longer watches.
PollerBecomes(p) ==
    /\ poller' = p
    /\ ready' = {f \in ready : p.kernel[f] # Vacant}

-----------------------------------------------------------------------------
(***************************************************************************)
(* The owners of the channels.                                             *)
(***************************************************************************)
\* A new object on a descriptor the kernel has just given out.  Connections are
\* made by the main loop's thread, at any moment of this loop.
Construct(c, f) ==
    /\ pc # "ended"
    /\ life[c] = "none"
    /\ \A d \in Live : fd[d] # f
    /\ life' = [life EXCEPT ![c] = "made"]
    /\ fd' = [fd EXCEPT ![c] = f]
    /\ state' = [state EXCEPT ![c] = "connecting"]
    /\ shut' = shut \ {c}
    /\ PollerBecomes([poller EXCEPT !.index[c] = "new", !.events[c] = {}])
    /\ UNCHANGED <<calls, loopVars>>

\* connectEstablished and Acceptor::listen, run as functors, or at once in the
\* acceptor's callback when the server has no other loop.
Establish(c) ==
    /\ pc \in {"handler", "functors"}
    /\ life[c] = "made"
    /\ PollerBecomes(EnableReading(poller, c, fd[c]))
    /\ life' = [life EXCEPT ![c] = "up"]
    /\ state' = [state EXCEPT ![c] = IF c \in Connection THEN "connected" ELSE @]
    /\ UNCHANGED <<fd, calls, shut, loopVars>>

\* sendInLoop has something left to write: nothing waits, and write() does not fail
\* for good.  send() calls it from any callback of a connected connection; a functor
\* of a send() that has passed its test earlier is refused in kDisconnected only.
StartWriting(c) ==
    /\ c \in Connection \cap Live
    /\ \/ pc \in {"handler", "functors"} /\ state[c] = "connected"
       \/ pc = "functors" /\ state[c] = "disconnecting"
    /\ c \notin shut
    /\ ~IsWriting(poller, c)
    /\ PollerBecomes(EnableWriting(poller, c, fd[c]))
    /\ UNCHANGED <<life, fd, connVars, loopVars>>

\* shutdownInLoop: the write side is closed, unless something is still buffered.
ShutdownInLoop(c) == shut' = IF IsWriting(poller, c) THEN shut ELSE shut \cup {c}

\* handleWrite has written everything; a shutdown() that waited for it is carried out.
StopWriting(c) ==
    /\ pc = "handler"
    /\ current = c
    /\ c \in Connection
    /\ IsWriting(poller, c)
    /\ PollerBecomes(DisableWriting(poller, c, fd[c]))
    /\ shut' = IF state[c] = "disconnecting" THEN shut \cup {c} ELSE shut
    /\ UNCHANGED <<life, fd, state, calls, loopVars>>

\* shutdown() on the loop's thread, from any callback.
LoopShutdown(c) ==
    /\ pc \in {"handler", "functors"}
    /\ c \in Connection \cap Live
    /\ state[c] = "connected"
    /\ state' = [state EXCEPT ![c] = "disconnecting"]
    /\ ShutdownInLoop(c)
    /\ UNCHANGED <<poller, life, fd, calls, ready, loopVars>>

\* TcpConnection::handleClose, once in a turn of the channel.  The server is asked to
\* remove the connection, unless it is gone, which is after it had it removed.
CloseConnection(c) ==
    /\ pc = "handler"
    /\ current = c
    /\ c \in Connection
    /\ state[c] # "disconnected"
    /\ PollerBecomes(DisableAll(poller, c, fd[c]))
    /\ state' = [state EXCEPT ![c] = "disconnected"]
    /\ \/ life' = [life EXCEPT ![c] = "closed"]
       \/ life[c] = "removed" /\ UNCHANGED life
    /\ UNCHANGED <<fd, calls, shut, loopVars>>

\* connectDestroyed, for which the server has one reason or, when a racing shutdown()
\* brought the connection back, two.  A store of shutdown() that falls between its
\* test and its own store is lost, as if there had been no call.
Removed(c) ==
    IF state[c] = "connected"
    THEN /\ PollerBecomes(RemoveChannel(DisableAll(poller, c, fd[c]), c, fd[c]))
         /\ state' = [state EXCEPT ![c] = "disconnected"]
    ELSE PollerBecomes(RemoveChannel(poller, c, fd[c])) /\ UNCHANGED state

\* Mutant: it runs within the callbacks of the loop, as it would if
\* removeConnectionInLoop used runInLoop.
ConnectDestroyedAtOnce(c) ==
    /\ pc \in {"handler", "functors", "ended"}
    /\ c \in Connection
    /\ life[c] \in {"up", "closed"}
    /\ Removed(c)
    /\ life' = [life EXCEPT ![c] = "removed"]
    /\ UNCHANGED <<fd, calls, shut, loopVars>>

\* A functor, or a direct call from ~TcpServer on the thread of a loop that has ended.
ConnectDestroyed(c) ==
    /\ pc \in {"functors", "ended"}
    /\ c \in Connection
    /\ life[c] \in {"up", "closed"} \/ (life[c] = "removed" /\ c \in Racers)
    /\ Removed(c)
    /\ life' = [life EXCEPT ![c] = "removed"]
    /\ UNCHANGED <<fd, calls, shut, loopVars>>

\* The owner is freed: the Socket closes the descriptor, and epoll forgets a
\* descriptor that is closed.
Free(c, p) ==
    /\ PollerBecomes([p EXCEPT !.kernel[fd[c]] = Vacant])
    /\ life' = [life EXCEPT ![c] = "none"]
    /\ fd' = [fd EXCEPT ![c] = None]
    /\ UNCHANGED <<connVars, loopVars>>

\* The last reference to a connection goes: that of a functor or of the application,
\* on any thread.  connectDestroyed has run, or it was queued on a loop that ended and
\* dropped it.  Whoever calls shutdown() holds the connection until its functor has
\* run, and handleEvent holds it by tie_.
Release(c) ==
    /\ c \in Connection \cap Live
    /\ life[c] = "removed" \/ pc = "ended"
    /\ current # c
    /\ <<c, "tested">> \notin calls
    /\ <<c, "queued">> \notin calls \/ pc = "ended"
    /\ Free(c, poller)

\* ~Acceptor and ~EventLoop: disableAll and remove, enabled before or not.
DestroyOwner(c) ==
    /\ pc \in {"functors", "ended"}
    /\ c \notin Connection
    /\ life[c] \in {"made", "up"}
    /\ Free(c, RemoveChannel(DisableAll(poller, c, fd[c]), c, fd[c]))

(***************************************************************************)
(* shutdown() on other threads: the test of state_, the store, the functor.*)
(* Several threads may be between the first two.                           *)
(***************************************************************************)
TestState(c) ==
    /\ c \in Racers \cap Live
    /\ state[c] = "connected"
    /\ calls' = calls \cup {<<c, "tested">>}
    /\ UNCHANGED <<poller, life, fd, state, shut, ready, loopVars>>

StoreState(c) ==
    /\ <<c, "tested">> \in calls
    /\ state' = [state EXCEPT ![c] = "disconnecting"]
    /\ \E rest \in {calls, calls \ {<<c, "tested">>}} :
          calls' = rest \cup {<<c, "queued">>}
    /\ UNCHANGED <<poller, life, fd, shut, ready, loopVars>>

RunShutdown(c) ==
    /\ pc = "functors"
    /\ <<c, "queued">> \in calls
    /\ calls' = calls \ {<<c, "queued">>}
    /\ ShutdownInLoop(c)
    /\ UNCHANGED <<poller, life, fd, state, ready, loopVars>>

-----------------------------------------------------------------------------
(***************************************************************************)
(* The loop.                                                               *)
(***************************************************************************)
\* External: something happens to a descriptor that epoll watches.
IoArrives(f) ==
    /\ poller.kernel[f] # Vacant
    /\ ready' = ready \cup {f}
    /\ UNCHANGED <<poller, life, fd, connVars, loopVars>>

\* Mutant: events_ never grows.
GrowNever(numEvents) == size' = size

\* A full events_ doubles.
Grow(numEvents) == size' = IF numEvents = size THEN size * 2 ELSE size

\* epoll_wait reports as many ready descriptors as events_ holds, any of them;
\* fillActiveChannels turns them into channels by the pointers it was given.
Poll ==
    /\ pc = "poll"
    /\ \E reported \in SUBSET ready :
          /\ Cardinality(reported) <= size
          /\ Cardinality(reported) = size \/ reported = ready
          /\ active' = {poller.kernel[f].channel : f \in reported}
          /\ Grow(Cardinality(reported))
    /\ pc' = "dispatch"
    /\ UNCHANGED <<poller, life, fd, connVars, ready, current>>

\* handleEvent of one active channel begins; it deals with what made the
\* descriptor ready.
Handle(c) ==
    /\ pc = "dispatch"
    /\ c \in active \cap Live
    /\ active' = active \ {c}
    /\ current' = c
    /\ ready' = ready \ {fd[c]}
    /\ pc' = "handler"
    /\ UNCHANGED <<poller, life, fd, connVars, size>>

\* The object is gone: undefined behaviour.  The process ends, which is a behaviour
\* that stops here, or a tie_ found expired in the freed memory skips the callbacks.
HandleFreed(c) ==
    /\ pc = "dispatch"
    /\ c \in active \ Live
    /\ active' = active \ {c}
    /\ UNCHANGED <<poller, life, fd, connVars, ready, current, pc, size>>

HandlerReturns ==
    /\ pc = "handler"
    /\ current' = None
    /\ pc' = "dispatch"
    /\ UNCHANGED <<poller, life, fd, connVars, ready, active, size>>

DoPendingFunctors ==
    /\ pc = "dispatch"
    /\ active = {}
    /\ pc' = "functors"
    /\ UNCHANGED <<poller, life, fd, connVars, ready, active, current, size>>

FunctorsDone ==
    /\ pc = "functors"
    /\ pc' = "poll"
    /\ UNCHANGED <<poller, life, fd, connVars, ready, active, current, size>>

\* quit() was called, on whatever thread.
LoopEnds ==
    /\ pc = "poll"
    /\ pc' = "ended"
    /\ UNCHANGED <<poller, life, fd, connVars, ready, active, current, size>>

LoopStep ==
    \/ Poll \/ HandlerReturns \/ DoPendingFunctors \/ FunctorsDone
    \/ \E c \in Channel : Handle(c) \/ HandleFreed(c)

OwnerStep(c) ==
    \/ \E f \in Fd : Construct(c, f)
    \/ Establish(c) \/ StartWriting(c) \/ StopWriting(c)
    \/ LoopShutdown(c) \/ TestState(c) \/ StoreState(c) \/ RunShutdown(c)
    \/ CloseConnection(c) \/ ConnectDestroyed(c) \/ Release(c) \/ DestroyOwner(c)

Next ==
    \/ LoopStep \/ LoopEnds
    \/ \E c \in Channel : OwnerStep(c)
    \/ \E f \in Fd : IoArrives(f)

SafeSpec == Init /\ [][Next]_vars

\* The loop thread is scheduled and its callbacks return; nobody has to quit it.
Spec == SafeSpec /\ WF_vars(LoopStep)

-----------------------------------------------------------------------------
(***************************************************************************)
(* Properties.                                                             *)
(***************************************************************************)
TypeOK ==
    /\ poller \in PollerState
    /\ life \in [Channel -> Life]
    /\ fd \in [Channel -> Fd \cup {None}]
    /\ state \in [Channel -> State]
    /\ calls \subseteq Call
    /\ shut \subseteq Connection
    /\ ready \in SUBSET Fd
    /\ active \in SUBSET Channel
    /\ current \in Channel \cup {None}
    /\ pc \in {"poll", "dispatch", "handler", "functors", "ended"}
    /\ size \in Nat \ {0}

\* No epoll_ctl ever fails, so that the LOG_FATAL of EPollPoller::update, which
\* ends the process, is never reached (EPollPoller.cpp:166-176).
CtlNeverFails == poller.errors = {}

\* What epoll watches is what the channels believe: each added channel under its
\* own descriptor with its current interest, and nothing else, whatever became
\* of the descriptor's former owners (EPollPoller.cpp:77-125).
KernelAgrees ==
    /\ \A c \in Live : KernelMirrors(poller, c, fd[c])
    /\ \A f \in Fd : poller.kernel[f] # Vacant => \E c \in Live : fd[c] = f

\* Every channel that is registered is in channels_ under its descriptor, and as long
\* as the loop runs, no pointer in it dangles but those of connections that another
\* thread shuts down (EPollPoller.cpp:88,115).
MapAgrees ==
    /\ \A c \in Live : poller.index[c] # "new" => HasChannel(poller, c, fd[c])
    /\ pc # "ended" =>
         \A f \in Fd : LET c == poller.channels[f] IN
            \/ c = None
            \/ c \in Racers
            \/ c \in Live /\ fd[c] = f /\ poller.index[c] # "new"

\* The loop calls handleEvent on live channels only: between the poll that reported it
\* and its callback nothing is freed, on any thread, but a connection that another
\* thread shuts down; and nothing at all is freed during its callback
\* (EventLoop.cpp:74-96, Channel.cpp:46-61, TcpServer.cpp:134).
ActiveAlive ==
    /\ active \subseteq Live \cup Racers
    /\ current # None => current \in Live

\* "Remove the channel, when it destructs" (Poller.h:28, EPollPoller.cpp:111): the
\* poller of a running loop keeps no channel that is gone.
RemovedWhenDestructed ==
    pc # "ended" => \A f \in Fd : poller.channels[f] \in Live \cup {None}

\* A descriptor with an event to report is dealt with, however the kernel chooses
\* among those that do not fit in events_ (EPollPoller.cpp:45-49).
ReadyIsHandled == \A f \in Fd : f \in ready ~> f \notin ready \/ pc = "ended"

=============================================================================
