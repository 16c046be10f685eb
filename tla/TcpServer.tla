----------------------------- MODULE TcpServer ------------------------------
(***************************************************************************)
(* TcpServer with its Acceptor (src/TcpServer.cpp, src/Acceptor.cpp), on   *)
(* top of the threads and loops of EventLoopThreadPool: the life of every  *)
(* connection object from accept() to the release of the last shared_ptr,  *)
(* while loops run, are told to quit and drop the functors they still      *)
(* hold.  What a connection does while it is up is in TcpConnection.tla.   *)
(***************************************************************************)
EXTENDS EventLoopThreadPool, Sequences, FiniteSets, Functions

CONSTANTS
    Conn,         \* the clients, and the connection objects made for them
    Acceptor,     \* the channel of the listening socket
    FdLimit       \* how many sockets the process can have accepted at a time

\* No callback quits an I/O loop: the server has no loop to give the connections of
\* a quit loop to, and nothing in the library calls quit() on one but the pool.
ASSUME ServerAssumption ==
    /\ Acceptor \notin Conn
    /\ FdLimit \in Nat \ {0}
    /\ Quitters \subseteq {0}

VARIABLES
    listening,    \* listenning_, and acceptChannel_ is registered
    state,        \* Conn -> state_, or where the client is before accept()
    closed,       \* the clients that have closed their end
    loopOf,       \* Conn -> its ioLoop
    next,         \* next_, as an index of loops_
    connections,  \* connections_
    active,       \* Loop -> activeChannels_: what is left to handle
    pending,      \* Loop -> pendingFunctors_
    batch,        \* Loop -> doPendingFunctors' local vector
    calls,        \* Loop -> how many functors of the batch have been called
    destroys      \* history: Conn -> calls of connectDestroyed

queueVars == <<active, pending, batch, calls>>
connVars == <<listening, state, closed, loopOf, next, connections, destroys>>
vars == <<poolVars, connVars, queueVars>>

Functor == {"connectEstablished", "removeConnectionInLoop", "connectDestroyed"} \X Conn

Init ==
    /\ PoolInit
    /\ listening = FALSE
    /\ state = [c \in Conn |-> "absent"]
    /\ closed = {}
    /\ loopOf = [c \in Conn |-> 0]
    /\ next = 0
    /\ connections = {}
    /\ active = [l \in Loop |-> {}]
    /\ pending = [l \in Loop |-> <<>>]
    /\ batch = [l \in Loop |-> <<>>]
    /\ calls = [l \in Loop |-> 0]
    /\ destroys = [c \in Conn |-> 0]

Accepted(c) == state[c] \notin {"absent", "backlog"}

\* The shared_ptrs to c: the server's, and those bound into functors, which
\* last until the vector that holds the functor is destroyed.
Held(c) ==
    \/ c \in connections
    \/ \E l \in Loop : \E f \in Range(pending[l]) \cup Range(batch[l]) : f[2] = c

\* The object, and with it the socket's descriptor, is gone.
Freed(c) == Accepted(c) /\ ~Held(c)

OpenSockets == {c \in Conn : Accepted(c) /\ Held(c)}

Queue(l, op, c) == pending' = [pending EXCEPT ![l] = Append(@, <<op, c>>)]

-----------------------------------------------------------------------------
(***************************************************************************)
(* Clients.                                                                *)
(***************************************************************************)
Connect(c) ==
    /\ listening /\ state[c] = "absent"
    /\ state' = [state EXCEPT ![c] = "backlog"]
    /\ UNCHANGED <<poolVars, queueVars, listening, closed, loopOf, next, connections, destroys>>

Close(c) ==
    /\ state[c] # "absent" /\ c \notin closed
    /\ closed' = closed \cup {c}
    /\ UNCHANGED <<poolVars, queueVars, listening, state, loopOf, next, connections, destroys>>

(***************************************************************************)
(* The base loop: the acceptor and the server.                             *)
(***************************************************************************)
\* start() ends by running Acceptor::listen on the base loop's thread.
Listen ==
    /\ StartReturns
    /\ listening' = TRUE
    /\ UNCHANGED <<queueVars, state, closed, loopOf, next, connections, destroys>>

\* Mutant: the index wraps one too early.
NextIndexShort == IF next + 2 >= size THEN 0 ELSE next + 1

\* Mutant: the index wraps one too late.
NextIndexLong == IF next + 1 > size THEN 0 ELSE next + 1

\* getNextLoop: the index after the one that is handed out.
NextIndex == IF next + 1 >= size THEN 0 ELSE next + 1

\* Mutant: the new connection is not put into the map.
NewConnectionUnmapped(c) ==
    LET l == IF size = 0 THEN 0 ELSE next + 1 IN
    /\ loopOf' = [loopOf EXCEPT ![c] = l]
    /\ next' = IF size = 0 THEN next ELSE NextIndex
    /\ IF l = 0
       THEN state' = [state EXCEPT ![c] = "connected"] /\ UNCHANGED pending
       ELSE state' = [state EXCEPT ![c] = "connecting"] /\ Queue(l, "connectEstablished", c)
    /\ UNCHANGED connections

\* newConnection: the next loop, the map, and connectEstablished through
\* runInLoop, which calls it at once when the base loop is the only one.
NewConnection(c) ==
    LET l == IF size = 0 THEN 0 ELSE next + 1 IN
    /\ loopOf' = [loopOf EXCEPT ![c] = l]
    /\ next' = IF size = 0 THEN next ELSE NextIndex
    /\ connections' = connections \cup {c}
    /\ IF l = 0
       THEN state' = [state EXCEPT ![c] = "connected"] /\ UNCHANGED pending
       ELSE state' = [state EXCEPT ![c] = "connecting"] /\ Queue(l, "connectEstablished", c)

CanAccept == Cardinality(OpenSockets) < FdLimit

\* Mutant: at the limit the acceptor stops listening.
AcceptGivesUp ==
    /\ at[0] = "dispatch" /\ Acceptor \in active[0]
    /\ active' = [active EXCEPT ![0] = @ \ {Acceptor}]
    /\ IF CanAccept
       THEN (\E c \in Conn : state[c] = "backlog" /\ NewConnection(c)) /\ UNCHANGED listening
       ELSE listening' = FALSE /\ UNCHANGED <<state, loopOf, next, connections, pending>>
    /\ UNCHANGED <<poolVars, closed, batch, calls, destroys>>

\* Acceptor::handleRead: one client; at the limit accept fails, nothing else
\* happens and the socket stays readable.
Accept ==
    /\ at[0] = "dispatch" /\ Acceptor \in active[0]
    /\ active' = [active EXCEPT ![0] = @ \ {Acceptor}]
    /\ IF CanAccept
       THEN \E c \in Conn : state[c] = "backlog" /\ NewConnection(c)
       ELSE UNCHANGED <<state, loopOf, next, connections, pending>>
    /\ UNCHANGED <<poolVars, listening, closed, batch, calls, destroys>>

\* Mutant: the connection stays in the map.
RemoveConnectionUnerased(c) ==
    /\ UNCHANGED connections
    /\ Queue(loopOf[c], "connectDestroyed", c)

\* Mutant: the connection is only erased.
RemoveConnectionForgets(c) == connections' = connections \ {c} /\ UNCHANGED pending

RemoveConnection(c) ==
    /\ connections' = connections \ {c}
    /\ Queue(loopOf[c], "connectDestroyed", c)

(***************************************************************************)
(* Any loop.                                                               *)
(***************************************************************************)
\* Level triggered: whatever is ready is reported, by every poll.
Ready(l) ==
    {c \in closed : state[c] = "connected" /\ loopOf[c] = l}
        \cup {a \in {Acceptor} : l = 0 /\ listening /\ \E c \in Conn : state[c] = "backlog"}

PollReady(l) ==
    /\ Poll(l)
    /\ active' = [active EXCEPT ![l] = Ready(l)]
    /\ UNCHANGED <<connVars, pending, batch, calls>>

\* TcpConnection::handleClose: down, out of the poller; closeCallback_ calls
\* removeConnection, whose runInLoop calls it at once on the base loop.
HandleClose(l, c) ==
    /\ at[l] = "dispatch" /\ c \in active[l]
    /\ active' = [active EXCEPT ![l] = @ \ {c}]
    /\ state' = [state EXCEPT ![c] = "disconnected"]
    /\ IF l = 0 THEN RemoveConnection(c)
                ELSE Queue(0, "removeConnectionInLoop", c) /\ UNCHANGED connections
    /\ UNCHANGED <<poolVars, listening, closed, loopOf, next, batch, calls, destroys>>

Swap(l) ==
    /\ active[l] = {}
    /\ TakePending(l)
    /\ batch' = [batch EXCEPT ![l] = pending[l]]
    /\ pending' = [pending EXCEPT ![l] = <<>>]
    /\ UNCHANGED <<connVars, active, calls>>

\* connectDestroyed: down if it is still up, and out of the poller's map.
ConnectDestroyed(c) ==
    /\ state' = [state EXCEPT ![c] = IF @ = "connected" THEN "disconnected" ELSE @]
    /\ destroys' = [destroys EXCEPT ![c] = @ + 1]

\* The next functor of the batch is called.
RunFunctor(l) ==
    /\ at[l] = "functors" /\ calls[l] < Len(batch[l])
    /\ calls' = [calls EXCEPT ![l] = @ + 1]
    /\ LET f == batch[l][calls[l] + 1] IN
       \/ /\ f[1] = "connectEstablished"
          /\ state' = [state EXCEPT ![f[2]] = "connected"]
          /\ UNCHANGED <<connections, pending, destroys>>
       \/ /\ f[1] = "removeConnectionInLoop"
          /\ RemoveConnection(f[2])
          /\ UNCHANGED <<state, destroys>>
       \/ /\ f[1] = "connectDestroyed"
          /\ ConnectDestroyed(f[2])
          /\ UNCHANGED <<connections, pending>>
    /\ UNCHANGED <<poolVars, listening, closed, loopOf, next, active, batch>>

EndBatch(l) ==
    /\ calls[l] = Len(batch[l])
    /\ FunctorsDone(l)
    /\ batch' = [batch EXCEPT ![l] = <<>>]
    /\ calls' = [calls EXCEPT ![l] = 0]
    /\ UNCHANGED <<connVars, active, pending>>

\* Mutant: a loop that ends keeps its functors.
DropNothing(l) == UNCHANGED <<connVars, queueVars>>

\* ~EventLoop: the functors nobody called are dropped.
DropFunctors(l) ==
    /\ pending' = [pending EXCEPT ![l] = <<>>]
    /\ UNCHANGED <<connVars, active, batch, calls>>

(***************************************************************************)
(* The end: ~TcpServer after the base loop, then the base loop's own.      *)
(***************************************************************************)
\* Mutant: the destructor only lets go of the connection.
ResetConnection(c) ==
    /\ own = "started" /\ at[0] = "left" /\ c \in connections
    /\ connections' = connections \ {c}
    /\ UNCHANGED <<poolVars, queueVars, listening, state, closed, loopOf, next, destroys>>

\* One turn of the loop of ~TcpServer: runInLoop(connectDestroyed).
DestroyConnection(c) ==
    /\ own = "started" /\ at[0] = "left" /\ c \in connections
    /\ connections' = connections \ {c}
    /\ IF loopOf[c] = 0 THEN ConnectDestroyed(c) /\ UNCHANGED pending
                        ELSE Queue(loopOf[c], "connectDestroyed", c) /\ UNCHANGED <<state, destroys>>
    /\ UNCHANGED <<poolVars, listening, closed, loopOf, next, active, batch, calls>>

\* Then the members: the pool's threads are joined, the acceptor goes last.
DestroyPool == connections = {} /\ Destroy /\ UNCHANGED <<connVars, queueVars>>

CloseAcceptor ==
    /\ Destroyed
    /\ listening' = FALSE
    /\ UNCHANGED <<queueVars, state, closed, loopOf, next, connections, destroys>>

BaseEnds == BaseDies /\ DropFunctors(0)

-----------------------------------------------------------------------------
\* Steps of the pool that the server has no part in.
PoolStart == StartThread \/ SemWait \/ CondWait \/ GetLoop

PoolStep ==
    /\ \/ Start \/ PoolStart \/ SpuriousWakeup \/ DestroyStep
       \/ \E i \in Thread : ThreadStep(i)
       \/ \E l \in Loop : EnterLoop(l) \/ Leave(l) \/ QuitInLoop(l)
    /\ UNCHANGED <<connVars, queueVars>>

RoundStep(l) ==
    \/ PollReady(l) \/ Swap(l) \/ RunFunctor(l) \/ EndBatch(l)
    \/ \E c \in Conn : HandleClose(l, c)

ThreadEnds(i) == Die(i) /\ DropFunctors(i)

ServerStep ==
    \/ Listen \/ Accept
    \/ (\E c \in Conn : DestroyConnection(c)) \/ DestroyPool \/ CloseAcceptor \/ BaseEnds

ServerNext ==
    \/ PoolStep \/ ServerStep
    \/ \E l \in Loop : RoundStep(l)
    \/ \E i \in Thread : ThreadEnds(i)
    \/ \E c \in Conn : Connect(c) \/ Close(c)

ServerSafeSpec == Init /\ [][ServerNext]_vars

Aside == UNCHANGED <<connVars, queueVars>>

\* As for the pool, and: a client closes sooner or later; main() goes on to the
\* destructors once its base loop has returned.
ServerSpec ==
    /\ ServerSafeSpec
    /\ WF_vars((PoolStart \/ DestroyStep) /\ Aside) /\ WF_vars(ServerStep)
    /\ WF_vars(RoundStep(0) \/ ((EnterLoop(0) \/ Leave(0)) /\ Aside))
    /\ \A i \in Thread :
        WF_vars(\/ (ThreadStep(i) \/ EnterLoop(i) \/ Leave(i)) /\ Aside
                \/ RoundStep(i) \/ ThreadEnds(i))
    /\ \A c \in Conn : WF_vars(Close(c))

-----------------------------------------------------------------------------
ServerTypeOK ==
    /\ TypeOK
    /\ listening \in BOOLEAN
    /\ state \in [Conn -> {"absent", "backlog", "connecting", "connected", "disconnected"}]
    /\ closed \subseteq Conn
    /\ loopOf \in [Conn -> Loop]
    /\ next \in Nat /\ (next = 0 \/ next < size)
    /\ connections \subseteq Conn
    /\ active \in [Loop -> SUBSET (Conn \cup {Acceptor})]
    /\ pending \in [Loop -> Seq(Functor)]
    /\ batch \in [Loop -> Seq(Functor)]
    /\ calls \in [Loop -> Nat] /\ \A l \in Loop : calls[l] <= Len(batch[l])
    /\ destroys \in [Conn -> Nat]

\* connectDestroyed "should be called only once" (TcpConnection.cpp:166), whoever
\* asks for it first: removeConnectionInLoop or ~TcpServer (TcpServer.cpp:37-52,
\* 126-135).
DestroyedAtMostOnce == \A c \in Conn : destroys[c] <= 1

\* A connection that left the server's map is owed a connectDestroyed; only the end of
\* its own loop, which drops the functor, may free it without (TcpServer.cpp:36,48-50,
\* 133-134, EventLoop.cpp:57-65).
OnlyLoopEndSkipsDestroy ==
    \A c \in Conn : Freed(c) /\ destroys[c] = 0 => at[loopOf[c]] = "done"

\* Every connection is destroyed once before it is freed, unless its loop ends first.
ConnectDestroyedOnce == DestroyedAtMostOnce /\ OnlyLoopEndSkipsDestroy

\* The kernel has a raw Channel pointer for every connection that is up
\* (EPollPoller.cpp:166): as long as its loop may poll, the object exists.
PollerHoldsLive ==
    \A c \in Conn : state[c] = "connected" /\ at[loopOf[c]] \in Alive => Held(c)

\* loop_ and ioLoop are raw pointers (TcpServer.cpp:48,123,134): nobody queues on a
\* loop that is not there, neither before startLoop has returned nor after the
\* thread has ended.
QueuesOnLiveLoop == \A l \in Loop : pending[l] # <<>> => at[l] \in Alive

\* closeCallback_ and removeConnectionInLoop are bound to a raw TcpServer
\* (TcpServer.cpp:114,123): when the server is gone, neither a connection that
\* can still close nor a loop that would run the functor is left.
ServerOutlivesCalls ==
    own = "gone" =>
        /\ \A c \in Conn : state[c] = "connected" => at[loopOf[c]] = "done"
        /\ at[0] \notin InLoop

\* getNextLoop deals the connections out evenly (EventLoopThreadPool.cpp:39-54).
RoundRobin ==
    LET Load(l) == Cardinality({c \in Conn : Accepted(c) /\ loopOf[c] = l}) IN
    \A l, k \in 1 .. size : Load(l) <= Load(k) + 1

Life(c) ==
    CASE ~Accepted(c)              -> "absent"
      [] Freed(c)                  -> "gone"
      [] OTHER -> [connecting |-> "opening", connected |-> "up", disconnected |-> "down"][state[c]]

Lives == INSTANCE ConnectionLife WITH
    life <- [c \in Conn |-> Life(c)], stopping <- at[0] \in {"left", "done"}

\* Each connection object goes through its life in order, and none is freed
\* early while the base loop runs (TcpServer.cpp:74-135).
ImplementsLife == Lives!Spec

\* The base loop has stopped, or was given up before it began.
Stopped == at[0] \in {"left", "done"} \/ own \in Destroying \cup {"gone"}

\* While the base loop runs, a connection whose client has closed is freed, and
\* its descriptor with it (TcpConnection.cpp:250-260, TcpServer.cpp:120-135).
ClosedIsFreed ==
    \A c \in Conn : Accepted(c) /\ c \in closed ~> Freed(c) \/ Stopped

\* A client is accepted, however often accept() has failed at the limit, as long as
\* the base loop runs (Acceptor.cpp:52-78).
ClientAccepted ==
    \A c \in Conn : state[c] = "backlog" ~> Accepted(c) \/ Stopped

\* Teardown frees everything, though loops drop functors, unless a loop began only
\* after it was told to quit (TcpServer.cpp:37-52, EventLoopThread.cpp:15-23).
TeardownFrees ==
    own = "testing" ~>
        \/ \A c \in Conn : Accepted(c) => Freed(c)
        \/ own = "joining" /\ ~quit[cur]

\* "To delete a TcpConnection for good its connectDestroyed() must be called, and
\* only then may its memory be released" (TcpServer.cpp:36).
DestroyedBeforeFreed == \A c \in Conn : Freed(c) => destroys[c] > 0

=============================================================================
