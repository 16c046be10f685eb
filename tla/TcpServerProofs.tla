-------------------------- MODULE TcpServerProofs ---------------------------
(***************************************************************************)
(* Theorems about TcpServer, for any number of threads and clients.        *)
(***************************************************************************)
EXTENDS TcpServer, EventLoopThreadPoolProofs, SequenceTheorems, FiniteSetTheorems

\* The threads and loops under a server take only steps of the pool
\* (TcpServer.cpp:61-71, TcpServer.h:64-66).
THEOREM ServerImplementsPool == ServerSafeSpec => SafeSpec
<1>1. Init => PoolInit
  BY DEF Init
<1>2. [ServerNext]_vars => [Next]_poolVars
  <2> SUFFICES ASSUME [ServerNext]_vars PROVE Next \/ UNCHANGED poolVars
    OBVIOUS
  <2>1. CASE UNCHANGED vars
    BY <2>1 DEF vars
  <2>2. CASE PoolStep
    BY <2>2 DEF PoolStep, PoolStart, Next, StartStep
  <2>3. CASE ServerStep
    BY <2>3 DEF ServerStep, Listen, Accept, DestroyConnection, DestroyPool, CloseAcceptor,
       BaseEnds, Next, StartStep
  <2>4. ASSUME NEW l \in Loop, RoundStep(l)
        PROVE  Next \/ UNCHANGED poolVars
    BY <2>4 DEF RoundStep, PollReady, Swap, RunFunctor, EndBatch, HandleClose, Next
  <2>5. ASSUME NEW i \in Thread, ThreadEnds(i)
        PROVE  Next
    BY <2>5 DEF ThreadEnds, Next
  <2>6. ASSUME NEW c \in Conn, Connect(c) \/ Close(c)
        PROVE  UNCHANGED poolVars
    BY <2>6 DEF Connect, Close
  <2> QED BY <2>1, <2>2, <2>3, <2>4, <2>5, <2>6 DEF ServerNext
<1> QED BY <1>1, <1>2, PTL DEF ServerSafeSpec, SafeSpec

-----------------------------------------------------------------------------
\* The base loop runs from start() to the destructors, and ends after them.
BaseInv ==
    /\ at[0] \in InLoop \cup {"published", "left", "done"}
    /\ at[0] \in InLoop => own = "started"
    /\ at[0] = "done" => own = "gone"

LEMMA BaseHolds == SafeSpec => []BaseInv
<1> USE PoolAssumption DEF BaseInv, InLoop
<1>1. PoolInit => BaseInv
  BY DEF PoolInit, Loop
<1>2. TypeOK /\ OwnerInv /\ IInv /\ BaseInv /\ [Next]_poolVars => BaseInv'
  <2> SUFFICES ASSUME TypeOK, OwnerInv, IInv, BaseInv, [Next]_poolVars PROVE BaseInv'
    OBVIOUS
  <2>1. at \in [Loop -> ThreadLocation] /\ 0 \in Loop
    BY DEF TypeOK, Loop
  <2>2. ASSUME UNCHANGED at, own' # own => own \notin {"started", "gone"} \/ at[0] \notin InLoop,
               own = "gone" => own' = "gone"
        PROVE  BaseInv'
    BY <2>2
  <2>3. CASE Start \/ SemWait \/ CondWait \/ GetLoop \/ StartReturns \/ SpuriousWakeup
    BY <2>2, <2>3 DEF Start, SemWait, CondWait, GetLoop, StartReturns, SpuriousWakeup
  <2>4. CASE Destroy \/ DestroyStep \/ Destroyed
    BY <2>2, <2>4 DEF Destroy, DestroyStep, TestLoop, Detach, StoreQuit, Wake, Join, Destroyed
  <2>5. CASE StartThread
    <3>1. cur \in Thread /\ own = "starting" /\ own' = "semwait"
      BY <2>5 DEF StartThread, OwnerInv, TypeOK, Thread, Starting
    <3> QED BY <2>1, <2>5, <3>1 DEF StartThread, GoTo, Thread
  <2>6. ASSUME NEW i \in Thread, ThreadStep(i) \/ Die(i)
        PROVE  BaseInv'
    <3>1. i # 0
      BY DEF Thread
    <3> QED BY <2>1, <2>6, <3>1 DEF ThreadStep, PostSem, Construct, Publish, Clear, Die, GoTo
  <2>7. ASSUME NEW l \in Loop, EnterLoop(l) \/ Leave(l) \/ QuitInLoop(l)
                                \/ Poll(l) \/ TakePending(l) \/ FunctorsDone(l)
        PROVE  BaseInv'
    BY <2>1, <2>7 DEF EnterLoop, Leave, QuitInLoop, Poll, TakePending, FunctorsDone, GoTo
  <2>8. CASE BaseDies
    BY <2>1, <2>8 DEF BaseDies, GoTo
  <2>9. CASE UNCHANGED poolVars
    BY <2>9 DEF poolVars
  <2> QED BY <2>3, <2>4, <2>5, <2>6, <2>7, <2>8, <2>9 DEF Next, StartStep
<1> QED BY <1>1, <1>2, PoolTypeCorrect, PoolInductive, PTL DEF SafeSpec

PoolInv == TypeOK /\ OwnerInv /\ IInv /\ BaseInv

LEMMA PoolHolds == ServerSafeSpec => []PoolInv
BY ServerImplementsPool, PoolTypeCorrect, PoolInductive, BaseHolds, PTL DEF PoolInv

\* No callback quits an I/O loop, so the exceptions of the pool's theorems are void.
LEMMA PoolIsExact ==
  ASSUME PoolInv
  PROVE  /\ own # "crashed"
         /\ own = "started" => size = NumThreads /\ \A i \in Thread : at[i] \in Alive
         /\ own = "gone" => \A i \in Thread : at[i] = "done"
<1> USE PoolAssumption, ServerAssumption DEF PoolInv, Thread
<1>1. \A i \in Thread : i \notin early
  BY DEF TypeOK
<1>2. own # "crashed"
  BY <1>1 DEF IInv, OwnerInv
<1>3. ASSUME own = "started"
      PROVE  size = NumThreads /\ \A i \in Thread : at[i] \in Alive
  <2>1. size = NumThreads
    BY <1>3 DEF OwnerInv, Starting
  <2>2. ASSUME NEW i \in Thread PROVE at[i] \in Alive
    <3>1. at[i] \in InLoop \cup {"published", "left", "cleared", "done"}
      BY <1>3, <2>1 DEF IInv, SeenInv
    <3>2. at[i] # "done"
      BY <1>1, <1>3 DEF IInv, CauseInv, Told, Destroying
    <3> QED BY <3>1, <3>2 DEF Alive
  <2> QED BY <2>1, <2>2
<1>4. ASSUME own = "gone", NEW i \in Thread
      PROVE  at[i] = "done"
  <2>1. i < cur
    <3>1. i <= NumThreads /\ cur > NumThreads /\ cur \in Nat /\ NumThreads \in Nat /\ i \in Nat
      BY <1>4 DEF OwnerInv, TypeOK
    <3> QED BY <3>1
  <2>2. own \in Destroying \cup {"gone"}
    BY <1>4
  <2>3. \A j \in Thread : j < cur => at[j] = "done" \/ j \in early
    BY <2>2 DEF IInv, JoinedInv
  <2> QED BY <1>1, <1>4, <2>1, <2>3
<1> QED BY <1>2, <1>3, <1>4

-----------------------------------------------------------------------------
(***************************************************************************)
(* Types.                                                                  *)
(***************************************************************************)
\* A functor pushed on the list of one loop (EventLoop.cpp:157-160).
LEMMA QueueTyped ==
  ASSUME ServerTypeOK, NEW l \in Loop, NEW op, NEW c \in Conn, <<op, c>> \in Functor, Queue(l, op, c)
  PROVE  pending' \in [Loop -> Seq(Functor)]
<1>1. Append(pending[l], <<op, c>>) \in Seq(Functor)
  BY DEF ServerTypeOK
<1> QED BY <1>1 DEF ServerTypeOK, Queue

LEMMA NewConnectionTyped ==
  ASSUME ServerTypeOK, NEW c \in Conn, NewConnection(c)
  PROVE  /\ loopOf' \in [Conn -> Loop]
         /\ next' \in Nat /\ (next' = 0 \/ next' < size)
         /\ connections' \subseteq Conn
         /\ state' \in [Conn -> {"absent", "backlog", "connecting", "connected", "disconnected"}]
         /\ pending' \in [Loop -> Seq(Functor)]
<1> DEFINE l == IF size = 0 THEN 0 ELSE next + 1
<1>1. size \in Nat /\ size <= NumThreads /\ next \in Nat /\ (next = 0 \/ next < size)
  BY PoolAssumption DEF ServerTypeOK, TypeOK
<1>2. l \in Loop /\ loopOf' = [loopOf EXCEPT ![c] = l]
  BY <1>1, PoolAssumption DEF Loop, NewConnection
<1>3. next' \in Nat /\ (next' = 0 \/ next' < size)
  BY <1>1 DEF NewConnection, NextIndex
<1>4. <<"connectEstablished", c>> \in Functor
  BY DEF Functor
<1>5. pending' \in [Loop -> Seq(Functor)]
  <2>1. CASE UNCHANGED pending
    BY <2>1 DEF ServerTypeOK
  <2>2. CASE Queue(l, "connectEstablished", c)
    BY <1>2, <1>4, <2>2, QueueTyped
  <2> QED BY <2>1, <2>2 DEF NewConnection
<1>6. state' \in [Conn -> {"absent", "backlog", "connecting", "connected", "disconnected"}]
  <2>1. PICK s \in {"connected", "connecting"} : state' = [state EXCEPT ![c] = s]
    BY DEF NewConnection
  <2> QED BY <2>1 DEF ServerTypeOK
<1> QED BY <1>2, <1>3, <1>5, <1>6 DEF ServerTypeOK, NewConnection

LEMMA RemovalTyped ==
  ASSUME ServerTypeOK, NEW c \in Conn, RemoveConnection(c)
  PROVE  connections' \subseteq Conn /\ pending' \in [Loop -> Seq(Functor)]
<1>1. loopOf[c] \in Loop /\ <<"connectDestroyed", c>> \in Functor
  BY DEF ServerTypeOK, Functor
<1>2. pending' \in [Loop -> Seq(Functor)]
  BY <1>1, QueueTyped DEF RemoveConnection
<1> QED BY <1>2 DEF RemoveConnection, ServerTypeOK

LEMMA DestroyedTyped ==
  ASSUME ServerTypeOK, NEW c \in Conn, ConnectDestroyed(c)
  PROVE  /\ state' \in [Conn -> {"absent", "backlog", "connecting", "connected", "disconnected"}]
         /\ destroys' \in [Conn -> Nat]
<1>1. \A d \in Conn : state[d] \in {"absent", "backlog", "connecting", "connected", "disconnected"}
                      /\ destroys[d] \in Nat
  BY DEF ServerTypeOK
<1>2. destroys[c] + 1 \in Nat
  BY <1>1
<1> QED BY <1>1, <1>2 DEF ServerTypeOK, ConnectDestroyed

\* What RunFunctor calls is a functor, about a connection.
LEMMA NextFunctor ==
  ASSUME ServerTypeOK, NEW l \in Loop, calls[l] < Len(batch[l])
  PROVE  /\ batch[l][calls[l] + 1] \in Functor
         /\ batch[l][calls[l] + 1][2] \in Conn
         /\ calls[l] \in Nat /\ calls[l] + 1 \in 1 .. Len(batch[l])
<1>1. batch[l] \in Seq(Functor) /\ calls[l] \in Nat /\ Len(batch[l]) \in Nat
  BY DEF ServerTypeOK
<1>2. calls[l] + 1 \in 1 .. Len(batch[l]) /\ calls[l] \in Nat
  BY <1>1
<1>3. batch[l][calls[l] + 1] \in Functor
  BY <1>1, <1>2
<1> QED BY <1>2, <1>3 DEF Functor

\* How the threads and loops move in the steps the server has no part in.
LEMMA PoolStepMoves ==
  ASSUME PoolInv, PoolStep
  PROVE  /\ UNCHANGED <<connVars, queueVars>>
         /\ size' = size \/ size' = size + 1
         /\ own' = own \/ (own \notin {"started", "gone"} /\ own' \notin {"started", "gone"})
         /\ \A l \in Loop :
               \/ at'[l] = at[l]
               \/ at[l] = "published" /\ at'[l] = "top" /\ (l = 0 => own' = "started")
               \/ at[l] = "top" /\ at'[l] = "left"
               \/ l # 0 /\ <<at[l], at'[l]>> \in {<<"none", "spawned">>, <<"spawned", "posted">>,
                                <<"posted", "constructed">>, <<"constructed", "published">>,
                                <<"left", "cleared">>}
<1> DEFINE Moves(l) ==
             \/ at'[l] = at[l]
             \/ at[l] = "published" /\ at'[l] = "top" /\ (l = 0 => own' = "started")
             \/ at[l] = "top" /\ at'[l] = "left"
             \/ l # 0 /\ <<at[l], at'[l]>> \in {<<"none", "spawned">>, <<"spawned", "posted">>,
                              <<"posted", "constructed">>, <<"constructed", "published">>,
                              <<"left", "cleared">>}
<1>1. UNCHANGED <<connVars, queueVars>> /\ at \in [Loop -> ThreadLocation]
  BY DEF PoolStep, PoolInv, TypeOK
<1>2. /\ size' = size \/ size' = size + 1
      /\ own' = own \/ (own \notin {"started", "gone"} /\ own' \notin {"started", "gone"})
  BY DEF PoolStep, Start, PoolStart, StartThread, SemWait, CondWait, GetLoop, SpuriousWakeup,
     DestroyStep, TestLoop, Detach, StoreQuit, Wake, Join, ThreadStep, PostSem, Construct, Publish,
     Clear, EnterLoop, Leave, QuitInLoop
<1>3. CASE Start \/ SemWait \/ CondWait \/ GetLoop \/ SpuriousWakeup \/ DestroyStep
  <2>1. UNCHANGED at
    BY <1>3 DEF Start, SemWait, CondWait, GetLoop, SpuriousWakeup,
       DestroyStep, TestLoop, StoreQuit, Wake, Join
  <2> QED BY <1>1, <1>2, <2>1
<1>4. CASE StartThread
  <2>1. cur \in Thread /\ own = "starting" /\ size = cur - 1
    BY <1>4, PoolAssumption DEF StartThread, PoolInv, OwnerInv, TypeOK, Thread, Starting
  <2>2. at[cur] = "none"
    BY <2>1, PoolAssumption DEF PoolInv, IInv, FreshInv, Starting, Thread
  <2>3. cur # 0 /\ at' = [at EXCEPT ![cur] = "spawned"]
    BY <1>4, <2>1, PoolAssumption DEF StartThread, GoTo, Thread
  <2>4. ASSUME NEW l \in Loop PROVE Moves(l)
    BY <1>1, <2>2, <2>3, <2>4
  <2> QED BY <1>1, <1>2, <2>4
<1>5. ASSUME NEW i \in Thread, ThreadStep(i)
      PROVE  \A l \in Loop : Moves(l)
  <2>1. i # 0
    BY PoolAssumption DEF Thread
  <2> QED
    BY <1>1, <1>5, <2>1 DEF ThreadStep, PostSem, Construct, Publish, Clear, GoTo
<1>6. ASSUME NEW k \in Loop, EnterLoop(k) \/ Leave(k) \/ QuitInLoop(k)
      PROVE  \A l \in Loop : Moves(l)
  BY <1>1, <1>6 DEF EnterLoop, Leave, QuitInLoop, GoTo
<1> QED BY <1>1, <1>2, <1>3, <1>4, <1>5, <1>6 DEF PoolStep, PoolStart

\* Outside doPendingFunctors its local vector does not exist.
BatchInv == \A l \in Loop : at[l] # "functors" => batch[l] = <<>> /\ calls[l] = 0

LEMMA BatchStep ==
  ASSUME PoolInv, ServerTypeOK, BatchInv, [ServerNext]_vars
  PROVE  BatchInv'
<1> USE DEF BatchInv
<1>1. /\ batch \in [Loop -> Seq(Functor)] /\ calls \in [Loop -> Nat]
      /\ at \in [Loop -> ThreadLocation]
  BY DEF ServerTypeOK, TypeOK
<1>2. ASSUME UNCHANGED <<batch, calls>>, NEW k \in Loop, NEW loc, at' = [at EXCEPT ![k] = loc],
             at[k] # "functors", loc # "functors"
      PROVE  BatchInv'
  BY <1>1, <1>2
<1>3. CASE PoolStep
  BY <1>3, PoolStepMoves DEF queueVars
<1>4. CASE UNCHANGED <<at, batch, calls>>
  BY <1>4
<1>5. CASE BaseEnds
  <2>1. 0 \in Loop /\ at[0] # "functors"
    BY <1>5, PoolAssumption DEF BaseEnds, BaseDies, PoolInv, BaseInv, InLoop, Loop
  <2> QED BY <1>2, <1>5, <2>1 DEF BaseEnds, BaseDies, DropFunctors, GoTo
<1>6. ASSUME NEW i \in Thread, ThreadEnds(i)
      PROVE  BatchInv'
  <2>1. i \in Loop
    BY PoolAssumption DEF Loop, Thread
  <2> QED BY <1>2, <1>6, <2>1 DEF ThreadEnds, Die, DropFunctors, GoTo
<1>7. ASSUME NEW l \in Loop, PollReady(l)
      PROVE  BatchInv'
  BY <1>2, <1>7 DEF PollReady, Poll, GoTo
<1>8. ASSUME NEW l \in Loop, Swap(l) \/ EndBatch(l) \/ RunFunctor(l)
      PROVE  BatchInv'
  BY <1>1, <1>8 DEF Swap, TakePending, EndBatch, FunctorsDone, RunFunctor, GoTo, poolVars
<1> QED
  <2>1. CASE UNCHANGED vars
    BY <1>4, <2>1 DEF vars, poolVars, queueVars
  <2>2. CASE Listen \/ Accept \/ DestroyPool \/ CloseAcceptor
    BY <1>4, <2>2 DEF Listen, StartReturns, Accept, DestroyPool, Destroy, CloseAcceptor, Destroyed,
       poolVars, queueVars
  <2>3. ASSUME NEW c \in Conn,
               DestroyConnection(c) \/ Connect(c) \/ Close(c) \/ \E l \in Loop : HandleClose(l, c)
        PROVE  BatchInv'
    BY <1>4, <2>3 DEF DestroyConnection, Connect, Close, HandleClose, poolVars, queueVars
  <2> QED
    BY <1>3, <1>5, <1>6, <1>7, <1>8, <2>1, <2>2, <2>3 DEF ServerNext, ServerStep, RoundStep

\* Every variable has its type; the round-robin index stays inside loops_
\* (EventLoopThreadPool.cpp:39-54).
THEOREM ServerTypeCorrect == ServerSafeSpec => [](ServerTypeOK /\ BatchInv)
<1>1. PoolInv /\ Init => ServerTypeOK /\ BatchInv
  <2> SUFFICES ASSUME PoolInv, Init PROVE ServerTypeOK /\ BatchInv
    OBVIOUS
  <2>1. TypeOK /\ 0 \in Loop /\ <<>> \in Seq(Functor) /\ Len(<<>>) = 0
    BY PoolAssumption DEF PoolInv, Loop
  <2> QED BY <2>1 DEF Init, ServerTypeOK, BatchInv
<1>2. PoolInv' /\ ServerTypeOK /\ BatchInv /\ [ServerNext]_vars => ServerTypeOK'
  <2> SUFFICES ASSUME PoolInv', ServerTypeOK, BatchInv, [ServerNext]_vars
               PROVE  ServerTypeOK'
    OBVIOUS
  <2>1. TypeOK'
    BY DEF PoolInv
  <2> USE <2>1 DEF ServerTypeOK
  <2>2. CASE UNCHANGED vars
    BY <2>2 DEF vars, connVars, queueVars, poolVars
  <2>3. CASE PoolStep
    <3>1. UNCHANGED <<connVars, queueVars>> /\ (size' = size \/ size' = size + 1)
      BY <2>3 DEF PoolStep, Start, PoolStart, StartThread, SemWait, CondWait, GetLoop, SpuriousWakeup,
         DestroyStep, TestLoop, StoreQuit, Wake, Join, ThreadStep, PostSem, Construct, Publish,
         Clear, EnterLoop, Leave, QuitInLoop
    <3>2. size \in Nat
      BY DEF TypeOK
    <3> QED BY <3>1, <3>2 DEF connVars, queueVars
  <2>4. CASE Listen \/ DestroyPool \/ CloseAcceptor
    BY <2>4 DEF Listen, StartReturns, DestroyPool, Destroy, CloseAcceptor, Destroyed, connVars, queueVars
  <2>5. CASE Accept
    <3>1. /\ UNCHANGED <<poolVars, listening, closed, batch, calls, destroys>>
          /\ active' = [active EXCEPT ![0] = @ \ {Acceptor}]
      BY <2>5 DEF Accept
    <3>2. CASE UNCHANGED <<state, loopOf, next, connections, pending>>
      BY <3>1, <3>2 DEF poolVars
    <3>3. ASSUME NEW c \in Conn, NewConnection(c)
          PROVE  ServerTypeOK'
      BY <3>1, <3>3, NewConnectionTyped DEF poolVars
    <3> QED BY <2>5, <3>2, <3>3 DEF Accept
  <2>6. ASSUME NEW c \in Conn, DestroyConnection(c)
        PROVE  ServerTypeOK'
    <3>1. /\ UNCHANGED <<poolVars, listening, closed, loopOf, next, active, batch, calls>>
          /\ connections' \subseteq Conn
      BY <2>6 DEF DestroyConnection
    <3>2. CASE ConnectDestroyed(c) /\ UNCHANGED pending
      BY <3>1, <3>2, DestroyedTyped DEF poolVars
    <3>3. CASE Queue(loopOf[c], "connectDestroyed", c) /\ UNCHANGED <<state, destroys>>
      <4>1. loopOf[c] \in Loop /\ <<"connectDestroyed", c>> \in Functor
        BY DEF Functor
      <4>2. pending' \in [Loop -> Seq(Functor)]
        BY <3>3, <4>1, QueueTyped
      <4> QED BY <3>1, <3>3, <4>2 DEF poolVars
    <3> QED BY <2>6, <3>2, <3>3 DEF DestroyConnection
  <2>7. ASSUME NEW l \in Loop, DropFunctors(l), UNCHANGED size
        PROVE  ServerTypeOK'
    <3>1. pending' \in [Loop -> Seq(Functor)]
      BY <2>7 DEF DropFunctors
    <3> QED BY <2>7, <3>1 DEF DropFunctors, connVars
  <2>8. CASE BaseEnds
    <3>1. 0 \in Loop
      BY PoolAssumption DEF Loop
    <3> QED BY <2>7, <2>8, <3>1 DEF BaseEnds, BaseDies
  <2>9. ASSUME NEW i \in Thread, ThreadEnds(i)
        PROVE  ServerTypeOK'
    <3>1. i \in Loop
      BY PoolAssumption DEF Loop, Thread
    <3> QED BY <2>7, <2>9, <3>1 DEF ThreadEnds, Die
  <2>10. ASSUME NEW l \in Loop, PollReady(l)
         PROVE  ServerTypeOK'
    BY <2>10 DEF PollReady, Poll, Ready, connVars
  <2>11. ASSUME NEW l \in Loop, Swap(l) \/ EndBatch(l)
         PROVE  ServerTypeOK'
    <3>1. UNCHANGED <<connVars, active, size>>
      BY <2>11 DEF Swap, TakePending, EndBatch, FunctorsDone
    <3> HIDE DEF ServerTypeOK
    <3>3. /\ pending \in [Loop -> Seq(Functor)] /\ batch \in [Loop -> Seq(Functor)]
          /\ calls \in [Loop -> Nat] /\ <<>> \in Seq(Functor)
      BY DEF ServerTypeOK
    <3>4. /\ pending' \in [Loop -> Seq(Functor)] /\ batch' \in [Loop -> Seq(Functor)]
          /\ calls' \in [Loop -> Nat]
      <4>1. CASE Swap(l)
        BY <3>3, <4>1 DEF Swap
      <4>2. CASE EndBatch(l)
        BY <3>3, <4>2 DEF EndBatch
      <4> QED BY <2>11, <4>1, <4>2
    <3> USE DEF ServerTypeOK
    <3>2. \A k \in Loop : calls'[k] <= Len(batch'[k])
      <4>1. CASE Swap(l)
        <5>1. calls[l] = 0 /\ Len(pending[l]) \in Nat
          BY <4>1 DEF BatchInv, Swap, TakePending
        <5> QED BY <4>1, <5>1 DEF Swap
      <4>2. CASE EndBatch(l)
        BY <4>2 DEF EndBatch
      <4> QED BY <2>11, <4>1, <4>2
    <3> QED BY <3>1, <3>2, <3>4 DEF connVars
  <2>12. ASSUME NEW l \in Loop, RunFunctor(l)
         PROVE  ServerTypeOK'
    <3> DEFINE f == batch[l][calls[l] + 1]
    <3>1. /\ UNCHANGED <<poolVars, listening, closed, loopOf, next, active, batch>>
          /\ calls[l] < Len(batch[l]) /\ calls' = [calls EXCEPT ![l] = @ + 1]
      BY <2>12 DEF RunFunctor
    <3>2. f[2] \in Conn /\ calls[l] \in Nat /\ calls[l] + 1 \in 1 .. Len(batch[l])
      BY <3>1, NextFunctor
    <3>3. calls' \in [Loop -> Nat] /\ \A k \in Loop : calls'[k] <= Len(batch'[k])
      BY <3>1, <3>2
    <3>4. CASE state' = [state EXCEPT ![f[2]] = "connected"] /\ UNCHANGED <<connections, pending, destroys>>
      <4>1. state' \in [Conn -> {"absent", "backlog", "connecting", "connected", "disconnected"}]
        BY <3>4
      <4> QED BY <3>1, <3>3, <3>4, <4>1 DEF poolVars
    <3>5. CASE RemoveConnection(f[2]) /\ UNCHANGED <<state, destroys>>
      BY <3>1, <3>2, <3>3, <3>5, RemovalTyped DEF poolVars
    <3>6. CASE ConnectDestroyed(f[2]) /\ UNCHANGED <<connections, pending>>
      BY <3>1, <3>2, <3>3, <3>6, DestroyedTyped DEF poolVars
    <3> QED BY <2>12, <3>4, <3>5, <3>6 DEF RunFunctor
  <2>13. ASSUME NEW l \in Loop, NEW c \in Conn, HandleClose(l, c)
         PROVE  ServerTypeOK'
    <3>1. /\ UNCHANGED <<poolVars, listening, closed, loopOf, next, batch, calls, destroys>>
          /\ active' \in [Loop -> SUBSET (Conn \cup {Acceptor})]
          /\ state' \in [Conn -> {"absent", "backlog", "connecting", "connected", "disconnected"}]
      BY <2>13 DEF HandleClose
    <3>2. CASE RemoveConnection(c)
      BY <3>1, <3>2, RemovalTyped DEF poolVars
    <3>3. CASE Queue(0, "removeConnectionInLoop", c) /\ UNCHANGED connections
      <4>1. 0 \in Loop /\ <<"removeConnectionInLoop", c>> \in Functor
        BY PoolAssumption DEF Loop, Functor
      <4>2. pending' \in [Loop -> Seq(Functor)]
        BY <3>3, <4>1, QueueTyped
      <4> QED BY <3>1, <3>3, <4>2 DEF poolVars
    <3> QED BY <2>13, <3>2, <3>3 DEF HandleClose
  <2>14. ASSUME NEW c \in Conn, Connect(c) \/ Close(c)
         PROVE  ServerTypeOK'
    BY <2>14 DEF Connect, Close, poolVars, queueVars
  <2> QED
    BY <2>2, <2>3, <2>4, <2>5, <2>6, <2>8, <2>9, <2>10, <2>11, <2>12, <2>13, <2>14
       DEF ServerNext, ServerStep, RoundStep
<1>3. PoolInv /\ ServerTypeOK /\ BatchInv /\ [ServerNext]_vars => BatchInv'
  BY BatchStep
<1> QED BY <1>1, <1>2, <1>3, PoolHolds, PTL DEF ServerSafeSpec

-----------------------------------------------------------------------------
(***************************************************************************)
(* Where functors and connections are: enough for the raw pointers to      *)
(* loops and to the server to be good whenever they are used.              *)
(***************************************************************************)
\* A functor is queued where it belongs.
Placed(l, f) ==
    /\ Accepted(f[2])
    /\ l = IF f[1] = "removeConnectionInLoop" THEN 0 ELSE loopOf[f[2]]
    /\ f[1] # "connectDestroyed" => loopOf[f[2]] # 0

PendingPlaced == \A l \in Loop : \A i \in 1 .. Len(pending[l]) : Placed(l, pending[l][i])
BatchPlaced == \A l \in Loop : \A i \in 1 .. Len(batch[l]) : Placed(l, batch[l][i])
ActivePlaced == \A l \in Loop : \A c \in active[l] \cap Conn : Accepted(c) /\ loopOf[c] = l

\* The server holds what its own loop serves, and nothing once it is being destroyed.
MapInv ==
    /\ \A c \in Conn : state[c] = "connected" /\ loopOf[c] = 0 => c \in connections
    /\ connections # {} => own = "started"
    /\ \A c \in connections : Accepted(c)

PlaceInv == PendingPlaced /\ BatchPlaced /\ ActivePlaced /\ MapInv /\ QueuesOnLiveLoop

TypesInv == PoolInv /\ ServerTypeOK /\ BatchInv

\* A connection keeps its loop (TcpConnection.h:92).
LEMMA AcceptedStays ==
  ASSUME TypesInv, [ServerNext]_vars, NEW c \in Conn, Accepted(c)
  PROVE  Accepted(c)' /\ loopOf'[c] = loopOf[c]
<1> USE DEF Accepted
<1>1. /\ state \in [Conn -> {"absent", "backlog", "connecting", "connected", "disconnected"}]
      /\ loopOf \in [Conn -> Loop]
  BY DEF TypesInv, ServerTypeOK
<1>2. ASSUME NEW d \in Conn, NEW s \in {"connecting", "connected", "disconnected"},
             state' = [state EXCEPT ![d] = s], UNCHANGED loopOf
      PROVE  Accepted(c)' /\ loopOf'[c] = loopOf[c]
  BY <1>1, <1>2
<1>3. CASE UNCHANGED <<state, loopOf>>
  BY <1>3
<1>4. CASE Accept
  <2>1. ASSUME NEW d \in Conn, state[d] = "backlog", NewConnection(d)
        PROVE  Accepted(c)' /\ loopOf'[c] = loopOf[c]
    <3>1. d # c
      BY <2>1
    <3>2. /\ \E s \in {"connecting", "connected"} : state' = [state EXCEPT ![d] = s]
          /\ \E l : loopOf' = [loopOf EXCEPT ![d] = l]
      BY <2>1 DEF NewConnection
    <3> QED BY <1>1, <3>1, <3>2
  <2> QED BY <1>3, <1>4, <2>1 DEF Accept
<1>5. ASSUME NEW d \in Conn, DestroyConnection(d)
      PROVE  Accepted(c)' /\ loopOf'[c] = loopOf[c]
  BY <1>1, <1>5 DEF DestroyConnection, ConnectDestroyed
<1>6. ASSUME NEW d \in Conn, Connect(d) \/ Close(d)
      PROVE  Accepted(c)' /\ loopOf'[c] = loopOf[c]
  BY <1>1, <1>6 DEF Connect, Close
<1>7. ASSUME NEW l \in Loop, NEW d \in Conn, HandleClose(l, d)
      PROVE  Accepted(c)' /\ loopOf'[c] = loopOf[c]
  BY <1>1, <1>7 DEF HandleClose
<1>8. ASSUME NEW l \in Loop, RunFunctor(l)
      PROVE  Accepted(c)' /\ loopOf'[c] = loopOf[c]
  <2>1. batch[l][calls[l] + 1][2] \in Conn
    BY <1>8, NextFunctor DEF RunFunctor, TypesInv
  <2> QED BY <1>1, <1>8, <2>1 DEF RunFunctor, ConnectDestroyed
<1> QED
  <2>1. CASE UNCHANGED vars
    BY <1>3, <2>1 DEF vars, connVars
  <2>2. CASE PoolStep
    BY <1>3, <2>2 DEF PoolStep, connVars
  <2>3. CASE Listen \/ DestroyPool \/ CloseAcceptor \/ BaseEnds
    BY <1>3, <2>3 DEF Listen, DestroyPool, CloseAcceptor, BaseEnds, DropFunctors, connVars
  <2>4. ASSUME NEW i \in Thread, ThreadEnds(i)
        PROVE  Accepted(c)' /\ loopOf'[c] = loopOf[c]
    BY <1>3, <2>4 DEF ThreadEnds, DropFunctors, connVars
  <2>5. ASSUME NEW l \in Loop, PollReady(l) \/ Swap(l) \/ EndBatch(l)
        PROVE  Accepted(c)' /\ loopOf'[c] = loopOf[c]
    BY <1>3, <2>5 DEF PollReady, Swap, EndBatch, connVars
  <2> QED
    BY <1>4, <1>5, <1>6, <1>7, <1>8, <2>1, <2>2, <2>3, <2>4, <2>5
       DEF ServerNext, ServerStep, RoundStep

LEMMA PlacedStays ==
  ASSUME TypesInv, [ServerNext]_vars, NEW l \in Loop, NEW f \in Functor, Placed(l, f)
  PROVE  Placed(l, f)'
<1>1. f[2] \in Conn
  BY DEF Functor
<1> QED BY <1>1, AcceptedStays DEF Placed

\* How a step may change the list of pending functors, and what is live after it.
Queues(l, op, c) ==
    /\ l \in Loop /\ c \in Conn /\ <<op, c>> \in Functor
    /\ Queue(l, op, c) /\ Placed(l, <<op, c>>)' /\ at[l] \in Alive /\ UNCHANGED at

\* What is in a list after a push at its end.
LEMMA AppendItems ==
  ASSUME NEW S, NEW s \in Seq(S), NEW e \in S, NEW i \in 1 .. Len(Append(s, e))
  PROVE  \/ i \in 1 .. Len(s) /\ Append(s, e)[i] = s[i] /\ s[i] \in S
         \/ i = Len(s) + 1 /\ Append(s, e)[i] = e
<1>1. Len(s) \in Nat /\ Len(Append(s, e)) = Len(s) + 1
  OBVIOUS
<1>2. CASE i = Len(s) + 1
  BY <1>2
<1>3. CASE i # Len(s) + 1
  <2>1. i \in 1 .. Len(s)
    BY <1>1, <1>3
  <2> QED BY <2>1
<1> QED BY <1>2, <1>3

LEMMA QueuesPlaced ==
  ASSUME TypesInv, PlaceInv, [ServerNext]_vars, NEW l, NEW op, NEW c, Queues(l, op, c)
  PROVE  PendingPlaced' /\ QueuesOnLiveLoop'
<1>1. pending \in [Loop -> Seq(Functor)] /\ l \in Loop /\ <<op, c>> \in Functor
  BY DEF TypesInv, ServerTypeOK, Queues
<1>2. \A k \in Loop : pending'[k] = IF k = l THEN Append(pending[l], <<op, c>>) ELSE pending[k]
  BY <1>1 DEF Queues, Queue
<1>3. QueuesOnLiveLoop'
  BY <1>2 DEF Queues, PlaceInv, QueuesOnLiveLoop
<1>4. ASSUME NEW k \in Loop, NEW i \in 1 .. Len(pending'[k])
      PROVE  Placed(k, pending[k][i])'
  <2>1. \/ i \in 1 .. Len(pending[k]) /\ pending'[k][i] = pending[k][i] /\ pending[k][i] \in Functor
        \/ k = l /\ pending'[k][i] = <<op, c>>
    <3>1. CASE k # l
      BY <1>1, <1>2, <3>1
    <3>2. CASE k = l
      <4>1. pending[k] \in Seq(Functor) /\ pending'[k] = Append(pending[k], <<op, c>>)
        BY <1>1, <1>2, <3>2
      <4>2. ASSUME NEW s \in Seq(Functor), NEW t, t = Append(s, <<op, c>>), i \in 1 .. Len(t)
            PROVE  (i \in 1 .. Len(s) /\ t[i] = s[i] /\ s[i] \in Functor) \/ t[i] = <<op, c>>
        BY <1>1, <4>2, AppendItems
      <4> QED BY <3>2, <4>1, <4>2
    <3> QED BY <3>1, <3>2
  <2>2. CASE /\ i \in 1 .. Len(pending[k])
             /\ pending'[k][i] = pending[k][i] /\ pending[k][i] \in Functor
    <3>2. Placed(k, pending[k][i])
      BY <2>2 DEF PlaceInv, PendingPlaced
    <3>3. ASSUME NEW f \in Functor, f = pending[k][i] PROVE Placed(k, f)'
      BY <3>2, <3>3, PlacedStays
    <3> QED BY <2>2, <3>3 DEF Placed, Accepted
  <2>3. CASE k = l /\ pending'[k][i] = <<op, c>>
    BY <2>3 DEF Queues, Placed, Accepted
  <2> QED BY <2>1, <2>2, <2>3
<1> QED BY <1>3, <1>4 DEF PendingPlaced

\* Whom each push is meant for (TcpServer.cpp:48,74-117,120-135).
LEMMA PendingChange ==
  ASSUME TypesInv, PlaceInv, ServerNext
  PROVE  \/ \E l, op, c : Queues(l, op, c)
         \/ UNCHANGED pending
         \/ \E l \in Loop : /\ pending' = [pending EXCEPT ![l] = <<>>]
                            /\ \A k \in Loop : at[k] \in Alive /\ k # l => at'[k] \in Alive
<1> DEFINE Goal == \/ \E l, op, c : Queues(l, op, c)
                   \/ UNCHANGED pending
                   \/ \E l \in Loop : /\ pending' = [pending EXCEPT ![l] = <<>>]
                                      /\ \A k \in Loop : at[k] \in Alive /\ k # l => at'[k] \in Alive
<1>1. /\ 0 \in Loop /\ Thread \subseteq Loop /\ \A l \in Loop : l # 0 => l \in Thread
      /\ at \in [Loop -> ThreadLocation] /\ loopOf \in [Conn -> Loop]
      /\ state \in [Conn -> {"absent", "backlog", "connecting", "connected", "disconnected"}]
  BY PoolAssumption DEF Loop, Thread, TypesInv, ServerTypeOK, TypeOK
<1>2. /\ own = "started" => size = NumThreads /\ \A i \in Thread : at[i] \in Alive
      /\ own = "gone" => \A i \in Thread : at[i] = "done"
  BY PoolIsExact DEF TypesInv
<1>3. /\ at[0] \in InLoop \cup {"published", "left", "done"}
      /\ at[0] \in InLoop => own = "started"
      /\ at[0] = "done" => own = "gone"
  BY DEF TypesInv, PoolInv, BaseInv
<1>4. CASE Accept
  <2>1. ASSUME NEW c \in Conn, state[c] = "backlog", NewConnection(c) PROVE Goal
    <3>1. own = "started" /\ UNCHANGED at
      BY <1>3, <1>4 DEF Accept, InLoop, poolVars
    <3>2. CASE size # 0
      <4>1. next \in Nat /\ (next = 0 \/ next < size) /\ size = NumThreads /\ NumThreads \in Nat
        BY <1>2, <3>1, PoolAssumption DEF TypesInv, ServerTypeOK
      <4>2. PICK l \in Thread : l = next + 1 /\ l # 0
        BY <3>2, <4>1 DEF Thread
      <4>3. state' = [state EXCEPT ![c] = "connecting"] /\ Queue(l, "connectEstablished", c)
            /\ loopOf' = [loopOf EXCEPT ![c] = l]
        BY <2>1, <3>2, <4>2 DEF NewConnection
      <4>4. Placed(l, <<"connectEstablished", c>>)'
        BY <1>1, <4>2, <4>3 DEF Placed, Accepted
      <4>5. at[l] \in Alive /\ l \in Loop /\ <<"connectEstablished", c>> \in Functor
        BY <1>1, <1>2, <3>1, <4>2 DEF Functor
      <4> QED BY <3>1, <4>3, <4>4, <4>5 DEF Queues
    <3>3. CASE size = 0
      BY <2>1, <3>3 DEF NewConnection
    <3> QED BY <3>2, <3>3
  <2> QED BY <1>4, <2>1 DEF Accept
<1>5. ASSUME NEW l \in Loop, NEW c \in Conn, HandleClose(l, c) PROVE Goal
  <2>1. /\ at[l] = "dispatch" /\ c \in active[l] /\ UNCHANGED <<at, loopOf>>
        /\ state' = [state EXCEPT ![c] = "disconnected"]
    BY <1>5 DEF HandleClose, poolVars
  <2>2. loopOf[c] = l
    BY <2>1 DEF PlaceInv, ActivePlaced
  <2>3. CASE l = 0
    <3>1. Queue(l, "connectDestroyed", c)
      BY <1>5, <2>2, <2>3 DEF HandleClose, RemoveConnection
    <3>2. Placed(l, <<"connectDestroyed", c>>)'
      BY <1>1, <2>1, <2>2 DEF Placed, Accepted
    <3>3. at[l] \in Alive /\ <<"connectDestroyed", c>> \in Functor
      BY <2>1 DEF Alive, InLoop, Functor
    <3> QED BY <2>1, <3>1, <3>2, <3>3 DEF Queues
  <2>4. CASE l # 0
    <3>1. Queue(0, "removeConnectionInLoop", c)
      BY <1>5, <2>4 DEF HandleClose
    <3>2. Placed(0, <<"removeConnectionInLoop", c>>)'
      BY <1>1, <2>1, <2>2, <2>4 DEF Placed, Accepted
    <3>3. at[0] # "done"
      BY <1>1, <1>2, <1>3, <2>1, <2>4
    <3>4. at[0] \in Alive /\ <<"removeConnectionInLoop", c>> \in Functor
      BY <1>3, <3>3 DEF Alive, InLoop, Functor
    <3> QED BY <1>1, <2>1, <3>1, <3>2, <3>4 DEF Queues
  <2> QED BY <2>3, <2>4
<1>6. ASSUME NEW l \in Loop, RunFunctor(l) PROVE Goal
  <2> DEFINE f == batch[l][calls[l] + 1]
  <2>1. calls[l] + 1 \in 1 .. Len(batch[l]) /\ f[2] \in Conn /\ at[l] = "functors"
        /\ UNCHANGED <<at, loopOf>>
    BY <1>6, NextFunctor DEF RunFunctor, TypesInv, poolVars
  <2>2. Placed(l, f)
    BY <2>1 DEF PlaceInv, BatchPlaced
  <2>3. CASE f[1] = "removeConnectionInLoop" /\ RemoveConnection(f[2]) /\ UNCHANGED state
    <3>1. PICK c \in Conn, k \in Loop : c = f[2] /\ k = loopOf[c]
      BY <1>1, <2>1
    <3>2. l = 0 /\ k # 0 /\ Accepted(c)
      BY <2>2, <2>3, <3>1 DEF Placed
    <3>3. own = "started" /\ k \in Thread
      BY <1>1, <1>3, <2>1, <3>2 DEF InLoop
    <3>4. Placed(k, <<"connectDestroyed", c>>)'
      BY <2>1, <2>3, <3>1, <3>2 DEF Placed, Accepted
    <3>5. <<"connectDestroyed", c>> \in Functor /\ at[k] \in Alive
      BY <1>2, <3>3 DEF Functor
    <3>6. Queue(k, "connectDestroyed", c)
      BY <2>3, <3>1 DEF RemoveConnection
    <3> QED BY <2>1, <3>4, <3>5, <3>6 DEF Queues
  <2> QED BY <1>6, <2>3 DEF RunFunctor
<1>7. ASSUME NEW c \in Conn, DestroyConnection(c) PROVE Goal
  <2>1. own = "started" /\ c \in connections /\ UNCHANGED <<at, loopOf>>
    BY <1>7 DEF DestroyConnection, poolVars
  <2>2. CASE loopOf[c] # 0 /\ Queue(loopOf[c], "connectDestroyed", c) /\ UNCHANGED state
    <3>1. loopOf[c] \in Loop /\ at[loopOf[c]] \in Alive /\ <<"connectDestroyed", c>> \in Functor
      BY <1>1, <1>2, <2>1, <2>2 DEF Functor
    <3>2. Placed(loopOf[c], <<"connectDestroyed", c>>)'
      BY <2>1, <2>2 DEF PlaceInv, MapInv, Placed, Accepted
    <3> QED BY <2>1, <2>2, <3>1, <3>2 DEF Queues
  <2> QED BY <1>7, <2>2 DEF DestroyConnection
<1>8. ASSUME NEW l \in Loop, Swap(l) PROVE Goal
  BY <1>1, <1>8 DEF Swap, TakePending, GoTo, Alive, InLoop
<1>9. CASE BaseEnds
  BY <1>1, <1>9 DEF BaseEnds, BaseDies, DropFunctors, GoTo
<1>10. ASSUME NEW i \in Thread, ThreadEnds(i) PROVE Goal
  BY <1>1, <1>10 DEF ThreadEnds, Die, DropFunctors, GoTo
<1> QED
  <2>1. CASE PoolStep \/ Listen \/ DestroyPool \/ CloseAcceptor
    BY <2>1 DEF PoolStep, Listen, DestroyPool, CloseAcceptor, queueVars
  <2>2. ASSUME NEW l \in Loop, PollReady(l) \/ EndBatch(l)
        PROVE  Goal
    BY <2>2 DEF PollReady, EndBatch
  <2>3. ASSUME NEW c \in Conn, Connect(c) \/ Close(c)
        PROVE  Goal
    BY <2>3 DEF Connect, Close, queueVars
  <2> QED
    BY <1>4, <1>5, <1>6, <1>7, <1>8, <1>9, <1>10, <2>1, <2>2, <2>3
       DEF ServerNext, ServerStep, RoundStep

LEMMA PendingKept ==
  ASSUME TypesInv, PlaceInv, ServerNext
  PROVE  PendingPlaced' /\ QueuesOnLiveLoop'
<1>1. /\ pending \in [Loop -> Seq(Functor)] /\ at \in [Loop -> ThreadLocation]
      /\ \A l \in Loop : \A i \in 1 .. Len(pending[l]) : pending[l][i] \in Functor
  BY DEF TypesInv, ServerTypeOK, TypeOK
<1>2. ASSUME NEW l \in Loop, NEW i \in 1 .. Len(pending[l])
      PROVE  \A f \in Functor : f = pending[l][i] => Placed(l, f)'
  BY <1>2, PlacedStays DEF PlaceInv, PendingPlaced
<1>3. CASE \E l, op, c : Queues(l, op, c)
  BY <1>3, QueuesPlaced
<1>4. CASE UNCHANGED pending
  <2>1. PendingPlaced'
    BY <1>1, <1>2, <1>4 DEF PendingPlaced, Placed, Accepted
  <2>2. \A l \in Loop : at[l] \in Alive => at'[l] \in Alive \/ pending[l] = <<>>
    <3>1. CASE PoolStep
      BY <3>1, PoolStepMoves DEF TypesInv, Alive, InLoop
    <3>2. CASE UNCHANGED at
      BY <3>2
    <3>3. CASE BaseEnds
      BY <1>1, <1>4, <3>3 DEF BaseEnds, BaseDies, DropFunctors, GoTo
    <3>4. ASSUME NEW i \in Thread, ThreadEnds(i)
          PROVE  \A l \in Loop : at[l] \in Alive => at'[l] \in Alive \/ pending[l] = <<>>
      BY <1>1, <1>4, <3>4, PoolAssumption DEF ThreadEnds, Die, DropFunctors, GoTo, Thread, Loop
    <3>5. ASSUME NEW k \in Loop, PollReady(k) \/ Swap(k) \/ EndBatch(k)
          PROVE  \A l \in Loop : at[l] \in Alive => at'[l] \in Alive
      BY <1>1, <3>5 DEF PollReady, Poll, Swap, TakePending, EndBatch, FunctorsDone, GoTo, Alive, InLoop
    <3>6. ASSUME NEW k \in Loop, RunFunctor(k) \/ \E c \in Conn : HandleClose(k, c)
          PROVE  UNCHANGED at
      BY <3>6 DEF RunFunctor, HandleClose, poolVars
    <3>7. CASE Listen \/ Accept \/ DestroyPool \/ CloseAcceptor
               \/ \E c \in Conn : DestroyConnection(c) \/ Connect(c) \/ Close(c)
      BY <3>7 DEF Listen, StartReturns, Accept, DestroyPool, Destroy, CloseAcceptor, Destroyed,
         DestroyConnection, Connect, Close, poolVars
    <3> QED
      BY <3>1, <3>2, <3>3, <3>4, <3>5, <3>6, <3>7 DEF ServerNext, ServerStep, RoundStep
  <2> QED BY <1>4, <2>1, <2>2 DEF PlaceInv, QueuesOnLiveLoop
<1>5. ASSUME NEW l \in Loop, pending' = [pending EXCEPT ![l] = <<>>],
             \A k \in Loop : at[k] \in Alive /\ k # l => at'[k] \in Alive
      PROVE  PendingPlaced' /\ QueuesOnLiveLoop'
  <2>1. \A k \in Loop : pending'[k] = IF k = l THEN <<>> ELSE pending[k]
    BY <1>1, <1>5
  <2>2. QueuesOnLiveLoop'
    BY <1>5, <2>1 DEF PlaceInv, QueuesOnLiveLoop
  <2>3. PendingPlaced'
    BY <1>1, <1>2, <2>1 DEF PendingPlaced, Placed, Accepted
  <2> QED BY <2>2, <2>3
<1> QED BY <1>3, <1>4, <1>5, PendingChange

\* What a loop takes over and what its poller reports keep their place
\* (EventLoop.cpp:211-228, EPollPoller.cpp:22-60).
LEMMA TakenKept ==
  ASSUME TypesInv, PlaceInv, ServerNext
  PROVE  BatchPlaced' /\ ActivePlaced'
<1>1. /\ batch \in [Loop -> Seq(Functor)] /\ pending \in [Loop -> Seq(Functor)]
      /\ active \in [Loop -> SUBSET (Conn \cup {Acceptor})]
      /\ \A l \in Loop : \A i \in 1 .. Len(pending[l]) : pending[l][i] \in Functor
      /\ \A l \in Loop : \A i \in 1 .. Len(batch[l]) : batch[l][i] \in Functor
  BY DEF TypesInv, ServerTypeOK
<1>2. ASSUME NEW l \in Loop, NEW f \in Functor, Placed(l, f)
      PROVE  Placed(l, f)'
  BY <1>2, PlacedStays
<1>3. ASSUME NEW l \in Loop, NEW c \in active[l] \cap Conn
      PROVE  Accepted(c)' /\ loopOf'[c] = l
  <2>1. Accepted(c) /\ loopOf[c] = l
    BY DEF PlaceInv, ActivePlaced
  <2> QED BY <2>1, AcceptedStays
<1>4. ASSUME \A l \in Loop : active'[l] \subseteq active[l]
      PROVE  ActivePlaced'
  BY <1>3, <1>4 DEF ActivePlaced
<1>5. ASSUME NEW l \in Loop, PollReady(l)
      PROVE  ActivePlaced'
  <2>1. /\ active' = [active EXCEPT ![l] = Ready(l)] /\ UNCHANGED <<state, loopOf>>
        /\ \A c \in Ready(l) \cap Conn : state[c] = "connected" /\ loopOf[c] = l
    BY <1>5, ServerAssumption DEF PollReady, Ready, connVars
  <2>2. \A k \in Loop : active'[k] = IF k = l THEN Ready(l) ELSE active[k]
    BY <1>1, <2>1
  <2>3. ASSUME NEW k \in Loop, NEW c \in active'[k] \cap Conn
        PROVE  Accepted(c)' /\ loopOf'[c] = k
    <3>1. CASE k = l
      <4>1. c \in Ready(l) \cap Conn
        BY <2>2, <2>3, <3>1
      <4>2. state[c] = "connected" /\ loopOf[c] = l
        BY <2>1, <4>1
      <4> QED BY <2>1, <3>1, <4>2 DEF Accepted
    <3>2. CASE k # l
      BY <1>3, <2>2, <2>3, <3>2
    <3> QED BY <3>1, <3>2
  <2> QED BY <2>3 DEF ActivePlaced
<1>6. ASSUME \A l \in Loop : batch'[l] \in {batch[l], pending[l], <<>>}
      PROVE  BatchPlaced'
  <2>1. ASSUME NEW l \in Loop, NEW i \in 1 .. Len(batch'[l]), NEW f, f = batch'[l][i]
        PROVE  Placed(l, f)'
    <3>1. f \in Functor /\ Placed(l, f)
      <4>1. CASE batch'[l] = batch[l]
        BY <1>1, <2>1, <4>1 DEF PlaceInv, BatchPlaced
      <4>2. CASE batch'[l] = pending[l]
        BY <1>1, <2>1, <4>2 DEF PlaceInv, PendingPlaced
      <4>3. CASE batch'[l] = <<>>
        BY <2>1, <4>3
      <4> QED BY <1>6, <4>1, <4>2, <4>3
    <3> QED BY <1>2, <3>1
  <2> QED BY <2>1 DEF BatchPlaced, Placed, Accepted
<1>7. CASE PoolStep
  BY <1>4, <1>6, <1>7 DEF PoolStep, queueVars
<1>8. CASE Listen \/ Accept \/ DestroyPool \/ CloseAcceptor \/ BaseEnds
           \/ \E c \in Conn : DestroyConnection(c) \/ Connect(c) \/ Close(c)
  <2>1. UNCHANGED batch
    BY <1>8 DEF Listen, Accept, DestroyPool, CloseAcceptor, BaseEnds, DropFunctors,
       DestroyConnection, Connect, Close, queueVars
  <2>2. \A l \in Loop : active'[l] \subseteq active[l]
    <3>1. CASE Accept
      BY <1>1, <3>1 DEF Accept
    <3> QED
      BY <1>8, <3>1 DEF Listen, DestroyPool, CloseAcceptor, BaseEnds, DropFunctors,
         DestroyConnection, Connect, Close, queueVars
  <2> QED BY <1>4, <1>6, <2>1, <2>2
<1>9. ASSUME NEW i \in Thread, ThreadEnds(i)
      PROVE  BatchPlaced' /\ ActivePlaced'
  BY <1>4, <1>6, <1>9 DEF ThreadEnds, DropFunctors
<1>10. ASSUME NEW l \in Loop, Swap(l) \/ EndBatch(l) \/ RunFunctor(l)
       PROVE  BatchPlaced' /\ ActivePlaced'
  <2>1. UNCHANGED active /\ \A k \in Loop : batch'[k] \in {batch[k], pending[k], <<>>}
    BY <1>1, <1>10 DEF Swap, EndBatch, RunFunctor
  <2> QED BY <1>4, <1>6, <2>1
<1>11. ASSUME NEW l \in Loop, NEW c \in Conn, HandleClose(l, c)
       PROVE  BatchPlaced' /\ ActivePlaced'
  <2>1. UNCHANGED batch /\ \A k \in Loop : active'[k] \subseteq active[k]
    BY <1>1, <1>11 DEF HandleClose
  <2> QED BY <1>4, <1>6, <2>1
<1>12. ASSUME NEW l \in Loop, PollReady(l)
       PROVE  BatchPlaced'
  BY <1>6, <1>12 DEF PollReady
<1> QED
  BY <1>5, <1>7, <1>8, <1>9, <1>10, <1>11, <1>12 DEF ServerNext, ServerStep, RoundStep

\* What the map holds (TcpServer.cpp:37-52,105,130).
LEMMA MapKept ==
  ASSUME TypesInv, PlaceInv, ServerNext
  PROVE  MapInv'
<1>1. /\ state \in [Conn -> {"absent", "backlog", "connecting", "connected", "disconnected"}]
      /\ connections \subseteq Conn /\ loopOf \in [Conn -> Loop]
  BY DEF TypesInv, ServerTypeOK
<1>2. /\ \A c \in Conn : state[c] = "connected" /\ loopOf[c] = 0 => c \in connections
      /\ connections # {} => own = "started"
      /\ \A c \in connections : Accepted(c)
  BY DEF PlaceInv, MapInv
<1>3. CASE UNCHANGED <<connVars, queueVars>>
  <2>1. own' = own \/ own # "started" \/ connections = {}
    <3>1. CASE PoolStep
      BY <3>1, PoolStepMoves DEF TypesInv
    <3>2. ASSUME NEW l \in Loop, RoundStep(l)
          PROVE  own' = own
      BY <3>2 DEF RoundStep, PollReady, Poll, Swap, TakePending, RunFunctor, EndBatch, FunctorsDone,
         HandleClose, poolVars
    <3>3. CASE Listen \/ Accept \/ DestroyPool \/ CloseAcceptor \/ BaseEnds
               \/ \E c \in Conn : DestroyConnection(c) \/ Connect(c) \/ Close(c)
      BY <3>3 DEF Listen, StartReturns, Accept, DestroyPool, CloseAcceptor, Destroyed, BaseEnds,
         BaseDies, DestroyConnection, Connect, Close, poolVars
    <3>4. ASSUME NEW i \in Thread, ThreadEnds(i)
          PROVE  own' = own
      BY <3>4 DEF ThreadEnds, Die
    <3> QED BY <3>1, <3>2, <3>3, <3>4 DEF ServerNext, ServerStep
  <2> QED BY <1>2, <1>3, <2>1 DEF MapInv, Accepted, connVars
<1>4. ASSUME UNCHANGED <<own, state, loopOf, connections>>
      PROVE  MapInv'
  BY <1>2, <1>4 DEF MapInv, Accepted
<1>5. CASE Listen
  BY <1>2, <1>5 DEF Listen, StartReturns, MapInv, Accepted
<1>6. CASE Accept
  <2>1. own = "started" /\ UNCHANGED own
    BY <1>6 DEF Accept, poolVars, TypesInv, PoolInv, BaseInv, InLoop
  <2>2. ASSUME NEW c \in Conn, NewConnection(c)
        PROVE  MapInv'
    <3>1. connections' = connections \cup {c}
      BY <2>2 DEF NewConnection
    <3>2. PICK s \in {"connecting", "connected"} : state' = [state EXCEPT ![c] = s]
      BY <2>2 DEF NewConnection
    <3>3. \A d \in Conn : d # c => state'[d] = state[d] /\ loopOf'[d] = loopOf[d]
      BY <1>1, <2>2, <3>2 DEF NewConnection
    <3> QED BY <1>1, <1>2, <2>1, <3>1, <3>2, <3>3 DEF MapInv, Accepted
  <2> QED BY <1>4, <1>6, <2>1, <2>2 DEF Accept
<1>7. ASSUME NEW l \in Loop, NEW c \in Conn, HandleClose(l, c)
      PROVE  MapInv'
  <2>1. UNCHANGED <<own, loopOf>> /\ state' = [state EXCEPT ![c] = "disconnected"]
        /\ connections' \in {connections, connections \ {c}}
    BY <1>7 DEF HandleClose, RemoveConnection, poolVars
  <2> QED BY <1>1, <1>2, <2>1 DEF MapInv, Accepted
<1>8. ASSUME NEW l \in Loop, RunFunctor(l)
       PROVE  MapInv'
  <2>1. calls[l] + 1 \in 1 .. Len(batch[l])
    BY <1>8, NextFunctor DEF RunFunctor, TypesInv
  <2>2. PICK f \in Functor : f = batch[l][calls[l] + 1]
    BY <1>8, NextFunctor DEF RunFunctor, TypesInv
  <2>3. Placed(l, f) /\ f[2] \in Conn /\ UNCHANGED <<own, loopOf>>
    BY <1>8, <2>1, <2>2 DEF PlaceInv, BatchPlaced, Functor, RunFunctor, poolVars
  <2>4. CASE f[1] = "connectEstablished" /\ state' = [state EXCEPT ![f[2]] = "connected"]
             /\ UNCHANGED connections
    BY <1>1, <1>2, <2>3, <2>4 DEF MapInv, Accepted, Placed
  <2>5. CASE f[1] = "removeConnectionInLoop" /\ connections' = connections \ {f[2]} /\ UNCHANGED state
    BY <1>1, <1>2, <2>3, <2>5 DEF MapInv, Accepted, Placed
  <2>6. CASE ConnectDestroyed(f[2]) /\ UNCHANGED connections
    BY <1>1, <1>2, <2>3, <2>6 DEF MapInv, Accepted, ConnectDestroyed
  <2> QED BY <1>8, <2>2, <2>4, <2>5, <2>6 DEF RunFunctor, RemoveConnection
<1>9. ASSUME NEW c \in Conn, DestroyConnection(c)
       PROVE  MapInv'
  <2>1. /\ own = "started" /\ c \in connections /\ UNCHANGED <<own, loopOf>>
        /\ connections' = connections \ {c}
    BY <1>9 DEF DestroyConnection, poolVars
  <2>2. CASE loopOf[c] = 0 /\ ConnectDestroyed(c)
    BY <1>1, <1>2, <2>1, <2>2 DEF MapInv, Accepted, ConnectDestroyed
  <2>3. CASE loopOf[c] # 0 /\ UNCHANGED state
    BY <1>1, <1>2, <2>1, <2>3 DEF MapInv, Accepted
  <2> QED BY <1>9, <2>2, <2>3 DEF DestroyConnection
<1>10. CASE DestroyPool
  BY <1>2, <1>10 DEF DestroyPool, Destroy, MapInv, Accepted, connVars
<1>11. CASE CloseAcceptor
  BY <1>2, <1>11 DEF CloseAcceptor, Destroyed, MapInv, Accepted
<1>12. ASSUME NEW c \in Conn, Connect(c) \/ Close(c)
       PROVE  MapInv'
  <2>1. UNCHANGED <<own, loopOf, connections>>
        /\ \A d \in Conn : state'[d] = state[d] \/ (d = c /\ state[d] = "absent" /\ state'[d] = "backlog")
    BY <1>1, <1>12 DEF Connect, Close, poolVars
  <2> QED BY <1>1, <1>2, <2>1 DEF MapInv, Accepted
<1> QED
  <2>1. CASE PoolStep
    BY <1>3, <2>1 DEF PoolStep
  <2>2. CASE BaseEnds
    BY <1>4, <2>2 DEF BaseEnds, BaseDies, DropFunctors, connVars
  <2>3. ASSUME NEW i \in Thread, ThreadEnds(i)
        PROVE  MapInv'
    BY <1>4, <2>3 DEF ThreadEnds, Die, DropFunctors, connVars
  <2>4. ASSUME NEW l \in Loop, PollReady(l) \/ Swap(l) \/ EndBatch(l)
        PROVE  MapInv'
    BY <1>4, <2>4 DEF PollReady, Poll, Swap, TakePending, EndBatch, FunctorsDone, connVars
  <2> QED
    BY <1>5, <1>6, <1>7, <1>8, <1>9, <1>10, <1>11, <1>12, <2>1, <2>2, <2>3, <2>4
       DEF ServerNext, ServerStep, RoundStep

THEOREM ServerPlaces == ServerSafeSpec => [](TypesInv /\ PlaceInv)
<1>1. Init => PlaceInv
  <2> SUFFICES ASSUME Init PROVE PlaceInv
    OBVIOUS
  <2>1. /\ \A l \in Loop : pending[l] = <<>> /\ batch[l] = <<>> /\ active[l] = {}
        /\ \A c \in Conn : state[c] = "absent"
        /\ connections = {} /\ Len(<<>>) = 0
    BY DEF Init
  <2> QED BY <2>1 DEF PlaceInv, PendingPlaced, BatchPlaced, ActivePlaced, MapInv, QueuesOnLiveLoop
<1>2. TypesInv /\ PlaceInv /\ [ServerNext]_vars => PlaceInv'
  <2> SUFFICES ASSUME TypesInv, PlaceInv, [ServerNext]_vars PROVE PlaceInv'
    OBVIOUS
  <2>1. CASE UNCHANGED vars
    BY <2>1 DEF vars, poolVars, connVars, queueVars, PlaceInv, PendingPlaced, BatchPlaced,
       ActivePlaced, MapInv, QueuesOnLiveLoop, Placed, Accepted
  <2>2. CASE ServerNext
    BY <2>2, PendingKept, TakenKept, MapKept DEF PlaceInv
  <2> QED BY <2>1, <2>2
<1> QED BY <1>1, <1>2, PoolHolds, ServerTypeCorrect, PTL DEF ServerSafeSpec, TypesInv

\* No functor is ever queued on a loop that does not exist, nor left on one that
\* has ended (TcpServer.cpp:48,123,134, EventLoop.cpp:157-172).
THEOREM QueuedOnLiveLoops == ServerSafeSpec => []QueuesOnLiveLoop
<1>1. PlaceInv => QueuesOnLiveLoop
  BY DEF PlaceInv
<1> QED BY <1>1, ServerPlaces, PTL

\* When the server is gone no connection can call back into it, and no loop has a
\* functor of its to run (TcpServer.cpp:37-52,114,123).
THEOREM CallsEndFirst == ServerSafeSpec => []ServerOutlivesCalls
<1>1. TypesInv /\ PlaceInv => ServerOutlivesCalls
  <2> SUFFICES ASSUME TypesInv, PlaceInv, own = "gone"
               PROVE  /\ \A c \in Conn : state[c] = "connected" => at[loopOf[c]] = "done"
                      /\ at[0] \notin InLoop
    BY DEF ServerOutlivesCalls
  <2>1. at[0] \notin InLoop
    BY DEF TypesInv, PoolInv, BaseInv
  <2>2. ASSUME NEW c \in Conn, state[c] = "connected"
        PROVE  at[loopOf[c]] = "done"
    <3>1. loopOf[c] # 0 /\ loopOf[c] \in Loop
      BY <2>2 DEF TypesInv, ServerTypeOK, PlaceInv, MapInv
    <3>2. loopOf[c] \in Thread
      BY <3>1, PoolAssumption DEF Loop, Thread
    <3> QED BY <3>2, PoolIsExact DEF TypesInv
  <2> QED BY <2>1, <2>2
<1> QED BY <1>1, ServerPlaces, PTL

-----------------------------------------------------------------------------
(***************************************************************************)
(* How the connections are dealt out to the loops of the pool.             *)
(***************************************************************************)
Served(l) == {c \in Conn : Accepted(c) /\ loopOf[c] = l}

\* start() has not returned.
BeforeStart == own \in Starting \cup {"new"}

\* k whole rounds have been dealt, and one more connection to each loop up to next_.
RoundsDealt(k) ==
    \A l \in 1 .. size :
        IsFiniteSet(Served(l)) /\ Cardinality(Served(l)) = k + (IF l <= next THEN 1 ELSE 0)

\* And no connection is dealt while loops_ still grows.
DealInv ==
    /\ BeforeStart => \A c \in Conn : ~Accepted(c)
    /\ (\A c \in Conn : ~Accepted(c)) => next = 0
    /\ \E k \in Nat : RoundsDealt(k)

NothingDealt == UNCHANGED <<next, loopOf>> /\ \A c \in Conn : Accepted(c)' <=> Accepted(c)

\* Only an accept makes a connection the business of a loop.
LEMMA OnlyAcceptDeals ==
  ASSUME TypesInv, PlaceInv, [ServerNext]_vars
  PROVE  \/ NothingDealt
         \/ /\ own = "started" /\ UNCHANGED <<own, size>>
            /\ \E c \in Conn : state[c] = "backlog" /\ NewConnection(c)
<1>1. /\ state \in [Conn -> {"absent", "backlog", "connecting", "connected", "disconnected"}]
      /\ loopOf \in [Conn -> Loop]
  BY DEF TypesInv, ServerTypeOK
<1>2. ASSUME UNCHANGED <<next, loopOf, state>>
      PROVE  NothingDealt
  BY <1>2 DEF NothingDealt, Accepted
<1>3. ASSUME NEW d \in Conn, Accepted(d), UNCHANGED <<next, loopOf>>,
             NEW s \in {"connecting", "connected", "disconnected"}, state' = [state EXCEPT ![d] = s]
      PROVE  NothingDealt
  BY <1>1, <1>3 DEF NothingDealt, Accepted
<1>4. ASSUME Accept
      PROVE  \/ NothingDealt
             \/ /\ own = "started" /\ UNCHANGED <<own, size>>
                /\ \E c \in Conn : state[c] = "backlog" /\ NewConnection(c)
  <2>1. own = "started" /\ UNCHANGED <<own, size>>
    BY <1>4 DEF Accept, poolVars, TypesInv, PoolInv, BaseInv, InLoop
  <2> QED BY <1>2, <1>4, <2>1 DEF Accept
<1>5. ASSUME NEW d \in Conn, ConnectDestroyed(d), UNCHANGED <<next, loopOf>>
      PROVE  NothingDealt
  BY <1>1, <1>5 DEF NothingDealt, ConnectDestroyed, Accepted
<1>6. ASSUME NEW d \in Conn, DestroyConnection(d)
      PROVE  NothingDealt
  BY <1>2, <1>5, <1>6 DEF DestroyConnection
<1>7. ASSUME NEW d \in Conn, Connect(d) \/ Close(d)
      PROVE  NothingDealt
  <2>1. UNCHANGED <<next, loopOf>>
        /\ \A c \in Conn : state'[c] = state[c] \/ (state[c] = "absent" /\ state'[c] = "backlog")
    BY <1>1, <1>7 DEF Connect, Close
  <2> QED BY <2>1 DEF NothingDealt, Accepted
<1>8. ASSUME NEW l \in Loop, NEW d \in Conn, HandleClose(l, d)
      PROVE  NothingDealt
  <2>1. Accepted(d)
    BY <1>8 DEF HandleClose, PlaceInv, ActivePlaced
  <2> QED BY <1>3, <1>8, <2>1 DEF HandleClose
<1>9. ASSUME NEW l \in Loop, RunFunctor(l)
      PROVE  NothingDealt
  <2>1. calls[l] + 1 \in 1 .. Len(batch[l])
    BY <1>9, NextFunctor DEF RunFunctor, TypesInv
  <2>2. PICK f \in Functor : f = batch[l][calls[l] + 1]
    BY <1>9, NextFunctor DEF RunFunctor, TypesInv
  <2>3. Accepted(f[2]) /\ f[2] \in Conn /\ UNCHANGED <<next, loopOf>>
    BY <1>9, <2>1, <2>2 DEF PlaceInv, BatchPlaced, Placed, Functor, RunFunctor
  <2>4. \/ state' = [state EXCEPT ![f[2]] = "connected"]
        \/ UNCHANGED state
        \/ ConnectDestroyed(f[2])
    BY <1>9, <2>2 DEF RunFunctor
  <2> QED BY <1>2, <1>3, <1>5, <2>3, <2>4
<1>10. ASSUME UNCHANGED vars \/ PoolStep
       PROVE  NothingDealt
  BY <1>2, <1>10 DEF vars, PoolStep, connVars
<1>11. ASSUME Listen \/ DestroyPool \/ CloseAcceptor \/ BaseEnds
       PROVE  NothingDealt
  BY <1>2, <1>11 DEF Listen, DestroyPool, CloseAcceptor, BaseEnds, DropFunctors, connVars
<1>12. ASSUME NEW i \in Thread, ThreadEnds(i)
       PROVE  NothingDealt
  BY <1>2, <1>12 DEF ThreadEnds, DropFunctors, connVars
<1>13. ASSUME NEW l \in Loop, PollReady(l) \/ Swap(l) \/ EndBatch(l)
       PROVE  NothingDealt
  BY <1>2, <1>13 DEF PollReady, Swap, EndBatch, connVars
<1>14. NothingDealt \/ Accept
  <2>1. CASE ServerStep
    BY <1>6, <1>11, <2>1 DEF ServerStep
  <2>2. ASSUME NEW l \in Loop, RoundStep(l)
        PROVE  NothingDealt
    BY <1>8, <1>9, <1>13, <2>2 DEF RoundStep
  <2> QED BY <1>7, <1>10, <1>12, <2>1, <2>2 DEF ServerNext
<1> QED BY <1>4, <1>14

\* The pool is started once, and start() is over when loops_ no longer grows
\* (TcpServer.cpp:61-71, EventLoopThreadPool.cpp:19-36).
LEMMA StartedOnce ==
  ASSUME [Next]_poolVars
  PROVE  (BeforeStart' => BeforeStart) /\ (size' # size => BeforeStart)
<1> USE DEF BeforeStart, Starting
<1>1. CASE Start \/ StartStep \/ SpuriousWakeup
  BY <1>1 DEF Start, StartStep, StartThread, SemWait, CondWait, GetLoop, StartReturns, SpuriousWakeup
<1>2. CASE Destroy \/ DestroyStep \/ Destroyed \/ BaseDies
  BY <1>2 DEF Destroy, DestroyStep, TestLoop, Detach, StoreQuit, Wake, Join, Destroyed, BaseDies
<1>3. ASSUME NEW i \in Thread, ThreadStep(i) \/ Die(i)
      PROVE  (BeforeStart' => BeforeStart) /\ UNCHANGED size
  BY <1>3 DEF ThreadStep, PostSem, Construct, Publish, Clear, Die
<1>4. ASSUME NEW l \in Loop, EnterLoop(l) \/ Leave(l) \/ QuitInLoop(l)
                               \/ Poll(l) \/ TakePending(l) \/ FunctorsDone(l)
      PROVE  UNCHANGED <<own, size>>
  BY <1>4 DEF EnterLoop, Leave, QuitInLoop, Poll, TakePending, FunctorsDone
<1>5. CASE UNCHANGED poolVars
  BY <1>5 DEF poolVars
<1> QED BY <1>1, <1>2, <1>3, <1>4, <1>5 DEF Next

\* One more connection, for the loop after the last one (EventLoopThreadPool.cpp:39-54).
LEMMA DealOne ==
  ASSUME ServerTypeOK, NEW k \in Nat, RoundsDealt(k), UNCHANGED size,
         NEW c \in Conn, state[c] = "backlog", NewConnection(c)
  PROVE  (\E j \in Nat : RoundsDealt(j)') /\ Accepted(c)'
<1>1. /\ state \in [Conn -> {"absent", "backlog", "connecting", "connected", "disconnected"}]
      /\ loopOf \in [Conn -> Loop] /\ size \in Nat /\ next \in Nat /\ (next = 0 \/ next < size)
  BY PoolAssumption DEF ServerTypeOK, TypeOK
<1>2. PICK s \in {"connecting", "connected"} : state' = [state EXCEPT ![c] = s]
  BY DEF NewConnection
<1>3. Accepted(c)' /\ ~Accepted(c) /\ \A d \in Conn : d # c => (Accepted(d)' <=> Accepted(d))
  BY <1>1, <1>2 DEF Accepted
<1>4. CASE size = 0
  <2>1. RoundsDealt(0)'
    BY <1>4 DEF RoundsDealt
  <2> QED BY <1>3, <2>1
<1>5. CASE size # 0
  <2>1. PICK m \in 1 .. size : m = next + 1
    BY <1>1, <1>5
  <2>2. loopOf' = [loopOf EXCEPT ![c] = m] /\ next' = NextIndex
    BY <1>5, <2>1 DEF NewConnection
  <2>3. c \notin Served(m) /\ Served(m)' = Served(m) \cup {c}
    BY <1>1, <1>3, <2>2 DEF Served
  <2>4. ASSUME NEW l \in 1 .. size, l # m PROVE Served(l)' = Served(l)
    BY <1>1, <1>3, <2>4, <2>2 DEF Served
  <2>5. IsFiniteSet(Served(m)) /\ Cardinality(Served(m)) = k
    BY <1>1, <2>1 DEF RoundsDealt
  <2>6. IsFiniteSet(Served(m)') /\ Cardinality(Served(m)') = k + 1
    BY <2>3, <2>5, FS_AddElement
  <2>7. ASSUME NEW l \in 1 .. size
        PROVE  IsFiniteSet(Served(l)') /\ Cardinality(Served(l)') = k + (IF l <= m THEN 1 ELSE 0)
    <3>1. CASE l = m
      BY <1>1, <2>6, <3>1
    <3>2. CASE l # m
      <4>1. IsFiniteSet(Served(l)) /\ Cardinality(Served(l)) = k + (IF l <= next THEN 1 ELSE 0)
        BY DEF RoundsDealt
      <4>2. l <= next <=> l <= m
        BY <1>1, <2>1, <3>2
      <4> QED BY <2>4, <3>2, <4>1, <4>2
    <3> QED BY <3>1, <3>2
  <2>8. CASE m < size
    <3>1. next' = m
      BY <1>1, <2>1, <2>8, <2>2 DEF NextIndex
    <3>2. RoundsDealt(k)'
      BY <2>7, <3>1 DEF RoundsDealt
    <3> QED BY <1>3, <3>2
  <2>9. CASE m = size
    <3>1. next' = 0 /\ k + 1 \in Nat
      BY <1>1, <2>1, <2>9, <2>2 DEF NextIndex
    <3>2. ASSUME NEW l \in 1 .. size
          PROVE  k + (IF l <= m THEN 1 ELSE 0) = k + 1 + (IF l <= next' THEN 1 ELSE 0)
      BY <1>1, <2>9, <3>1
    <3>3. RoundsDealt(k + 1)'
      BY <2>7, <3>2 DEF RoundsDealt
    <3> QED BY <1>3, <3>1, <3>3
  <2> QED BY <1>1, <2>1, <2>8, <2>9
<1> QED BY <1>4, <1>5

LEMMA DealKept ==
  ASSUME TypesInv, PlaceInv, DealInv, [ServerNext]_vars, [Next]_poolVars
  PROVE  DealInv'
<1>1. CASE NothingDealt
  <2> USE DEF NothingDealt
  <2>1. \A l : Served(l)' = Served(l)
    BY <1>1 DEF Served
  <2>2. \E k \in Nat : RoundsDealt(k)'
    <3>1. CASE UNCHANGED size
      BY <1>1, <2>1, <3>1 DEF DealInv, RoundsDealt
    <3>2. CASE size' # size
      <4>1. next' = 0 /\ \A c \in Conn : ~Accepted(c)
        BY <1>1, <3>2, StartedOnce DEF DealInv
      <4>2. \A l : Served(l)' = {}
        BY <2>1, <4>1 DEF Served
      <4>3. \A l \in 1 .. size' : ~(l <= next')
        BY <4>1
      <4>4. RoundsDealt(0)'
        BY <4>2, <4>3, FS_EmptySet DEF RoundsDealt
      <4> QED BY <4>4
    <3> QED BY <3>1, <3>2
  <2>3. BeforeStart' => BeforeStart
    BY StartedOnce
  <2> QED BY <1>1, <2>2, <2>3 DEF DealInv
<1>2. CASE /\ own = "started" /\ UNCHANGED <<own, size>>
           /\ \E c \in Conn : state[c] = "backlog" /\ NewConnection(c)
  <2>1. PICK c \in Conn : state[c] = "backlog" /\ NewConnection(c)
    BY <1>2
  <2>2. (\E j \in Nat : RoundsDealt(j)') /\ Accepted(c)'
    BY <1>2, <2>1, DealOne DEF DealInv, TypesInv
  <2>3. ~BeforeStart'
    BY <1>2 DEF BeforeStart, Starting
  <2> QED BY <2>2, <2>3 DEF DealInv
<1> QED BY <1>1, <1>2, OnlyAcceptDeals

\* However many clients come and whenever they go, no loop of the pool has been given
\* two connections more than another (EventLoopThreadPool.cpp:39-54).
THEOREM DealtEvenly == ServerSafeSpec => []RoundRobin
<1>1. Init => DealInv
  <2> SUFFICES ASSUME Init PROVE DealInv
    OBVIOUS
  <2>1. size = 0 /\ next = 0 /\ \A c \in Conn : ~Accepted(c)
    BY DEF Init, PoolInit, Accepted
  <2>2. RoundsDealt(0)
    BY <2>1 DEF RoundsDealt
  <2> QED BY <2>1, <2>2 DEF DealInv
<1>2. DealInv => RoundRobin
  <2> SUFFICES ASSUME DealInv, NEW l \in 1 .. size, NEW j \in 1 .. size
               PROVE  Cardinality(Served(l)) <= Cardinality(Served(j)) + 1
    BY DEF RoundRobin, Served
  <2>1. PICK k \in Nat : RoundsDealt(k)
    BY DEF DealInv
  <2>2. /\ Cardinality(Served(l)) \in {k, k + 1}
        /\ Cardinality(Served(j)) \in {k, k + 1}
    BY <2>1 DEF RoundsDealt
  <2> QED BY <2>2
<1>3. (TypesInv /\ PlaceInv) /\ DealInv /\ [ServerNext]_vars /\ [Next]_poolVars => DealInv'
  BY DealKept
<1> QED BY <1>1, <1>2, <1>3, ServerPlaces, ServerImplementsPool, PTL DEF ServerSafeSpec, SafeSpec

=============================================================================
