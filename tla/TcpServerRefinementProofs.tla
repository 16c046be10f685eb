---------------------- MODULE TcpServerRefinementProofs ----------------------
(***************************************************************************)
(* TcpServer implements ConnectionLife, for any number of threads and      *)
(* clients: every step of the server is one stage of one connection's      *)
(* life, the release of some connections, or nothing.                      *)
(***************************************************************************)
EXTENDS TcpServerLifeProofs

BaseStopped == at[0] \in {"left", "done"}

\* The stage of a connection in state s, whose object somebody holds if h.
StageOf(s, h) ==
    IF s \in {"absent", "backlog"} THEN "absent"
    ELSE IF ~h THEN "gone"
    ELSE IF s = "connecting" THEN "opening"
    ELSE IF s = "connected" THEN "up"
    ELSE "down"

LEMMA LifeIsStage ==
  ASSUME NEW c,
         state[c] \in {"absent", "backlog", "connecting", "connected", "disconnected"},
         state'[c] \in {"absent", "backlog", "connecting", "connected", "disconnected"}
  PROVE  Life(c) = StageOf(state[c], Held(c)) /\ Life(c)' = StageOf(state'[c], Held(c)')
<1>1. Life(c) = StageOf(state[c], Held(c))
  BY DEF Life, StageOf, Accepted, Freed
<1>2. Life(c)' = StageOf(state'[c], Held(c)')
  BY DEF Life, StageOf, Accepted, Freed
<1> QED BY <1>1, <1>2

-----------------------------------------------------------------------------
(***************************************************************************)
(* The steps of ConnectionLife.                                            *)
(***************************************************************************)
Implemented == [Lives!Next]_(Lives!vars)

LEMMA OneGoesOn ==
  ASSUME BaseStopped' = BaseStopped, NEW c \in Conn,
         \A d \in Conn : d # c => Life(d)' = Life(d),
         \/ Life(c)' = Life(c)
         \/ Life(c) = "absent" /\ Life(c)' \in {"opening", "up"}
         \/ Life(c) = "opening" /\ Life(c)' = "up"
         \/ Life(c) = "up" /\ Life(c)' = "down"
  PROVE  Implemented
<1> DEFINE f == [d \in Conn |-> Life(d)]
           g == [d \in Conn |-> Life(d)']
<1>1. g = [f EXCEPT ![c] = Life(c)'] /\ f[c] = Life(c)
  OBVIOUS
<1>2. CASE Life(c)' = Life(c)
  <2>1. g = f
    BY <1>1, <1>2
  <2> QED BY <2>1 DEF Implemented, Lives!vars, BaseStopped
<1>3. CASE Life(c) = "absent" /\ Life(c)' \in {"opening", "up"}
  BY <1>1, <1>3 DEF Implemented, Lives!Next, Lives!Open, BaseStopped
<1>4. CASE Life(c) = "opening" /\ Life(c)' = "up"
  BY <1>1, <1>4 DEF Implemented, Lives!Next, Lives!Up, BaseStopped
<1>5. CASE Life(c) = "up" /\ Life(c)' = "down"
  BY <1>1, <1>5 DEF Implemented, Lives!Next, Lives!Down, BaseStopped
<1> QED BY <1>2, <1>3, <1>4, <1>5

LEMMA SomeAreFreed ==
  ASSUME BaseStopped' = BaseStopped,
         \A d \in Conn :
            \/ Life(d)' = Life(d)
            \/ /\ Life(d)' = "gone"
               /\ Life(d) = "down" \/ (BaseStopped /\ Life(d) \in {"opening", "up"})
  PROVE  Implemented
<1> DEFINE cs == {d \in Conn : Life(d)' # Life(d)}
<1>1. cs \in SUBSET Conn
  OBVIOUS
<1>2. [d \in Conn |-> Life(d)'] = [d \in Conn |-> IF d \in cs THEN "gone" ELSE [e \in Conn |-> Life(e)][d]]
  OBVIOUS
<1>3. \A d \in cs : Life(d) = "down" \/ (BaseStopped /\ Life(d) \in {"opening", "up"})
  OBVIOUS
<1>4. Lives!Free(cs)
  BY <1>2, <1>3 DEF Lives!Free, BaseStopped
<1> QED BY <1>1, <1>4 DEF Implemented, Lives!Next

LEMMA NobodyMoves ==
  ASSUME BaseStopped => BaseStopped', \A d \in Conn : Life(d)' = Life(d)
  PROVE  Implemented
<1>1. [d \in Conn |-> Life(d)'] = [d \in Conn |-> Life(d)]
  OBVIOUS
<1>2. CASE BaseStopped'
  BY <1>1, <1>2 DEF Implemented, Lives!Next, Lives!Stop, BaseStopped
<1>3. CASE ~BaseStopped'
  BY <1>1, <1>3 DEF Implemented, Lives!vars, BaseStopped
<1> QED BY <1>2, <1>3

-----------------------------------------------------------------------------
(***************************************************************************)
(* Who holds a connection after a step.                                    *)
(***************************************************************************)
Named(l, c) == \E f \in Range(pending[l]) \cup Range(batch[l]) : f[2] = c

LEMMA HeldByName ==
  ASSUME NEW c
  PROVE  /\ Held(c) <=> c \in connections \/ \E l \in Loop : Named(l, c)
         /\ Held(c)' <=> c \in connections' \/ \E l \in Loop : Named(l, c)'
BY DEF Held, Named

\* queueInLoop binds one more shared_ptr (EventLoop.cpp:157-160).
LEMMA QueueHolds ==
  ASSUME AllInv, NEW l \in Loop, NEW op, NEW c \in Conn, <<op, c>> \in Functor,
         Queue(l, op, c), UNCHANGED batch
  PROVE  /\ Named(l, c)'
         /\ \A k \in Loop, d \in Conn : d # c => (Named(k, d)' <=> Named(k, d))
<1>1. pending[l] \in Seq(Functor) /\ pending \in [Loop -> Seq(Functor)]
  BY Shapes
<1>2. pending'[l] = Append(pending[l], <<op, c>>) /\ \A k \in Loop : k # l => pending'[k] = pending[k]
  BY <1>1 DEF Queue
<1>3. Range(pending'[l]) = Range(pending[l]) \cup {<<op, c>>}
  <2> DEFINE n == Len(pending[l])
  <2>1. /\ n \in Nat /\ DOMAIN pending[l] = 1 .. n /\ DOMAIN pending'[l] = 1 .. n + 1
        /\ pending'[l][n + 1] = <<op, c>> /\ \A i \in 1 .. n : pending'[l][i] = pending[l][i]
    BY <1>1, <1>2
  <2>2. \A i \in 1 .. n + 1 : i \in 1 .. n \/ i = n + 1
    BY <2>1
  <2>3. 1 .. n \subseteq 1 .. n + 1 /\ n + 1 \in 1 .. n + 1
    BY <2>1
  <2> QED BY <2>1, <2>2, <2>3 DEF Range
<1>4. <<op, c>>[2] = c
  OBVIOUS
<1>5. Named(l, c)'
  BY <1>3, <1>4 DEF Named
<1>6. ASSUME NEW k \in Loop, NEW d \in Conn, d # c
      PROVE  Named(k, d)' <=> Named(k, d)
  <2>1. CASE k = l
    BY <1>3, <1>4, <1>6, <2>1 DEF Named
  <2>2. CASE k # l
    BY <1>2, <2>2 DEF Named
  <2> QED BY <2>1, <2>2
<1> QED BY <1>5, <1>6

\* What a functor that is being called is bound to is held (EventLoop.cpp:223-226).
LEMMA CalledIsHeld ==
  ASSUME AllInv, NEW l \in Loop, calls[l] < Len(batch[l])
  PROVE  Named(l, batch[l][calls[l] + 1][2])
<1>1. batch[l] \in Seq(Functor)
  BY Shapes
<1>2. calls[l] + 1 \in DOMAIN batch[l]
  BY <1>1, Shapes, NextFunctor
<1> QED BY <1>2 DEF Named, Range

\* The rest of the connections, and with them the whole server.
LEMMA SameStage ==
  ASSUME AllInv, NEW d \in Conn, state'[d] = state[d], Held(d)' <=> Held(d)
  PROVE  Life(d)' = Life(d)
<1>1. state[d] \in {"absent", "backlog", "connecting", "connected", "disconnected"}
  BY Shapes
<1> QED BY <1>1, LifeIsStage DEF StageOf

\* References go, and nothing else changes: only what is down is freed, or what
\* the destructor of the server has let go of.
LEMMA ReleaseFrees ==
  ASSUME AllInv, UNCHANGED <<state, connections>>, BaseStopped' = BaseStopped,
         \A l \in Loop, d \in Conn : Named(l, d)' => Named(l, d)
  PROVE  Implemented
<1> SUFFICES ASSUME NEW d \in Conn
             PROVE  \/ Life(d)' = Life(d)
                    \/ /\ Life(d)' = "gone"
                       /\ Life(d) = "down" \/ (BaseStopped /\ Life(d) \in {"opening", "up"})
  BY SomeAreFreed
<1>1. state[d] \in {"absent", "backlog", "connecting", "connected", "disconnected"} /\ LifeOf(d)
  BY Shapes
<1>2. Held(d)' => Held(d)
  BY HeldByName
<1>3. CASE Held(d)' <=> Held(d)
  BY <1>3, SameStage
<1>4. CASE Held(d) /\ ~Held(d)'
  <2>1. d \notin connections
    BY <1>4, HeldByName
  <2>2. state[d] \in {"connecting", "connected"} => BaseStopped
    BY <1>1, <2>1 DEF LifeOf, BaseStopped
  <2> QED BY <1>1, <1>4, <2>2, LifeIsStage DEF StageOf
<1> QED BY <1>2, <1>3, <1>4

-----------------------------------------------------------------------------
(***************************************************************************)
(* The steps of the server.                                                *)
(***************************************************************************)
\* newConnection: the server and the loop hold what it makes (TcpServer.cpp:74-117).
LEMMA AcceptOpens ==
  ASSUME AllInv, Accept
  PROVE  Implemented
<1>1. BaseStopped' = BaseStopped /\ UNCHANGED batch
  BY DEF Accept, poolVars, BaseStopped
<1>2. CASE UNCHANGED <<state, connections, pending>>
  <2>1. \A d \in Conn : Held(d)' <=> Held(d)
    BY <1>1, <1>2 DEF Held
  <2>2. \A d \in Conn : Life(d)' = Life(d)
    BY <1>2, <2>1, SameStage
  <2> QED BY <1>1, <2>2, NobodyMoves
<1>3. ASSUME NEW c \in Conn, state[c] = "backlog", NewConnection(c)
      PROVE  Implemented
  <2>1. PICK l : /\ l = IF size = 0 THEN 0 ELSE next + 1
                 /\ connections' = connections \cup {c}
                 /\ \/ state' = [state EXCEPT ![c] = "connected"] /\ UNCHANGED pending
                    \/ state' = [state EXCEPT ![c] = "connecting"] /\ Queue(l, "connectEstablished", c)
    BY <1>3 DEF NewConnection
  <2>2. l \in Loop /\ <<"connectEstablished", c>> \in Functor
    <3>1. NumThreads \in Nat /\ size \in 0 .. NumThreads /\ next \in Nat /\ (next = 0 \/ next < size)
      BY Shapes, PoolAssumption DEF ServerTypeOK, TypeOK
    <3>2. l \in 0 .. NumThreads
      BY <2>1, <3>1
    <3>3. <<"connectEstablished", c>> \in Functor
      BY DEF Functor
    <3> QED BY <3>2, <3>3 DEF Loop
  <2>3. ASSUME NEW d \in Conn, d # c PROVE Life(d)' = Life(d)
    <3>1. state'[d] = state[d] /\ (d \in connections' <=> d \in connections)
      BY <2>1, <2>3, Shapes
    <3>2. \A k \in Loop : Named(k, d)' <=> Named(k, d)
      <4>1. CASE UNCHANGED pending
        BY <1>1, <4>1 DEF Named
      <4>2. CASE Queue(l, "connectEstablished", c)
        BY <1>1, <2>2, <2>3, <4>2, QueueHolds
      <4> QED BY <2>1, <4>1, <4>2
    <3> QED BY <3>1, <3>2, HeldByName, SameStage
  <2>4. state'[c] \in {"connecting", "connected"} /\ Held(c)'
    BY <2>1, Shapes DEF Held
  <2>5. Life(c) = "absent" /\ Life(c)' \in {"opening", "up"}
    BY <1>3, <2>4, LifeIsStage DEF StageOf
  <2> QED BY <1>1, <2>3, <2>5, OneGoesOn
<1> QED BY <1>2, <1>3 DEF Accept

\* handleClose, and the removal it asks for (TcpConnection.cpp:250-260,
\* TcpServer.cpp:120-135).
LEMMA CloseGoesDown ==
  ASSUME AllInv, NEW l \in Loop, NEW c \in Conn, HandleClose(l, c)
  PROVE  Implemented
<1>1. BaseStopped' = BaseStopped /\ UNCHANGED batch /\ state' = [state EXCEPT ![c] = "disconnected"]
  BY DEF HandleClose, poolVars, BaseStopped
<1>2. state[c] = "connected" /\ loopOf[c] = l /\ at[l] = "dispatch"
  BY DEF HandleClose, AllInv, LifeInv, ActiveUp, PlaceInv, ActivePlaced
<1>3. Held(c)
  <2>1. LifeOf(c)
    BY Shapes
  <2>2. CASE c \in connections
    BY <2>2 DEF Held
  <2>3. CASE c \notin connections
    <3>1. Todo(l, Destruction(c)) /\ Destruction(c)[2] = c
      BY <1>2, <2>1, <2>3 DEF LifeOf, Todos, Destruction
    <3> QED BY <3>1, Shapes, TodoHolds
  <2> QED BY <2>2, <2>3
<1>4. PICK k \in Loop, op \in {"removeConnectionInLoop", "connectDestroyed"} :
        Queue(k, op, c) /\ connections' \in {connections, connections \ {c}}
  BY <1>2, Shapes DEF HandleClose, RemoveConnection
<1>5. <<op, c>> \in Functor
  BY DEF Functor
<1>6. ASSUME NEW d \in Conn, d # c PROVE Life(d)' = Life(d)
  <2>1. state'[d] = state[d] /\ (d \in connections' <=> d \in connections)
    BY <1>1, <1>4, <1>6, Shapes
  <2>2. \A j \in Loop : Named(j, d)' <=> Named(j, d)
    BY <1>1, <1>4, <1>5, <1>6, QueueHolds
  <2> QED BY <2>1, <2>2, HeldByName, SameStage
<1>7. Held(c)' /\ state'[c] = "disconnected"
  <2>1. Named(k, c)'
    BY <1>1, <1>4, <1>5, QueueHolds
  <2> QED BY <1>1, <2>1, HeldByName, Shapes
<1>8. Life(c) = "up" /\ Life(c)' = "down"
  BY <1>2, <1>3, <1>7, LifeIsStage DEF StageOf
<1> QED BY <1>1, <1>6, <1>8, OneGoesOn

\* A functor that runs is still bound in the batch (EventLoop.cpp:211-228).
LEMMA FunctorGoesOn ==
  ASSUME AllInv, NEW l \in Loop, RunFunctor(l)
  PROVE  Implemented
<1>1. calls[l] < Len(batch[l]) /\ BaseStopped' = BaseStopped /\ UNCHANGED batch
  BY DEF RunFunctor, poolVars, BaseStopped
<1>2. PICK f \in Functor : f = batch[l][calls[l] + 1]
  BY <1>1, Shapes, NextFunctor
<1>3. PICK c \in Conn : c = f[2]
  BY <1>2 DEF Functor
<1>4. Named(l, c)
  BY <1>1, <1>2, <1>3, CalledIsHeld
<1>5. Named(l, c)'
  <2>1. \E g \in Range(batch'[l]) : g[2] = c
    <3>1. f \in Range(batch[l])
      <4>1. batch[l] \in Seq(Functor) /\ calls[l] + 1 \in DOMAIN batch[l]
        BY <1>1, Shapes, NextFunctor
      <4> QED BY <1>2, <4>1 DEF Range
    <3> QED BY <1>1, <1>3, <3>1
  <2> QED BY <2>1 DEF Named
<1>6. Held(c) /\ Held(c)'
  BY <1>4, <1>5, HeldByName
<1>7. f \in Todos[l] /\ Placed(l, f)
  <2>1. f \in Todos[l]
    <3>1. /\ batch[l] \in Seq(Functor) /\ pending[l] \in Seq(Functor) /\ calls[l] \in Nat
      BY Shapes
    <3> DEFINE n == SizeOf(batch[l], calls[l], pending[l])
               w == WorkOf(batch[l], calls[l], pending[l])
    <3>2. n \in Nat /\ n > 0 /\ w[1] = f
      BY <1>1, <1>2, <3>1, WorkPop DEF IsPop
    <3>3. Has(n, w, f)
      BY <3>2 DEF Has
    <3> QED BY <1>2, <3>3 DEF Todo, Todos
  <2> QED BY <2>1, Shapes, WorkPlaced DEF AllInv
<1>8. ASSUME UNCHANGED <<connections, pending>>, \A d \in Conn : d # c => state'[d] = state[d],
             \/ state'[c] = state[c]
             \/ state[c] = "connecting" /\ state'[c] = "connected"
             \/ state[c] = "connected" /\ state'[c] = "disconnected"
      PROVE  Implemented
  <2>1. \A d \in Conn : Held(d)' <=> Held(d)
    BY <1>1, <1>8 DEF Held
  <2>2. \A d \in Conn : d # c => Life(d)' = Life(d)
    BY <1>8, <2>1, SameStage
  <2>3. \/ Life(c)' = Life(c)
        \/ Life(c) = "opening" /\ Life(c)' = "up"
        \/ Life(c) = "up" /\ Life(c)' = "down"
    <3>1. CASE state'[c] = state[c]
      BY <2>1, <3>1, SameStage
    <3>2. CASE state'[c] # state[c]
      BY <1>6, <1>8, <3>2, LifeIsStage DEF StageOf
    <3> QED BY <3>1, <3>2
  <2> QED BY <1>1, <2>2, <2>3, OneGoesOn
<1>9. CASE f[1] = "connectEstablished" /\ state' = [state EXCEPT ![c] = "connected"]
           /\ UNCHANGED <<connections, pending>>
  <2>1. f = Established(c) /\ loopOf[c] = l
    BY <1>3, <1>7, <1>9 DEF Placed, Established, Functor
  <2>2. state[c] = "connecting"
    BY <1>7, <2>1, Shapes DEF LifeOf
  <2> QED BY <1>8, <1>9, <2>2, Shapes
<1>10. CASE f[1] = "removeConnectionInLoop" /\ RemoveConnection(c) /\ UNCHANGED state
  <2>1. <<"connectDestroyed", c>> \in Functor /\ loopOf[c] \in Loop
    BY Shapes DEF Functor
  <2>2. Queue(loopOf[c], "connectDestroyed", c) /\ connections' = connections \ {c}
    BY <1>10 DEF RemoveConnection
  <2>3. ASSUME NEW d \in Conn PROVE Life(d)' = Life(d)
    <3>1. CASE d = c
      BY <1>6, <1>10, <3>1, SameStage
    <3>2. CASE d # c
      <4>1. \A j \in Loop : Named(j, d)' <=> Named(j, d)
        BY <1>1, <2>1, <2>2, <3>2, QueueHolds
      <4>2. d \in connections' <=> d \in connections
        BY <2>2, <3>2
      <4> QED BY <1>10, <4>1, <4>2, HeldByName, SameStage
    <3> QED BY <3>1, <3>2
  <2> QED BY <1>1, <2>3, NobodyMoves
<1>11. CASE f[1] = "connectDestroyed" /\ ConnectDestroyed(c) /\ UNCHANGED <<connections, pending>>
  <2>1. /\ \A d \in Conn : d # c => state'[d] = state[d]
        /\ state'[c] = IF state[c] = "connected" THEN "disconnected" ELSE state[c]
    BY <1>11, Shapes DEF ConnectDestroyed
  <2> QED BY <1>8, <1>11, <2>1
<1> QED BY <1>2, <1>3, <1>9, <1>10, <1>11 DEF RunFunctor

\* One turn of the loop of ~TcpServer (TcpServer.cpp:37-52).
LEMMA DestructorReleases ==
  ASSUME AllInv, NEW c \in Conn, DestroyConnection(c)
  PROVE  Implemented
<1>1. /\ BaseStopped' = BaseStopped /\ BaseStopped /\ UNCHANGED batch
      /\ connections' = connections \ {c} /\ c \in connections
  BY DEF DestroyConnection, poolVars, BaseStopped
<1>2. Held(c) /\ Accepted(c)
  BY <1>1 DEF Held, AllInv, PlaceInv, MapInv
<1>3. \A d \in Conn : d # c => (d \in connections' <=> d \in connections)
  BY <1>1
<1>4. CASE ConnectDestroyed(c) /\ UNCHANGED pending
  <2>1. /\ \A d \in Conn : d # c => state'[d] = state[d]
        /\ state'[c] = IF state[c] = "connected" THEN "disconnected" ELSE state[c]
    BY <1>4, Shapes DEF ConnectDestroyed
  <2> DEFINE States == {"connecting", "connected", "disconnected"}
  <2>2. state[c] \in States /\ state'[c] \in States
    <3>1. state[c] \in {"absent", "backlog", "connecting", "connected", "disconnected"}
      BY Shapes
    <3>2. state[c] \in States
      BY <1>2, <3>1 DEF Accepted
    <3> QED BY <2>1, <3>2
  <2>3. Life(c) = StageOf(state[c], Held(c)) /\ Life(c)' = StageOf(state'[c], Held(c)')
    BY <2>2, LifeIsStage
  <2>4. \A d \in Conn : d # c => Life(d)' = Life(d)
    <3>1. \A k \in Loop, d \in Conn : Named(k, d)' <=> Named(k, d)
      BY <1>1, <1>4 DEF Named
    <3> QED BY <1>3, <2>1, <3>1, HeldByName, SameStage
  <2>5. CASE Held(c)'
    <3>1. \/ Life(c)' = Life(c)
          \/ Life(c) = "up" /\ Life(c)' = "down"
      BY <1>2, <2>1, <2>2, <2>3, <2>5 DEF StageOf
    <3> QED BY <1>1, <2>4, <3>1, OneGoesOn
  <2>6. CASE ~Held(c)'
    <3>1. Life(c)' = "gone" /\ Life(c) \in {"opening", "up", "down"}
      BY <1>2, <2>2, <2>3, <2>6 DEF StageOf
    <3> QED BY <1>1, <2>4, <3>1, SomeAreFreed
  <2> QED BY <2>5, <2>6
<1>5. CASE Queue(loopOf[c], "connectDestroyed", c) /\ UNCHANGED state
  <2>1. PICK l \in Loop : Queue(l, "connectDestroyed", c)
    BY <1>5, Shapes
  <2>2. /\ Named(l, c)'
        /\ \A k \in Loop, d \in Conn : d # c => (Named(k, d)' <=> Named(k, d))
    <3>1. <<"connectDestroyed", c>> \in Functor
      BY DEF Functor
    <3> QED BY <1>1, <2>1, <3>1, QueueHolds
  <2>3. Held(c)'
    BY <2>2, HeldByName
  <2>4. \A d \in Conn : Held(d)' <=> Held(d)
    BY <1>2, <1>3, <2>2, <2>3, HeldByName
  <2>5. \A d \in Conn : Life(d)' = Life(d)
    BY <1>5, <2>4, SameStage
  <2> QED BY <1>1, <2>5, NobodyMoves
<1> QED BY <1>4, <1>5 DEF DestroyConnection

-----------------------------------------------------------------------------
(***************************************************************************)
(* The theorem.                                                            *)
(***************************************************************************)
\* The steps that only move or drop functors (EventLoop.cpp:57-65,211-228).
LEMMA LoopsRelease ==
  ASSUME AllInv, AtStep,
         \/ \E l \in Loop : Swap(l) \/ EndBatch(l)
         \/ \E i \in Thread : ThreadEnds(i)
         \/ BaseEnds /\ BaseStopped
  PROVE  Implemented
<1>1. /\ pending \in [Loop -> Seq(Functor)] /\ batch \in [Loop -> Seq(Functor)]
      /\ at \in [Loop -> ThreadLocation] /\ 0 \in Loop
  BY Shapes
<1>2. Range(<<>>) = {}
  BY DEF Range
<1>3. ASSUME NEW l \in Loop, Swap(l) PROVE Implemented
  <2>1. batch[l] = <<>> /\ at[l] = "dispatch" /\ at' = [at EXCEPT ![l] = "functors"]
    BY <1>3 DEF Swap, TakePending, GoTo, AllInv, TypesInv, BatchInv
  <2>2. /\ batch'[l] = pending[l] /\ pending'[l] = <<>> /\ UNCHANGED <<state, connections>>
        /\ \A k \in Loop : k # l => batch'[k] = batch[k] /\ pending'[k] = pending[k]
    BY <1>1, <1>3 DEF Swap, connVars
  <2>3. \A k \in Loop : Range(pending'[k]) \cup Range(batch'[k]) = Range(pending[k]) \cup Range(batch[k])
    BY <1>2, <2>1, <2>2
  <2>4. BaseStopped' = BaseStopped
    BY <1>1, <2>1 DEF BaseStopped
  <2> QED BY <2>2, <2>3, <2>4, ReleaseFrees DEF Named
<1>4. ASSUME NEW l \in Loop, EndBatch(l) PROVE Implemented
  <2>1. /\ at[l] = "functors" /\ at' = [at EXCEPT ![l] = "top"]
        /\ UNCHANGED <<state, connections, pending>>
        /\ batch'[l] = <<>> /\ \A k \in Loop : k # l => batch'[k] = batch[k]
    BY <1>1, <1>4 DEF EndBatch, FunctorsDone, GoTo, connVars
  <2>2. \A k \in Loop : Range(batch'[k]) \subseteq Range(batch[k])
    BY <1>2, <2>1
  <2>3. BaseStopped' = BaseStopped
    BY <1>1, <2>1 DEF BaseStopped
  <2> QED BY <2>1, <2>2, <2>3, ReleaseFrees DEF Named
<1>5. ASSUME NEW l \in Loop, DropFunctors(l), BaseStopped' = BaseStopped PROVE Implemented
  <2>1. /\ UNCHANGED <<state, connections, batch>>
        /\ pending'[l] = <<>> /\ \A k \in Loop : k # l => pending'[k] = pending[k]
    BY <1>1, <1>5 DEF DropFunctors, connVars
  <2>2. \A k \in Loop : Range(pending'[k]) \subseteq Range(pending[k])
    BY <1>2, <2>1
  <2> QED BY <1>5, <2>1, <2>2, ReleaseFrees DEF Named
<1>6. ASSUME NEW i \in Thread, ThreadEnds(i) PROVE Implemented
  <2>1. i \in Loop /\ i # 0
    BY PoolAssumption DEF Thread, Loop
  <2>2. at'[0] = at[0] /\ DropFunctors(i)
    BY <1>1, <1>6, <2>1 DEF ThreadEnds, Die, GoTo
  <2> QED BY <1>5, <2>1, <2>2 DEF BaseStopped
<1>7. ASSUME BaseEnds, BaseStopped PROVE Implemented
  <2>1. BaseStopped' = BaseStopped
    BY <1>7 DEF AtStep, BaseStopped
  <2> QED BY <1>1, <1>5, <1>7, <2>1 DEF BaseEnds
<1> QED BY <1>3, <1>4, <1>6, <1>7

\* The server implements ConnectionLife: a connection object is made for an
\* accepted client, goes up, goes down and is freed, in this order, and before
\* the base loop has stopped nothing is freed that has not been up and down
\* (TcpServer.cpp:37-52,74-135).
THEOREM ServerImplementsLife == ServerSafeSpec => ImplementsLife
<1>1. Init => Lives!Init
  <2> SUFFICES ASSUME Init PROVE Lives!Init
    OBVIOUS
  <2>1. at[0] = "published"
    BY PoolAssumption DEF Init, PoolInit, Loop
  <2>2. \A c \in Conn : Life(c) = "absent"
    BY DEF Init, Life, Accepted, Freed
  <2> QED BY <2>1, <2>2 DEF Lives!Init
<1>2. AllInv /\ [ServerNext]_vars => Implemented
  <2> SUFFICES ASSUME AllInv, [ServerNext]_vars PROVE Implemented
    OBVIOUS
  <2>1. AtStep
    BY AtMoves DEF AllInv
  <2>2. BaseStopped => BaseStopped'
    BY <2>1 DEF AtStep, BaseStopped
  <2>3. ASSUME UNCHANGED <<state, connections, pending, batch>>
        PROVE  Implemented
    <3>1. \A d \in Conn : Held(d)' <=> Held(d)
      BY <2>3 DEF Held
    <3>2. \A d \in Conn : Life(d)' = Life(d)
      BY <2>3, <3>1, SameStage
    <3> QED BY <2>2, <3>2, NobodyMoves
  <2>4. CASE UNCHANGED vars
    BY <2>3, <2>4 DEF vars, connVars, queueVars
  <2>5. CASE PoolStep \/ Listen \/ DestroyPool \/ CloseAcceptor
    BY <2>3, <2>5 DEF PoolStep, Listen, DestroyPool, CloseAcceptor, connVars, queueVars
  <2>6. ASSUME NEW l \in Loop, PollReady(l)
        PROVE  Implemented
    BY <2>3, <2>6 DEF PollReady, connVars
  <2>7. ASSUME NEW c \in Conn, Connect(c)
        PROVE  Implemented
    <3>1. UNCHANGED <<connections, pending, batch>> /\ state[c] = "absent" /\ state'[c] = "backlog"
          /\ \A d \in Conn : d # c => state'[d] = state[d]
      BY <2>7, Shapes DEF Connect, queueVars
    <3>2. \A d \in Conn : Held(d)' <=> Held(d)
      BY <3>1 DEF Held
    <3>3. Life(c)' = Life(c)
      BY <3>1, LifeIsStage DEF StageOf
    <3>4. \A d \in Conn : Life(d)' = Life(d)
      BY <3>1, <3>2, <3>3, SameStage
    <3> QED BY <2>2, <3>4, NobodyMoves
  <2>8. ASSUME NEW c \in Conn, Close(c)
        PROVE  Implemented
    BY <2>3, <2>8 DEF Close, queueVars
  <2>9. CASE BaseEnds
    <3>1. CASE BaseStopped
      BY <2>1, <2>9, <3>1, LoopsRelease
    <3>2. CASE ~BaseStopped
      <4>1. at[0] = "published"
        BY <2>9, <3>2 DEF BaseEnds, BaseDies, BaseStopped, AllInv, TypesInv, PoolInv, BaseInv, InLoop
      <4>2. \A d \in Conn : ~Accepted(d) /\ state'[d] = state[d]
        BY <2>9, <4>1, Shapes DEF LifeOf, BaseEnds, DropFunctors, connVars
      <4>3. \A d \in Conn : Life(d)' = Life(d)
        BY <4>2 DEF Life, Accepted, Freed
      <4> QED BY <2>2, <4>3, NobodyMoves
    <3> QED BY <3>1, <3>2
  <2> QED
    BY <2>1, <2>4, <2>5, <2>6, <2>7, <2>8, <2>9, AcceptOpens, CloseGoesDown, FunctorGoesOn,
       DestructorReleases, LoopsRelease
       DEF ServerNext, ServerStep, RoundStep
<1> QED
  BY <1>1, <1>2, ServerLives, PTL DEF ServerSafeSpec, ImplementsLife, Lives!Spec, Implemented

=============================================================================
