--------------------- MODULE EventLoopThreadPoolProofs ----------------------
(***************************************************************************)
(* Theorems about EventLoopThreadPool, for any number of threads and any   *)
(* set of loops that a callback may quit.                                  *)
(***************************************************************************)
EXTENDS EventLoopThreadPool, TLAPS

\* Where the owner stands in its two passes over the threads.
OwnerInv ==
    /\ own = "new" => cur = 1
    /\ own \in Starting \cup {"new"} => size = cur - 1
    /\ own \notin Starting \cup {"new"} => size = NumThreads
    /\ own \in (Starting \ {"starting"}) \cup (Destroying \ {"testing"}) \cup {"crashed"} =>
           cur \in Thread
    /\ own = "gone" => cur > NumThreads

\* The destructor has been at thread i, and has told its loop to quit if it was there.
Told(i) ==
    /\ own \in Destroying \cup {"crashed", "gone"}
    /\ i < cur \/ (i = cur /\ own \in {"waking", "joining"})

\* A thread exists once the owner has created it.
FreshInv ==
    \A i \in Thread :
        i > size /\ own \in Starting \cup {"new"} /\ ~(i = cur /\ own \in Starting \ {"starting"}) =>
            at[i] = "none"

\* loop_ is set from threadFunc's notification to the end of its loop().
PtrInv == \A i \in Thread : ptr[i] <=> at[i] \in InLoop \cup {"published", "left"}

\* Threads below the owner's first pass have published their loop.
SeenInv ==
    \A i \in Thread : i <= size => at[i] \in InLoop \cup {"published", "left", "cleared", "done"}

\* A thread's loop ends only if a callback or the destructor told it to.
CauseInv ==
    \A i \in Thread :
        quit[i] \/ at[i] \in {"left", "cleared", "done"} => i \in early \/ Told(i)

\* What the destructor's second pass leaves behind.
JoinedInv ==
    own \in Destroying \cup {"gone"} =>
        \A i \in Thread : i < cur => at[i] = "done" \/ i \in early

IInv == FreshInv /\ PtrInv /\ SeenInv /\ CauseInv /\ JoinedInv /\ (own = "crashed" => cur \in early)

-----------------------------------------------------------------------------
OwnerStep ==
    \/ Start \/ StartStep \/ SpuriousWakeup \/ Destroy \/ DestroyStep \/ Destroyed

\* Every variable has its type (EventLoopThreadPool.h:31-38).
THEOREM PoolTypeCorrect == SafeSpec => [](TypeOK /\ OwnerInv)
<1>1. PoolInit => TypeOK /\ OwnerInv
  BY PoolAssumption DEF PoolInit, TypeOK, OwnerInv, Loop, Thread, Starting, Destroying,
     OwnerLocation, ThreadLocation, Alive
<1>2. TypeOK /\ OwnerInv /\ [Next]_poolVars => (TypeOK /\ OwnerInv)'
  <2> SUFFICES ASSUME TypeOK, OwnerInv, [Next]_poolVars
               PROVE  (TypeOK /\ OwnerInv)'
    OBVIOUS
  <2> USE PoolAssumption DEF Loop, Thread, Starting, Destroying, OwnerLocation, OwnerInv
  <2>1. CASE Start \/ StartStep \/ SpuriousWakeup
    <3>1. CASE StartThread
      BY <3>1 DEF StartThread, TypeOK, GoTo, ThreadLocation
    <3>2. CASE Start \/ SemWait
      BY <3>2 DEF TypeOK, Start, SemWait
    <3>3. CASE CondWait \/ SpuriousWakeup
      BY <3>3 DEF TypeOK, CondWait, SpuriousWakeup
    <3>4. CASE GetLoop
      BY <3>4 DEF TypeOK, GetLoop
    <3>5. CASE StartReturns
      BY <3>5 DEF TypeOK, StartReturns
    <3> QED BY <2>1, <3>1, <3>2, <3>3, <3>4, <3>5 DEF StartStep
  <2>2. CASE Destroy \/ DestroyStep \/ Destroyed
    <3>1. CASE StoreQuit
      <4>1. own = "quitting" /\ cur \in Thread /\ UNCHANGED <<cur, size, at, ptr, early>>
        BY <3>1 DEF StoreQuit
      <4>2. quit' \in [Loop -> BOOLEAN] /\ own' \in {"waking", "crashed"}
        BY <3>1 DEF StoreQuit, TypeOK
      <4> QED BY <4>1, <4>2 DEF TypeOK
    <3>2. CASE TestLoop
      BY <3>2 DEF TypeOK, TestLoop, Detach
    <3>3. CASE Destroy
      BY <3>3 DEF TypeOK, Destroy
    <3>4. CASE Wake
      BY <3>4 DEF TypeOK, Wake
    <3>5. CASE Join
      BY <3>5 DEF TypeOK, Join
    <3>6. CASE Destroyed
      BY <3>6 DEF TypeOK, Destroyed
    <3> QED BY <2>2, <3>1, <3>2, <3>3, <3>4, <3>5, <3>6 DEF DestroyStep
  <2>3. ASSUME NEW i \in Thread, ThreadStep(i) \/ Die(i)
        PROVE  (TypeOK /\ OwnerInv)'
    BY <2>3 DEF TypeOK, ThreadStep, PostSem, Construct, Publish, Clear, Die, GoTo,
       ThreadLocation, Alive
  <2>4. ASSUME NEW l \in Loop,
               \/ EnterLoop(l) \/ Leave(l) \/ QuitInLoop(l)
               \/ Poll(l) \/ TakePending(l) \/ FunctorsDone(l)
        PROVE  (TypeOK /\ OwnerInv)'
    BY <2>4 DEF TypeOK, EnterLoop, Leave, QuitInLoop, Poll, TakePending, FunctorsDone, GoTo,
       ThreadLocation, Alive, InLoop
  <2>5. CASE BaseDies
    BY <2>5 DEF TypeOK, BaseDies, GoTo, ThreadLocation
  <2>6. CASE UNCHANGED poolVars
    BY <2>6 DEF TypeOK, poolVars
  <2> QED BY <2>1, <2>2, <2>3, <2>4, <2>5, <2>6 DEF Next
<1> QED BY <1>1, <1>2, PTL DEF SafeSpec

-----------------------------------------------------------------------------
(***************************************************************************)
(* The invariant that relates the owner to the threads, one lemma for each *)
(* of the two sides that move.                                             *)
(***************************************************************************)
\* What the owner does keeps it (EventLoopThreadPool.cpp:18-36,
\* EventLoopThread.cpp:15-40).
LEMMA OwnerKeeps ==
  ASSUME TypeOK, OwnerInv, IInv,
         Start \/ StartStep \/ SpuriousWakeup \/ Destroy \/ DestroyStep \/ Destroyed
  PROVE  IInv'
<1> USE PoolAssumption DEF Thread, IInv, FreshInv, PtrInv, SeenInv, CauseInv, JoinedInv, Told
<1>1. cur \in Nat /\ size \in Nat /\ NumThreads \in Nat
  BY DEF TypeOK
<1> USE <1>1
<1>2. CASE StartThread
  <2>1. own = "starting" /\ own' = "semwait" /\ cur \in Thread /\ size < cur
    BY <1>2 DEF StartThread, OwnerInv, Starting
  <2>2. UNCHANGED <<cur, size, ptr, quit, early>>
    BY <1>2 DEF StartThread
  <2>3. at[cur] = "none" /\ at' = [at EXCEPT ![cur] = "spawned"] /\ at \in [Loop -> ThreadLocation]
    BY <1>2, <2>1 DEF StartThread, GoTo, TypeOK, Starting
  <2>4. \A i \in Thread : at'[i] = IF i = cur THEN "spawned" ELSE at[i]
    BY <2>1, <2>3 DEF Loop
  <2> QED BY <2>1, <2>2, <2>3, <2>4 DEF Starting, Destroying, InLoop
<1>3. CASE Start \/ SemWait \/ CondWait \/ SpuriousWakeup \/ StartReturns
  BY <1>3 DEF Start, SemWait, CondWait, SpuriousWakeup, StartReturns, Starting, Destroying
<1>4. CASE GetLoop
  <2>1. own = "locking" /\ ptr[cur] /\ own' = "starting" /\ size' = size + 1 /\ size = cur - 1
    BY <1>4 DEF GetLoop, OwnerInv, Starting
  <2>2. UNCHANGED <<at, ptr, quit, early>>
    BY <1>4 DEF GetLoop
  <2> QED BY <2>1, <2>2 DEF Starting, Destroying
<1>5. CASE Destroy
  BY <1>5 DEF Destroy, Starting, Destroying
<1>6. CASE TestLoop
  <2>1. own = "testing" /\ cur \in Thread /\ size = NumThreads /\ UNCHANGED <<size, at, ptr, quit, early>>
    BY <1>6 DEF TestLoop, OwnerInv, Starting, TypeOK
  <2>2. CASE ptr[cur]
    BY <1>6, <2>1, <2>2 DEF TestLoop, Starting, Destroying
  <2>3. CASE ~ptr[cur]
    <3>1. at[cur] \in {"cleared", "done"}
      BY <2>1, <2>3
    <3>2. cur \in early
      BY <2>1, <3>1
    <3>3. own' = "testing" /\ cur' = cur + 1
      BY <1>6, <2>1, <2>3 DEF TestLoop, Detach
    <3> QED BY <2>1, <3>2, <3>3 DEF Starting, Destroying
  <2> QED BY <2>2, <2>3
<1>7. CASE StoreQuit
  <2>1. own = "quitting" /\ cur \in Thread /\ size = NumThreads /\ UNCHANGED <<cur, size, at, ptr, early>>
    BY <1>7 DEF StoreQuit, OwnerInv, Starting, Destroying
  <2>2. CASE ptr[cur]
    <3>1. own' = "waking" /\ quit' = [quit EXCEPT ![cur] = TRUE]
      BY <1>7, <2>2 DEF StoreQuit
    <3> QED BY <2>1, <3>1 DEF Starting, Destroying, TypeOK
  <2>3. CASE ~ptr[cur]
    <3>1. own' = "crashed" /\ UNCHANGED quit
      BY <1>7, <2>3 DEF StoreQuit
    <3>2. at[cur] \in {"cleared", "done"}
      BY <2>1, <2>3
    <3>3. cur \in early
      BY <2>1, <3>2
    <3> QED BY <2>1, <3>1, <3>3 DEF Starting, Destroying
  <2> QED BY <2>2, <2>3
<1>8. CASE Wake
  BY <1>8 DEF Wake, Starting, Destroying
<1>9. CASE Join
  <2>1. own = "joining" /\ cur \in Thread /\ at[cur] = "done" /\ own' = "testing" /\ cur' = cur + 1
    BY <1>9 DEF Join, OwnerInv, Destroying
  <2>2. UNCHANGED <<size, at, ptr, quit, early>>
    BY <1>9 DEF Join
  <2> QED BY <2>1, <2>2 DEF Starting, Destroying
<1>10. CASE Destroyed
  BY <1>10 DEF Destroyed, Starting, Destroying
<1> QED
  BY <1>2, <1>3, <1>4, <1>5, <1>6, <1>7, <1>8, <1>9, <1>10 DEF StartStep, DestroyStep

\* What threads and loops do keeps it (EventLoopThread.cpp:43-65, EventLoop.cpp:67-138).
LEMMA ThreadKeeps ==
  ASSUME TypeOK, OwnerInv, IInv, NEW i \in Thread, ThreadStep(i) \/ Die(i)
  PROVE  IInv'
<1> USE DEF IInv, FreshInv, PtrInv, SeenInv, CauseInv, JoinedInv, Told, InLoop
<1>1. /\ i \in Loop /\ UNCHANGED <<cur, size, quit, early>>
      /\ cur \in Nat /\ size \in Nat /\ i \in Nat
  BY PoolAssumption DEF ThreadStep, PostSem, Construct, Publish, Clear, Die, Thread, Loop, TypeOK
<1>2. PICK loc \in {"posted", "constructed", "published", "cleared", "done"} :
        /\ at' = [at EXCEPT ![i] = loc]
        /\ at[i] = CASE loc = "posted" -> "spawned" [] loc = "constructed" -> "posted"
                     [] loc = "published" -> "constructed" [] loc = "cleared" -> "left"
                     [] loc = "done" -> "cleared"
        /\ loc = "published" => ptr' = [ptr EXCEPT ![i] = TRUE]
        /\ loc = "cleared" => ptr' = [ptr EXCEPT ![i] = FALSE]
        /\ loc \notin {"published", "cleared"} => UNCHANGED ptr
        /\ own' = own \/ (own = "waiting" /\ own' = "locking")
  <2>1. CASE PostSem(i)
    BY <2>1 DEF PostSem, GoTo
  <2>2. CASE Construct(i)
    BY <2>2 DEF Construct, GoTo
  <2>3. CASE Publish(i)
    BY <2>3 DEF Publish, GoTo
  <2>4. CASE Clear(i)
    BY <2>4 DEF Clear, GoTo
  <2>5. CASE Die(i)
    BY <2>5 DEF Die, GoTo
  <2> QED BY <2>1, <2>2, <2>3, <2>4, <2>5 DEF ThreadStep
<1>3. \A j \in Thread :
        /\ at'[j] = IF j = i THEN loc ELSE at[j]
        /\ j # i \/ loc \notin {"published", "cleared"} => ptr'[j] = ptr[j]
        /\ j = i /\ loc = "published" => ptr'[j]
        /\ j = i /\ loc = "cleared" => ~ptr'[j]
  <2>1. \A j \in Thread : at'[j] = IF j = i THEN loc ELSE at[j]
    BY <1>1, <1>2 DEF TypeOK, Thread, Loop
  <2>2. ptr \in [Thread -> BOOLEAN]
    BY DEF TypeOK
  <2> QED BY <1>2, <2>1, <2>2
<1>4. /\ own' \in Starting \cup {"new"} <=> own \in Starting \cup {"new"}
      /\ own' \in Starting \ {"starting"} <=> own \in Starting \ {"starting"}
      /\ \A S \in {Destroying, Destroying \cup {"gone"}, Destroying \cup {"crashed", "gone"},
                   {"waking", "joining"}, {"crashed"}} : own' \in S <=> own \in S
  BY <1>2 DEF Starting, Destroying
<1>5. FreshInv'
  BY <1>1, <1>2, <1>3, <1>4
<1>6. PtrInv'
  BY <1>2, <1>3
<1>7. SeenInv'
  BY <1>1, <1>2, <1>3
<1>8. CauseInv'
  BY <1>1, <1>2, <1>3, <1>4
<1>9. JoinedInv' /\ (own' = "crashed" => cur' \in early')
  BY <1>1, <1>2, <1>3, <1>4
<1> QED BY <1>5, <1>6, <1>7, <1>8, <1>9

LEMMA LoopKeeps ==
  ASSUME TypeOK, OwnerInv, IInv, NEW l \in Loop,
         \/ EnterLoop(l) \/ Leave(l) \/ QuitInLoop(l)
         \/ Poll(l) \/ TakePending(l) \/ FunctorsDone(l)
  PROVE  IInv'
<1> USE DEF IInv, FreshInv, PtrInv, SeenInv, CauseInv, JoinedInv, Told, InLoop
<1>1. UNCHANGED <<own, cur, size, ptr>> /\ \A i \in Thread : i \in Loop
  BY PoolAssumption DEF EnterLoop, Leave, QuitInLoop, Poll, TakePending, FunctorsDone, Thread, Loop
<1>2. CASE EnterLoop(l)
  <2>1. /\ at[l] = "published" /\ early' = early
        /\ \A i \in Thread : /\ at'[i] = IF i = l THEN "top" ELSE at[i]
                             /\ quit'[i] = IF i = l THEN FALSE ELSE quit[i]
    BY <1>1, <1>2 DEF EnterLoop, GoTo, TypeOK
  <2> QED BY <1>1, <2>1
<1>3. CASE Leave(l)
  <2>1. /\ at[l] = "top" /\ quit[l] /\ UNCHANGED <<early, quit>>
        /\ \A i \in Thread : at'[i] = IF i = l THEN "left" ELSE at[i]
    BY <1>1, <1>3 DEF Leave, GoTo, TypeOK
  <2> QED BY <1>1, <2>1
<1>4. CASE QuitInLoop(l)
  <2>1. /\ early' = early \cup {l} /\ UNCHANGED at
        /\ \A i \in Thread : quit'[i] = IF i = l THEN TRUE ELSE quit[i]
    BY <1>1, <1>4 DEF QuitInLoop, TypeOK
  <2> QED BY <1>1, <2>1
<1>5. CASE Poll(l) \/ TakePending(l) \/ FunctorsDone(l)
  <2>1. PICK loc \in InLoop : /\ at[l] \in InLoop /\ UNCHANGED <<early, quit>>
                              /\ \A i \in Thread : at'[i] = IF i = l THEN loc ELSE at[i]
    BY <1>1, <1>5 DEF Poll, TakePending, FunctorsDone, GoTo, TypeOK
  <2> QED BY <1>1, <2>1
<1> QED BY <1>2, <1>3, <1>4, <1>5

\* The two sides together, from an owner that has done nothing and no thread.
THEOREM PoolInductive == SafeSpec => []IInv
<1>1. PoolInit => IInv
  <2> SUFFICES ASSUME PoolInit PROVE IInv
    OBVIOUS
  <2>1. /\ own = "new" /\ cur = 1 /\ size = 0
        /\ \A i \in Thread : i > 0 /\ at[i] = "none" /\ ~ptr[i] /\ ~quit[i]
    <3>1. \A i \in Thread : i \in Loop /\ i > 0
      BY PoolAssumption DEF Thread, Loop
    <3> QED BY <3>1 DEF PoolInit
  <2> QED
    BY <2>1, PoolAssumption DEF IInv, FreshInv, PtrInv, SeenInv, CauseInv, JoinedInv, Told, InLoop, Thread, Destroying
<1>2. TypeOK /\ OwnerInv /\ IInv /\ [Next]_poolVars => IInv'
  <2> SUFFICES ASSUME TypeOK, OwnerInv, IInv, [Next]_poolVars PROVE IInv'
    OBVIOUS
  <2>1. CASE UNCHANGED poolVars
    BY <2>1 DEF poolVars, IInv, FreshInv, PtrInv, SeenInv, CauseInv, JoinedInv, Told
  <2>2. CASE BaseDies
    <3>1. /\ UNCHANGED <<own, cur, size, ptr, quit, early>>
          /\ \A i \in Thread : at'[i] = at[i]
      BY <2>2, PoolAssumption DEF BaseDies, GoTo, TypeOK, Thread, Loop
    <3> QED BY <3>1 DEF IInv, FreshInv, PtrInv, SeenInv, CauseInv, JoinedInv, Told
  <2> QED BY <2>1, <2>2, OwnerKeeps, ThreadKeeps, LoopKeeps DEF Next
<1> QED BY <1>1, <1>2, PoolTypeCorrect, PTL DEF SafeSpec

-----------------------------------------------------------------------------
\* Every loop in loops_ exists until the pool is destroyed, or was quit by a
\* callback (EventLoopThread.cpp:25-41,53-64).
THEOREM PublishedLoopsExist == SafeSpec => []LoopsExist
<1>1. TypeOK /\ OwnerInv /\ IInv => LoopsExist
  <2> SUFFICES ASSUME TypeOK, OwnerInv, IInv, own \notin Destroying \cup {"crashed", "gone"},
                      NEW i \in 1 .. size
               PROVE  at[i] \in Alive \/ i \in early
    BY DEF LoopsExist
  <2>1. i \in Thread /\ i <= size
    BY PoolAssumption DEF TypeOK, Thread
  <2>2. at[i] \in InLoop \cup {"published", "left", "cleared", "done"}
    BY <2>1 DEF IInv, SeenInv
  <2>3. at[i] = "done" => i \in early
    BY <2>1 DEF IInv, CauseInv, Told
  <2> QED BY <2>2, <2>3 DEF Alive
<1> QED BY <1>1, PoolInductive, PoolTypeCorrect, PTL

\* The destructor never tells a loop to quit that has gone, unless a callback
\* made it go (EventLoopThread.cpp:18-20).
THEOREM DestructorQuitsLiveLoop == SafeSpec => []QuitsLiveLoop
<1>1. TypeOK /\ OwnerInv /\ IInv => QuitsLiveLoop
  <2> SUFFICES ASSUME TypeOK, OwnerInv, IInv, own = "quitting"
               PROVE  at[cur] \in Alive \/ cur \in early
    BY DEF QuitsLiveLoop, IInv
  <2>1. cur \in Thread /\ cur <= size
    BY PoolAssumption DEF OwnerInv, Starting, Destroying, Thread
  <2>2. at[cur] \in InLoop \cup {"published", "left", "cleared", "done"}
    BY <2>1 DEF IInv, SeenInv
  <2>3. at[cur] = "done" => cur \in early
    BY <2>1 DEF IInv, CauseInv, Told, Thread
  <2> QED BY <2>2, <2>3 DEF Alive
<1> QED BY <1>1, PoolInductive, PoolTypeCorrect, PTL

\* When the pool is gone every thread has ended, or was detached because a
\* callback had quit its loop (EventLoopThread.cpp:15-23, Thread.cpp:19-26).
THEOREM ThreadsEndFirst == SafeSpec => []NoneOutlivesPool
<1>1. TypeOK /\ OwnerInv /\ IInv => NoneOutlivesPool
  <2> SUFFICES ASSUME TypeOK, OwnerInv, IInv, own = "gone", NEW i \in Thread
               PROVE  at[i] = "done" \/ i \in early
    BY DEF NoneOutlivesPool
  <2>1. i < cur
    BY PoolAssumption DEF OwnerInv, TypeOK, Thread
  <2> QED BY <2>1 DEF IInv, JoinedInv
<1> QED BY <1>1, PoolInductive, PoolTypeCorrect, PTL

=============================================================================
