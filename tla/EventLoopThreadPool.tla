------------------------ MODULE EventLoopThreadPool -------------------------
(***************************************************************************)
(* Thread, EventLoopThread and EventLoopThreadPool (src/Thread.cpp,        *)
(* src/EventLoopThread.cpp, src/EventLoopThreadPool.cpp): one thread, the  *)
(* owner, runs the base loop, starts the pool before and destroys it after *)
(* or instead; every other thread runs a loop of its own, which lives on   *)
(* that thread's stack.  Loop 0 is the base loop.  A round of a loop is    *)
(* what EventLoop.tla makes of it, reduced to where the loop stands.       *)
(***************************************************************************)
EXTENDS Naturals

CONSTANTS
    NumThreads,   \* numThreads_
    Quitters      \* the loops one of whose own callbacks may call quit()

ASSUME PoolAssumption == NumThreads \in Nat /\ Quitters \subseteq 0 .. NumThreads

Thread == 1 .. NumThreads
Loop == 0 .. NumThreads

VARIABLES
    own,     \* where the owner stands in start() or in a destructor
    cur,     \* the thread it is starting or destroying
    size,    \* loops_.size(): start() has the pointers of loops 1 .. size
    at,      \* Loop -> where the thread of that loop stands
    ptr,     \* Thread -> loop_ is not null
    quit,    \* Loop -> quit_
    early    \* history: the loops that were told to quit by a callback

poolVars == <<own, cur, size, at, ptr, quit, early>>

Starting == {"starting", "semwait", "locking", "waiting"}
Destroying == {"testing", "quitting", "waking", "joining"}
OwnerLocation == Starting \cup Destroying \cup {"new", "started", "crashed", "gone"}

InLoop == {"top", "dispatch", "functors"}
\* Where the thread's EventLoop object exists.
Alive == InLoop \cup {"constructed", "published", "left", "cleared"}
ThreadLocation == Alive \cup {"none", "spawned", "posted", "done"}

PoolInit ==
    /\ own = "new"
    /\ cur = 1
    /\ size = 0
    /\ at = [l \in Loop |-> IF l = 0 THEN "published" ELSE "none"]
    /\ ptr = [i \in Thread |-> FALSE]
    /\ quit = [l \in Loop |-> FALSE]
    /\ early = {}

GoTo(l, loc) == at' = [at EXCEPT ![l] = loc]

-----------------------------------------------------------------------------
(***************************************************************************)
(* The owner: EventLoopThreadPool::start.                                  *)
(***************************************************************************)
\* TcpServer::start: only the first call, started_++ == 0, starts the pool.
Start ==
    /\ own = "new"
    /\ own' = "starting"
    /\ UNCHANGED <<cur, size, at, ptr, quit, early>>

\* The next EventLoopThread; startLoop: Thread::start creates the thread.
StartThread ==
    /\ own = "starting" /\ cur <= NumThreads
    /\ own' = "semwait"
    /\ GoTo(cur, "spawned")
    /\ UNCHANGED <<cur, size, ptr, quit, early>>

\* sem_wait: the new thread has posted.
SemWait ==
    /\ own = "semwait" /\ at[cur] # "spawned"
    /\ own' = "locking"
    /\ UNCHANGED <<cur, size, at, ptr, quit, early>>

\* loop_ is still null: wait, which gives the mutex back.
CondWait ==
    /\ own = "locking" /\ ~ptr[cur]
    /\ own' = "waiting"
    /\ UNCHANGED <<cur, size, at, ptr, quit, early>>

\* A condition variable may wake without having been notified.
SpuriousWakeup ==
    /\ own = "waiting"
    /\ own' = "locking"
    /\ UNCHANGED <<cur, size, at, ptr, quit, early>>

\* Mutant: after waiting, startLoop does not look again.
GetLoopUnchecked ==
    /\ own = "locking"
    /\ own' = "starting"
    /\ size' = size + 1 /\ cur' = cur + 1
    /\ UNCHANGED <<at, ptr, quit, early>>

\* startLoop returns the pointer, and start() pushes it on loops_.
GetLoop ==
    /\ own = "locking" /\ ptr[cur]
    /\ own' = "starting"
    /\ size' = size + 1 /\ cur' = cur + 1
    /\ UNCHANGED <<at, ptr, quit, early>>

StartReturns ==
    /\ own = "starting" /\ cur > NumThreads
    /\ own' = "started"
    /\ UNCHANGED <<cur, size, at, ptr, quit, early>>

(***************************************************************************)
(* The owner: the destructors of the pool and of each EventLoopThread.     *)
(***************************************************************************)
Destroy ==
    /\ own = "started" /\ at[0] \notin InLoop
    /\ own' = "testing" /\ cur' = 1
    /\ UNCHANGED <<size, at, ptr, quit, early>>

\* ~Thread of a thread that was not joined.
Detach == cur' = cur + 1 /\ UNCHANGED own

\* if (loop_ != nullptr), read without the mutex.
TestLoop ==
    /\ own = "testing" /\ cur <= NumThreads
    /\ IF ptr[cur] THEN own' = "quitting" /\ UNCHANGED cur ELSE Detach
    /\ UNCHANGED <<size, at, ptr, quit, early>>

\* Mutant: quit_ is one flag for all loops.
StoreQuitForAll ==
    /\ own = "quitting"
    /\ IF ptr[cur] THEN own' = "waking" /\ quit' = [l \in Loop |-> TRUE]
                   ELSE own' = "crashed" /\ UNCHANGED quit
    /\ UNCHANGED <<cur, size, at, ptr, early>>

\* loop_->quit() reads loop_ again, and stores; a null pointer ends the process.
StoreQuit ==
    /\ own = "quitting"
    /\ IF ptr[cur] THEN own' = "waking" /\ quit' = [quit EXCEPT ![cur] = TRUE]
                   ELSE own' = "crashed" /\ UNCHANGED quit
    /\ UNCHANGED <<cur, size, at, ptr, early>>

\* The wakeup() that ends quit(), on a loop that may have gone meanwhile.
Wake ==
    /\ own = "waking"
    /\ own' = "joining"
    /\ UNCHANGED <<cur, size, at, ptr, quit, early>>

\* Mutant: the destructor does not wait for the thread.
JoinAtOnce ==
    /\ own = "joining"
    /\ own' = "testing" /\ cur' = cur + 1
    /\ UNCHANGED <<size, at, ptr, quit, early>>

Join ==
    /\ own = "joining" /\ at[cur] = "done"
    /\ own' = "testing" /\ cur' = cur + 1
    /\ UNCHANGED <<size, at, ptr, quit, early>>

Destroyed ==
    /\ own = "testing" /\ cur > NumThreads
    /\ own' = "gone"
    /\ UNCHANGED <<cur, size, at, ptr, quit, early>>

\* main() ends: ~EventLoop of the base loop.
BaseDies ==
    /\ own = "gone" /\ at[0] # "done"
    /\ GoTo(0, "done")
    /\ UNCHANGED <<own, cur, size, ptr, quit, early>>

(***************************************************************************)
(* A thread of the pool: the lambda of Thread::start, threadFunc.          *)
(***************************************************************************)
PostSem(i) ==
    /\ at[i] = "spawned"
    /\ GoTo(i, "posted")
    /\ UNCHANGED <<own, cur, size, ptr, quit, early>>

\* The EventLoop on the stack, and callback_(&loop).
Construct(i) ==
    /\ at[i] = "posted"
    /\ GoTo(i, "constructed")
    /\ UNCHANGED <<own, cur, size, ptr, quit, early>>

\* Mutant: nobody is notified.
PublishSilently(i) ==
    /\ at[i] = "constructed"
    /\ GoTo(i, "published")
    /\ ptr' = [ptr EXCEPT ![i] = TRUE]
    /\ UNCHANGED <<own, cur, size, quit, early>>

\* loop_ = &loop under the mutex, and notify_one.
Publish(i) ==
    /\ at[i] = "constructed"
    /\ GoTo(i, "published")
    /\ ptr' = [ptr EXCEPT ![i] = TRUE]
    /\ own' = IF own = "waiting" /\ cur = i THEN "locking" ELSE own
    /\ UNCHANGED <<cur, size, quit, early>>

\* Mutant: the destructor holds the mutex while it joins.
ClearLockedOut(i) ==
    /\ at[i] = "left" /\ own # "joining"
    /\ GoTo(i, "cleared")
    /\ ptr' = [ptr EXCEPT ![i] = FALSE]
    /\ UNCHANGED <<own, cur, size, quit, early>>

\* After loop(): loop_ = nullptr under the mutex.
Clear(i) ==
    /\ at[i] = "left"
    /\ GoTo(i, "cleared")
    /\ ptr' = [ptr EXCEPT ![i] = FALSE]
    /\ UNCHANGED <<own, cur, size, quit, early>>

\* ~EventLoop, and the thread ends.
Die(i) ==
    /\ at[i] = "cleared"
    /\ GoTo(i, "done")
    /\ UNCHANGED <<own, cur, size, ptr, quit, early>>

(***************************************************************************)
(* Any loop.                                                               *)
(***************************************************************************)
\* loop() clears quit_, whatever was asked before.
EnterLoop(l) ==
    /\ at[l] = "published"
    /\ l = 0 => own = "started"
    /\ GoTo(l, "top")
    /\ quit' = [quit EXCEPT ![l] = FALSE]
    /\ UNCHANGED <<own, cur, size, ptr, early>>

\* while (!quit_), then poll(): nothing can come between that matters.
Poll(l) ==
    /\ at[l] = "top" /\ ~quit[l]
    /\ GoTo(l, "dispatch")
    /\ UNCHANGED <<own, cur, size, ptr, quit, early>>

TakePending(l) ==
    /\ at[l] = "dispatch"
    /\ GoTo(l, "functors")
    /\ UNCHANGED <<own, cur, size, ptr, quit, early>>

FunctorsDone(l) ==
    /\ at[l] = "functors"
    /\ GoTo(l, "top")
    /\ UNCHANGED <<own, cur, size, ptr, quit, early>>

Leave(l) ==
    /\ at[l] = "top" /\ quit[l]
    /\ GoTo(l, "left")
    /\ UNCHANGED <<own, cur, size, ptr, quit, early>>

\* A callback of the loop calls quit() on it.
QuitInLoop(l) ==
    /\ l \in Quitters /\ at[l] \in InLoop \ {"top"}
    /\ quit' = [quit EXCEPT ![l] = TRUE]
    /\ early' = early \cup {l}
    /\ UNCHANGED <<own, cur, size, at, ptr>>

-----------------------------------------------------------------------------
\* What the owner does once it has begun to start or to destroy the pool.
StartStep ==
    StartThread \/ SemWait \/ CondWait \/ GetLoop \/ StartReturns
DestroyStep == TestLoop \/ StoreQuit \/ Wake \/ Join

ThreadStep(i) == PostSem(i) \/ Construct(i) \/ Publish(i) \/ Clear(i)

Next ==
    \/ Start \/ StartStep \/ SpuriousWakeup
    \/ Destroy \/ DestroyStep \/ Destroyed \/ BaseDies
    \/ \E i \in Thread : ThreadStep(i) \/ Die(i)
    \/ \E l \in Loop :
           \/ EnterLoop(l) \/ Leave(l) \/ QuitInLoop(l)
           \/ Poll(l) \/ TakePending(l) \/ FunctorsDone(l)

SafeSpec == PoolInit /\ [][Next]_poolVars

\* The owner goes on with what it has begun; every other thread runs, and a
\* poll returns, woken or after kPollTimeMs.
Spec ==
    /\ SafeSpec
    /\ WF_poolVars(StartStep) /\ WF_poolVars(DestroyStep \/ Destroyed)
    /\ \A i \in Thread :
        WF_poolVars(\/ ThreadStep(i) \/ Die(i) \/ EnterLoop(i) \/ Leave(i)
                    \/ Poll(i) \/ TakePending(i) \/ FunctorsDone(i))

-----------------------------------------------------------------------------
TypeOK ==
    /\ own \in OwnerLocation
    /\ cur \in 1 .. NumThreads + 1
    /\ size \in 0 .. NumThreads
    /\ at \in [Loop -> ThreadLocation]
    /\ ptr \in [Thread -> BOOLEAN]
    /\ quit \in [Loop -> BOOLEAN]
    /\ early \subseteq Quitters

\* The handshake of startLoop and threadFunc: every pointer in loops_ is that of
\* a loop that exists, from the moment it is there to the pool's destruction,
\* unless a callback quit that loop (EventLoopThread.cpp:25-41,53-64).
LoopsExist ==
    own \notin Destroying \cup {"crashed", "gone"} =>
        \A i \in 1 .. size : at[i] \in Alive \/ i \in early

\* ~EventLoopThread reads loop_ twice without the mutex (EventLoopThread.cpp:18-20):
\* the loop it tells to quit exists at the second read, unless a callback quit it.
\* (It need not exist any more at the wakeup that ends quit().)
QuitsLiveLoop ==
    /\ own = "quitting" => at[cur] \in Alive \/ cur \in early
    /\ own = "crashed" => cur \in early

\* Threads use the mutex, the condition and the functor of an EventLoopThread
\* until they end: none outlives the pool, unless a callback quit its loop and
\* the destructor detached it (EventLoopThread.cpp:15-23, Thread.cpp:19-26).
NoneOutlivesPool ==
    own = "gone" => \A i \in Thread : at[i] = "done" \/ i \in early

\* start() returns: no notification is lost (EventLoopThread.cpp:25-40,54-57) and
\* no semaphore post (Thread.cpp:29-51).  Only a loop that a callback quits before
\* startLoop has seen it is waited for in vain.
StartEnds ==
    own = "starting" ~>
        own = "started" \/ (own \in {"locking", "waiting"} /\ cur \in early)

\* The destructors return, unless the process has crashed or the loop began, and
\* cleared quit_, only after it was told to quit (EventLoopThread.cpp:15-23).
DestructorEnds ==
    own = "testing" ~>
        own \in {"gone", "crashed"} \/ (own = "joining" /\ ~quit[cur])

=============================================================================
