# A TLA+ development of the muduo-style network library

This directory specifies, model-checks and proves properties of the library in
`src/` and `include/`: a reactor network library, one event loop per thread.
File names below are relative to the root of the repository.

## 1. The system

A `TcpServer` owns an `Acceptor` on the base loop and an `EventLoopThreadPool`
of I/O loops. Each accepted socket becomes a `TcpConnection`, assigned round
robin to an I/O loop, on which all its work is done. Whoever is on another thread
hands the loop a functor.

| component | state | operations | talks to |
|---|---|---|---|
| `EventLoop` | `quit_`, `callingPendingFunctors_`, `pendingFunctors_` (mutex), `activeChannels_`, the eventfd | `loop`, `runInLoop`, `queueInLoop`, `quit`, `wakeup`, `handleRead`, `doPendingFunctors` | its poller (calls), its channels (callbacks), other threads (functors, eventfd) |
| `Poller`, `EPollPoller` | `channels_`, `events_`, the epoll instance | `poll`, `updateChannel`, `removeChannel`, `hasChannel` | channels (`index_`, `events_`, `revents_`), the kernel |
| `Channel` | `events_`, `revents_`, `index_`, `tie_` | `enable*`, `disable*`, `remove`, `tie`, `handleEvent` | its loop, its owner's callbacks |
| `TcpConnection` | `state_`, `outputBuffer_`, `inputBuffer_`, socket, channel | `send`, `shutdown`, `connectEstablished`, `connectDestroyed`, four event handlers | loop, channel, server (`closeCallback_`), application callbacks |
| `Buffer` | `buffer_`, `readerIndex_`, `writerIndex_` | `append`, `retrieve*`, `readFd`, `writeFd`, `makeSpace` | `TcpConnection`, application |
| `TcpServer` | `connections_`, `nextConnId_`, `started_` | `start`, `newConnection`, `removeConnection`, destructor | acceptor, pool, connections |
| `Acceptor`, `Socket` | listening socket and channel | `listen`, `handleRead`, destructor | base loop, `TcpServer` |
| `EventLoopThread`, `EventLoopThreadPool`, `Thread` | `loop_` (mutex, condition), `next_`, semaphore | `startLoop`, `threadFunc`, `start`, `getNextLoop`, destructors | loops |
| `Logger` | one shared `logLevel_` | `setLogLevel`, `log` | everyone |
| `InetAddress`, `Timestamp`, `CurrentThread` | values | formatting, a cached thread id | — |

What makes these hard, and what makes them correct:

* **EventLoop.** Threads push functors while the loop polls, swaps the vector and
  calls functors that push more. Correct: no functor is lost, repeated or
  reordered; the loop does not sleep on one; `quit()` ends it.
* **Poller and channels.** Each channel's idea of its registration, the
  poller's map and the kernel's table are three copies of one fact, updated by
  sequences of calls nobody enumerates, while descriptors are closed and given
  out again. Correct: they agree, no `epoll_ctl` fails (an `add` or `mod` that
  does ends the process), the batch under dispatch never holds a dead channel.
* **TcpConnection.** Direct writes, short writes and buffering; a shutdown that
  waits for the buffer; close reported by the peer, the server and the
  application in any order; `send` and `shutdown` from other threads, whose tests
  of `state_` are separate from what they do. Correct: the byte stream, the
  callbacks' accounting, up once and then down once, destroyed once.
* **Buffer.** Index arithmetic on unsigned numbers, content that moves, a read in
  two pieces. Correct: in bounds, and a queue of bytes.
* **TcpServer, threads.** Lifetimes: raw `this` in closures, loops that live on
  another thread's stack, functors a stopping loop drops. Correct: every
  connection is destroyed once on its own loop before its server or loop is gone;
  `start` and teardown terminate.

`PROJECT.json` lists each hazard at its line.

## 2. The modules

| module | what it is | code |
|---|---|---|
| `LoopExecutor` | what a loop promises: functors run in queueing order, each once, unless it stops | abstract |
| `EventLoop` | one loop, its thread and its callers | `src/EventLoop.cpp` |
| `EventLoopProofs` | its theorems | |
| `EPollPoller` | the registration as operators on a record: `UpdateChannel`, `RemoveChannel`, ... | `src/EPollPoller.cpp`, `src/Poller.cpp`, `include/Channel.h` |
| `PollerLoop` | the life of channels and descriptors against the loop's rounds, built from `EPollPoller` | the owners' calls |
| `PollerProofs` | its theorems | |
| `TcpConnection` | one connection, its loop, callers, server and peer, built from `EPollPoller` (`INSTANCE`, one channel) | `src/TcpConnection.cpp`, `src/Channel.cpp`, part of `src/TcpServer.cpp` |
| `TcpConnectionProofs` | its theorems | |
| `ByteQueue` | what a buffer promises: bytes leave in the order they entered | abstract |
| `Buffer` | the vector and its indices | `include/Buffer.h`, `src/Buffer.cpp` |
| `BufferProofs` | its theorems | |
| `EventLoopThreadPool` | the owner's thread, the pool's threads, and where each loop stands | `src/Thread.cpp`, `src/EventLoopThread.cpp`, `src/EventLoopThreadPool.cpp` |
| `EventLoopThreadPoolProofs` | its theorems | |
| `ConnectionLife` | what a server promises about a connection object: made, up, down, freed, in this order | abstract |
| `TcpServer` | the server, its acceptor and its connections, on top of `EventLoopThreadPool` (`EXTENDS`) | `src/TcpServer.cpp`, `src/Acceptor.cpp` |
| `TcpServerProofs` | its types, where functors and connections are, and how connections are dealt out | |
| `TcpServerLifeProofs` | who destroys a connection, and how often | |
| `TcpServerRefinementProofs` | the server implements `ConnectionLife` | |
| `MC*` | instances for TLC | |

**EventLoop.** `pc` is where the loop thread is; `pending`, `batch` and `active`
are `pendingFunctors_`, the local vector of `doPendingFunctors` and
`activeChannels_`. The push of `queueInLoop` and the wakeup that follows it are
two steps on another thread (`CallerQueueInLoop`, `CallerWakeup`), and so are
the store and the wakeup of `quit`. On the loop thread they are one step, because
the test between them reads only what that thread writes. Callback bodies are any
sequence of `QueueInLoop` and `Quit`. The eventfd counter saturates, as a
non-blocking write to it does. `posted` and `ran` are history.

**EPollPoller, PollerLoop.** The kernel is a function from descriptors to entries;
`EpollCtl` refuses what `epoll_ctl` refuses and records it in `errors`. Closing a
descriptor (`Free`) drops its entry, and `Construct` may take the number again.
`epoll_wait` may report any `events_.size()` of the ready descriptors when there
are more. Acceptors and the wakeup channel are removed and freed by their owners,
enabled before or not. A connection is removed by a functor (`ConnectDestroyed`) and
freed later (`Release`), on any thread, when its last holder lets go; a functor that a
loop drops when it ends may be that holder, and then it was never removed. In between
it can still be enabled: `StartWriting` refuses what `sendInLoop` refuses,
`kDisconnected` and a write that fails for good. `state` is therefore here too, with
the test and the store of another thread's `shutdown()` as two steps (`TestState`,
`StoreState`) for the connections in `Racers`. `handleEvent` of a freed channel is
undefined (`HandleFreed`): the process ends, which is a behaviour that goes no
further, or the `weak_ptr` in the freed memory is found expired and the turn is
skipped. Descriptors are given out while the loop runs (`Construct`), by whatever
thread accepts. A server is not destroyed from within a callback of the loop.

**TcpConnection.** `HandleEvent`, `OnClose`, `OnError`, `OnRead`, `OnWrite` are the
four callbacks in the order of `handleEventWithGuard`; `todo` is what `revents_`
still asks for. `SendInLoop` and `OnWrite` are whole handlers: between their steps
other threads only touch `state_`, of which each makes one test that matters.
Where two tests or stores of `state_` are apart (`shutdown` on another thread,
`connectDestroyed`) they are two steps. The output buffer is a sequence of bytes,
each named by message and position, so that a lost, repeated or reordered byte is
seen; `BufferIsQueue` is what allows that abstraction. The queue holds only this
connection's functors; those of others may send and shut down in between, which
`LoopSend` and `LoopShutdown` do from any callback. External: `write()` takes what
fits, nothing after a reset or a shutdown of the write side; the peer sends,
closes, resets and acknowledges at any time. The server is two actions: the
removal that `closeCallback_` asks for, and its destructor. The loop is one of the
server's pool, so from its destructor on the loop may be found quit at the top of a
round (`LoopEnds`): what is queued then, `connectDestroyed` included, is never called.

**Buffer.** Address `i` of the vector is index `i + 1` of `bytes`. `std::copy` in
`makeSpace` goes from low to high addresses and its destination does not lie
behind its source, hence the simultaneous assignment in `MoveToFront`. `Store`
clips at the end of the vector, so a store that did not fit would show as a lost
byte.

**EventLoopThreadPool.** `own` is where the owner, the thread that runs the base
loop, stands in `start()` or in the destructors, `cur` the thread it is busy with;
`at[l]` is where the thread of loop `l` stands, from `pthread_create` to its end,
with the rounds of its loop in between. The semaphore of `Thread::start`, the mutex
and condition of `startLoop` and `threadFunc`, and the spurious wakeup are there as
guards and steps. `~EventLoopThread` reads `loop_` twice without the mutex: `TestLoop`
and `StoreQuit` are two steps, and the second may read null and crash. The wakeup
that ends `quit()` is a third, on a loop that may have gone meanwhile. `loop()` stores
`quit_ = false` when it is entered (`EnterLoop`): the lost `quit()` of `EventLoop` is
here too, with its consequence, a destructor that waits for ever. A loop that one of
its own callbacks quits (`Quitters`) ends before its destructor comes.

**TcpServer.** Every action of the pool is taken over, the loops' rounds with their
functor lists (`pending`, `batch`, `calls`) and what the poller reports (`active`).
The references to a connection are state: it is held by the server's map and by
every functor bound to it, in the pending list or in the batch until the batch's
vector is destroyed, called or not (`Held`). `Freed` is the moment the last one goes,
and with it the socket's descriptor, which is what the acceptor needs to accept
again. `~EventLoop` drops the functors it still has (`DropFunctors`). `state` adds two
values to `state_` for a client that is not accepted yet. A connection does only
what its life needs here, going up and closing; the rest is in `TcpConnection`.

## 3. The runs

| run | checks | instance |
|---|---|---|
| `EventLoopRounds` | `NoLostWakeup`, `NothingLost`, `ImplementsExecutor`, `QueuedRuns`, `QuitStops` | 3 functors, 2 callers, eventfd limit 2 |
| `EventLoopQuitLost` | `QuitIsHonoured` is violated | 1 functor, 1 caller |
| `PollerLoopRounds` | `CtlNeverFails`, `KernelAgrees`, `MapAgrees`, `ActiveAlive`, `ReadyIsHandled` | 2 connections, one of which other threads shut down, 1 listener, 2 descriptors, `events_` of 1 |
| `PollerLoopDangling` | `RemovedWhenDestructed` is violated | 1 connection that other threads shut down |
| `TcpConnectionWorkers` | `TypeOK`, `WritingIffBuffered`, `StreamIntact`, `UpThenDown`, `DestroyedOnce`, `NothingLeftInPoller`, `StateOnlyAdvances` | 3 messages; 2 threads and the loop send, the loop closes; SIGPIPE kills |
| `TcpConnectionRaces` | `HighWaterReported`, `DrainReported`, `NothingBehindFin`, `ShutdownHappens`, `PeerCloseEndsIt` | 2 messages; a thread and the loop send, the thread also closes |
| `TcpConnectionWriteAfterFin` | `NeverWritesAfterFin` is violated | one other thread sends and closes |
| `TcpConnectionDestroyedTwice` | `DestroyedOnce` is violated | the same |
| `BufferBytes` | `InBounds`, `ImplementsQueue`, `GrowsOnlyIfNeeded` | bytes of 2 values, prefix 2, vector 2, extrabuf 2, chunks up to 3 |
| `PoolLife` | `LoopsExist`, `QuitsLiveLoop`, `NoneOutlivesPool`, `StartEnds`, `DestructorEnds` | 2 threads; callbacks may quit the base loop and loop 1 |
| `TcpServerLife` | `ServerTypeOK`, `ConnectDestroyedOnce`, `PollerHoldsLive`, `QueuesOnLiveLoop`, `ServerOutlivesCalls`, `RoundRobin`, `ImplementsLife`, `ClosedIsFreed`, `ClientAccepted`, `TeardownFrees` | 2 I/O loops, 2 clients, 1 descriptor |
| `TcpServerTeardown` | `DestroyedBeforeFreed` is violated | 1 I/O loop, 2 clients, 2 descriptors |

**Bounds.** A functor is queued once, so three functors and two callers already give
a functor queued before, during and after a swap with a wakeup outstanding for
another; the eventfd limit of 2 makes a full counter an everyday case. Two
descriptors may be ready when `events_` holds one, and two serve three objects: one
that is freed gives its number to the next while the other is in the batch. Of the
two connections one is shut down by other threads and one is not, so that each is
seen beside the other and after it on the same number. A message of three
bytes does not fit a kernel buffer of two and one of a single byte does, with a
high-water mark of two: writes are whole, short and refused, and the mark is met
exactly, passed and left. `TcpConnectionRaces` has a kernel buffer of one byte: there
the long message leaves two, the mark is met, a second message is buffered above it
without another report, and after acknowledgements a second report can come. Chunks
of three bytes overflow a vector of two with an extrabuf of two. `MaxChunk` and `MaxContent` are the only bounds the `Buffer`
module has of its own; messages are offered once each. Two threads are the fewest
for which one is started, joined or running while the other is not, and of which one
can be quit by a callback and the other by its destructor only. Two clients on two
I/O loops wrap the round robin, and a limit of one descriptor makes the second wait
in the backlog until the first is freed, through both threads. A client connects
and closes once, which bounds the server's run: no other bound is needed.

**Deadlock** is checked in `EventLoopRounds`, `EventLoopQuitLost` and `BufferBytes`.
Everywhere else the system may really stop: in the runs of `PollerLoop` and
`TcpConnection` a loop that was quit stays so, and SIGPIPE may end the process; in
`PoolLife`, `TcpServerLife` and `TcpServerTeardown` `main()` returns.

**Fairness.** `WF(LoopStep)`: the loop's thread is scheduled and the callbacks it
calls return. `WF(CallerWakeup)`, `WF(CallerGoesOn)`: a call that another thread has
begun goes on; nobody has to begin one. `WF(ServerRemoves)`: the base loop runs what
it was given, which is `QueuedRuns` of the base loop. `WF(PeerAcks)`: a peer that
has not reset the connection goes on reading, which TCP cannot promise and
`ShutdownHappens` needs. `PollTimeout` is not fair in `EventLoop`'s `Spec`: `QueuedRuns`
and `QuitStops` must not rest on a ten-second timeout. Only a functor that the loop's
own thread queued before `loop()` does wait for it, which is why `QueuedRuns` excepts
it. `TimeoutSpec` grants the timeout to the run that refutes `QuitIsHonoured`, where
it does not help. `Spec` of `PollerLoop` is fair to the loop alone (`WF(LoopStep)`),
which is all `ReadyIsHandled` needs: a full batch makes `events_` grow. Nobody has to
quit a loop, and no property rests on its going on once it was: `ReadyIsHandled`,
`ShutdownHappens` and `PeerCloseEndsIt` end with the loop. A server that is torn down
quits the loops of its pool, and what it had queued on one may never be called, as
`TcpServerTeardown` shows on the whole server.

In `EventLoopThreadPool` and `TcpServer` the owner goes on with what it has begun,
every thread runs, and a poll returns, by its timeout if by nothing else; nobody has
to start a pool, to destroy it or to quit a loop. The server adds that a client
closes in the end, and that `main()` goes on to the destructors once its base loop
has returned. `StartEnds` excepts a loop that a callback quits before `startLoop` has
seen it, and `DestructorEnds` and `TeardownFrees` a loop that is entered only after it
was told to quit: in both the code does wait for ever. `QuitIsHonoured` shows the
second on the loop itself.

**Each property has a mutant** of the code (the definitions marked `Mutant`) under
which the run finds it violated; `PROJECT.json` pairs them.

## 4. What the runs found

* **`quit()` before `loop()` is lost** (`EventLoopQuitLost`). `loop()` clears `quit_`
  at `src/EventLoop.cpp:70`. `EventLoopThread` hands out the loop before calling
  `loop()`, and its destructor quits and joins.
* **A message sent before `shutdown()` is written after the FIN**
  (`TcpConnectionWriteAfterFin`). `shutdown()` on another thread sets
  `kDisconnecting` at once; the buffer drains; `handleWrite` closes the write side
  although the functor of an earlier `send()` is still queued; `sendInLoop` then
  refuses only `kDisconnected` (`src/TcpConnection.cpp:89`) and writes. The message
  is lost, and SIGPIPE ends a process that does not ignore it. What survives is
  `NothingBehindFin`: the lost message was never in the buffer, and what is buffered is
  never cut off by the end of the stream, whoever sends and shuts down.
* **A closed connection comes back** (`TcpConnectionDestroyedTwice`). Between the
  test and the store of `shutdown()` (`src/TcpConnection.cpp:151-153`) `handleClose`
  may store `kDisconnected`. A queued `sendInLoop` then passes its test and
  `enableWriting` puts the socket back into epoll: the hang-up is reported again,
  the connection goes down twice and `connectDestroyed` runs twice. One thread that
  sends and closes suffices. `StateOnlyAdvances`, `UpThenDown`, `WritingIffBuffered`
  and `NothingLeftInPoller` fall with it, which is why `TcpConnectionRaces` checks
  only what survives. What it does to the poller is the next entry.
* **`channels_` keeps a freed channel** (`PollerLoopDangling`). `shutdown()` on another
  thread stores `kDisconnecting` before its functor runs, and may overwrite
  `kDisconnected`. `connectDestroyed` then removes the channel without disabling it, and
  a functor of an earlier `send()` that comes after it enables writing
  (`src/TcpConnection.cpp:141-144`): the channel is back in epoll and in `channels_`, with
  nobody left to remove it. When the connection is freed, epoll forgets the closed
  descriptor and `channels_` does not; and if epoll reported it before, and the last
  holder lets go before its turn, `handleEvent` is called on freed memory. So `MapAgrees`
  and `ActiveAlive` promise no dead pointer only for connections that no other thread
  shuts down; `CtlNeverFails` and `KernelAgrees` hold of every channel, a connection that
  came back included. The comment at
  `src/EPollPoller.cpp:111` has the channel removed when it is destructed, which no
  destructor of a connection does.
* **A connection may be freed without `connectDestroyed`** (`TcpServerTeardown`).
  The comment at `src/TcpServer.cpp:36` says that `connectDestroyed()` must have run
  before the object is released. `~TcpServer` queues it on the I/O loop, and the pool's
  destructor tells that loop to quit. A loop that sees `quit_` at the top of its round
  leaves without another swap, and `~EventLoop` drops the functor with the last
  reference to the connection: it is freed, which is `TeardownFrees`, but its user is
  never told that it went down. What remains true is that
  while the base loop runs nothing is freed early, `ImplementsLife`, and that
  `connectDestroyed` runs exactly once before a connection is freed unless the end of its
  own I/O loop costs it that, `ConnectDestroyedOnce`.

`UpThenDown` excepts one case the code allows: a server torn down while a connection
is half closed destroys it without ever telling the application that it went down
(`connectDestroyed` calls back only in `kConnected`).

## 5. The proofs

All are checked by TLAPS for every value of the constants, from the assumptions
named in the modules.

* **EventLoopProofs.** `NoLostWakeup` speaks only of a sleeping loop and is not
  inductive. `WakeupInv` is, with `TypeOK`: while someone waits, a wakeup is there
  or under way unless the loop is between the poll and the swap, which will take
  what is waiting; and after the swap `callingPendingFunctors_` covers functors that
  queue functors. `NothingLost` (posted = ran, batch, pending in that order) gives
  both the order and, as each step of the loop is a step of `LoopExecutor` or
  stutters, `LoopIsExecutor`: the safety part of the refinement.
* **PollerProofs.** `IInv` joins the type (`TypeOK`); a descriptor of its own for every
  object (`Ownership`); the agreement of the three tables, and which pointers may be in
  `channels_` (`Registration`, `Rightful`); that what is in the round of the loop is
  registered and in use (`Round`); and, for a connection that no other thread shuts
  down, that once closed or removed it cannot begin to write again (`Quiet`): its state
  is `kDisconnected`, or it is `kDisconnecting` with the write side closed or still
  writing, and `sendInLoop` enables nothing in either. `SetEventsSound` and
  `RemoveSound` say once what the two operations do to the agreement; `KeepStep`,
  `FreeStep`, `ConstructStep`, `NoteStep` and `RoundStep` say what each kind of step does
  to `IInv`, and the actions cite them. `NeverFatal` and `KernelIsExact` follow whatever
  is in `Racers`; `MapIsExact` and `NoDeadChannelIsCalled` except the pointers to
  `Racers`, which `PollerLoopDangling` shows they must.
* **BufferProofs.** Lemmas say of each operation on a record in bounds that the
  result is in bounds and what its content is: `ResizeKeeps`, `MoveKeeps`,
  `EnsureMakesRoom`, `StoreAppends`, `AppendAppends`, `ReadFdAppends`,
  `RetrieveDrops`. `StaysInBounds` and `BufferIsQueue` follow in a few steps: being
  in bounds is inductive by itself. `StoreSizes`, `AppendGrowth` and `ReadFdGrowth` say
  what the same operations do to the vector's length, from which `GrowthIsNeeded`: it
  changes only when the bytes did not fit beside the content, and then by just enough.
* **TcpConnectionProofs.** What survives every race is proved without a condition on who
  calls: the types, the stream (`StreamIntactHolds`), the two accounts of the output
  buffer (`HighWaterHolds`, `DrainHolds`), and that the write side is never closed over
  what is buffered (`NothingBehindFinHolds`). `HighWaterReported` counts: a report more
  than the times the buffer fell back below the mark while it has reached it, as many
  otherwise. `NothingBehindFin` needs `FinInv`: until the connection has gone down, writing
  is asked for exactly while something is buffered, which is what `shutdownInLoop` tests.
  The life cycle is not of that kind, as
  `TcpConnectionDestroyedTwice` shows, and is proved where no other thread calls
  `shutdown()` (`ClosesOnLoop`); other threads may send. Its inductive invariant
  `LifeInv` has seven parts: where a calling thread stands (`ThreadInv`); which functors
  may be queued in which order, `connectEstablished` first and `connectDestroyed` once
  (`QueueInv`); who asked the server to remove the connection (`AskedInv`); what the
  application was told (`ToldInv`); the interest set against the poller's table
  (`ChannelInv`); which events are still to be handled in which state (`EventInv`); and
  writing against the buffer (`FlowInv`). From it follow `DestroyedOnceHolds`,
  `UpThenDownHolds`, `NothingLeftHolds`, `WritingHolds` and `StateAdvances`. That
  nothing is written behind the FIN needs more, as `TcpConnectionWriteAfterFin` shows:
  with every call on the loop's thread (`CallsOnLoop`) no functor of `send()` is ever
  queued (`IdleInv`), and `NeverWritesAfterFinHolds` follows. In
  `TypeOK` the count of `closeCallback_`'s calls, `requests`, is any natural number: each
  racing closer may bring a closed connection back once more. `AskedInv` bounds it by one
  where closes stay on the loop.
* **EventLoopThreadPoolProofs.** `LoopsExist`, `QuitsLiveLoop` and `NoneOutlivesPool`
  speak of three moments of one protocol, and none is inductive. `OwnerInv` ties the
  owner's place to `cur` and `size`; `IInv` says in which stages a thread can be before,
  while and after the owner deals with it, that `loop_` is set exactly in the stages
  where the loop is published and not yet cleared, and that a loop that has left was
  told to, by its destructor or by a callback. So the second, unlocked read of `loop_`
  finds it null only for a loop that a callback quit (`DestructorQuitsLiveLoop`).
* **TcpServerProofs.** `ServerImplementsPool` shows that the server's steps are steps of
  the pool or leave it alone, so everything proved of the pool holds inside the server;
  with `Quitters` confined to the base loop its exceptions are void (`PoolIsExact`).
  `PlaceInv` then says that a functor sits only on the loop it belongs to, that what a
  poller reports is served by that loop, and that the map is empty once the members are
  being destroyed. `QueuedOnLiveLoops` and `CallsEndFirst` follow: the raw pointers to
  loops and to the server are good whenever they are used. `DealtEvenly` is about
  `RoundRobin`, which compares loops and is not inductive: `DealInv` counts instead, a
  number of whole rounds for every loop and one connection more for those that `next_`
  has passed; before `start()` has returned nothing is accepted, so `next_` stands still
  while the pool's size grows (`NothingDealt`).
* **TcpServerLifeProofs.** `connectDestroyed` is asked for by `removeConnectionInLoop` and by
  `~TcpServer`; that it runs once depends on what is still queued, and in which order.
  What a loop has yet to call, the rest of the batch and then the pending list, is
  treated as one list (`SizeOf`, `WorkOf`), on which a push and a pop are all that ever
  happens (`ListPush`, `ListPop`); `Todos` is its set of functors. `LifeOf` relates them to
  the map, the state and the count of one connection: in the map or destroyed means no
  destruction is queued, neither of the two means one is, or the loop has ended. From
  it follow `DestroysOnce`, `OwedIsPaid`, together `DestroysExactlyOnce`, and
  `PolledIsHeld`.
* **TcpServerRefinementProofs.** `LifeIsStage` reduces the stage of a connection to its
  state and to whether it is held. A step then concerns one connection (`OneGoesOn`),
  releases references (`SomeAreFreed`; by `LifeOf` only what is down loses its last one
  while the base loop runs) or nobody (`NobodyMoves`), and each action of the server is
  one of these: `ServerImplementsLife`.

With these, every safety invariant and every action property of the passing runs is
stated by a theorem, each refinement in its safety part.

Only model-checked: liveness (`QueuedRuns`, `QuitStops`, `ReadyIsHandled`,
`ShutdownHappens`, `PeerCloseEndsIt`, `StartEnds`, `DestructorEnds`, `ClosedIsFreed`,
`ClientAccepted`, `TeardownFrees`), since fairness and `ENABLED` are out of the prover's
reach.

## 6. Not modelled

* `InetAddress`, `Timestamp` and `CurrentThread` keep no state that others see; names of
  threads and connections are formatting.
* `Logger`: `setLogLevel` and `log` are two unsynchronised calls on one shared integer,
  so two threads can print each other's level. The integer chooses a prefix of the
  printed line and nothing else reads it.
* Creating and binding the listening socket, and socket options: system calls whose
  failure ends the process or is only logged. `createNonblocking` has no return
  statement (`src/Acceptor.cpp:11-18`); a build without optimisation, such as the one in
  `lib/`, happens to return the descriptor.
* `Channel::tie` is a conjunct of `Release` in `PollerLoop`: the `shared_ptr` it yields
  holds a connection during its callbacks. In `TcpServer`, without a racing `shutdown()`,
  the map or a functor holds it anyway whenever its loop handles an event
  (`PollerHoldsLive`).
* The wakeup that ends `quit()` in `~EventLoopThread` may reach a loop that has left its
  thread's stack since `loop_` was read. `EventLoopThreadPool` takes that step and lets it
  do nothing to a loop that is gone; `QuitsLiveLoop` speaks of the store before it.
* `EventLoopThreadPool::getAllLoops` and the other functions without a return value have
  no caller that uses one.
* In `TcpConnection`, callers hold the connection and the message until the functor has
  run, although `send` binds a raw `this` and a `c_str()` (`src/TcpConnection.cpp:75`):
  what an application keeps alive is its own business.
* In `TcpServer`, `start()` comes before the base loop, the base loop is entered once, the
  server is destroyed outside it, as `main()` of the example does, and no callback quits
  an I/O loop, since the server has nowhere to put the connections of one that ended.
  `shutdown()` and data are left to `TcpConnection`: `PollerHoldsLive` and `ImplementsLife`
  are about connections that no other thread shuts down.

## 7. Plan

Done: the loop, the poller, one connection, the buffer; the threads and the pool; the
server with its acceptor, connections and teardown; the theorems about all of them.

Left:

1. A weaker condition than `ClosesOnLoop` for `DestroyedOnce`: threads that close but
   never send, for which no functor of `send()` can bring the socket back.
2. An abstract specification of one connection as its application sees it (up, bytes,
   end of stream, down), of which `TcpConnection` is shown to be an implementation under
   `ClosesOnLoop`, so that `TcpServer` may rest on it.
3. Tearing a server down while its base loop still runs, from one of its callbacks.
