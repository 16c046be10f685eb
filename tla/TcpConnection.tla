--------------------------- MODULE TcpConnection ----------------------------
(***************************************************************************)
(* One TcpConnection (src/TcpConnection.cpp) on its loop: the loop thread, *)
(* the application's threads that call send and shutdown, the TcpServer    *)
(* that destroys it, the kernel's socket and the peer.                     *)
(*                                                                         *)
(* The channel's registration is that of EPollPoller, the pending functors *)
(* are run as EventLoop runs them: in order, the batch taken before the    *)
(* first call.  Whoever calls send or shutdown is taken to hold the        *)
(* connection and the message until the functor of the call has run.  The  *)
(* loop is one of the server's thread pool, which quits it when the server *)
(* is destroyed, and only then.                                            *)
(***************************************************************************)
EXTENDS Naturals, Sequences

CONSTANTS
    Message, Size,       \* messages, each sent once; their lengths in bytes
    Caller,              \* threads other than the loop's
    Senders, Closers,    \* the threads that call send(); shutdown()
    HighWaterMark,       \* highWaterMark_
    MaxRoom,             \* bytes the kernel's send buffer holds
    IgnoreSigpipe        \* the application ignores SIGPIPE (the library does not)

ASSUME SizeAssumption == Size \in [Message -> Nat]
ASSUME ThreadAssumption ==
    /\ Senders \cup Closers \subseteq Caller \cup {"loop"}
    /\ "loop" \notin Caller
ASSUME WaterAssumption == HighWaterMark \in Nat \ {0} /\ MaxRoom \in Nat \ {0}

VARIABLES
    state,      \* state_
    poller,     \* channel_, as the loop's poller knows it
    out,        \* the readable bytes of outputBuffer_
    sock,       \* the kernel's socket
    queue,      \* the loop's functors that concern the connection
    batch,      \* how many of them doPendingFunctors has taken
    pc, todo,   \* where the loop is; the callbacks handleEvent has still to call
    call,       \* Caller -> the step its send() or shutdown() has reached
    server,     \* the TcpServer's side
    log         \* history

vars == <<state, poller, out, sock, queue, batch, pc, todo, call, server, log>>

P == INSTANCE EPollPoller WITH Channel <- {"conn"}, Fd <- {"sock"}, None <- "none"

Writing        == P!IsWriting(poller, "conn")
EnableReading  == P!EnableReading(poller, "conn", "sock")
EnableWriting  == P!EnableWriting(poller, "conn", "sock")
DisableAll     == P!DisableAll(poller, "conn", "sock")

\* Mutants: the drained channel still asks for EPOLLOUT; the destroyed connection
\* leaves its channel with the poller.
DisableWritingForgotten == poller
RemoveForgotten(p) == p

DisableWriting == P!DisableWriting(poller, "conn", "sock")
Remove(p)      == P!RemoveChannel(p, "conn", "sock")

State == {"connecting", "connected", "disconnecting", "disconnected"}

\* The places of the loop where the application's code runs: callbacks of other
\* channels, messageCallback, functors (of this connection or not).
InCallback == pc \in {"dispatch", "callback", "functors"}

Payload(m) == [i \in 1 .. Size[m] |-> <<m, i>>]

Least(a, b) == IF a < b THEN a ELSE b

Drop(s, n) == SubSeq(s, n + 1, Len(s))

\* Just constructed by TcpServer::newConnection, connectEstablished queued.
Init ==
    /\ state = "connecting"
    /\ poller = P!EmptyPoller
    /\ out = <<>>
    /\ sock = [room    |-> MaxRoom,  \* free bytes of the send buffer
               inbound |-> FALSE,    \* there is something to read
               fin     |-> FALSE,    \* the peer has sent FIN
               reset   |-> FALSE,    \* the peer has sent RST
               error   |-> "none",   \* SO_ERROR
               shut    |-> FALSE]    \* shutdown(SHUT_WR) has been called
    /\ queue = <<<<"established">>>>
    /\ batch = 0
    /\ pc = "poll"
    /\ todo = {}
    /\ call = [t \in Caller |-> <<"idle">>]
    /\ server = [requests |-> 0,      \* removeConnection calls to be carried out
                 erased   |-> FALSE,  \* it has left connections_
                 torn     |-> FALSE]  \* ~TcpServer has run
    /\ log = [offered   |-> {},      \* messages given to send()
              accepted  |-> <<>>,    \* bytes sendInLoop took charge of
              sent      |-> <<>>,    \* bytes the kernel took
              announced |-> 0,       \* bytes accepted at the last writeComplete
              reports   |-> 0,       \* highWaterMarkCallback_ calls queued
              dips      |-> 0,       \* times the buffer fell back below the mark
              broken    |-> FALSE,   \* write() after shutdown(SHUT_WR)
              up        |-> 0,       \* connectionCallback_ calls, connected
              down      |-> 0,       \* connectionCallback_ calls, not connected
              destroyed |-> 0]       \* connectDestroyed calls

-----------------------------------------------------------------------------
(***************************************************************************)
(* External: write() and the peer.                                         *)
(***************************************************************************)
WriteFails == sock.reset \/ sock.shut

\* Bytes that write() takes of n: what fits (none is EWOULDBLOCK).
WriteTakes(n) == IF WriteFails THEN 0 ELSE Least(n, sock.room)

\* The socket after that write(); a failed one reports the pending SO_ERROR, or
\* EPIPE.
SockAfterWrite(n) ==
    IF WriteFails THEN [sock EXCEPT !.error = "none"]
                  ELSE [sock EXCEPT !.room = @ - WriteTakes(n)]

\* EPIPE comes with SIGPIPE, which ends a process that does not ignore it.
WriteKills == WriteFails /\ sock.error \in {"none", "EPIPE"} /\ ~IgnoreSigpipe

PeerSends ==
    /\ ~sock.fin /\ ~sock.reset /\ ~sock.inbound
    /\ sock' = [sock EXCEPT !.inbound = TRUE]

PeerCloses ==
    /\ ~sock.fin /\ ~sock.reset
    /\ sock' = [sock EXCEPT !.fin = TRUE]

PeerResets ==
    /\ ~sock.reset
    /\ sock' = [sock EXCEPT !.reset = TRUE,
                            !.error = IF sock.fin THEN "EPIPE" ELSE "ECONNRESET"]

PeerAcks ==
    /\ ~sock.reset /\ sock.room < MaxRoom
    /\ sock' = [sock EXCEPT !.room = @ + 1]

PeerStep ==
    /\ PeerSends \/ PeerCloses \/ PeerResets \/ PeerAcks
    /\ UNCHANGED <<state, poller, out, queue, batch, pc, todo, call, server, log>>

-----------------------------------------------------------------------------
(***************************************************************************)
(* The operations of the loop thread.                                      *)
(***************************************************************************)
\* The connection has drained: writeCompleteCallback_ is queued.
Announce(l) == [l EXCEPT !.announced = Len(l.accepted)]

\* Mutants: a message may overtake what is buffered; the mark is reported for every
\* message buffered above it.
DirectAlways == TRUE
CrossesAgain(old, new) == new >= HighWaterMark

\* A message is written at once when nothing waits before it.
Direct == ~Writing /\ out = <<>>

Crosses(old, new) == new >= HighWaterMark /\ old < HighWaterMark

\* sendInLoop, queueing behind q.  What is left of the message is buffered unless
\* write() failed for good; both callbacks are set.
SendInLoop(m, q) ==
    LET data == Payload(m)
        lost == Direct /\ WriteFails
        n    == IF Direct THEN WriteTakes(Len(data)) ELSE 0
        rest == IF lost THEN <<>> ELSE Drop(data, n)
        done == Direct /\ ~lost /\ rest = <<>>
        high == rest # <<>> /\ Crosses(Len(out), Len(out) + Len(rest))
        l    == [log EXCEPT !.offered = @ \cup {m},
                            !.accepted = IF lost THEN @ ELSE @ \o data,
                            !.sent = @ \o SubSeq(data, 1, n),
                            !.reports = IF high THEN @ + 1 ELSE @,
                            !.broken = @ \/ (Direct /\ sock.shut)]
    IN  /\ state # "disconnected"
        /\ out' = out \o rest
        /\ sock' = IF Direct THEN SockAfterWrite(n) ELSE sock
        /\ poller' = IF rest # <<>> /\ ~Writing THEN EnableWriting ELSE poller
        /\ queue' = q \o (IF done THEN <<<<"complete">>>> ELSE <<>>)
                      \o (IF high THEN <<<<"high">>>> ELSE <<>>)
        /\ log' = IF done THEN Announce(l) ELSE l
        /\ pc' = IF Direct /\ WriteKills THEN "killed" ELSE pc

\* sendInLoop gives up: "disconnected, give up writing!"
GiveUp(m, q) ==
    /\ state = "disconnected"
    /\ queue' = q
    /\ log' = [log EXCEPT !.offered = @ \cup {m}]
    /\ UNCHANGED <<poller, out, sock, pc>>

\* Mutant: the write side is closed over what is still buffered.
ShutdownEagerly(k, writing) == [k EXCEPT !.shut = ~k.reset]

\* shutdownInLoop on socket k; it waits for what is buffered, and fails once the
\* peer has reset the connection.
ShutdownInLoop(k, writing) == [k EXCEPT !.shut = @ \/ (~writing /\ ~k.reset)]

\* send() and shutdown() on the loop's thread.
LoopSend(m) ==
    /\ "loop" \in Senders
    /\ InCallback
    /\ m \notin log.offered
    /\ state = "connected"
    /\ SendInLoop(m, queue)
    /\ UNCHANGED <<state, batch, todo, call, server>>

\* Mutant: the state is not looked at.
LoopShutdownUnguarded ==
    /\ "loop" \in Closers /\ InCallback
    /\ state' = "disconnecting"
    /\ sock' = ShutdownInLoop(sock, Writing)
    /\ UNCHANGED <<poller, out, queue, batch, pc, todo, call, server, log>>

LoopShutdown ==
    /\ "loop" \in Closers
    /\ InCallback
    /\ state = "connected"
    /\ state' = "disconnecting"
    /\ sock' = ShutdownInLoop(sock, Writing)
    /\ UNCHANGED <<poller, out, queue, batch, pc, todo, call, server, log>>

(***************************************************************************)
(* send() and shutdown() on another thread: the test of state_, for        *)
(* shutdown the store that follows, then the functor.                      *)
(***************************************************************************)
CallerSend(t, m) ==
    /\ t \in Senders
    /\ call[t] = <<"idle">>
    /\ m \notin log.offered
    /\ state = "connected"
    /\ call' = [call EXCEPT ![t] = <<"send", m>>]
    /\ log' = [log EXCEPT !.offered = @ \cup {m}]
    /\ UNCHANGED <<state, poller, out, sock, queue, batch, pc, todo, server>>

CallerShutdown(t) ==
    /\ t \in Closers
    /\ call[t] = <<"idle">>
    /\ state = "connected"
    /\ call' = [call EXCEPT ![t] = <<"closing">>]
    /\ UNCHANGED <<state, poller, out, sock, queue, batch, pc, todo, server, log>>

CallerSetsState(t) ==
    /\ call[t] = <<"closing">>
    /\ state' = "disconnecting"
    /\ call' = [call EXCEPT ![t] = <<"shutdown">>]
    /\ UNCHANGED <<poller, out, sock, queue, batch, pc, todo, server, log>>

CallerQueues(t) ==
    /\ call[t][1] \in {"send", "shutdown"}
    /\ queue' = Append(queue, call[t])
    /\ call' = [call EXCEPT ![t] = <<"idle">>]
    /\ UNCHANGED <<state, poller, out, sock, batch, pc, todo, server, log>>

-----------------------------------------------------------------------------
(***************************************************************************)
(* The rounds of the loop.                                                 *)
(***************************************************************************)
\* epoll reports what the registered channel asked for, and errors and hang-ups
\* unasked; handleEventWithGuard turns that into callbacks.
Reported ==
    LET asked == poller.kernel["sock"].events
        in    == "read" \in asked /\ (sock.inbound \/ sock.fin \/ sock.reset)
    IN  IF poller.kernel["sock"] = P!Vacant THEN {}
        ELSE {e \in {"close", "error", "read", "write"} :
                \/ e = "close" /\ (sock.reset \/ (sock.fin /\ sock.shut)) /\ ~in
                \/ e = "error" /\ sock.error # "none"
                \/ e = "read" /\ in
                \/ e = "write" /\ "write" \in asked
                               /\ (sock.room > 0 \/ WriteFails)}

Poll ==
    /\ pc = "poll"
    /\ todo' = Reported
    /\ pc' = "dispatch"
    /\ UNCHANGED <<state, poller, out, sock, queue, batch, call, server, log>>

\* The turn of this channel among the active ones.
HandleEvent ==
    /\ pc = "dispatch"
    /\ pc' = "event"
    /\ UNCHANGED <<state, poller, out, sock, queue, batch, todo, call, server, log>>

\* Mutants: handleClose forgets the state, the channel, the server.
HandleCloseKeepsState(e) ==
    /\ poller' = DisableAll
    /\ log' = [log EXCEPT !.down = @ + 1]
    /\ server' = [server EXCEPT !.requests = IF server.torn THEN @ ELSE @ + 1]
    /\ todo' = todo \ {e}
    /\ UNCHANGED <<state, out, sock, queue, batch, pc, call>>
HandleCloseStaysRegistered(e) ==
    /\ state' = "disconnected"
    /\ log' = [log EXCEPT !.down = @ + 1]
    /\ server' = [server EXCEPT !.requests = IF server.torn THEN @ ELSE @ + 1]
    /\ todo' = todo \ {e}
    /\ UNCHANGED <<poller, out, sock, queue, batch, pc, call>>
HandleCloseSilently(e) ==
    /\ state' = "disconnected"
    /\ poller' = DisableAll
    /\ log' = [log EXCEPT !.down = @ + 1]
    /\ todo' = todo \ {e}
    /\ UNCHANGED <<out, sock, queue, batch, pc, call, server>>

\* handleClose, called for event e.  closeCallback_ asks the server to remove the
\* connection; a server that is gone is not asked.
HandleClose(e) ==
    /\ state' = "disconnected"
    /\ poller' = DisableAll
    /\ log' = [log EXCEPT !.down = @ + 1]
    /\ server' = [server EXCEPT !.requests = IF server.torn THEN @ ELSE @ + 1]
    /\ todo' = todo \ {e}
    /\ UNCHANGED <<out, sock, queue, batch, pc, call>>

OnClose ==
    /\ pc = "event"
    /\ "close" \in todo
    /\ HandleClose("close")

\* handleError: reading SO_ERROR clears it.
OnError ==
    /\ pc = "event"
    /\ "error" \in todo /\ "close" \notin todo
    /\ sock' = [sock EXCEPT !.error = "none"]
    /\ todo' = todo \ {"error"}
    /\ UNCHANGED <<state, poller, out, queue, batch, pc, call, server, log>>

\* handleRead: data, then a pending error (handleError follows, in vain), then
\* the end of the stream.
OnRead ==
    /\ pc = "event"
    /\ "read" \in todo /\ todo \cap {"close", "error"} = {}
    /\ IF sock.inbound \/ sock.error # "none"
       THEN /\ sock' = IF sock.inbound THEN [sock EXCEPT !.inbound = FALSE]
                                       ELSE [sock EXCEPT !.error = "none"]
            /\ pc' = IF sock.inbound THEN "callback" ELSE "event"
            /\ todo' = todo \ {"read"}
            /\ UNCHANGED <<state, poller, out, queue, batch, call, server, log>>
       ELSE HandleClose("read")

\* messageCallback_ returns.
CallbackReturns ==
    /\ pc = "callback"
    /\ pc' = "event"
    /\ UNCHANGED <<state, poller, out, sock, queue, batch, todo, call, server, log>>

\* Mutants: the buffer is looked at before retrieve(); the deferred shutdown is
\* forgotten.
DrainedBefore(n) == Writing /\ n > 0 /\ Len(out) = 0
NoShutdown(k) == k

\* Writing n bytes leaves nothing in the buffer.
Drained(n) == Writing /\ n > 0 /\ Len(out) - n = 0

\* Writing n bytes takes the buffer back below the high-water mark.
Dips(n) == Len(out) >= HighWaterMark /\ Len(out) - n < HighWaterMark

\* The shutdown() that waited for the buffer is carried out.
ShutdownIfDue(k) == IF state = "disconnecting" THEN ShutdownInLoop(k, FALSE) ELSE k

\* handleWrite: it does nothing if writing is no longer wanted or write() fails.
OnWrite ==
    LET n       == WriteTakes(Len(out))
        drained == Drained(n)
        after   == SockAfterWrite(n)
        l       == [log EXCEPT !.sent = @ \o SubSeq(out, 1, n),
                               !.dips = IF Dips(n) THEN @ + 1 ELSE @,
                               !.broken = @ \/ sock.shut]
    IN  /\ pc = "event"
        /\ todo = {"write"}
        /\ todo' = {}
        /\ UNCHANGED <<state, batch, call, server>>
        /\ IF ~Writing
           THEN UNCHANGED <<poller, out, sock, queue, pc, log>>
           ELSE /\ out' = Drop(out, n)
                /\ poller' = IF drained THEN DisableWriting ELSE poller
                /\ queue' = IF drained THEN Append(queue, <<"complete">>) ELSE queue
                /\ sock' = IF drained THEN ShutdownIfDue(after) ELSE after
                /\ log' = IF drained THEN Announce(l) ELSE l
                /\ pc' = IF WriteKills THEN "killed" ELSE pc

\* doPendingFunctors takes what is queued.
TakePending ==
    /\ pc = "event"
    /\ todo = {}
    /\ batch' = Len(queue)
    /\ pc' = "functors"
    /\ UNCHANGED <<state, poller, out, sock, queue, todo, call, server, log>>

FunctorsDone ==
    /\ pc = "functors"
    /\ batch = 0
    /\ pc' = "poll"
    /\ UNCHANGED <<state, poller, out, sock, queue, batch, todo, call, server, log>>

-----------------------------------------------------------------------------
(***************************************************************************)
(* The functors.                                                           *)
(***************************************************************************)
\* Mutant: the functors queued meanwhile are called in the same batch.
CallsAll(f) ==
    /\ pc = "functors"
    /\ queue # <<>>
    /\ Head(queue) = f
    /\ batch' = batch - 1

\* The functor f is called next.
Calls(f) ==
    /\ pc = "functors"
    /\ batch > 0
    /\ Head(queue) = f
    /\ batch' = batch - 1

ConnectEstablished ==
    /\ Calls(<<"established">>)
    /\ queue' = Tail(queue)
    /\ state' = "connected"
    /\ poller' = EnableReading
    /\ log' = [log EXCEPT !.up = @ + 1]
    /\ UNCHANGED <<out, sock, pc, todo, call, server>>

RunSend(m) ==
    /\ Calls(<<"send", m>>)
    /\ SendInLoop(m, Tail(queue)) \/ GiveUp(m, Tail(queue))
    /\ UNCHANGED <<state, todo, call, server>>

RunShutdown ==
    /\ Calls(<<"shutdown">>)
    /\ queue' = Tail(queue)
    /\ sock' = ShutdownInLoop(sock, Writing)
    /\ UNCHANGED <<state, poller, out, pc, todo, call, server, log>>

\* writeCompleteCallback_ or highWaterMarkCallback_: application code.
RunCallback ==
    /\ Calls(<<"complete">>) \/ Calls(<<"high">>)
    /\ queue' = Tail(queue)
    /\ UNCHANGED <<state, poller, out, sock, pc, todo, call, server, log>>

\* connectDestroyed of a connection that is not connected.
ConnectDestroyed ==
    /\ Calls(<<"destroyed">>)
    /\ queue' = Tail(queue)
    /\ IF state = "connected"
       THEN /\ pc' = "destroying"
            /\ UNCHANGED <<poller, log>>
       ELSE /\ poller' = Remove(poller)
            /\ log' = [log EXCEPT !.destroyed = @ + 1]
            /\ UNCHANGED pc
    /\ UNCHANGED <<state, out, sock, todo, call, server>>

\* The rest of it once the connection was found connected; another thread may
\* have changed state_ since.
FinishDestroyed ==
    /\ pc = "destroying"
    /\ pc' = "functors"
    /\ state' = "disconnected"
    /\ poller' = Remove(DisableAll)
    /\ log' = [log EXCEPT !.down = @ + 1, !.destroyed = @ + 1]
    /\ UNCHANGED <<out, sock, queue, batch, todo, call, server>>

-----------------------------------------------------------------------------
(***************************************************************************)
(* External: the TcpServer.                                                *)
(***************************************************************************)
\* removeConnectionInLoop.
ServerRemoves ==
    /\ server.requests > 0
    /\ ~server.torn
    /\ server' = [server EXCEPT !.requests = @ - 1, !.erased = TRUE]
    /\ queue' = Append(queue, <<"destroyed">>)
    /\ UNCHANGED <<state, poller, out, sock, batch, pc, todo, call, log>>

\* ~TcpServer, while the connection is still in connections_.  Its members go next,
\* the pool among them: from now on the loop may find that it has been quit.
ServerTearsDown ==
    /\ ~server.erased
    /\ server' = [server EXCEPT !.torn = TRUE, !.erased = TRUE]
    /\ queue' = Append(queue, <<"destroyed">>)
    /\ UNCHANGED <<state, poller, out, sock, batch, pc, todo, call, log>>

\* The loop ends: the functors that are queued, and those that come, are never
\* called, and ~EventLoop lets go of the connection they hold.
LoopEnds ==
    /\ server.torn
    /\ pc = "poll"
    /\ pc' = "ended"
    /\ UNCHANGED <<state, poller, out, sock, queue, batch, todo, call, server, log>>

-----------------------------------------------------------------------------
LoopStep ==
    \/ Poll \/ HandleEvent \/ OnClose \/ OnError \/ OnRead \/ OnWrite
    \/ CallbackReturns \/ TakePending \/ FunctorsDone
    \/ ConnectEstablished \/ RunShutdown \/ RunCallback
    \/ ConnectDestroyed \/ FinishDestroyed
    \/ \E m \in Message : RunSend(m)

CallbackStep == LoopShutdown \/ \E m \in Message : LoopSend(m)

CallerStarts(t) == CallerShutdown(t) \/ \E m \in Message : CallerSend(t, m)

CallerGoesOn(t) == CallerSetsState(t) \/ CallerQueues(t)

Next ==
    \/ LoopStep \/ CallbackStep \/ PeerStep
    \/ ServerRemoves \/ ServerTearsDown \/ LoopEnds
    \/ \E t \in Caller : CallerStarts(t) \/ CallerGoesOn(t)

SafeSpec == Init /\ [][Next]_vars

\* Every thread is scheduled, callbacks return, calls that have begun end, and
\* the server carries out what it was asked.  Nobody has to destroy the server.
Fairness ==
    /\ WF_vars(LoopStep)
    /\ WF_vars(ServerRemoves)
    /\ \A t \in Caller : WF_vars(CallerGoesOn(t))

\* The peer goes on taking what it is sent, as long as it has not reset the
\* connection.
Spec == SafeSpec /\ Fairness /\ WF_vars(PeerAcks /\ PeerStep)

-----------------------------------------------------------------------------
(***************************************************************************)
(* Properties.                                                             *)
(***************************************************************************)
Functor == {<<"established">>, <<"shutdown">>, <<"complete">>, <<"high">>, <<"destroyed">>}
              \cup ({"send"} \X Message)

Byte == Message \X Nat

Socket == [room : 0 .. MaxRoom, inbound : BOOLEAN, fin : BOOLEAN, reset : BOOLEAN,
           error : {"none", "EPIPE", "ECONNRESET"}, shut : BOOLEAN]

Place == {"poll", "dispatch", "event", "callback", "functors", "destroying",
          "killed", "ended"}

Step == {<<"idle">>, <<"closing">>, <<"shutdown">>} \cup ({"send"} \X Message)

History == [offered : SUBSET Message, accepted : Seq(Byte), sent : Seq(Byte),
            announced : Nat, reports : Nat, dips : Nat, broken : BOOLEAN,
            up : Nat, down : Nat, destroyed : Nat]

TypeOK ==
    /\ state \in State
    /\ poller \in P!PollerState
    /\ out \in Seq(Byte)
    /\ sock \in Socket
    /\ queue \in Seq(Functor)
    /\ batch \in 0 .. Len(queue)
    /\ pc \in Place
    /\ todo \subseteq {"close", "error", "read", "write"}
    /\ call \in [Caller -> Step]
    /\ server \in [requests : Nat, erased : BOOLEAN, torn : BOOLEAN]
    /\ log \in History

\* Whatever is written at once, buffered, or left over by a short write, the peer
\* gets the bytes in the order in which sendInLoop accepted them, none missing and
\* none twice (TcpConnection.cpp:97-144,216-222).
StreamIntact == log.accepted = log.sent \o out

\* EPOLLOUT is asked for exactly while something is buffered: with it and nothing
\* to write the loop would spin, without it the data would never leave
\* (TcpConnection.cpp:141-144,224-226).
WritingIffBuffered ==
    state \in {"connected", "disconnecting"} => (Writing <=> out # <<>>)

\* The application hears of a buffer that has reached the high-water mark once for
\* each time it gets there, and only then: the reports are as many as the times the
\* buffer fell back below the mark, one more while it has not
\* (TcpConnection.cpp:130-136).
HighWaterReported ==
    log.reports = log.dips + (IF Len(out) >= HighWaterMark THEN 1 ELSE 0)

\* Whenever everything accepted has been written, writeCompleteCallback_ has been
\* queued for it, and never for bytes that have not been written
\* (TcpConnection.cpp:103-107,227-231).
DrainReported ==
    /\ out = <<>> => log.announced = Len(log.accepted)
    /\ log.announced <= Len(log.sent)

\* While the connection is up, its write side is closed only once the buffer is
\* empty, and nothing is buffered behind the end of the stream, where it would never
\* leave, whoever calls send() and shutdown() (TcpConnection.cpp:149-164,232-235).
NothingBehindFin == sock.shut /\ log.down = 0 => out = <<>>

\* The comment at TcpConnection.cpp:88: once shutdown was called, sendInLoop sends
\* no more.  In particular it does not write to a socket whose write side the
\* connection has closed, which would raise SIGPIPE.
NeverWritesAfterFin == ~log.broken

Rank(s) == CASE s = "connecting" -> 1 [] s = "connected" -> 2
             [] s = "disconnecting" -> 3 [] s = "disconnected" -> 4

\* The connection never returns to an earlier state.
StateOnlyAdvances == [][Rank(state) <= Rank(state')]_state

\* connectionCallback_ tells of each connection once that it is up, and at most
\* once, later, that it is down.  By the time connectDestroyed is over it has told
\* both, unless the server was torn down while the connection was half closed
\* (TcpConnection.cpp:180-185).
UpThenDown ==
    /\ log.down <= log.up /\ log.up <= 1
    /\ log.destroyed > 0 => log.down = 1 \/ (server.torn /\ state = "disconnecting")

\* "This two functions should be called only once" (TcpConnection.cpp:166,
\* TcpConnection.h:66).
DestroyedOnce == log.destroyed <= 1

\* A destroyed connection leaves nothing in the poller, and nothing brings it back
\* (TcpConnection.cpp:141-144,186).
NothingLeftInPoller ==
    /\ log.destroyed > 0 => poller.index["conn"] = "new" /\ poller.kernel["sock"] = P!Vacant
    /\ poller.errors = {}

\* shutdown() closes the write side once the buffer has drained, unless the
\* connection goes down or its loop ends first.
ShutdownHappens ==
    state = "disconnecting" ~>
        sock.shut \/ log.down > 0 \/ log.destroyed > 0 \/ pc = "ended"

\* A connection the peer has closed or reset is taken down and destroyed, unless its
\* loop ends first (TcpConnection.cpp:199-211,250-260, EventLoop.cpp:74).
PeerCloseEndsIt == sock.fin \/ sock.reset ~> log.destroyed > 0 \/ pc = "ended"

=============================================================================
