------------------------ MODULE TcpConnectionProofs -------------------------
(***************************************************************************)
(* Theorems about TcpConnection, for any messages, threads, buffer sizes   *)
(* and behaviour of the peer.                                              *)
(***************************************************************************)
EXTENDS TcpConnection, SequenceTheorems, TLAPS

(***************************************************************************)
(* The registration of the one channel.                                    *)
(***************************************************************************)
Asks(p)       == p.events["conn"]
Registered(p) == p.index["conn"] = "added"

\* No operation on epoll has failed, and epoll holds what the channel believes.
Mirrored(p) == P!KernelMirrors(p, "conn", "sock") /\ p.errors = {}

LEMMA EpollCtlTyped ==
  ASSUME NEW p \in P!PollerState, NEW op \in {"add", "mod", "del"}
  PROVE  P!EpollCtl(p, op, "conn", "sock") \in P!PollerState
<1>1. P!Vacant \in P!Entry
  BY DEF P!Vacant, P!Entry
<1>2. [channel |-> "conn", events |-> p.events["conn"]] \in P!Entry
  BY DEF P!PollerState, P!Entry
<1> DEFINE e == IF op = "del" THEN P!Vacant ELSE [channel |-> "conn", events |-> p.events["conn"]]
<1>3. e \in P!Entry
  BY <1>1, <1>2
<1>4. [p EXCEPT !.kernel["sock"] = e] \in P!PollerState
  BY <1>3 DEF P!PollerState
<1>5. [p EXCEPT !.errors = @ \cup {op}] \in P!PollerState
  BY DEF P!PollerState
<1> QED BY <1>4, <1>5 DEF P!EpollCtl

\* Setting the interest of the channel (Channel.h:44-47, EPollPoller.cpp:49-79).
LEMMA SetEventsTyped ==
  ASSUME NEW p \in P!PollerState, NEW ev \in SUBSET P!Interest
  PROVE  P!SetEvents(p, "conn", "sock", ev) \in P!PollerState
<1> DEFINE q == [p EXCEPT !.events["conn"] = ev]
           a == [q EXCEPT !.index["conn"] = "added", !.channels["sock"] = "conn"]
           b == [q EXCEPT !.index["conn"] = "added"]
<1>1. q \in P!PollerState /\ q.index["conn"] \in P!Index
  BY DEF P!PollerState
<1>2. a \in P!PollerState /\ b \in P!PollerState
  BY <1>1 DEF P!PollerState, P!Index
<1>3. \A r \in P!PollerState : [r EXCEPT !.index["conn"] = "deleted"] \in P!PollerState
  BY DEF P!PollerState, P!Index
<1>4. P!UpdateChannel(q, "conn", "sock") \in P!PollerState
  <2> HIDE DEF q
  <2>1. CASE q.index["conn"] = "new"
    BY <1>2, <2>1, EpollCtlTyped DEF P!UpdateChannel
  <2>2. CASE q.index["conn"] = "deleted"
    BY <1>2, <2>2, EpollCtlTyped DEF P!UpdateChannel
  <2>3. CASE q.index["conn"] = "added" /\ q.events["conn"] = {}
    BY <1>1, <1>3, <2>3, EpollCtlTyped DEF P!UpdateChannel
  <2>4. CASE q.index["conn"] = "added" /\ q.events["conn"] # {}
    BY <1>1, <2>4, EpollCtlTyped DEF P!UpdateChannel
  <2> QED BY <1>1, <2>1, <2>2, <2>3, <2>4 DEF P!Index
<1> QED BY <1>4 DEF P!SetEvents

LEMMA SetEventsMirrors ==
  ASSUME NEW p \in P!PollerState, NEW ev \in SUBSET P!Interest, Mirrored(p)
  PROVE  LET s == P!SetEvents(p, "conn", "sock", ev) IN
         /\ Mirrored(s)
         /\ Asks(s) = ev
         /\ s.index["conn"] = IF Registered(p) /\ ev = {} THEN "deleted" ELSE "added"
BY DEF P!SetEvents, P!UpdateChannel, P!EpollCtl, Mirrored, Asks, Registered,
   P!KernelMirrors, P!PollerState, P!Index, P!Entry, P!Vacant

\* Taking the channel from the poller (EPollPoller.cpp:81-96).
LEMMA RemoveTyped ==
  ASSUME NEW p \in P!PollerState
  PROVE  Remove(p) \in P!PollerState
<1> DEFINE q == [p EXCEPT !.channels["sock"] = "none"]
<1>1. q \in P!PollerState
  BY DEF P!PollerState
<1>2. \A r \in P!PollerState : [r EXCEPT !.index["conn"] = "new"] \in P!PollerState
  BY DEF P!PollerState, P!Index
<1> QED BY <1>1, <1>2, EpollCtlTyped DEF Remove, P!RemoveChannel

LEMMA RemoveMirrors ==
  ASSUME NEW p \in P!PollerState, Mirrored(p)
  PROVE  /\ Mirrored(Remove(p))
         /\ Asks(Remove(p)) = Asks(p)
         /\ Remove(p).index["conn"] = "new"
BY DEF Remove, P!RemoveChannel, P!EpollCtl, Mirrored, Asks, Registered,
   P!KernelMirrors, P!PollerState, P!Index, P!Entry, P!Vacant

-----------------------------------------------------------------------------
(***************************************************************************)
(* Bytes and functors.                                                     *)
(***************************************************************************)
LEMMA PayloadTyped ==
  ASSUME NEW m \in Message
  PROVE  Payload(m) \in Seq(Byte) /\ Len(Payload(m)) = Size[m]
<1>1. Size[m] \in Nat
  BY SizeAssumption
<1>2. \A i \in 1 .. Size[m] : <<m, i>> \in Byte
  BY <1>1 DEF Byte
<1>3. Payload(m) \in [1 .. Size[m] -> Byte]
  BY <1>2 DEF Payload
<1> QED BY <1>1, <1>3

LEMMA Associative == \A s, t, u \in Seq(Byte) : (s \o t) \o u = s \o (t \o u)
BY ConcatAssociative

LEMMA SentGrows ==
  ASSUME NEW s \in Seq(Byte), NEW t \in Seq(Byte), NEW k \in Nat, k <= Len(s)
  PROVE  k <= Len(s \o t)
<1>1. Len(s) \in Nat /\ Len(t) \in Nat /\ Len(s \o t) = Len(s) + Len(t)
  OBVIOUS
<1> QED BY <1>1

\* What write() takes of s and what it leaves.
LEMMA Split ==
  ASSUME NEW s \in Seq(Byte), NEW n \in 0 .. Len(s)
  PROVE  /\ SubSeq(s, 1, n) \in Seq(Byte) /\ Drop(s, n) \in Seq(Byte)
         /\ SubSeq(s, 1, n) \o Drop(s, n) = s
         /\ Len(Drop(s, n)) = Len(s) - n
         /\ n = 0 => SubSeq(s, 1, n) = <<>> /\ Drop(s, n) = s
<1>1. Len(s) \in Nat /\ \A i \in 1 .. Len(s) : s[i] \in Byte
  OBVIOUS
<1>2. SubSeq(s, 1, n) \in Seq(Byte)
  BY <1>1, SubSeqProperties
<1>3. Drop(s, n) \in Seq(Byte) /\ Len(Drop(s, n)) = Len(s) - n
  BY <1>1, SubSeqProperties DEF Drop
<1>4. SubSeq(s, 1, n) \o Drop(s, n) = s
  <2>1. 1 \in 1 .. Len(s) + 1 /\ n \in 1 - 1 .. Len(s) /\ Len(s) \in n .. Len(s)
    BY <1>1
  <2>2. SubSeq(s, 1, n) \o SubSeq(s, n + 1, Len(s)) = SubSeq(s, 1, Len(s))
    BY <2>1, ConcatAdjacentSubSeq
  <2> QED BY <2>2, SubSeqFull DEF Drop
<1>5. n = 0 => SubSeq(s, 1, n) = <<>> /\ Drop(s, n) = s
  <2>1. SubSeq(s, 1, 0) = <<>>
    BY SubSeqEmpty
  <2>2. SubSeq(s, 0 + 1, Len(s)) = s
    BY SubSeqFull
  <2> QED BY <2>1, <2>2 DEF Drop
<1> QED BY <1>2, <1>3, <1>4, <1>5

\* r is q with calls of the application's callbacks queued behind it.
Grows(q, r) ==
    /\ r \in Seq(Functor)
    /\ Len(q) <= Len(r)
    /\ \A i \in 1 .. Len(q) : r[i] = q[i]
    /\ \A i \in (Len(q) + 1) .. Len(r) : r[i] \in {<<"complete">>, <<"high">>}

LEMMA AppendGrows ==
  ASSUME NEW q \in Seq(Functor), NEW f \in {<<"complete">>, <<"high">>}
  PROVE  Grows(q, Append(q, f))
<1>1. f \in Functor
  BY DEF Functor
<1>2. Len(q) \in Nat
  OBVIOUS
<1> QED BY <1>1, <1>2, AppendProperties DEF Grows

LEMMA GrowsTransitive ==
  ASSUME NEW q \in Seq(Functor), NEW r, NEW s, Grows(q, r), Grows(r, s)
  PROVE  Grows(q, s)
<1>1. Len(q) \in Nat /\ Len(r) \in Nat /\ Len(s) \in Nat
  BY DEF Grows
<1>2. ASSUME NEW i \in (Len(q) + 1) .. Len(s)
      PROVE  s[i] \in {<<"complete">>, <<"high">>}
  <2>1. CASE i <= Len(r)
    BY <1>1, <2>1 DEF Grows
  <2>2. CASE i > Len(r)
    BY <1>1, <2>2 DEF Grows
  <2> QED BY <1>1, <2>1, <2>2
<1>3. \A i \in 1 .. Len(q) : s[i] = q[i]
  BY <1>1 DEF Grows
<1> QED BY <1>1, <1>2, <1>3 DEF Grows

LEMMA QueueGrows ==
  ASSUME NEW q \in Seq(Functor), NEW done \in BOOLEAN, NEW high \in BOOLEAN
  PROVE  Grows(q, q \o (IF done THEN <<<<"complete">>>> ELSE <<>>)
                    \o (IF high THEN <<<<"high">>>> ELSE <<>>))
<1> DEFINE r == q \o (IF done THEN <<<<"complete">>>> ELSE <<>>)
           s == r \o (IF high THEN <<<<"high">>>> ELSE <<>>)
<1>1. \A t \in Seq(Functor) : Grows(t, t)
  BY DEF Grows
<1>2. Grows(q, r)
  <2>1. CASE done
    <3>1. r = Append(q, <<"complete">>)
      BY <2>1, AppendIsConcat DEF Functor
    <3> QED BY <3>1, AppendGrows
  <2>2. CASE ~done
    <3>1. r = q
      BY <2>2, ConcatEmptySeq
    <3> QED BY <1>1, <3>1
  <2> QED BY <2>1, <2>2
<1>3. r \in Seq(Functor)
  BY <1>2 DEF Grows
<1>4. Grows(r, s)
  <2> HIDE DEF r
  <2>1. CASE high
    <3>1. s = Append(r, <<"high">>)
      BY <1>3, <2>1, AppendIsConcat DEF Functor
    <3> QED BY <1>3, <3>1, AppendGrows
  <2>2. CASE ~high
    <3>1. s = r
      BY <1>3, <2>2, ConcatEmptySeq
    <3> QED BY <1>1, <1>3, <3>1
  <2> QED BY <2>1, <2>2
<1> QED BY <1>2, <1>4, GrowsTransitive

-----------------------------------------------------------------------------
(***************************************************************************)
(* What write(), sendInLoop and handleWrite do.                            *)
(***************************************************************************)
LEMMA WriteTyped ==
  ASSUME sock \in Socket, NEW n \in Nat
  PROVE  /\ WriteTakes(n) \in 0 .. n
         /\ WriteFails => WriteTakes(n) = 0
         /\ SockAfterWrite(n) \in Socket
         /\ SockAfterWrite(n).shut = sock.shut /\ SockAfterWrite(n).reset = sock.reset
<1>1. MaxRoom \in Nat
  BY WaterAssumption
<1>2. sock.room \in Nat /\ sock.room <= MaxRoom
  BY <1>1 DEF Socket
<1>3. WriteTakes(n) \in 0 .. n /\ (WriteFails => WriteTakes(n) = 0)
      /\ (~WriteFails => WriteTakes(n) <= sock.room)
  BY <1>2 DEF WriteTakes, Least
<1>4. CASE WriteFails
  BY <1>3, <1>4 DEF SockAfterWrite, Socket
<1>5. CASE ~WriteFails
  <2>1. sock.room - WriteTakes(n) \in 0 .. MaxRoom
    BY <1>1, <1>2, <1>3, <1>5
  <2> QED BY <1>3, <1>5, <2>1 DEF SockAfterWrite, Socket
<1> QED BY <1>4, <1>5

\* sendInLoop hands n bytes of message m to write() and buffers rest, queueing the
\* callbacks that are due behind q (TcpConnection.cpp:80-146).
SendEffect(m, q, n, rest) ==
    LET data == Payload(m)
        lost == Direct /\ WriteFails
        done == Direct /\ ~lost /\ rest = <<>>
        high == rest # <<>> /\ Crosses(Len(out), Len(out) + Len(rest))
    IN  /\ state # "disconnected"
        /\ ~Direct => n = 0
        /\ lost => n = 0 /\ rest = <<>>
        /\ ~lost => SubSeq(data, 1, n) \o rest = data
        /\ n = 0 => SubSeq(data, 1, n) = <<>>
        /\ ~Direct => rest = data
        /\ SubSeq(data, 1, n) \in Seq(Byte)
        /\ out' = out \o rest
        /\ sock' \in Socket /\ sock'.shut = sock.shut /\ sock'.reset = sock.reset
        /\ poller' = IF rest # <<>> /\ ~Writing THEN EnableWriting ELSE poller
        /\ Grows(q, queue')
        /\ log' \in [offered   : {log.offered \cup {m}},
                     accepted  : {IF lost THEN log.accepted ELSE log.accepted \o data},
                     sent      : {log.sent \o SubSeq(data, 1, n)},
                     announced : {IF done THEN Len(log'.accepted) ELSE log.announced},
                     reports   : {IF high THEN log.reports + 1 ELSE log.reports}, dips : {log.dips},
                     broken    : {log.broken \/ (Direct /\ sock.shut)},
                     up : {log.up}, down : {log.down}, destroyed : {log.destroyed}]
        /\ pc' \in {pc, "killed"}

LEMMA SendHasEffect ==
  ASSUME TypeOK, NEW m \in Message, NEW q \in Seq(Functor), SendInLoop(m, q)
  PROVE  \E n \in 0 .. Size[m], rest \in Seq(Byte) : SendEffect(m, q, n, rest)
<1> DEFINE data == Payload(m)
           lost == Direct /\ WriteFails
           n    == IF Direct THEN WriteTakes(Len(data)) ELSE 0
           rest == IF lost THEN <<>> ELSE Drop(data, n)
           done == Direct /\ ~lost /\ rest = <<>>
           high == rest # <<>> /\ Crosses(Len(out), Len(out) + Len(rest))
           l    == [log EXCEPT !.offered = @ \cup {m},
                               !.accepted = IF lost THEN @ ELSE @ \o data,
                               !.sent = @ \o SubSeq(data, 1, n),
                               !.reports = IF high THEN @ + 1 ELSE @,
                               !.broken = @ \/ (Direct /\ sock.shut)]
<1>1. data \in Seq(Byte) /\ Len(data) = Size[m] /\ Size[m] \in Nat
  BY PayloadTyped, SizeAssumption
<1>2. n \in 0 .. Len(data) /\ (lost => n = 0)
  <2>1. sock \in Socket /\ Len(data) \in Nat
    BY <1>1 DEF TypeOK
  <2> HIDE DEF data
  <2>2. WriteTakes(Len(data)) \in 0 .. Len(data) /\ (WriteFails => WriteTakes(Len(data)) = 0)
    BY <2>1, WriteTyped
  <2>3. 0 \in 0 .. Len(data)
    BY <2>1
  <2> QED BY <2>2, <2>3
<1>3. /\ SubSeq(data, 1, n) \in Seq(Byte) /\ Drop(data, n) \in Seq(Byte)
      /\ SubSeq(data, 1, n) \o Drop(data, n) = data
      /\ n = 0 => SubSeq(data, 1, n) = <<>> /\ Drop(data, n) = data
  <2> HIDE DEF data, n
  <2> QED BY <1>1, <1>2, Split
<1>4. rest \in Seq(Byte)
  BY <1>3
<1>5. /\ state # "disconnected"
      /\ out' = out \o rest
      /\ sock' = IF Direct THEN SockAfterWrite(n) ELSE sock
      /\ poller' = IF rest # <<>> /\ ~Writing THEN EnableWriting ELSE poller
      /\ queue' = q \o (IF done THEN <<<<"complete">>>> ELSE <<>>)
                    \o (IF high THEN <<<<"high">>>> ELSE <<>>)
      /\ log' = IF done THEN Announce(l) ELSE l
      /\ pc' = IF Direct /\ WriteKills THEN "killed" ELSE pc
  BY DEF SendInLoop
<1>6. sock' \in Socket /\ sock'.shut = sock.shut /\ sock'.reset = sock.reset
  <2> HIDE DEF n, rest, data
  <2> QED BY <1>1, <1>2, <1>5, WriteTyped DEF TypeOK
<1>7. Grows(q, queue')
  <2> HIDE DEF done, high
  <2>1. done \in BOOLEAN /\ high \in BOOLEAN
    BY DEF done, high
  <2> QED BY <1>5, <2>1, QueueGrows
<1>8. log' \in [offered   : {log.offered \cup {m}},
                accepted  : {IF lost THEN log.accepted ELSE log.accepted \o data},
                sent      : {log.sent \o SubSeq(data, 1, n)},
                announced : {IF done THEN Len(log'.accepted) ELSE log.announced},
                reports   : {IF high THEN log.reports + 1 ELSE log.reports}, dips : {log.dips},
                broken    : {log.broken \/ (Direct /\ sock.shut)},
                up : {log.up}, down : {log.down}, destroyed : {log.destroyed}]
  <2>1. log \in History
    BY DEF TypeOK
  <2> HIDE DEF n, rest, data, lost, done, high
  <2> QED BY <1>5, <2>1 DEF Announce, History
<1>9. SendEffect(m, q, n, rest)
  <2>1. ~Direct => n = 0 /\ rest = data
    BY <1>3
  <2>2. lost => n = 0 /\ rest = <<>>
    BY <1>2
  <2>3. ~lost => SubSeq(data, 1, n) \o rest = data
    BY <1>3
  <2>4. pc' \in {pc, "killed"}
    BY <1>5
  <2> HIDE DEF n, rest
  <2> QED BY <1>3, <1>5, <1>6, <1>7, <1>8, <2>1, <2>2, <2>3, <2>4 DEF SendEffect
<1> QED BY <1>1, <1>2, <1>4, <1>9

\* handleWrite hands the buffer to write(), which takes n bytes of it
\* (TcpConnection.cpp:213-245).
WriteEffect(n) ==
    /\ n \in 0 .. Len(out)
    /\ out' = Drop(out, n)
    /\ SubSeq(out, 1, n) \in Seq(Byte) /\ out' \in Seq(Byte)
    /\ SubSeq(out, 1, n) \o out' = out
    /\ n = 0 => SubSeq(out, 1, n) = <<>> /\ out' = out
    /\ Len(out') = Len(out) - n
    /\ poller' = IF Drained(n) THEN DisableWriting ELSE poller
    /\ Grows(queue, queue')
    /\ sock' \in Socket /\ sock'.reset = sock.reset
    /\ sock'.shut <=> sock.shut \/ (Drained(n) /\ state = "disconnecting" /\ ~sock.reset)
    /\ log' \in [offered   : {log.offered},
                 accepted  : {log.accepted},
                 sent      : {log.sent \o SubSeq(out, 1, n)},
                 announced : {IF Drained(n) THEN Len(log.accepted) ELSE log.announced},
                 reports   : {log.reports}, dips : {IF Dips(n) THEN log.dips + 1 ELSE log.dips},
                 broken    : {log.broken \/ sock.shut},
                 up : {log.up}, down : {log.down}, destroyed : {log.destroyed}]
    /\ pc' \in {pc, "killed"}

LEMMA WriteHasEffect ==
  ASSUME TypeOK, OnWrite, Writing
  PROVE  \E n \in Nat : WriteEffect(n)
<1> DEFINE n == WriteTakes(Len(out))
           l == [log EXCEPT !.sent = @ \o SubSeq(out, 1, n),
                            !.dips = IF Dips(n) THEN @ + 1 ELSE @,
                            !.broken = @ \/ sock.shut]
<1>1. out \in Seq(Byte) /\ Len(out) \in Nat /\ sock \in Socket /\ log \in History
      /\ queue \in Seq(Functor)
  BY DEF TypeOK
<1>2. n \in 0 .. Len(out)
  BY <1>1, WriteTyped
<1>3. /\ out' = Drop(out, n)
      /\ poller' = IF Drained(n) THEN DisableWriting ELSE poller
      /\ queue' = IF Drained(n) THEN Append(queue, <<"complete">>) ELSE queue
      /\ sock' = IF Drained(n) THEN ShutdownIfDue(SockAfterWrite(n)) ELSE SockAfterWrite(n)
      /\ log' = IF Drained(n) THEN Announce(l) ELSE l
      /\ pc' = IF WriteKills THEN "killed" ELSE pc
  BY DEF OnWrite
<1> HIDE DEF n
<1>4. /\ SubSeq(out, 1, n) \in Seq(Byte) /\ out' \in Seq(Byte)
      /\ SubSeq(out, 1, n) \o out' = out
      /\ n = 0 => SubSeq(out, 1, n) = <<>> /\ out' = out
      /\ Len(out') = Len(out) - n
  BY <1>1, <1>2, <1>3, Split
<1>5. Grows(queue, queue')
  <2>1. Grows(queue, queue)
    BY <1>1 DEF Grows
  <2> QED BY <1>1, <1>3, <2>1, AppendGrows
<1>6. /\ sock' \in Socket /\ sock'.reset = sock.reset
      /\ sock'.shut <=> sock.shut \/ (Drained(n) /\ state = "disconnecting" /\ ~sock.reset)
  <2>1. PICK k \in Socket : k = SockAfterWrite(n) /\ k.shut = sock.shut /\ k.reset = sock.reset
    <3>1. n \in Nat
      BY <1>1, <1>2
    <3> QED BY <1>1, <3>1, WriteTyped
  <2>2. CASE Drained(n) /\ state = "disconnecting"
    <3>1. sock' = [k EXCEPT !.shut = @ \/ (~FALSE /\ ~k.reset)]
      BY <1>3, <2>1, <2>2 DEF ShutdownIfDue, ShutdownInLoop
    <3> QED BY <2>1, <2>2, <3>1 DEF Socket
  <2>3. CASE ~(Drained(n) /\ state = "disconnecting")
    <3>1. sock' = k
      BY <1>3, <2>1, <2>3 DEF ShutdownIfDue
    <3> QED BY <2>1, <2>3, <3>1
  <2> QED BY <2>2, <2>3
<1>7. log' \in [offered   : {log.offered},
                accepted  : {log.accepted},
                sent      : {log.sent \o SubSeq(out, 1, n)},
                announced : {IF Drained(n) THEN Len(log.accepted) ELSE log.announced},
                reports   : {log.reports}, dips : {IF Dips(n) THEN log.dips + 1 ELSE log.dips},
                broken    : {log.broken \/ sock.shut},
                up : {log.up}, down : {log.down}, destroyed : {log.destroyed}]
  BY <1>1, <1>3 DEF Announce, History
<1>8. pc' \in {pc, "killed"}
  BY <1>3
<1>9. n \in Nat
  BY <1>1, <1>2
<1> QED BY <1>2, <1>3, <1>4, <1>5, <1>6, <1>7, <1>8, <1>9 DEF WriteEffect

LEMMA PollerTyped ==
  ASSUME poller \in P!PollerState
  PROVE  /\ EnableReading \in P!PollerState /\ EnableWriting \in P!PollerState
         /\ DisableWriting \in P!PollerState /\ DisableAll \in P!PollerState
<1>1. poller.events["conn"] \in SUBSET P!Interest
  BY DEF P!PollerState
<1>2. \A ev \in SUBSET P!Interest : P!SetEvents(poller, "conn", "sock", ev) \in P!PollerState
  BY SetEventsTyped
<1>3. /\ poller.events["conn"] \cup {"read"} \in SUBSET P!Interest
      /\ poller.events["conn"] \cup {"write"} \in SUBSET P!Interest
      /\ poller.events["conn"] \ {"write"} \in SUBSET P!Interest
      /\ {} \in SUBSET P!Interest
  BY <1>1 DEF P!Interest
<1> QED BY <1>2, <1>3 DEF EnableReading, EnableWriting, DisableWriting, DisableAll,
       P!EnableReading, P!EnableWriting, P!DisableWriting, P!DisableAll

\* The functor at the head of the queue is taken from it (EventLoop.cpp:189-205).
LEMMA CallsTakesHead ==
  ASSUME TypeOK, NEW f, Calls(f)
  PROVE  /\ pc = "functors" /\ Len(queue) > 0 /\ queue[1] = f
         /\ Tail(queue) \in Seq(Functor) /\ Len(Tail(queue)) = Len(queue) - 1
         /\ \A i \in 1 .. Len(Tail(queue)) : Tail(queue)[i] = queue[i + 1]
         /\ batch' \in 0 .. Len(Tail(queue))
<1>1. queue \in Seq(Functor) /\ Len(queue) \in Nat /\ batch \in 0 .. Len(queue)
      /\ batch > 0 /\ batch' = batch - 1
  BY DEF TypeOK, Calls
<1>2. Len(queue) > 0 /\ queue # <<>>
  BY <1>1
<1>3. Tail(queue) \in Seq(Functor) /\ Len(Tail(queue)) = Len(queue) - 1
      /\ \A i \in 1 .. Len(Tail(queue)) : Tail(queue)[i] = queue[i + 1]
  BY <1>1, <1>2, HeadTailProperties
<1>4. queue[1] = f
  BY <1>1, <1>2 DEF Calls
<1>5. batch' \in 0 .. Len(Tail(queue))
  BY <1>1, <1>3
<1> QED BY <1>2, <1>3, <1>4, <1>5 DEF Calls

-----------------------------------------------------------------------------
(***************************************************************************)
(* Types.                                                                  *)
(***************************************************************************)
LEMMA SendTyped ==
  ASSUME TypeOK, NEW m \in Message, NEW q \in Seq(Functor), SendInLoop(m, q)
  PROVE  /\ poller' \in P!PollerState
         /\ out' \in Seq(Byte)
         /\ sock' \in Socket
         /\ queue' \in Seq(Functor) /\ Len(q) <= Len(queue')
         /\ pc' \in Place
         /\ log' \in History
<1>1. PICK n \in 0 .. Size[m], rest \in Seq(Byte) : SendEffect(m, q, n, rest)
  BY SendHasEffect
<1>2. out' \in Seq(Byte) /\ sock' \in Socket /\ pc' \in Place
  BY <1>1 DEF SendEffect, TypeOK, Place
<1>3. poller' \in P!PollerState
  BY <1>1, PollerTyped DEF SendEffect, TypeOK
<1>4. queue' \in Seq(Functor) /\ Len(q) <= Len(queue')
  BY <1>1 DEF SendEffect, Grows
<1>5. log' \in History
  <2>1. log \in History /\ Payload(m) \in Seq(Byte) /\ SubSeq(Payload(m), 1, n) \in Seq(Byte)
    BY <1>1, PayloadTyped DEF SendEffect, TypeOK
  <2>2. log.accepted \o Payload(m) \in Seq(Byte) /\ log.sent \o SubSeq(Payload(m), 1, n) \in Seq(Byte)
    BY <2>1 DEF History
  <2>3. log.accepted \in Seq(Byte)
    BY <2>1 DEF History
  <2>4. log'.accepted \in {log.accepted, log.accepted \o Payload(m)}
    BY <1>1 DEF SendEffect
  <2>5. log'.accepted \in Seq(Byte)
    BY <2>2, <2>3, <2>4
  <2>6. Len(log'.accepted) \in Nat
    BY <2>5
  <2>7. log'.reports \in Nat /\ log'.dips \in Nat
    <3>1. log.reports \in Nat /\ log.dips \in Nat
      BY <2>1 DEF History
    <3>2. log'.reports \in {log.reports, log.reports + 1} /\ log'.dips = log.dips
      BY <1>1 DEF SendEffect
    <3> QED BY <3>1, <3>2
  <2> QED BY <1>1, <2>1, <2>2, <2>5, <2>6, <2>7 DEF SendEffect, History
<1> QED BY <1>2, <1>3, <1>4, <1>5

\* Every variable has its type in every reachable state.
THEOREM TypeCorrect == SafeSpec => []TypeOK
<1>1. Init => TypeOK
  <2> SUFFICES ASSUME Init PROVE TypeOK
    OBVIOUS
  <2>1. poller \in P!PollerState
    BY DEF Init, P!EmptyPoller, P!PollerState, P!Index, P!Entry, P!Vacant
  <2>2. sock \in Socket
    BY WaterAssumption DEF Init, Socket
  <2>3. <<"established">> \in Functor /\ <<"idle">> \in Step
    BY DEF Functor, Step
  <2>4. queue \in Seq(Functor) /\ batch \in 0 .. Len(queue)
    BY <2>3 DEF Init
  <2>5. call \in [Caller -> Step]
    BY <2>3 DEF Init
  <2>6. log \in History
    BY DEF Init, History
  <2> QED BY <2>1, <2>2, <2>4, <2>5, <2>6 DEF Init, TypeOK, State, Place
<1>2. TypeOK /\ [Next]_vars => TypeOK'
  <2> SUFFICES ASSUME TypeOK, [Next]_vars PROVE TypeOK'
    OBVIOUS
  <2>t. /\ state \in State
        /\ poller \in P!PollerState
        /\ out \in Seq(Byte)
        /\ sock \in Socket
        /\ queue \in Seq(Functor) /\ Len(queue) \in Nat
        /\ batch \in 0 .. Len(queue)
        /\ pc \in Place
        /\ todo \subseteq {"close", "error", "read", "write"}
        /\ call \in [Caller -> Step]
        /\ server \in [requests : Nat, erased : BOOLEAN, torn : BOOLEAN]
        /\ log \in History
    BY DEF TypeOK
  <2>l. /\ [log EXCEPT !.up = @ + 1] \in History
        /\ [log EXCEPT !.down = @ + 1] \in History
        /\ [log EXCEPT !.destroyed = @ + 1] \in History
        /\ [log EXCEPT !.down = @ + 1, !.destroyed = @ + 1] \in History
    <3>1. log.up + 1 \in Nat /\ log.down + 1 \in Nat /\ log.destroyed + 1 \in Nat
      BY <2>t DEF History
    <3>2. \A k \in Nat : /\ [log EXCEPT !.up = k] \in History
                         /\ [log EXCEPT !.down = k] \in History
                         /\ [log EXCEPT !.destroyed = k] \in History
      BY <2>t DEF History
    <3>3. \A k, j \in Nat : [log EXCEPT !.down = k, !.destroyed = j] \in History
      BY <2>t DEF History
    <3> QED BY <3>1, <3>2, <3>3
  <2>o. ASSUME NEW m \in Message
        PROVE  [log EXCEPT !.offered = @ \cup {m}] \in History
    <3>1. log.offered \cup {m} \in SUBSET Message
      BY <2>t DEF History
    <3>2. ASSUME NEW x \in SUBSET Message PROVE [log EXCEPT !.offered = x] \in History
      BY <2>t DEF History
    <3> QED BY <3>1, <3>2
  <2>q. ASSUME NEW f \in Functor
        PROVE  Append(queue, f) \in Seq(Functor) /\ batch \in 0 .. Len(Append(queue, f))
    BY <2>t, AppendProperties
  <2>k. \A k \in Socket, w \in BOOLEAN : ShutdownInLoop(k, w) \in Socket
    BY DEF ShutdownInLoop, Socket
  <2>w. Writing \in BOOLEAN
    BY DEF Writing, P!IsWriting
  <2>1. CASE Poll
    BY <2>t, <2>1 DEF Poll, TypeOK, Place, Reported
  <2>2. CASE HandleEvent \/ CallbackReturns \/ FunctorsDone \/ LoopEnds
    BY <2>t, <2>2 DEF HandleEvent, CallbackReturns, FunctorsDone, LoopEnds, TypeOK, Place
  <2>3. ASSUME NEW e, HandleClose(e) PROVE TypeOK'
    BY <2>t, <2>l, <2>3, PollerTyped DEF HandleClose, TypeOK, State
  <2>4. CASE OnClose
    BY <2>3, <2>4 DEF OnClose
  <2>5. CASE OnError
    <3>1. sock' \in Socket
      BY <2>t, <2>5 DEF OnError, Socket
    <3> QED BY <2>t, <2>5, <3>1 DEF OnError, TypeOK
  <2>6. CASE OnRead
    <3>1. CASE sock.inbound \/ sock.error # "none"
      <4>1. /\ sock' = IF sock.inbound THEN [sock EXCEPT !.inbound = FALSE]
                                       ELSE [sock EXCEPT !.error = "none"]
            /\ pc' \in {"callback", "event"} /\ todo' = todo \ {"read"}
            /\ UNCHANGED <<state, poller, out, queue, batch, call, server, log>>
        BY <2>6, <3>1 DEF OnRead
      <4>2. [sock EXCEPT !.inbound = FALSE] \in Socket /\ [sock EXCEPT !.error = "none"] \in Socket
        BY <2>t DEF Socket
      <4>3. sock' \in Socket /\ pc' \in Place
        BY <4>1, <4>2 DEF Place
      <4> QED BY <2>t, <4>1, <4>3 DEF TypeOK
    <3>2. CASE ~(sock.inbound \/ sock.error # "none")
      BY <2>3, <2>6, <3>2 DEF OnRead
    <3> QED BY <3>1, <3>2
  <2>7. CASE OnWrite
    <3>1. CASE ~Writing
      BY <2>t, <2>7, <3>1 DEF OnWrite, TypeOK
    <3>2. CASE Writing
      <4>1. PICK n \in Nat : WriteEffect(n)
        BY <2>7, <3>2, WriteHasEffect
      <4>2. /\ out' \in Seq(Byte) /\ sock' \in Socket /\ pc' \in Place
            /\ queue' \in Seq(Functor) /\ Len(queue) <= Len(queue') /\ Len(queue') \in Nat
        BY <2>t, <4>1 DEF WriteEffect, Grows, Place
      <4>3. poller' \in P!PollerState
        BY <2>t, <4>1, PollerTyped DEF WriteEffect
      <4>4. log' \in History
        <5>1. log.sent \o SubSeq(out, 1, n) \in Seq(Byte) /\ Len(log.accepted) \in Nat
          BY <2>t, <4>1 DEF WriteEffect, History
        <5>2. log'.reports \in Nat /\ log'.dips \in Nat
          <6>1. log.reports \in Nat /\ log.dips \in Nat
            BY <2>t DEF History
          <6>2. log'.dips \in {log.dips, log.dips + 1} /\ log'.reports = log.reports
            BY <4>1 DEF WriteEffect
          <6> QED BY <6>1, <6>2
        <5> QED BY <2>t, <4>1, <5>1, <5>2 DEF WriteEffect, History
      <4>5. batch' \in 0 .. Len(queue')
        BY <2>t, <2>7, <4>2 DEF OnWrite
      <4> QED BY <2>t, <2>7, <4>2, <4>3, <4>4, <4>5 DEF OnWrite, TypeOK
    <3> QED BY <3>1, <3>2
  <2>8. CASE TakePending
    BY <2>t, <2>8 DEF TakePending, TypeOK, Place
  <2>9. CASE ConnectEstablished
    <3>1. Tail(queue) \in Seq(Functor) /\ batch' \in 0 .. Len(Tail(queue))
      BY <2>9, CallsTakesHead DEF ConnectEstablished
    <3> QED BY <2>t, <2>l, <2>9, <3>1, PollerTyped DEF ConnectEstablished, TypeOK, State
  <2>10. CASE RunShutdown
    <3>1. Tail(queue) \in Seq(Functor) /\ batch' \in 0 .. Len(Tail(queue))
      BY <2>10, CallsTakesHead DEF RunShutdown
    <3> QED BY <2>t, <2>k, <2>w, <2>10, <3>1 DEF RunShutdown, TypeOK
  <2>11. CASE RunCallback
    <3>1. Tail(queue) \in Seq(Functor) /\ batch' \in 0 .. Len(Tail(queue))
      BY <2>11, CallsTakesHead DEF RunCallback
    <3> QED BY <2>t, <2>11, <3>1 DEF RunCallback, TypeOK
  <2>12. CASE ConnectDestroyed
    <3>1. Tail(queue) \in Seq(Functor) /\ batch' \in 0 .. Len(Tail(queue))
      BY <2>12, CallsTakesHead DEF ConnectDestroyed
    <3>2. poller' \in P!PollerState /\ log' \in History /\ pc' \in Place
      BY <2>t, <2>l, <2>12, RemoveTyped DEF ConnectDestroyed, Place
    <3> QED BY <2>t, <2>12, <3>1, <3>2 DEF ConnectDestroyed, TypeOK
  <2>13. CASE FinishDestroyed
    <3>1. poller' \in P!PollerState
      BY <2>t, <2>13, PollerTyped, RemoveTyped DEF FinishDestroyed
    <3> QED BY <2>t, <2>l, <2>13, <3>1 DEF FinishDestroyed, TypeOK, State, Place
  <2>14. ASSUME NEW m \in Message, RunSend(m) PROVE TypeOK'
    <3>1. Tail(queue) \in Seq(Functor) /\ batch' \in 0 .. Len(Tail(queue)) /\ Len(Tail(queue)) \in Nat
      BY <2>14, CallsTakesHead DEF RunSend
    <3>2. CASE SendInLoop(m, Tail(queue))
      <4>1. /\ poller' \in P!PollerState /\ out' \in Seq(Byte) /\ sock' \in Socket
            /\ queue' \in Seq(Functor) /\ Len(Tail(queue)) <= Len(queue')
            /\ pc' \in Place /\ log' \in History
        BY <3>1, <3>2, SendTyped
      <4>2. batch' \in 0 .. Len(queue')
        BY <3>1, <4>1
      <4> QED BY <2>t, <2>14, <4>1, <4>2 DEF RunSend, TypeOK
    <3>3. CASE GiveUp(m, Tail(queue))
      BY <2>t, <2>o, <2>14, <3>1, <3>3 DEF RunSend, GiveUp, TypeOK
    <3> QED BY <2>14, <3>2, <3>3 DEF RunSend
  <2>15. CASE LoopShutdown
    BY <2>t, <2>k, <2>w, <2>15 DEF LoopShutdown, TypeOK, State
  <2>16. ASSUME NEW m \in Message, LoopSend(m) PROVE TypeOK'
    <3>1. /\ poller' \in P!PollerState /\ out' \in Seq(Byte) /\ sock' \in Socket
          /\ queue' \in Seq(Functor) /\ Len(queue) <= Len(queue')
          /\ pc' \in Place /\ log' \in History
      BY <2>t, <2>16, SendTyped DEF LoopSend
    <3>2. batch' \in 0 .. Len(queue')
      BY <2>t, <2>16, <3>1 DEF LoopSend
    <3> QED BY <2>t, <2>16, <3>1, <3>2 DEF LoopSend, TypeOK
  <2>17. CASE PeerStep
    <3>1. sock' \in Socket
      <4>1. CASE PeerSends \/ PeerCloses
        BY <2>t, <4>1 DEF PeerSends, PeerCloses, Socket
      <4>3. CASE PeerResets
        BY <2>t, <4>3 DEF PeerResets, Socket
      <4>2. CASE PeerAcks
        <5>1. sock.room \in Nat /\ MaxRoom \in Nat /\ sock.room < MaxRoom
          BY <2>t, <4>2, WaterAssumption DEF PeerAcks, Socket
        <5>2. sock.room + 1 \in 0 .. MaxRoom
          BY <5>1
        <5> QED BY <2>t, <4>2, <5>2 DEF PeerAcks, Socket
      <4> QED BY <2>17, <4>1, <4>2, <4>3 DEF PeerStep
    <3> QED BY <2>t, <2>17, <3>1 DEF PeerStep, TypeOK
  <2>18. CASE ServerRemoves \/ ServerTearsDown
    <3>1. <<"destroyed">> \in Functor
      BY DEF Functor
    <3>2. server' \in [requests : Nat, erased : BOOLEAN, torn : BOOLEAN]
      <4>1. CASE ServerRemoves
        <5>1. server.requests - 1 \in Nat
          BY <2>t, <4>1 DEF ServerRemoves
        <5> QED BY <2>t, <4>1, <5>1 DEF ServerRemoves
      <4>2. CASE ServerTearsDown
        BY <2>t, <4>2 DEF ServerTearsDown
      <4> QED BY <2>18, <4>1, <4>2
    <3>3. queue' \in Seq(Functor) /\ batch \in 0 .. Len(queue')
      BY <2>q, <2>18, <3>1 DEF ServerRemoves, ServerTearsDown
    <3> QED BY <2>t, <2>18, <3>2, <3>3 DEF ServerRemoves, ServerTearsDown, TypeOK
  <2>19. ASSUME NEW t \in Caller, CallerStarts(t) \/ CallerSetsState(t) PROVE TypeOK'
    <3>1. \A m \in Message : <<"send", m>> \in Step
      BY DEF Step
    <3>2. <<"closing">> \in Step /\ <<"shutdown">> \in Step
      BY DEF Step
    <3> QED BY <2>t, <2>o, <2>19, <3>1, <3>2
            DEF CallerStarts, CallerShutdown, CallerSend, CallerSetsState, TypeOK, State
  <2>20. ASSUME NEW t \in Caller, CallerQueues(t) PROVE TypeOK'
    <3>1. call[t] \in Step /\ call[t][1] \in {"send", "shutdown"}
      BY <2>t, <2>20 DEF CallerQueues
    <3>2. call[t] \in Functor
      BY <3>1 DEF Step, Functor
    <3>3. <<"idle">> \in Step
      BY DEF Step
    <3> QED BY <2>t, <2>q, <2>20, <3>2, <3>3 DEF CallerQueues, TypeOK
  <2>21. CASE UNCHANGED vars
    BY <2>t, <2>21 DEF vars, TypeOK
  <2> QED BY <2>1, <2>2, <2>4, <2>5, <2>6, <2>7, <2>8, <2>9, <2>10, <2>11, <2>12, <2>13,
             <2>14, <2>15, <2>16, <2>17, <2>18, <2>19, <2>20, <2>21
          DEF Next, LoopStep, CallbackStep, CallerGoesOn
<1> QED BY <1>1, <1>2, PTL DEF SafeSpec

-----------------------------------------------------------------------------
(***************************************************************************)
(* The stream and its callbacks, whoever calls send() and shutdown().      *)
(***************************************************************************)
StreamStands ==
    /\ out' = out
    /\ log'.accepted = log.accepted /\ log'.sent = log.sent
    /\ log'.announced = log.announced
    /\ log'.reports = log.reports /\ log'.dips = log.dips

Sends == \E m \in Message, q \in Seq(Functor), n \in Nat, rest \in Seq(Byte) :
             SendEffect(m, q, n, rest)

LEMMA OnlyWritesMoveStream ==
  ASSUME TypeOK, [Next]_vars
  PROVE  StreamStands \/ (Writing /\ \E n \in Nat : WriteEffect(n)) \/ Sends
<1> USE DEF StreamStands
<1>t. log \in History /\ queue \in Seq(Functor)
  BY DEF TypeOK
<1>1. ASSUME NEW m \in Message, NEW q \in Seq(Functor), SendInLoop(m, q)
      PROVE  Sends
  <2>1. PICK n \in 0 .. Size[m], rest \in Seq(Byte) : SendEffect(m, q, n, rest)
    BY <1>1, SendHasEffect
  <2>2. n \in Nat
    BY SizeAssumption
  <2> QED BY <2>1, <2>2 DEF Sends
<1>2. CASE OnWrite
  <2>1. CASE Writing
    BY <1>2, <2>1, WriteHasEffect
  <2>2. CASE ~Writing
    BY <1>2, <2>2 DEF OnWrite
  <2> QED BY <2>1, <2>2
<1>3. ASSUME NEW m \in Message, RunSend(m) PROVE StreamStands \/ Sends
  <2>1. Tail(queue) \in Seq(Functor)
    BY <1>3, CallsTakesHead DEF RunSend
  <2>2. CASE SendInLoop(m, Tail(queue))
    BY <1>1, <2>1, <2>2
  <2>3. CASE GiveUp(m, Tail(queue))
    BY <1>t, <2>3 DEF GiveUp, History
  <2> QED BY <1>3, <2>2, <2>3 DEF RunSend
<1>4. ASSUME NEW m \in Message, LoopSend(m) PROVE Sends
  BY <1>t, <1>1, <1>4 DEF LoopSend
<1>5. CASE \/ Poll \/ HandleEvent \/ OnClose \/ OnError \/ OnRead \/ CallbackReturns
           \/ TakePending \/ FunctorsDone
  BY <1>t, <1>5 DEF Poll, HandleEvent, OnClose, OnError, OnRead, CallbackReturns,
     TakePending, FunctorsDone, HandleClose, History
<1>6. CASE ConnectEstablished \/ RunShutdown \/ RunCallback \/ ConnectDestroyed \/ FinishDestroyed
  BY <1>t, <1>6 DEF ConnectEstablished, RunShutdown, RunCallback, ConnectDestroyed,
     FinishDestroyed, History
<1>7. CASE LoopShutdown \/ PeerStep \/ ServerRemoves \/ ServerTearsDown \/ LoopEnds
  BY <1>7 DEF LoopShutdown, PeerStep, ServerRemoves, ServerTearsDown, LoopEnds
<1>8. ASSUME NEW t \in Caller, CallerStarts(t) \/ CallerGoesOn(t) PROVE StreamStands
  BY <1>t, <1>8 DEF CallerStarts, CallerShutdown, CallerSend, CallerGoesOn, CallerSetsState,
     CallerQueues, History
<1>9. CASE UNCHANGED vars
  BY <1>9 DEF vars
<1> QED BY <1>2, <1>3, <1>4, <1>5, <1>6, <1>7, <1>8, <1>9 DEF Next, LoopStep, CallbackStep

\* The bytes taken by the kernel, followed by the buffer, are the bytes accepted:
\* a message is written past the buffer only when the buffer is empty
\* (TcpConnection.cpp:97-144,216-222).
THEOREM StreamIntactHolds == SafeSpec => []StreamIntact
<1>1. Init => StreamIntact
  BY DEF Init, StreamIntact
<1>2. TypeOK /\ StreamIntact /\ [Next]_vars => StreamIntact'
  <2> SUFFICES ASSUME TypeOK, StreamIntact, [Next]_vars PROVE StreamIntact'
    OBVIOUS
  <2>1. out \in Seq(Byte) /\ log.sent \in Seq(Byte) /\ log.accepted = log.sent \o out
    BY DEF TypeOK, History, StreamIntact
  <2>2. CASE StreamStands
    BY <2>2 DEF StreamStands, StreamIntact
  <2>3. ASSUME NEW n \in Nat, WriteEffect(n) PROVE StreamIntact'
    <3>1. log'.accepted = log.accepted /\ log'.sent = log.sent \o SubSeq(out, 1, n)
      BY <2>3 DEF WriteEffect
    <3>2. SubSeq(out, 1, n) \in Seq(Byte) /\ out' \in Seq(Byte) /\ SubSeq(out, 1, n) \o out' = out
      BY <2>3 DEF WriteEffect
    <3>3. (log.sent \o SubSeq(out, 1, n)) \o out' = log.sent \o (SubSeq(out, 1, n) \o out')
      BY <2>1, <3>2, Associative, Zenon
    <3> QED BY <2>1, <3>1, <3>2, <3>3 DEF StreamIntact
  <2>4. CASE Sends
    <3>1. PICK m \in Message, q \in Seq(Functor), n \in Nat, rest \in Seq(Byte) : SendEffect(m, q, n, rest)
      BY <2>4 DEF Sends
    <3> DEFINE first == SubSeq(Payload(m), 1, n)
    <3>2. first \in Seq(Byte) /\ Payload(m) \in Seq(Byte)
      BY <3>1, PayloadTyped DEF SendEffect
    <3>3. log'.sent = log.sent \o first /\ out' = out \o rest
      BY <3>1 DEF SendEffect
    <3>4. CASE Direct /\ WriteFails
      <4>1. first = <<>> /\ rest = <<>> /\ log'.accepted = log.accepted
        BY <3>1, <3>4 DEF SendEffect
      <4> QED BY <2>1, <3>3, <4>1, ConcatEmptySeq DEF StreamIntact
    <3>5. CASE Direct /\ ~WriteFails
      <4>1. out = <<>> /\ first \o rest = Payload(m) /\ log'.accepted = log.accepted \o Payload(m)
        BY <3>1, <3>5 DEF SendEffect, Direct
      <4>2. out' = rest /\ log.accepted = log.sent
        BY <2>1, <3>3, <4>1, ConcatEmptySeq
      <4>3. (log.sent \o first) \o rest = log.sent \o (first \o rest)
        BY <2>1, <3>2, Associative, Zenon
      <4> QED BY <3>3, <4>1, <4>2, <4>3 DEF StreamIntact
    <3>6. CASE ~Direct
      <4>1. first = <<>> /\ rest = Payload(m) /\ log'.accepted = log.accepted \o Payload(m)
        BY <3>1, <3>6 DEF SendEffect
      <4>2. log'.sent = log.sent
        BY <2>1, <3>3, <4>1, ConcatEmptySeq
      <4>3. (log.sent \o out) \o rest = log.sent \o (out \o rest)
        BY <2>1, Associative, Zenon
      <4> QED BY <2>1, <3>3, <4>1, <4>2, <4>3 DEF StreamIntact
    <3> QED BY <3>4, <3>5, <3>6
  <2> QED BY <2>2, <2>3, <2>4, OnlyWritesMoveStream
<1> QED BY <1>1, <1>2, TypeCorrect, PTL DEF SafeSpec

\* The high-water mark is reported once for each time the buffer reaches it, and only
\* then: a message buffered above the mark is not reported again
\* (TcpConnection.cpp:130-136).
THEOREM HighWaterHolds == SafeSpec => []HighWaterReported
<1>w. HighWaterMark \in Nat /\ HighWaterMark > 0
  BY WaterAssumption
<1>1. Init => HighWaterReported
  BY <1>w DEF Init, HighWaterReported
<1>2. TypeOK /\ HighWaterReported /\ [Next]_vars => HighWaterReported'
  <2> SUFFICES ASSUME TypeOK, HighWaterReported, [Next]_vars PROVE HighWaterReported'
    OBVIOUS
  <2>1. /\ out \in Seq(Byte) /\ Len(out) \in Nat /\ log.reports \in Nat /\ log.dips \in Nat
        /\ log.reports = log.dips + (IF Len(out) >= HighWaterMark THEN 1 ELSE 0)
    BY DEF TypeOK, History, HighWaterReported
  <2>2. CASE StreamStands
    BY <2>2 DEF StreamStands, HighWaterReported
  <2>3. ASSUME NEW n \in Nat, WriteEffect(n) PROVE HighWaterReported'
    <3>1. Len(out') = Len(out) - n
      BY <2>3 DEF WriteEffect
    <3>2. /\ log'.reports = log.reports
          /\ log'.dips = IF Dips(n) THEN log.dips + 1 ELSE log.dips
      BY <2>3 DEF WriteEffect
    <3>3. CASE Dips(n)
      <4>1. Len(out) >= HighWaterMark /\ ~(Len(out') >= HighWaterMark)
        BY <1>w, <2>1, <3>1, <3>3 DEF Dips
      <4> QED BY <2>1, <3>2, <3>3, <4>1 DEF HighWaterReported
    <3>4. CASE ~Dips(n)
      <4>1. Len(out) >= HighWaterMark <=> Len(out') >= HighWaterMark
        BY <1>w, <2>1, <3>1, <3>4 DEF Dips
      <4> QED BY <2>1, <3>2, <3>4, <4>1 DEF HighWaterReported
    <3> QED BY <3>3, <3>4
  <2>4. CASE Sends
    <3>1. PICK m \in Message, q \in Seq(Functor), n \in Nat, rest \in Seq(Byte) : SendEffect(m, q, n, rest)
      BY <2>4 DEF Sends
    <3>2. Len(out') = Len(out) + Len(rest) /\ Len(rest) \in Nat
      BY <2>1, <3>1 DEF SendEffect
    <3>3. rest = <<>> => Len(rest) = 0
      OBVIOUS
    <3> DEFINE high == rest # <<>> /\ Crosses(Len(out), Len(out) + Len(rest))
    <3>4. /\ log'.reports = IF high THEN log.reports + 1 ELSE log.reports
          /\ log'.dips = log.dips
      BY <3>1 DEF SendEffect
    <3>5. CASE high
      <4>1. Len(out') >= HighWaterMark /\ ~(Len(out) >= HighWaterMark)
        BY <1>w, <2>1, <3>2, <3>5 DEF Crosses
      <4> QED BY <2>1, <3>4, <3>5, <4>1 DEF HighWaterReported
    <3>6. CASE ~high
      <4>1. Len(out') >= HighWaterMark <=> Len(out) >= HighWaterMark
        BY <1>w, <2>1, <3>2, <3>3, <3>6 DEF Crosses
      <4> QED BY <2>1, <3>4, <3>6, <4>1 DEF HighWaterReported
    <3> QED BY <3>5, <3>6
  <2> QED BY <2>2, <2>3, <2>4, OnlyWritesMoveStream
<1> QED BY <1>1, <1>2, TypeCorrect, PTL DEF SafeSpec

\* Whenever the buffer is empty, everything accepted has been announced as written,
\* and nothing is announced before it is (TcpConnection.cpp:103-107,227-231).
THEOREM DrainHolds == SafeSpec => []DrainReported
<1>1. Init => DrainReported
  BY DEF Init, DrainReported
<1>2. TypeOK /\ StreamIntact /\ StreamIntact' /\ TypeOK' /\ DrainReported /\ [Next]_vars
        => DrainReported'
  <2> SUFFICES ASSUME TypeOK, StreamIntact, StreamIntact', TypeOK', DrainReported, [Next]_vars
               PROVE  DrainReported'
    OBVIOUS
  <2>1. /\ out \in Seq(Byte) /\ Len(out) \in Nat /\ log.accepted \in Seq(Byte)
        /\ log.sent \in Seq(Byte) /\ log.announced \in Nat
        /\ log.announced <= Len(log.sent)
    <3>1. log.announced <= Len(log.sent)
      BY DEF DrainReported
    <3>2. log \in History /\ out \in Seq(Byte)
      BY DEF TypeOK
    <3> QED BY <3>1, <3>2 DEF History
  \* The buffer is empty only when everything accepted has been sent.
  <2>a. ASSUME out' = <<>>
        PROVE  Len(log'.accepted) = Len(log'.sent) /\ Len(log'.sent) \in Nat
    <3>1. log'.accepted = log'.sent \o out' /\ log'.sent \in Seq(Byte)
      BY DEF StreamIntact, TypeOK, History
    <3> QED BY <2>a, <3>1, ConcatEmptySeq
  <2>2. CASE StreamStands
    BY <2>2 DEF StreamStands, DrainReported
  <2>3. ASSUME NEW n \in Nat, WriteEffect(n), Writing PROVE DrainReported'
    <3>1. CASE Drained(n)
      <4>1. log'.announced = Len(log'.accepted)
        BY <2>3, <3>1 DEF WriteEffect
      <4>2. out' = <<>>
        <5>1. Len(out') = 0 /\ out' \in Seq(Byte)
          BY <2>3, <3>1 DEF WriteEffect, Drained
        <5> QED BY <5>1
      <4> QED BY <2>a, <4>1, <4>2 DEF DrainReported
    <3>2. CASE ~Drained(n)
      <4>1. log'.accepted = log.accepted /\ log'.announced = log.announced
        BY <2>3, <3>2 DEF WriteEffect
      <4>2. out' = <<>> => out = <<>>
        <5>1. Len(out') = Len(out) - n /\ (n = 0 => out' = out)
          BY <2>3 DEF WriteEffect
        <5>2. ~(n > 0 /\ Len(out) - n = 0)
          BY <2>3, <3>2 DEF Drained
        <5>3. out' = <<>> => Len(out') = 0
          OBVIOUS
        <5> QED BY <2>1, <5>1, <5>2, <5>3
      <4>3. log'.announced <= Len(log'.sent)
        <5>1. log'.sent = log.sent \o SubSeq(out, 1, n) /\ SubSeq(out, 1, n) \in Seq(Byte)
          BY <2>3 DEF WriteEffect
        <5> QED BY <2>1, <4>1, <5>1, SentGrows
      <4> QED BY <4>1, <4>2, <4>3 DEF DrainReported
    <3> QED BY <3>1, <3>2
  <2>4. CASE Sends
    <3>1. PICK m \in Message, q \in Seq(Functor), n \in Nat, rest \in Seq(Byte) : SendEffect(m, q, n, rest)
      BY <2>4 DEF Sends
    <3> DEFINE first == SubSeq(Payload(m), 1, n)
               done  == Direct /\ ~WriteFails /\ rest = <<>>
    <3>2. /\ log'.sent = log.sent \o first /\ first \in Seq(Byte)
          /\ log'.announced = IF done THEN Len(log'.accepted) ELSE log.announced
          /\ out' = out \o rest
      BY <3>1 DEF SendEffect
    <3>3. CASE done
      <4>1. out' = <<>>
        <5>1. out = <<>> /\ rest = <<>>
          BY <3>3 DEF Direct
        <5> QED BY <2>1, <3>2, <5>1, ConcatEmptySeq
      <4>2. log'.announced = Len(log'.accepted)
        BY <3>2, <3>3
      <4>3. Len(log'.accepted) = Len(log'.sent) /\ Len(log'.sent) \in Nat
        BY <2>a, <4>1
      <4> HIDE DEF first, done
      <4> QED BY <4>2, <4>3 DEF DrainReported
    <3>4. CASE ~done
      <4>1. log'.announced <= Len(log'.sent)
        BY <2>1, <3>2, <3>4, SentGrows
      <4>2. ASSUME out' = <<>> PROVE log'.announced = Len(log'.accepted)
        <5>1. out = <<>> /\ rest = <<>>
          <6>1. out \o rest = <<>>
            BY <3>2, <4>2
          <6> QED BY <2>1, <6>1, ConcatSimplifications
        <5>2. log.announced = Len(log.accepted)
          BY <5>1 DEF DrainReported
        <5>3. CASE Direct
          <6>1. log'.accepted = log.accepted
            BY <3>1, <3>4, <5>1, <5>3 DEF SendEffect
          <6> QED BY <3>2, <3>4, <5>2, <6>1
        <5>4. CASE ~Direct
          <6>1. rest = Payload(m) /\ log'.accepted = log.accepted \o Payload(m)
            BY <3>1, <5>4 DEF SendEffect
          <6>2. log'.accepted = log.accepted
            BY <2>1, <5>1, <6>1, ConcatEmptySeq
          <6> QED BY <3>2, <3>4, <5>2, <6>2
        <5> QED BY <5>3, <5>4
      <4> QED BY <4>1, <4>2 DEF DrainReported
    <3> QED BY <3>3, <3>4
  <2> QED BY <2>2, <2>3, <2>4, OnlyWritesMoveStream
<1> QED BY <1>1, <1>2, TypeCorrect, StreamIntactHolds, PTL DEF SafeSpec

-----------------------------------------------------------------------------
(***************************************************************************)
(* The end of the stream, whoever calls send() and shutdown().             *)
(***************************************************************************)
\* Until handleClose gives the buffer up, what it holds is being written, and nothing
\* is left in it once the write side is closed.
FinInv ==
    log.down = 0 => /\ Writing <=> out # <<>>
                    /\ sock.shut => out = <<>>

\* What the operations of the channel leave of its interest in writing.
LEMMA WritingMoves ==
  ASSUME TypeOK
  PROVE  /\ Asks(EnableReading) = Asks(poller) \cup {"read"}
         /\ Asks(EnableWriting) = Asks(poller) \cup {"write"}
         /\ Asks(DisableWriting) = Asks(poller) \ {"write"}
         /\ Asks(Remove(poller)) = Asks(poller)
<1>1. poller \in P!PollerState /\ Asks(poller) \in SUBSET P!Interest
  BY DEF TypeOK, Asks, P!PollerState
<1>2. \A ev \in SUBSET P!Interest : Asks(P!SetEvents(poller, "conn", "sock", ev)) = ev
  BY <1>1 DEF P!SetEvents, P!UpdateChannel, P!EpollCtl, Asks, P!PollerState, P!Index
<1>3. /\ Asks(poller) \cup {"read"} \in SUBSET P!Interest
      /\ Asks(poller) \cup {"write"} \in SUBSET P!Interest
      /\ Asks(poller) \ {"write"} \in SUBSET P!Interest
  BY <1>1 DEF P!Interest
<1>4. Asks(Remove(poller)) = Asks(poller)
  BY <1>1 DEF Remove, P!RemoveChannel, P!EpollCtl, Asks, P!PollerState
<1> QED BY <1>2, <1>3, <1>4 DEF EnableReading, EnableWriting, DisableWriting, Asks,
       P!EnableReading, P!EnableWriting, P!DisableWriting

LEMMA FinStep ==
  ASSUME TypeOK, FinInv, [Next]_vars
  PROVE  FinInv'
<1>t. /\ log \in History /\ log.down \in Nat /\ sock \in Socket
      /\ out \in Seq(Byte) /\ Len(out) \in Nat /\ queue \in Seq(Functor)
  BY DEF TypeOK, History
<1>w. Writing <=> "write" \in Asks(poller)
  BY DEF Writing, P!IsWriting, Asks
<1>v. Writing' <=> "write" \in Asks(poller)'
  BY DEF Writing, P!IsWriting, Asks
\* A step that leaves the buffer, its interest and the write side as they are.
<1>1. ASSUME out' = out, Asks(poller)' = Asks(poller), sock'.shut = sock.shut,
             log'.down = 0 => log.down = 0
      PROVE  FinInv'
  BY <1>1, <1>w, <1>v DEF FinInv
<1>2. ASSUME NEW m \in Message, NEW q \in Seq(Functor), SendInLoop(m, q)
      PROVE  FinInv'
  <2>1. PICK n \in 0 .. Size[m], rest \in Seq(Byte) : SendEffect(m, q, n, rest)
    BY <1>2, SendHasEffect
  <2>2. /\ out' = out \o rest /\ sock'.shut = sock.shut /\ log'.down = log.down
        /\ poller' = IF rest # <<>> /\ ~Writing THEN EnableWriting ELSE poller
    BY <2>1 DEF SendEffect
  <2>3. CASE rest = <<>>
    BY <1>1, <1>t, <2>2, <2>3, ConcatEmptySeq
  <2>4. CASE rest # <<>>
    <3>1. Writing'
      BY <1>w, <1>v, <2>2, <2>4, WritingMoves
    <3>2. out' # <<>>
      BY <1>t, <2>2, <2>4, ConcatSimplifications
    <3>3. ASSUME log.down = 0 PROVE ~sock.shut
      <4>1. ~(Direct /\ WriteFails)
        BY <2>1, <2>4 DEF SendEffect
      <4>2. CASE Direct
        BY <4>1, <4>2 DEF WriteFails
      <4>3. CASE ~Direct
        BY <3>3, <4>3 DEF Direct, FinInv
      <4> QED BY <4>2, <4>3
    <3> QED BY <2>2, <3>1, <3>2, <3>3 DEF FinInv
  <2> QED BY <2>3, <2>4
<1>3. CASE OnWrite
  <2>1. CASE ~Writing
    BY <1>1, <1>3, <2>1 DEF OnWrite
  <2>2. CASE Writing
    <3>1. PICK n \in Nat : WriteEffect(n)
      BY <1>3, <2>2, WriteHasEffect
    <3>2. /\ Len(out') = Len(out) - n /\ out' \in Seq(Byte) /\ (n = 0 => out' = out)
          /\ log'.down = log.down
          /\ poller' = IF Drained(n) THEN DisableWriting ELSE poller
          /\ sock'.shut => sock.shut \/ Drained(n)
      BY <3>1 DEF WriteEffect
    <3>3. CASE Drained(n)
      <4>1. Len(out') = 0 /\ ~Writing'
        BY <1>w, <1>v, <3>2, <3>3, WritingMoves DEF Drained
      <4>2. out' = <<>>
        BY <3>2, <4>1
      <4> QED BY <4>1, <4>2 DEF FinInv
    <3>4. CASE ~Drained(n)
      <4>1. out = <<>> <=> out' = <<>>
        <5>1. ~(n > 0 /\ Len(out) - n = 0) /\ n \in 0 .. Len(out)
          BY <2>2, <3>1, <3>4 DEF Drained, WriteEffect
        <5>2. Len(out) = 0 <=> Len(out') = 0
          BY <1>t, <3>2, <5>1
        <5> QED BY <1>t, <3>2, <5>2
      <4>2. Writing' = Writing
        BY <3>2, <3>4 DEF Writing
      <4> QED BY <3>2, <3>4, <4>1, <4>2 DEF FinInv
    <3> QED BY <3>3, <3>4
  <2> QED BY <2>1, <2>2
<1>4. ASSUME NEW m \in Message, RunSend(m) PROVE FinInv'
  <2>1. Tail(queue) \in Seq(Functor)
    BY <1>4, CallsTakesHead DEF RunSend
  <2>2. CASE SendInLoop(m, Tail(queue))
    BY <1>2, <2>1, <2>2
  <2>3. CASE GiveUp(m, Tail(queue))
    <3>1. UNCHANGED <<poller, out, sock>> /\ log'.down = log.down
      BY <1>t, <2>3 DEF GiveUp, History
    <3> QED BY <1>1, <3>1
  <2> QED BY <1>4, <2>2, <2>3 DEF RunSend
<1>5. ASSUME NEW m \in Message, LoopSend(m) PROVE FinInv'
  BY <1>t, <1>2, <1>5 DEF LoopSend
\* shutdownInLoop waits for the buffer.
<1>6. CASE RunShutdown \/ LoopShutdown
  <2>1. /\ UNCHANGED <<poller, out, log>>
        /\ sock'.shut => sock.shut \/ ~Writing
    BY <1>t, <1>6 DEF RunShutdown, LoopShutdown, ShutdownInLoop, Socket
  <2> QED BY <1>w, <1>v, <2>1 DEF FinInv
<1>7. ASSUME NEW e, HandleClose(e) PROVE FinInv'
  <2>1. log'.down # 0
    BY <1>t, <1>7 DEF HandleClose, History
  <2> QED BY <2>1 DEF FinInv
<1>8. CASE OnClose
  BY <1>7, <1>8 DEF OnClose
<1>9. CASE OnRead
  <2>1. CASE sock.inbound \/ sock.error # "none"
    <3>1. UNCHANGED <<poller, out, log>> /\ sock'.shut = sock.shut
      BY <1>t, <1>9, <2>1 DEF OnRead, Socket
    <3> QED BY <1>1, <3>1
  <2>2. CASE ~(sock.inbound \/ sock.error # "none")
    BY <1>7, <1>9, <2>2 DEF OnRead
  <2> QED BY <2>1, <2>2
<1>10. CASE ConnectEstablished
  <2>1. /\ poller' = EnableReading /\ UNCHANGED <<out, sock>> /\ log'.down = log.down
    BY <1>t, <1>10 DEF ConnectEstablished, History
  <2> QED BY <1>w, <1>v, <2>1, WritingMoves DEF FinInv
<1>11. CASE ConnectDestroyed
  <2>1. /\ poller' \in {poller, Remove(poller)} /\ UNCHANGED <<out, sock>>
        /\ log'.down = log.down
    BY <1>t, <1>11 DEF ConnectDestroyed, History
  <2> QED BY <1>w, <1>v, <2>1, WritingMoves DEF FinInv
<1>12. CASE FinishDestroyed
  <2>1. log'.down # 0
    BY <1>t, <1>12 DEF FinishDestroyed, History
  <2> QED BY <2>1 DEF FinInv
<1>13. CASE PeerStep \/ OnError
  <2>1. UNCHANGED <<poller, out, log>> /\ sock'.shut = sock.shut
    BY <1>t, <1>13 DEF PeerStep, PeerSends, PeerCloses, PeerResets, PeerAcks, OnError, Socket
  <2> QED BY <1>1, <2>1
<1>14. CASE \/ Poll \/ HandleEvent \/ CallbackReturns \/ TakePending \/ FunctorsDone
            \/ RunCallback \/ ServerRemoves \/ ServerTearsDown \/ LoopEnds \/ UNCHANGED vars
  <2>1. UNCHANGED <<poller, out, sock, log>>
    BY <1>14 DEF Poll, HandleEvent, CallbackReturns, TakePending, FunctorsDone, RunCallback,
       ServerRemoves, ServerTearsDown, LoopEnds, vars
  <2> QED BY <1>1, <2>1
<1>15. ASSUME NEW t \in Caller, CallerStarts(t) \/ CallerGoesOn(t) PROVE FinInv'
  <2>1. UNCHANGED <<poller, out, sock>> /\ log'.down = log.down
    BY <1>t, <1>15 DEF CallerStarts, CallerShutdown, CallerSend, CallerGoesOn, CallerSetsState,
       CallerQueues, History
  <2> QED BY <1>1, <2>1
<1> QED BY <1>3, <1>4, <1>5, <1>6, <1>8, <1>9, <1>10, <1>11, <1>12, <1>13, <1>14, <1>15
        DEF Next, LoopStep, CallbackStep

\* While the connection is up its write side is closed only once the buffer is empty,
\* and nothing is buffered behind the end of the stream, whatever threads call send()
\* and shutdown() (TcpConnection.cpp:149-164,232-235).
THEOREM NothingBehindFinHolds == SafeSpec => []NothingBehindFin
<1>1. Init => FinInv
  BY DEF Init, FinInv, Writing, P!IsWriting, P!EmptyPoller
<1>2. TypeOK /\ FinInv /\ [Next]_vars => FinInv'
  BY FinStep
<1>3. FinInv => NothingBehindFin
  BY DEF FinInv, NothingBehindFin
<1> QED BY <1>1, <1>2, <1>3, TypeCorrect, PTL DEF SafeSpec

-----------------------------------------------------------------------------
(***************************************************************************)
(* The life of the connection when shutdown() is called on the loop's      *)
(* thread alone, whoever calls send().                                     *)
(***************************************************************************)
ClosesOnLoop == Closers \subseteq {"loop"}

Up == {"connected", "disconnecting"}

\* The places of functor f in the queue q.
At(q, f) == {i \in 1 .. Len(q) : q[i] = f}

\* No other thread is in the middle of shutdown().
ThreadInv == \A t \in Caller : call[t] \notin {<<"closing">>, <<"shutdown">>}

\* connectEstablished is first in the queue until it has been called;
\* connectDestroyed is in it once at most.
QueueInv ==
    /\ At(queue, <<"shutdown">>) = {}
    /\ At(queue, <<"established">>) = IF state = "connecting" THEN {1} ELSE {}
    /\ \A i, j \in At(queue, <<"destroyed">>) : i = j

\* The server queues connectDestroyed once: on the one request of handleClose, or
\* when it is torn down.
AskedInv ==
    /\ server.torn => server.erased
    /\ ~server.erased => server.requests = IF state = "disconnected" THEN 1 ELSE 0
    /\ server.erased => server.torn \/ (server.requests = 0 /\ state = "disconnected")
    /\ At(queue, <<"destroyed">>) # {} =>
         server.erased /\ log.destroyed = 0 /\ pc # "destroying"
    /\ pc = "destroying" => server.erased /\ log.destroyed = 0 /\ state = "connected"
    /\ log.destroyed <= 1
    /\ log.destroyed > 0 => server.erased /\ state \in {"disconnecting", "disconnected"}

ToldInv ==
    /\ log.up = IF state = "connecting" THEN 0 ELSE 1
    /\ log.down = IF state = "disconnected" THEN 1 ELSE 0

\* A channel that is up is registered and reads; one that is not asks for nothing.
ChannelInv ==
    /\ Mirrored(poller)
    /\ state = "connecting" \/ log.destroyed > 0 => poller.index["conn"] = "new"
    /\ state \in Up /\ log.destroyed = 0 => Registered(poller) /\ "read" \in Asks(poller)
    /\ state \notin Up => Asks(poller) = {}
    /\ state = "disconnected" => ~Registered(poller)

\* One turn of the channel calls handleClose once at most.
EventInv ==
    /\ ~({"close", "read"} \subseteq todo)
    /\ pc \in {"poll", "functors", "destroying"} => todo = {}
    /\ todo # {} => log.destroyed = 0 /\ state # "connecting"
    /\ state = "disconnected" => todo \cap {"close", "read"} = {}

\* What is buffered is being written; a half closed connection accepts nothing more.
FlowInv ==
    /\ state = "connecting" => out = <<>>
    /\ state \in Up => (Writing <=> out # <<>>)
    /\ state = "disconnecting" => Writing \/ sock.shut \/ sock.reset
    /\ sock.shut => state \in {"disconnecting", "disconnected"}
    /\ sock.shut /\ state # "disconnected" => out = <<>>

LifeInv ==
    ThreadInv /\ QueueInv /\ AskedInv /\ ToldInv /\ ChannelInv /\ EventInv /\ FlowInv

\* The operations of the channel on its registration.
LEMMA PollerMoves ==
  ASSUME poller \in P!PollerState, Mirrored(poller)
  PROVE  /\ Mirrored(EnableReading) /\ Asks(EnableReading) = Asks(poller) \cup {"read"}
         /\ Registered(EnableReading)
         /\ Mirrored(EnableWriting) /\ Asks(EnableWriting) = Asks(poller) \cup {"write"}
         /\ Registered(EnableWriting)
         /\ Mirrored(DisableWriting) /\ Asks(DisableWriting) = Asks(poller) \ {"write"}
         /\ "read" \in Asks(poller) => Registered(DisableWriting)
         /\ Mirrored(DisableAll) /\ Asks(DisableAll) = {}
         /\ Registered(poller) => ~Registered(DisableAll)
         /\ Writing <=> "write" \in Asks(poller)
<1>1. Asks(poller) \in SUBSET P!Interest
  BY DEF Asks, P!PollerState
<1>2. ASSUME NEW ev \in SUBSET P!Interest
      PROVE  LET s == P!SetEvents(poller, "conn", "sock", ev) IN
             /\ Mirrored(s) /\ Asks(s) = ev
             /\ ev # {} => Registered(s)
             /\ Registered(poller) /\ ev = {} => ~Registered(s)
  BY SetEventsMirrors DEF Registered
<1>3. /\ Asks(poller) \cup {"read"} \in SUBSET P!Interest
      /\ Asks(poller) \cup {"write"} \in SUBSET P!Interest
      /\ Asks(poller) \ {"write"} \in SUBSET P!Interest
      /\ {} \in SUBSET P!Interest
      /\ "read" \in Asks(poller) => Asks(poller) \ {"write"} # {}
  BY <1>1 DEF P!Interest
<1>4. /\ EnableReading = P!SetEvents(poller, "conn", "sock", Asks(poller) \cup {"read"})
      /\ EnableWriting = P!SetEvents(poller, "conn", "sock", Asks(poller) \cup {"write"})
      /\ DisableWriting = P!SetEvents(poller, "conn", "sock", Asks(poller) \ {"write"})
      /\ DisableAll = P!SetEvents(poller, "conn", "sock", {})
  BY DEF EnableReading, EnableWriting, DisableWriting, DisableAll, Asks,
     P!EnableReading, P!EnableWriting, P!DisableWriting, P!DisableAll
<1>5. Writing <=> "write" \in Asks(poller)
  BY DEF Writing, P!IsWriting, Asks
<1> QED BY <1>2, <1>3, <1>4, <1>5

\* Where functors are after one was queued.
LEMMA AppendAt ==
  ASSUME NEW q \in Seq(Functor), NEW f \in Functor, NEW g
  PROVE  /\ g # f => At(Append(q, f), g) = At(q, g)
         /\ At(Append(q, f), f) = At(q, f) \cup {Len(q) + 1}
<1>1. Len(q) \in Nat /\ Len(Append(q, f)) = Len(q) + 1
      /\ (\A i \in 1 .. Len(q) : Append(q, f)[i] = q[i]) /\ Append(q, f)[Len(q) + 1] = f
  BY AppendProperties
<1>2. \A i : i \in 1 .. Len(q) + 1 <=> i \in 1 .. Len(q) \/ i = Len(q) + 1
  BY <1>1
<1> QED BY <1>1, <1>2 DEF At

LEMMA GrowsAt ==
  ASSUME NEW q \in Seq(Functor), NEW r, Grows(q, r), NEW f, f \notin {<<"complete">>, <<"high">>}
  PROVE  At(r, f) = At(q, f)
<1>1. Len(q) \in Nat /\ Len(r) \in Nat /\ Len(q) <= Len(r)
  BY DEF Grows
<1>2. \A i \in 1 .. Len(r) : i \in 1 .. Len(q) \/ i \in (Len(q) + 1) .. Len(r)
  BY <1>1
<1>3. \A i \in 1 .. Len(q) : i \in 1 .. Len(r)
  BY <1>1
<1> QED BY <1>2, <1>3 DEF Grows, At

\* Where they are after the head was taken.
LEMMA TailAt ==
  ASSUME TypeOK, NEW f, Calls(f), NEW g
  PROVE  /\ At(queue, g) = {} => At(Tail(queue), g) = {}
         /\ g = f => 1 \in At(queue, g)
         /\ At(queue, g) \subseteq {1} => At(Tail(queue), g) = {}
         /\ (\A i, j \in At(queue, g) : i = j) => \A i, j \in At(Tail(queue), g) : i = j
<1>1. /\ Len(queue) \in Nat /\ Len(queue) > 0 /\ queue[1] = f
      /\ Len(Tail(queue)) = Len(queue) - 1
      /\ \A i \in 1 .. Len(Tail(queue)) : Tail(queue)[i] = queue[i + 1]
  BY CallsTakesHead DEF TypeOK
<1>2. \A i \in 1 .. Len(Tail(queue)) : i + 1 \in 1 .. Len(queue) /\ i + 1 # 1 /\ i \in Nat
  BY <1>1
<1>3. \A i \in At(Tail(queue), g) : i + 1 \in At(queue, g) /\ i + 1 # 1 /\ i \in Nat
  BY <1>1, <1>2 DEF At
<1>4. g = f => 1 \in At(queue, g)
  BY <1>1 DEF At
<1>5. At(queue, g) \subseteq {1} => At(Tail(queue), g) = {}
  BY <1>3
<1>6. ASSUME \A i, j \in At(queue, g) : i = j,
             NEW i \in At(Tail(queue), g), NEW j \in At(Tail(queue), g)
      PROVE  i = j
  <2>1. i + 1 = j + 1 /\ i \in Nat /\ j \in Nat
    BY <1>3, <1>6
  <2> QED BY <2>1
<1> QED BY <1>4, <1>5, <1>6

\* The queue gains nothing but sends and callbacks, and loses no connectEstablished.
QueueStands ==
    /\ At(queue', <<"shutdown">>) = {}
    /\ At(queue', <<"established">>) = At(queue, <<"established">>)
    /\ \A i, j \in At(queue', <<"destroyed">>) : i = j
    /\ At(queue', <<"destroyed">>) # {} => At(queue, <<"destroyed">>) # {}

CountsStand ==
    log'.up = log.up /\ log'.down = log.down /\ log'.destroyed = log.destroyed

LEMMA AppendStands ==
  ASSUME TypeOK, QueueInv, NEW f \in Functor, queue' = Append(queue, f),
         f \notin {<<"shutdown">>, <<"established">>, <<"destroyed">>}
  PROVE  QueueStands
<1>1. \A g : g # f => At(queue', g) = At(queue, g)
  BY AppendAt, Zenon DEF TypeOK
<1>2. \A g \in {<<"shutdown">>, <<"established">>, <<"destroyed">>} : At(queue', g) = At(queue, g)
  BY <1>1
<1> QED BY <1>2 DEF QueueInv, QueueStands

LEMMA GrowsStands ==
  ASSUME TypeOK, QueueInv, Grows(queue, queue')
  PROVE  QueueStands
<1>1. \A f \in {<<"shutdown">>, <<"established">>, <<"destroyed">>} : At(queue', f) = At(queue, f)
  BY GrowsAt DEF TypeOK
<1> QED BY <1>1 DEF QueueInv, QueueStands

\* A functor other than connectEstablished is called.
LEMMA TailStands ==
  ASSUME TypeOK, QueueInv, NEW f, Calls(f), f # <<"established">>, Grows(Tail(queue), queue')
  PROVE  QueueStands /\ state # "connecting"
<1>1. Tail(queue) \in Seq(Functor) /\ queue[1] = f /\ 1 \in 1 .. Len(queue)
  BY CallsTakesHead DEF TypeOK
<1>2. ASSUME NEW g \in {<<"shutdown">>, <<"established">>, <<"destroyed">>}
      PROVE  At(queue', g) = At(Tail(queue), g)
  <2>1. g \notin {<<"complete">>, <<"high">>}
    OBVIOUS
  <2> QED BY <1>1, <2>1, GrowsAt, Zenon
<1>3. At(queue, <<"established">>) = {} /\ state # "connecting"
  BY <1>1 DEF QueueInv, At
<1>4. At(queue', <<"established">>) = {} /\ At(queue', <<"shutdown">>) = {}
  BY <1>2, <1>3, TailAt DEF QueueInv
<1>5. \A i, j \in At(Tail(queue), <<"destroyed">>) : i = j
  BY TailAt DEF QueueInv
<1>6. At(Tail(queue), <<"destroyed">>) # {} => At(queue, <<"destroyed">>) # {}
  BY TailAt
<1> QED BY <1>2, <1>3, <1>4, <1>5, <1>6 DEF QueueStands

\* A step that leaves the state, the registration, the buffer and the server alone.
LEMMA FrameKeeps ==
  ASSUME LifeInv, UNCHANGED <<state, poller, out, server>>, CountsStand, QueueStands, ThreadInv',
         sock'.shut = sock.shut, sock.reset => sock'.reset,
         todo' \subseteq todo,
         pc' = "destroying" => pc = "destroying",
         pc' \in {"poll", "functors", "destroying"} => todo' = {}
  PROVE  LifeInv'
<1>1. QueueInv'
  BY DEF LifeInv, QueueInv, QueueStands
<1>2. AskedInv'
  BY DEF LifeInv, AskedInv, QueueStands, CountsStand
<1>3. ToldInv' /\ ChannelInv'
  BY DEF LifeInv, ToldInv, ChannelInv, CountsStand
<1>4. EventInv'
  BY DEF LifeInv, EventInv, CountsStand
<1>5. FlowInv'
  BY DEF LifeInv, FlowInv, Writing
<1> QED BY <1>1, <1>2, <1>3, <1>4, <1>5 DEF LifeInv

LEMMA SendKeeps ==
  ASSUME TypeOK, LifeInv, NEW m \in Message, NEW q \in Seq(Functor), NEW n \in Nat,
         NEW rest \in Seq(Byte), SendEffect(m, q, n, rest), state \in Up, state' = state
  PROVE  ChannelInv' /\ FlowInv'
<1>1. out \in Seq(Byte) /\ poller \in P!PollerState /\ Mirrored(poller)
  BY DEF TypeOK, LifeInv, ChannelInv
<1>2. out' = <<>> <=> out = <<>> /\ rest = <<>>
  <2>1. out' = out \o rest
    BY DEF SendEffect
  <2>2. out = <<>> /\ rest = <<>> => out \o rest = <<>>
    BY ConcatEmptySeq, <1>1
  <2> QED BY <1>1, <2>1, <2>2, ConcatSimplifications
<1>3. sock'.shut = sock.shut /\ sock'.reset = sock.reset /\ log'.destroyed = log.destroyed
  BY DEF SendEffect
<1>4. CASE rest # <<>> /\ ~Writing
  <2>1. Direct
    BY <1>4 DEF LifeInv, FlowInv, Direct
  <2>2. ~WriteFails
    BY <1>4, <2>1 DEF SendEffect
  <2>3. state = "connected" /\ log.destroyed = 0 /\ ~sock.shut
    <3>1. state = "connected" /\ ~sock.shut
      BY <1>4, <2>2 DEF LifeInv, FlowInv, WriteFails, Up
    <3>2. log.destroyed = 0
      BY <3>1 DEF LifeInv, AskedInv, TypeOK, History
    <3> QED BY <3>1, <3>2
  <2>4. poller' = EnableWriting
    BY <1>4 DEF SendEffect
  <2>5. Mirrored(poller') /\ Registered(poller') /\ Asks(poller') = Asks(poller) \cup {"write"}
    BY <1>1, <2>4, PollerMoves
  <2>6. ChannelInv'
    BY <1>3, <2>3, <2>5 DEF LifeInv, ChannelInv, Up
  <2>7. Writing'
    BY <2>5 DEF Writing, P!IsWriting, Asks
  <2> QED BY <1>2, <1>3, <1>4, <2>3, <2>6, <2>7 DEF FlowInv, Up
<1>5. CASE ~(rest # <<>> /\ ~Writing)
  <2>1. poller' = poller
    BY <1>5 DEF SendEffect
  <2>2. ChannelInv'
    BY <1>3, <2>1 DEF LifeInv, ChannelInv
  <2>3. Writing' = Writing
    BY <2>1 DEF Writing
  <2>4. Writing <=> out' # <<>>
    BY <1>2, <1>5 DEF LifeInv, FlowInv
  <2>5. sock.shut => out' = <<>>
    <3>1. SUFFICES ASSUME sock.shut PROVE out' = <<>>
      OBVIOUS
    <3>2. out = <<>> /\ ~Writing
      BY <3>1 DEF LifeInv, FlowInv, Up
    <3> QED BY <1>2, <1>5, <3>2
  <2> QED BY <1>3, <2>2, <2>3, <2>4, <2>5 DEF LifeInv, FlowInv, Up
<1> QED BY <1>4, <1>5

\* A send that does not give up keeps the invariant.
LEMMA SendInLoopKeeps ==
  ASSUME TypeOK, LifeInv, NEW m \in Message, NEW q \in Seq(Functor), SendInLoop(m, q),
         state \in Up, UNCHANGED <<state, todo, call, server>>, Grows(q, queue') => QueueStands
  PROVE  LifeInv'
<1>1. PICK n \in 0 .. Size[m], rest \in Seq(Byte) : SendEffect(m, q, n, rest)
  BY SendHasEffect
<1>2. n \in Nat
  BY SizeAssumption
<1>3. ChannelInv' /\ FlowInv'
  BY <1>1, <1>2, SendKeeps
<1>4. QueueStands /\ CountsStand /\ pc' \in {pc, "killed"}
  BY <1>1 DEF SendEffect, CountsStand
<1>5. ThreadInv' /\ QueueInv'
  BY <1>4 DEF LifeInv, ThreadInv, QueueInv, QueueStands
<1>6. AskedInv'
  BY <1>4 DEF LifeInv, AskedInv, QueueStands, CountsStand
<1>7. ToldInv' /\ EventInv'
  BY <1>4 DEF LifeInv, ToldInv, EventInv, CountsStand
<1> QED BY <1>3, <1>5, <1>6, <1>7 DEF LifeInv

\* handleClose is called once: it finds the connection up (TcpConnection.cpp:250-260).
LEMMA HandleCloseKeeps ==
  ASSUME TypeOK, LifeInv, NEW e \in {"close", "read"}, e \in todo, pc = "event", HandleClose(e)
  PROVE  LifeInv'
<1>1. state \in Up /\ state' = "disconnected" /\ log.destroyed = 0
  BY DEF LifeInv, EventInv, HandleClose, TypeOK, State, Up
<1>2. Registered(poller) /\ Mirrored(poller) /\ poller \in P!PollerState
  BY <1>1 DEF LifeInv, ChannelInv, TypeOK
<1>3. Mirrored(poller') /\ Asks(poller') = {} /\ ~Registered(poller')
  BY <1>2, PollerMoves DEF HandleClose
<1>4. log'.up = log.up /\ log'.down = 1 /\ log'.destroyed = 0
  BY <1>1 DEF LifeInv, ToldInv, HandleClose, TypeOK, History, Up
<1>5. ThreadInv' /\ QueueInv'
  BY <1>1 DEF LifeInv, ThreadInv, QueueInv, HandleClose, Up
<1>6. AskedInv'
  <2>1. ~server.erased => server'.requests = 1 /\ server' = [server EXCEPT !.requests = 1]
    BY <1>1 DEF LifeInv, AskedInv, HandleClose, TypeOK, Up
  <2>2. server.erased => server.torn /\ server' = server
    BY <1>1 DEF LifeInv, AskedInv, HandleClose, TypeOK, Up
  <2>3. server'.erased = server.erased /\ server'.torn = server.torn
    BY <2>1, <2>2 DEF HandleClose, TypeOK
  <2>4. At(queue', <<"destroyed">>) # {} => server.erased /\ pc # "destroying"
    BY DEF LifeInv, AskedInv, HandleClose
  <2>5. pc' = "event"
    BY DEF HandleClose
  <2> QED BY <1>1, <1>4, <2>1, <2>2, <2>3, <2>4, <2>5 DEF LifeInv, AskedInv
<1>7. ToldInv' /\ ChannelInv'
  BY <1>1, <1>3, <1>4 DEF LifeInv, ToldInv, ChannelInv, Up
<1>8. EventInv'
  BY <1>1, <1>4 DEF LifeInv, EventInv, HandleClose
<1>9. FlowInv'
  BY <1>1 DEF LifeInv, FlowInv, HandleClose, Up
<1> QED BY <1>5, <1>6, <1>7, <1>8, <1>9 DEF LifeInv

\* What the poller reports is of a registered channel, and is not both an end of
\* the stream and a hang-up (Channel.cpp:85-117).
LEMMA PollKeeps ==
  ASSUME TypeOK, LifeInv, Poll
  PROVE  LifeInv'
<1>1. ASSUME Reported # {}
      PROVE  log.destroyed = 0 /\ state \in Up
  <2>1. poller.kernel["sock"] # P!Vacant
    BY <1>1 DEF Reported
  <2>2. poller.index["conn"] = "added"
    BY <2>1 DEF LifeInv, ChannelInv, Mirrored, P!KernelMirrors
  <2> QED BY <2>2 DEF LifeInv, ChannelInv, Registered, TypeOK, State, History, Up
<1>2. ~({"close", "read"} \subseteq Reported)
  BY DEF Reported
<1>3. EventInv'
  BY <1>1, <1>2 DEF Poll, EventInv, Up
<1>4. ThreadInv' /\ QueueInv' /\ AskedInv' /\ ToldInv' /\ ChannelInv' /\ FlowInv'
  BY DEF Poll, LifeInv, ThreadInv, QueueInv, AskedInv, ToldInv, ChannelInv, FlowInv, Writing
<1> QED BY <1>3, <1>4 DEF LifeInv

\* handleWrite closes the write side behind the last byte buffered, and only then
\* stops asking for EPOLLOUT (TcpConnection.cpp:222-235).
LEMMA WriteKeeps ==
  ASSUME TypeOK, LifeInv, OnWrite, Writing
  PROVE  LifeInv'
<1>1. PICK n \in Nat : WriteEffect(n)
  BY WriteHasEffect
<1>2. Mirrored(poller) /\ poller \in P!PollerState /\ out \in Seq(Byte) /\ Len(out) \in Nat
  BY DEF LifeInv, ChannelInv, TypeOK
<1>3. state \in Up /\ log.destroyed = 0 /\ todo' = {} /\ UNCHANGED <<state, call, server>>
  <2>1. Asks(poller) # {}
    BY DEF Writing, P!IsWriting, Asks
  <2>2. todo # {}
    BY DEF OnWrite
  <2> QED BY <2>1, <2>2 DEF LifeInv, ChannelInv, EventInv, OnWrite
<1>4. Registered(poller) /\ "read" \in Asks(poller) /\ out # <<>> /\ ~sock.shut
  BY <1>3 DEF LifeInv, ChannelInv, FlowInv, Up
<1>5. CountsStand /\ Grows(queue, queue') /\ pc' \in {pc, "killed"} /\ pc = "event"
  BY <1>1 DEF WriteEffect, CountsStand, OnWrite
<1>6. QueueStands
  BY <1>5, GrowsStands DEF LifeInv
<1>7. /\ Mirrored(poller') /\ Registered(poller') /\ "read" \in Asks(poller')
      /\ "write" \in Asks(poller') <=> ~Drained(n)
  <2>1. CASE Drained(n)
    BY <1>1, <1>2, <1>4, <2>1, PollerMoves DEF WriteEffect
  <2>2. CASE ~Drained(n)
    BY <1>1, <1>2, <1>4, <2>2, PollerMoves DEF WriteEffect
  <2> QED BY <2>1, <2>2
<1>8. out' = <<>> <=> Drained(n)
  <2>1. out' \in Seq(Byte) /\ Len(out') = Len(out) - n /\ (n = 0 => out' = out)
    BY <1>1 DEF WriteEffect
  <2>2. out' = <<>> <=> Len(out') = 0
    BY <2>1
  <2> QED BY <1>2, <1>4, <2>1, <2>2 DEF Drained
<1>9. /\ sock'.reset = sock.reset
      /\ sock'.shut <=> Drained(n) /\ state = "disconnecting" /\ ~sock.reset
  BY <1>1, <1>4 DEF WriteEffect
<1>10. FlowInv'
  <2>1. Writing' <=> ~Drained(n)
    BY <1>7 DEF Writing, P!IsWriting, Asks
  <2> QED BY <1>3, <1>8, <1>9, <2>1 DEF FlowInv, Up
<1>11. ChannelInv'
  BY <1>3, <1>5, <1>7 DEF LifeInv, ChannelInv, CountsStand, Up
<1>12. ThreadInv' /\ QueueInv' /\ ToldInv'
  BY <1>3, <1>5, <1>6 DEF LifeInv, ThreadInv, QueueInv, QueueStands, ToldInv, CountsStand
<1>13. AskedInv'
  BY <1>3, <1>5, <1>6 DEF LifeInv, AskedInv, QueueStands, CountsStand
<1>14. EventInv'
  BY <1>3, <1>5 DEF LifeInv, EventInv, CountsStand
<1> QED BY <1>10, <1>11, <1>12, <1>13, <1>14 DEF LifeInv

\* connectEstablished finds the connection new (TcpConnection.cpp:167-173).
LEMMA EstablishedKeeps ==
  ASSUME TypeOK, LifeInv, ConnectEstablished
  PROVE  LifeInv'
<1>1. Calls(<<"established">>) /\ queue' = Tail(queue) /\ state' = "connected"
  BY DEF ConnectEstablished
<1>2. state = "connecting" /\ At(queue, <<"established">>) = {1}
  BY <1>1, TailAt DEF LifeInv, QueueInv
<1>3. QueueInv'
  <2>1. At(queue', <<"established">>) = {}
    BY <1>1, <1>2, TailAt
  <2>2. At(queue', <<"shutdown">>) = {}
    BY <1>1, TailAt DEF LifeInv, QueueInv
  <2>3. \A i, j \in At(queue', <<"destroyed">>) : i = j
    BY <1>1, TailAt DEF LifeInv, QueueInv
  <2> QED BY <1>1, <2>1, <2>2, <2>3 DEF QueueInv
<1>4. At(queue', <<"destroyed">>) # {} => At(queue, <<"destroyed">>) # {}
  BY <1>1, TailAt
<1>5. log'.up = 1 /\ log'.down = 0 /\ log'.destroyed = log.destroyed /\ log.destroyed = 0
  <2>1. log.up = 0 /\ log.down = 0
    BY <1>2 DEF LifeInv, ToldInv
  <2>2. log.destroyed = 0
    BY <1>2 DEF LifeInv, AskedInv, TypeOK, History
  <2> QED BY <2>1, <2>2 DEF ConnectEstablished, TypeOK, History
<1>6. Mirrored(poller') /\ Registered(poller') /\ Asks(poller') = {"read"}
  BY <1>2, PollerMoves DEF ConnectEstablished, LifeInv, ChannelInv, TypeOK, Up
<1>7. out = <<>> /\ ~sock.shut
  BY <1>2 DEF LifeInv, FlowInv
<1>8. FlowInv'
  <2>1. ~Writing'
    BY <1>6 DEF Writing, P!IsWriting, Asks
  <2> QED BY <1>1, <1>7, <2>1 DEF FlowInv, ConnectEstablished
<1>9. AskedInv'
  BY <1>1, <1>2, <1>4, <1>5 DEF LifeInv, AskedInv, ConnectEstablished
<1>10. ChannelInv' /\ ToldInv'
  BY <1>1, <1>5, <1>6 DEF ChannelInv, ToldInv, Up
<1>11. ThreadInv' /\ EventInv'
  BY <1>1, <1>5 DEF LifeInv, ThreadInv, EventInv, ConnectEstablished
<1> QED BY <1>3, <1>8, <1>9, <1>10, <1>11 DEF LifeInv

\* connectDestroyed, up to where it finds the connection connected or to its end
\* (TcpConnection.cpp:176-188).
LEMMA DestroyedKeeps ==
  ASSUME TypeOK, LifeInv, ConnectDestroyed
  PROVE  LifeInv'
<1>1. Calls(<<"destroyed">>) /\ queue' = Tail(queue) /\ pc = "functors"
  BY DEF ConnectDestroyed, Calls
<1>2. QueueStands /\ state # "connecting"
  <2>1. Grows(Tail(queue), queue')
    BY <1>1, CallsTakesHead DEF Grows
  <2> QED BY <1>1, <2>1, TailStands DEF LifeInv
<1>3. At(queue, <<"destroyed">>) # {} /\ At(queue', <<"destroyed">>) = {}
  <2>1. 1 \in At(queue, <<"destroyed">>)
    BY <1>1, TailAt
  <2>2. At(queue, <<"destroyed">>) \subseteq {1}
    BY <2>1 DEF LifeInv, QueueInv
  <2> QED BY <1>1, <2>1, <2>2, TailAt
<1>4. server.erased /\ log.destroyed = 0 /\ todo = {} /\ log.up = 1
  BY <1>1, <1>2, <1>3 DEF LifeInv, AskedInv, EventInv, ToldInv
<1>5. UNCHANGED <<state, out, sock, todo, call, server>>
  BY DEF ConnectDestroyed
<1>6. ThreadInv' /\ QueueInv'
  BY <1>2, <1>5 DEF LifeInv, ThreadInv, QueueInv, QueueStands
<1>7. CASE state = "connected"
  <2>1. pc' = "destroying" /\ UNCHANGED <<poller, log>>
    BY <1>7 DEF ConnectDestroyed
  <2>2. AskedInv' /\ EventInv'
    BY <1>3, <1>4, <1>5, <1>7, <2>1 DEF LifeInv, AskedInv, EventInv
  <2>3. ToldInv' /\ ChannelInv' /\ FlowInv'
    BY <1>5, <2>1 DEF LifeInv, ToldInv, ChannelInv, FlowInv, Writing
  <2> QED BY <1>6, <2>2, <2>3 DEF LifeInv
<1>8. CASE state # "connected"
  <2>1. state \in {"disconnecting", "disconnected"}
    BY <1>2, <1>8 DEF TypeOK, State
  <2>2. /\ poller' = Remove(poller) /\ pc' = pc
        /\ log'.up = log.up /\ log'.down = log.down /\ log'.destroyed = 1
    BY <1>4, <1>8 DEF ConnectDestroyed, TypeOK, History
  <2>3. Mirrored(poller') /\ Asks(poller') = Asks(poller) /\ poller'.index["conn"] = "new"
    BY <2>2, RemoveMirrors DEF LifeInv, ChannelInv, TypeOK
  <2>4. AskedInv' /\ EventInv'
    BY <1>1, <1>3, <1>4, <1>5, <2>1, <2>2 DEF LifeInv, AskedInv, EventInv
  <2>5. ToldInv'
    BY <1>5, <2>2 DEF LifeInv, ToldInv
  <2>6. ChannelInv'
    BY <1>5, <2>1, <2>2, <2>3 DEF LifeInv, ChannelInv, Registered
  <2>7. FlowInv'
    BY <1>5, <2>3 DEF LifeInv, FlowInv, Writing, P!IsWriting, Asks
  <2> QED BY <1>6, <2>4, <2>5, <2>6, <2>7 DEF LifeInv
<1> QED BY <1>7, <1>8

LEMMA FinishKeeps ==
  ASSUME TypeOK, LifeInv, FinishDestroyed
  PROVE  LifeInv'
<1>1. state = "connected" /\ server.erased /\ server.torn /\ log.destroyed = 0 /\ todo = {}
  BY DEF FinishDestroyed, LifeInv, AskedInv, EventInv
<1>2. At(queue, <<"destroyed">>) = {}
  BY DEF FinishDestroyed, LifeInv, AskedInv
<1>3. /\ state' = "disconnected" /\ pc' = "functors" /\ poller' = Remove(DisableAll)
      /\ log'.up = log.up /\ log'.down = 1 /\ log'.destroyed = 1
  BY <1>1 DEF FinishDestroyed, LifeInv, ToldInv, TypeOK, History
<1>4. UNCHANGED <<out, sock, queue, todo, call, server>>
  BY DEF FinishDestroyed
<1>5. Mirrored(poller') /\ Asks(poller') = {} /\ poller'.index["conn"] = "new"
  <2>1. DisableAll \in P!PollerState /\ Mirrored(DisableAll) /\ Asks(DisableAll) = {}
    BY PollerTyped, PollerMoves DEF LifeInv, ChannelInv, TypeOK
  <2> QED BY <1>3, <2>1, RemoveMirrors
<1>6. ThreadInv' /\ QueueInv'
  BY <1>1, <1>3, <1>4 DEF LifeInv, ThreadInv, QueueInv
<1>7. AskedInv' /\ EventInv'
  BY <1>1, <1>2, <1>3, <1>4 DEF LifeInv, AskedInv, EventInv
<1>8. ToldInv' /\ ChannelInv'
  BY <1>1, <1>3, <1>5 DEF LifeInv, ToldInv, ChannelInv, Registered, Up
<1>9. FlowInv'
  BY <1>1, <1>3, <1>4 DEF LifeInv, FlowInv, Up
<1> QED BY <1>6, <1>7, <1>8, <1>9 DEF LifeInv

\* The server queues connectDestroyed (TcpServer.cpp:20-33,121-135).
LEMMA ServerKeeps ==
  ASSUME TypeOK, LifeInv, ServerRemoves \/ ServerTearsDown
  PROVE  LifeInv'
<1>1. UNCHANGED <<state, poller, out, sock, pc, todo, call, log>>
      /\ queue' = Append(queue, <<"destroyed">>)
  BY DEF ServerRemoves, ServerTearsDown
<1>2. ~server.erased /\ server'.erased
      /\ (server'.torn \/ (server'.requests = 0 /\ state = "disconnected"))
  <2>1. CASE ServerRemoves
    <3>1. ~server.erased /\ server.requests = 1 /\ state = "disconnected"
      BY <2>1 DEF ServerRemoves, LifeInv, AskedInv
    <3> QED BY <2>1, <3>1 DEF ServerRemoves, TypeOK
  <2>2. CASE ServerTearsDown
    BY <2>2 DEF ServerTearsDown, TypeOK
  <2> QED BY <2>1, <2>2
<1>3. At(queue, <<"destroyed">>) = {} /\ log.destroyed = 0 /\ pc # "destroying"
  BY <1>2 DEF LifeInv, AskedInv, TypeOK, History
<1>4. /\ At(queue', <<"established">>) = At(queue, <<"established">>)
      /\ At(queue', <<"shutdown">>) = At(queue, <<"shutdown">>)
      /\ At(queue', <<"destroyed">>) = {Len(queue) + 1}
  <2>1. <<"destroyed">> \in Functor
    BY DEF Functor
  <2> QED BY <1>1, <1>3, <2>1, AppendAt DEF TypeOK
<1>5. QueueInv'
  BY <1>1, <1>4 DEF LifeInv, QueueInv
<1>6. AskedInv'
  BY <1>1, <1>2, <1>3 DEF AskedInv
<1>7. ThreadInv' /\ ToldInv' /\ ChannelInv' /\ EventInv' /\ FlowInv'
  BY <1>1 DEF LifeInv, ThreadInv, ToldInv, ChannelInv, EventInv, FlowInv, Writing
<1> QED BY <1>5, <1>6, <1>7 DEF LifeInv

\* shutdown() on the loop's thread (TcpConnection.cpp:149-164).
LEMMA ShutdownKeeps ==
  ASSUME TypeOK, LifeInv, LoopShutdown
  PROVE  LifeInv'
<1>1. state = "connected" /\ state' = "disconnecting" /\ pc # "destroying"
      /\ UNCHANGED <<poller, out, queue, batch, pc, todo, call, server, log>>
  BY DEF LoopShutdown, InCallback
<1>2. sock'.reset = sock.reset /\ (sock'.shut <=> sock.shut \/ (~Writing /\ ~sock.reset))
  BY DEF LoopShutdown, ShutdownInLoop, TypeOK, Socket
<1>3. ThreadInv' /\ QueueInv' /\ ToldInv' /\ EventInv'
  BY <1>1 DEF LifeInv, ThreadInv, QueueInv, ToldInv, EventInv
<1>4. AskedInv'
  BY <1>1 DEF LifeInv, AskedInv
<1>5. ChannelInv'
  BY <1>1 DEF LifeInv, ChannelInv, AskedInv, Up
<1>6. FlowInv'
  <2>1. Writing' = Writing
    BY <1>1 DEF Writing
  <2> QED BY <1>1, <1>2, <2>1 DEF LifeInv, FlowInv, Up
<1> QED BY <1>3, <1>4, <1>5, <1>6 DEF LifeInv

\* A functor that leaves the connection as it is was called, or some other step
\* that does.
LEMMA QuietKeeps ==
  ASSUME TypeOK, LifeInv, UNCHANGED <<state, poller, out, server>>, CountsStand, QueueStands,
         UNCHANGED call, UNCHANGED <<pc, todo>>, sock'.shut = sock.shut, sock.reset => sock'.reset
  PROVE  LifeInv'
<1>1. ThreadInv' /\ (pc' \in {"poll", "functors", "destroying"} => todo' = {})
  BY DEF LifeInv, ThreadInv, EventInv
<1> QED BY <1>1, FrameKeeps

LEMMA NothingQueued ==
  ASSUME TypeOK, LifeInv, UNCHANGED queue
  PROVE  QueueStands
BY DEF LifeInv, QueueInv, QueueStands

LEMMA LifeStep ==
  ASSUME ClosesOnLoop, TypeOK, LifeInv, [Next]_vars
  PROVE  LifeInv'
<1>s. sock \in Socket /\ queue \in Seq(Functor) /\ log \in History /\ state \in State
  BY DEF TypeOK
<1>1. CASE HandleEvent \/ CallbackReturns \/ FunctorsDone \/ TakePending \/ LoopEnds
  <2>1. UNCHANGED <<state, poller, out, sock, queue, todo, call, server, log>>
        /\ (pc' \in {"poll", "functors", "destroying"} => todo = {}) /\ pc' # "destroying"
    BY <1>1 DEF HandleEvent, CallbackReturns, FunctorsDone, TakePending, LoopEnds, LifeInv,
       EventInv
  <2>2. ThreadInv' /\ CountsStand /\ QueueStands
    BY <2>1, NothingQueued DEF LifeInv, ThreadInv, CountsStand
  <2> QED BY <2>1, <2>2, FrameKeeps
<1>2. CASE OnClose
  BY <1>2, HandleCloseKeeps DEF OnClose
<1>3. ASSUME UNCHANGED <<state, poller, out, queue, call, server, log>>, pc = "event",
             pc' \in {"event", "callback"}, todo' \subseteq todo,
             sock'.shut = sock.shut, sock'.reset = sock.reset
      PROVE  LifeInv'
  <2>1. ThreadInv' /\ CountsStand /\ QueueStands
    BY <1>3, NothingQueued DEF LifeInv, ThreadInv, CountsStand
  <2> QED BY <1>3, <2>1, FrameKeeps
<1>4. CASE OnError
  <2>1. sock'.shut = sock.shut /\ sock'.reset = sock.reset
    BY <1>s, <1>4 DEF OnError, Socket
  <2> QED BY <1>3, <1>4, <2>1 DEF OnError
<1>5. CASE OnRead
  <2>1. CASE sock.inbound \/ sock.error # "none"
    <3>1. sock'.shut = sock.shut /\ sock'.reset = sock.reset
      BY <1>s, <1>5, <2>1 DEF OnRead, Socket
    <3>2. /\ UNCHANGED <<state, poller, out, queue, call, server, log>> /\ pc = "event"
          /\ pc' \in {"event", "callback"} /\ todo' \subseteq todo
      BY <1>5, <2>1 DEF OnRead
    <3> QED BY <1>3, <3>1, <3>2
  <2>2. CASE ~(sock.inbound \/ sock.error # "none")
    BY <1>5, <2>2, HandleCloseKeeps DEF OnRead
  <2> QED BY <2>1, <2>2
<1>6. CASE OnWrite
  <2>1. CASE ~Writing
    BY <1>3, <1>6, <2>1 DEF OnWrite
  <2>2. CASE Writing
    BY <1>6, <2>2, WriteKeeps
  <2> QED BY <2>1, <2>2
<1>7. ASSUME NEW f, Calls(f), f \notin {<<"established">>, <<"destroyed">>},
             queue' = Tail(queue)
      PROVE  QueueStands /\ state # "connecting"
  <2>1. Grows(Tail(queue), queue')
    BY <1>7, CallsTakesHead DEF Grows
  <2> QED BY <1>7, <2>1, TailStands DEF LifeInv
<1>8. CASE RunShutdown
  <2>1. 1 \in At(queue, <<"shutdown">>)
    BY <1>8, TailAt DEF RunShutdown
  <2> QED BY <2>1 DEF LifeInv, QueueInv
<1>9. CASE RunCallback
  <2>1. QueueStands
    BY <1>7, <1>9 DEF RunCallback
  <2>2. CountsStand /\ UNCHANGED <<state, poller, out, server, call, pc, todo, sock>>
    BY <1>9 DEF RunCallback, CountsStand
  <2> QED BY <2>1, <2>2, QuietKeeps
<1>10. ASSUME NEW m \in Message, RunSend(m) PROVE LifeInv'
  <2>1. Calls(<<"send", m>>) /\ UNCHANGED <<state, todo, call, server>>
    BY <1>10 DEF RunSend
  <2>2. Tail(queue) \in Seq(Functor) /\ <<"send", m>> # <<"established">>
    BY <2>1, CallsTakesHead
  <2>3. Grows(Tail(queue), queue') => QueueStands /\ state # "connecting"
    BY <2>1, <2>2, TailStands DEF LifeInv
  <2>4. CASE SendInLoop(m, Tail(queue))
    <3>1. state # "disconnected"
      BY <2>4 DEF SendInLoop
    <3>2. PICK n \in 0 .. Size[m], rest \in Seq(Byte) : SendEffect(m, Tail(queue), n, rest)
      BY <2>2, <2>4, SendHasEffect
    <3>3. state # "connecting"
      BY <2>3, <3>2 DEF SendEffect
    <3>4. state \in Up
      BY <1>s, <3>1, <3>3 DEF State, Up
    <3> QED BY <2>1, <2>2, <2>3, <2>4, <3>4, SendInLoopKeeps
  <2>5. CASE GiveUp(m, Tail(queue))
    <3>1. Grows(Tail(queue), queue')
      BY <2>2, <2>5 DEF GiveUp, Grows
    <3>2. CountsStand /\ UNCHANGED <<poller, out, sock, pc>>
      BY <1>s, <2>5 DEF GiveUp, CountsStand, History
    <3> QED BY <2>1, <2>3, <3>1, <3>2, QuietKeeps
  <2> QED BY <1>10, <2>4, <2>5 DEF RunSend
<1>11. ASSUME NEW m \in Message, LoopSend(m) PROVE LifeInv'
  <2>1. SendInLoop(m, queue) /\ state = "connected" /\ UNCHANGED <<state, todo, call, server>>
    BY <1>11 DEF LoopSend
  <2>2. Grows(queue, queue') => QueueStands
    BY GrowsStands DEF LifeInv
  <2>3. state \in Up
    BY <2>1 DEF Up
  <2> QED BY <1>s, <2>1, <2>2, <2>3, SendInLoopKeeps
<1>12. CASE PeerStep
  <2>1. sock'.shut = sock.shut /\ (sock.reset => sock'.reset)
    BY <1>s, <1>12 DEF PeerStep, PeerSends, PeerCloses, PeerResets, PeerAcks, Socket
  <2>2. CountsStand /\ QueueStands
    BY <1>12, NothingQueued DEF PeerStep, CountsStand
  <2> QED BY <1>12, <2>1, <2>2, QuietKeeps DEF PeerStep
<1>13. ASSUME NEW t \in Caller, CallerStarts(t) PROVE LifeInv'
  <2>1. t \notin Closers
    BY ThreadAssumption DEF ClosesOnLoop
  <2>2. PICK m \in Message : CallerSend(t, m)
    BY <1>13, <2>1 DEF CallerStarts, CallerShutdown
  <2>3. CountsStand /\ QueueStands
    BY <1>s, <2>2, NothingQueued DEF CallerSend, CountsStand, History
  <2>4. ThreadInv'
    <3>1. call' = [call EXCEPT ![t] = <<"send", m>>] /\ call \in [Caller -> Step]
      BY <2>2 DEF CallerSend, TypeOK
    <3> QED BY <3>1 DEF LifeInv, ThreadInv
  <2>5. pc \in {"poll", "functors", "destroying"} => todo = {}
    BY DEF LifeInv, EventInv
  <2> QED BY <2>2, <2>3, <2>4, <2>5, FrameKeeps DEF CallerSend
<1>14. ASSUME NEW t \in Caller, CallerGoesOn(t) PROVE LifeInv'
  <2>1. call[t] \in Step /\ call \in [Caller -> Step]
    BY DEF TypeOK
  <2>2. ~CallerSetsState(t)
    BY DEF LifeInv, ThreadInv, CallerSetsState
  <2>3. CallerQueues(t)
    BY <1>14, <2>2 DEF CallerGoesOn
  <2>4. call[t] \in {"send"} \X Message
    <3>1. call[t] \notin {<<"idle">>, <<"closing">>, <<"shutdown">>}
      BY <2>3 DEF CallerQueues, LifeInv, ThreadInv
    <3> QED BY <2>1, <3>1 DEF Step
  <2>5. call[t] \in Functor /\ call[t] \notin {<<"shutdown">>, <<"established">>, <<"destroyed">>}
    BY <2>4 DEF Functor
  <2>6. QueueStands /\ CountsStand
    BY <2>3, <2>5, AppendStands DEF LifeInv, CallerQueues, CountsStand
  <2>7. ThreadInv'
    <3>1. call' = [call EXCEPT ![t] = <<"idle">>]
      BY <2>3 DEF CallerQueues
    <3> QED BY <2>1, <3>1 DEF LifeInv, ThreadInv
  <2>8. pc \in {"poll", "functors", "destroying"} => todo = {}
    BY DEF LifeInv, EventInv
  <2> QED BY <2>3, <2>6, <2>7, <2>8, FrameKeeps DEF CallerQueues
<1>15. CASE UNCHANGED vars
  <2>1. CountsStand /\ QueueStands
    BY <1>15, NothingQueued DEF vars, CountsStand
  <2> QED BY <1>15, <2>1, QuietKeeps DEF vars
<1> QED BY <1>1, <1>2, <1>4, <1>5, <1>6, <1>8, <1>9, <1>10, <1>11, <1>12, <1>13, <1>14, <1>15,
           PollKeeps, EstablishedKeeps, DestroyedKeeps, FinishKeeps, ServerKeeps, ShutdownKeeps
        DEF Next, LoopStep, CallbackStep

\* While shutdown() is called on the loop's thread alone, the registration, the
\* buffer, the server's requests and the callbacks follow the state of the
\* connection.
THEOREM LifeInductive ==
  ASSUME ClosesOnLoop
  PROVE  SafeSpec => []LifeInv
<1>1. Init => LifeInv
  <2> SUFFICES ASSUME Init PROVE LifeInv
    OBVIOUS
  <2>1. ThreadInv /\ ToldInv /\ EventInv /\ FlowInv
    BY DEF Init, ThreadInv, ToldInv, EventInv, FlowInv, Up
  <2>2. /\ At(queue, <<"established">>) = {1}
        /\ At(queue, <<"shutdown">>) = {}
        /\ At(queue, <<"destroyed">>) = {}
    BY DEF Init, At
  <2>3. QueueInv /\ AskedInv
    BY <2>2 DEF Init, QueueInv, AskedInv
  <2>4. ChannelInv
    BY DEF Init, ChannelInv, Mirrored, Asks, Registered, P!KernelMirrors, P!EmptyPoller, P!Vacant, Up
  <2> QED BY <2>1, <2>3, <2>4 DEF LifeInv
<1>2. TypeOK /\ LifeInv /\ [Next]_vars => LifeInv'
  BY LifeStep
<1> QED BY <1>1, <1>2, TypeCorrect, PTL DEF SafeSpec

\* "This two functions should be called only once": connectDestroyed is
\* (TcpConnection.cpp:166, TcpConnection.h:66).
THEOREM DestroyedOnceHolds ==
  ASSUME ClosesOnLoop
  PROVE  SafeSpec => []DestroyedOnce
<1>1. LifeInv => DestroyedOnce
  BY DEF LifeInv, AskedInv, DestroyedOnce
<1> QED BY <1>1, LifeInductive, PTL

\* The application is told once that the connection is up and once, later, that
\* it is down, before connectDestroyed is over unless the server was torn down
\* while the connection was half closed (TcpConnection.cpp:176-188,250-260).
THEOREM UpThenDownHolds ==
  ASSUME ClosesOnLoop
  PROVE  SafeSpec => []UpThenDown
<1>1. LifeInv => UpThenDown
  BY DEF LifeInv, AskedInv, ToldInv, UpThenDown
<1> QED BY <1>1, LifeInductive, PTL

\* connectDestroyed leaves nothing in the poller, no later send brings the channel
\* back, and no operation on epoll ever fails (TcpConnection.cpp:141-144,186).
THEOREM NothingLeftHolds ==
  ASSUME ClosesOnLoop
  PROVE  SafeSpec => []NothingLeftInPoller
<1>1. LifeInv => NothingLeftInPoller
  BY DEF LifeInv, ChannelInv, Mirrored, P!KernelMirrors, NothingLeftInPoller
<1> QED BY <1>1, LifeInductive, PTL

\* EPOLLOUT is asked for exactly while something is buffered, on a connection that
\* is up (TcpConnection.cpp:141-144,224-226).
THEOREM WritingHolds ==
  ASSUME ClosesOnLoop
  PROVE  SafeSpec => []WritingIffBuffered
<1>1. LifeInv => WritingIffBuffered
  BY DEF LifeInv, FlowInv, Up, WritingIffBuffered
<1> QED BY <1>1, LifeInductive, PTL

\* state_ never returns to an earlier value (TcpConnection.cpp:152,170,180,254).
THEOREM StateAdvances ==
  ASSUME ClosesOnLoop
  PROVE  SafeSpec => StateOnlyAdvances
<1>1. TypeOK /\ LifeInv /\ [Next]_vars => [Rank(state) <= Rank(state')]_state
  <2> SUFFICES ASSUME TypeOK, LifeInv, Next, state' # state PROVE Rank(state) <= Rank(state')
    BY DEF vars
  <2>0. state \in State
    BY DEF TypeOK
  <2>1. ASSUME state' = "disconnected" PROVE Rank(state) <= Rank(state')
    BY <2>0, <2>1 DEF Rank, State
  <2>2. CASE ConnectEstablished
    <3>1. state = "connecting" /\ state' = "connected"
      BY <2>2, TailAt DEF ConnectEstablished, LifeInv, QueueInv
    <3> QED BY <3>1 DEF Rank
  <2>3. CASE LoopShutdown
    BY <2>3 DEF LoopShutdown, Rank
  <2>4. CASE OnClose \/ OnRead \/ FinishDestroyed
    BY <2>1, <2>4 DEF OnClose, OnRead, FinishDestroyed, HandleClose
  <2>5. ASSUME NEW t \in Caller, CallerGoesOn(t) PROVE FALSE
    BY <2>5 DEF CallerGoesOn, CallerSetsState, CallerQueues, LifeInv, ThreadInv
  <2>6. ASSUME NEW t \in Caller, CallerStarts(t) PROVE FALSE
    BY <2>6 DEF CallerStarts, CallerShutdown, CallerSend
  <2>7. CASE \/ Poll \/ HandleEvent \/ OnError \/ OnWrite \/ CallbackReturns \/ TakePending
             \/ FunctorsDone \/ RunShutdown \/ RunCallback \/ ConnectDestroyed
             \/ PeerStep \/ ServerRemoves \/ ServerTearsDown \/ LoopEnds
    BY <2>7 DEF Poll, HandleEvent, OnError, OnWrite, CallbackReturns, TakePending, FunctorsDone,
       RunShutdown, RunCallback, ConnectDestroyed, PeerStep, ServerRemoves, ServerTearsDown,
       LoopEnds
  <2>8. ASSUME NEW m \in Message, RunSend(m) \/ LoopSend(m) PROVE FALSE
    BY <2>8 DEF RunSend, LoopSend
  <2> QED BY <2>2, <2>3, <2>4, <2>5, <2>6, <2>7, <2>8 DEF Next, LoopStep, CallbackStep
<1> QED BY <1>1, TypeCorrect, LifeInductive, PTL DEF SafeSpec, StateOnlyAdvances

-----------------------------------------------------------------------------
(***************************************************************************)
(* Every call on the loop's thread.                                        *)
(***************************************************************************)
CallsOnLoop == Senders \cup Closers \subseteq {"loop"}

\* No send() is under way: those of the loop's thread are over when they return.
IdleInv ==
    /\ \A t \in Caller : call[t] = <<"idle">>
    /\ \A m \in Message : At(queue, <<"send", m>>) = {}

\* How the queue changes.
LEMMA QueueMoves ==
  ASSUME TypeOK, [Next]_vars
  PROVE  \/ Grows(queue, queue')
         \/ \E f : Calls(f) /\ Grows(Tail(queue), queue')
         \/ queue' = Append(queue, <<"destroyed">>)
         \/ \E t \in Caller : CallerQueues(t)
<1>1. queue \in Seq(Functor) /\ \A q \in Seq(Functor) : Grows(q, q)
  BY DEF TypeOK, Grows
<1>2. ASSUME NEW m \in Message, NEW q \in Seq(Functor), SendInLoop(m, q) PROVE Grows(q, queue')
  BY <1>2, SendHasEffect DEF SendEffect
<1>3. ASSUME NEW f, Calls(f) PROVE Tail(queue) \in Seq(Functor)
  BY <1>3, CallsTakesHead
<1>4. CASE UNCHANGED queue
  BY <1>1, <1>4
<1>5. CASE ConnectEstablished \/ RunShutdown \/ RunCallback \/ ConnectDestroyed
  <2>1. PICK f : Calls(f) /\ queue' = Tail(queue)
    BY <1>5 DEF ConnectEstablished, RunShutdown, RunCallback, ConnectDestroyed
  <2> QED BY <1>1, <1>3, <2>1
<1>6. ASSUME NEW m \in Message, RunSend(m)
      PROVE  \E f : Calls(f) /\ Grows(Tail(queue), queue')
  <2>1. Calls(<<"send", m>>) /\ Tail(queue) \in Seq(Functor)
    BY <1>3, <1>6 DEF RunSend
  <2>2. Grows(Tail(queue), queue')
    BY <1>1, <1>2, <1>6, <2>1 DEF RunSend, GiveUp
  <2> QED BY <2>1, <2>2
<1>7. ASSUME NEW m \in Message, LoopSend(m) PROVE Grows(queue, queue')
  BY <1>1, <1>2, <1>7 DEF LoopSend
<1>8. CASE OnWrite
  <2>1. CASE Writing
    BY <1>8, <2>1, WriteHasEffect DEF WriteEffect
  <2>2. CASE ~Writing
    BY <1>4, <1>8, <2>2 DEF OnWrite
  <2> QED BY <2>1, <2>2
<1>9. CASE ServerRemoves \/ ServerTearsDown
  BY <1>9 DEF ServerRemoves, ServerTearsDown
<1>10. CASE \/ Poll \/ HandleEvent \/ OnClose \/ OnError \/ OnRead \/ CallbackReturns
            \/ TakePending \/ FunctorsDone \/ FinishDestroyed \/ LoopShutdown \/ PeerStep
            \/ LoopEnds
  BY <1>4, <1>10 DEF Poll, HandleEvent, OnClose, OnError, OnRead, CallbackReturns,
     TakePending, FunctorsDone, FinishDestroyed, LoopShutdown, PeerStep, LoopEnds, HandleClose
<1>11. ASSUME NEW t \in Caller, CallerStarts(t) \/ CallerSetsState(t) PROVE UNCHANGED queue
  BY <1>11 DEF CallerStarts, CallerShutdown, CallerSend, CallerSetsState
<1>12. CASE UNCHANGED vars
  BY <1>4, <1>12 DEF vars
<1> QED BY <1>4, <1>5, <1>6, <1>7, <1>8, <1>9, <1>10, <1>11, <1>12
        DEF Next, LoopStep, CallbackStep, CallerGoesOn

LEMMA IdleHolds ==
  ASSUME CallsOnLoop
  PROVE  SafeSpec => []IdleInv
<1>1. Init => IdleInv
  BY DEF Init, IdleInv, At
<1>2. TypeOK /\ IdleInv /\ [Next]_vars => IdleInv'
  <2> SUFFICES ASSUME TypeOK, IdleInv, [Next]_vars PROVE IdleInv'
    OBVIOUS
  <2>1. ASSUME NEW t \in Caller PROVE ~CallerStarts(t) /\ ~CallerGoesOn(t)
    <3>1. t \notin Senders /\ t \notin Closers /\ call[t] = <<"idle">>
      BY ThreadAssumption DEF CallsOnLoop, IdleInv
    <3> QED BY <3>1 DEF CallerStarts, CallerShutdown, CallerSend, CallerGoesOn, CallerSetsState,
           CallerQueues
  <2>2. UNCHANGED call
    <3>1. CASE LoopStep
      BY <3>1 DEF LoopStep, Poll, HandleEvent, OnClose, OnError, OnRead, OnWrite, CallbackReturns,
         TakePending, FunctorsDone, FinishDestroyed, ConnectEstablished, RunShutdown, RunCallback,
         ConnectDestroyed, RunSend, HandleClose
    <3>2. CASE CallbackStep \/ PeerStep \/ ServerRemoves \/ ServerTearsDown \/ LoopEnds
      BY <3>2 DEF CallbackStep, LoopShutdown, LoopSend, PeerStep, ServerRemoves,
         ServerTearsDown, LoopEnds
    <3> QED BY <2>1, <3>1, <3>2 DEF Next, vars
  <2>3. ASSUME NEW m \in Message PROVE At(queue', <<"send", m>>) = {}
    <3>1. At(queue, <<"send", m>>) = {} /\ queue \in Seq(Functor)
      BY DEF IdleInv, TypeOK
    <3>2. <<"send", m>> \notin {<<"complete">>, <<"high">>} /\ <<"send", m>> # <<"destroyed">>
      OBVIOUS
    <3>3. CASE Grows(queue, queue')
      BY <3>1, <3>2, <3>3, GrowsAt
    <3>4. CASE \E f : Calls(f) /\ Grows(Tail(queue), queue')
      <4>1. PICK f : Calls(f) /\ Grows(Tail(queue), queue')
        BY <3>4
      <4>2. Tail(queue) \in Seq(Functor) /\ At(Tail(queue), <<"send", m>>) = {}
        BY <3>1, <4>1, CallsTakesHead, TailAt
      <4> QED BY <3>2, <4>1, <4>2, GrowsAt, Zenon
    <3>5. CASE queue' = Append(queue, <<"destroyed">>)
      <4>1. <<"destroyed">> \in Functor
        BY DEF Functor
      <4> QED BY <3>1, <3>2, <3>5, <4>1, AppendAt, Zenon
    <3> QED BY <2>1, <3>3, <3>4, <3>5, QueueMoves DEF CallerGoesOn
  <2> QED BY <2>2, <2>3 DEF IdleInv
<1> QED BY <1>1, <1>2, TypeCorrect, PTL DEF SafeSpec

\* The comment at TcpConnection.cpp:88 is true of a connection used on its loop's
\* thread alone: nothing is written behind the end of the stream.
THEOREM NeverWritesAfterFinHolds ==
  ASSUME CallsOnLoop
  PROVE  SafeSpec => []NeverWritesAfterFin
<1>1. ClosesOnLoop
  BY DEF CallsOnLoop, ClosesOnLoop
<1>2. Init => NeverWritesAfterFin
  BY DEF Init, NeverWritesAfterFin
<1>3. TypeOK /\ LifeInv /\ IdleInv /\ NeverWritesAfterFin /\ [Next]_vars => NeverWritesAfterFin'
  <2> SUFFICES ASSUME TypeOK, LifeInv, IdleInv, NeverWritesAfterFin, [Next]_vars
               PROVE  log'.broken = FALSE
    BY DEF NeverWritesAfterFin
  <2>t. log \in History /\ log.broken = FALSE /\ queue \in Seq(Functor)
    BY DEF TypeOK, NeverWritesAfterFin, History
  <2>1. ASSUME NEW m \in Message, LoopSend(m) PROVE log'.broken = FALSE
    <3>1. state = "connected" /\ SendInLoop(m, queue)
      BY <2>1 DEF LoopSend
    <3>2. ~sock.shut
      BY <3>1 DEF LifeInv, FlowInv
    <3>3. PICK n \in 0 .. Size[m], rest \in Seq(Byte) : SendEffect(m, queue, n, rest)
      BY <2>t, <3>1, SendHasEffect
    <3> QED BY <2>t, <3>2, <3>3 DEF SendEffect
  <2>2. ASSUME NEW m \in Message, RunSend(m) PROVE FALSE
    <3>1. 1 \in At(queue, <<"send", m>>)
      BY <2>2, TailAt DEF RunSend
    <3> QED BY <3>1 DEF IdleInv
  <2>3. CASE OnWrite
    <3>1. CASE Writing
      <4>1. PICK n \in Nat : WriteEffect(n)
        BY <2>3, <3>1, WriteHasEffect
      <4>2. ~sock.shut
        <5>1. Asks(poller) # {}
          BY <3>1 DEF Writing, P!IsWriting, Asks
        <5> QED BY <3>1, <5>1 DEF LifeInv, ChannelInv, FlowInv, Up
      <4> QED BY <2>t, <4>1, <4>2 DEF WriteEffect
    <3>2. CASE ~Writing
      BY <2>t, <2>3, <3>2 DEF OnWrite
    <3> QED BY <3>1, <3>2
  <2>4. CASE \/ Poll \/ HandleEvent \/ OnClose \/ OnError \/ OnRead \/ CallbackReturns
             \/ TakePending \/ FunctorsDone
    BY <2>t, <2>4 DEF Poll, HandleEvent, OnClose, OnError, OnRead, CallbackReturns,
       TakePending, FunctorsDone, HandleClose, History
  <2>5. CASE ConnectEstablished \/ RunShutdown \/ RunCallback \/ ConnectDestroyed \/ FinishDestroyed
    BY <2>t, <2>5 DEF ConnectEstablished, RunShutdown, RunCallback, ConnectDestroyed,
       FinishDestroyed, History
  <2>6. CASE LoopShutdown \/ PeerStep \/ ServerRemoves \/ ServerTearsDown \/ LoopEnds
    BY <2>t, <2>6 DEF LoopShutdown, PeerStep, ServerRemoves, ServerTearsDown, LoopEnds
  <2>7. ASSUME NEW t \in Caller, CallerStarts(t) \/ CallerGoesOn(t) PROVE log'.broken = FALSE
    BY <2>t, <2>7 DEF CallerStarts, CallerShutdown, CallerSend, CallerGoesOn, CallerSetsState,
       CallerQueues, History
  <2>8. CASE UNCHANGED vars
    BY <2>t, <2>8 DEF vars
  <2> QED BY <2>1, <2>2, <2>3, <2>4, <2>5, <2>6, <2>7, <2>8 DEF Next, LoopStep, CallbackStep
<1> QED BY <1>1, <1>2, <1>3, TypeCorrect, LifeInductive, IdleHolds, PTL DEF SafeSpec

=============================================================================
