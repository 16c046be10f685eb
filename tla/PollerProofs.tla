---------------------------- MODULE PollerProofs ----------------------------
(***************************************************************************)
(* What holds of the poller and its channels for any number of channels    *)
(* and descriptors: the bookkeeping of EPollPoller agrees with epoll, no   *)
(* epoll_ctl fails, and of the connections that no other thread shuts down *)
(* the loop keeps and calls live channels only.                            *)
(***************************************************************************)
EXTENDS PollerLoop, TLAPS

(***************************************************************************)
(* The operations of EPollPoller on one channel.                           *)
(***************************************************************************)
\* channels_ has the channel under its descriptor; while it does not, only a pointer
\* to a connection that another thread has shut down can be left there.
MapMirrors(p, c, f) ==
    IF p.index[c] = "new" THEN p.channels[f] \in Racers \cup {None}
                          ELSE p.channels[f] = c

\* Poller and kernel are in step about channel c on descriptor f.
Sound(p, c, f) ==
    /\ p \in PollerState
    /\ p.errors = {}
    /\ KernelMirrors(p, c, f)
    /\ MapMirrors(p, c, f)

\* p and q differ only in what they hold of channel c and of descriptor f.
Apart(p, q, c, f) ==
    /\ \A d \in Channel \ {c} : q.index[d] = p.index[d] /\ q.events[d] = p.events[d]
    /\ \A g \in Fd \ {f} : q.kernel[g] = p.kernel[g] /\ q.channels[g] = p.channels[g]

\* q is p after an epoll_ctl on f that succeeded and left entry e there.
Succeeded(p, q, f, e) ==
    /\ q \in PollerState
    /\ q.index = p.index /\ q.events = p.events /\ q.channels = p.channels
    /\ q.errors = p.errors
    /\ q.kernel = [p.kernel EXCEPT ![f] = e]

LEMMA KernelUpdate ==
  ASSUME NEW p \in PollerState, NEW f \in Fd, NEW e \in Entry
  PROVE  Succeeded(p, [p EXCEPT !.kernel[f] = e], f, e)
BY DEF Succeeded, PollerState

\* An epoll_ctl that is legal does what was asked and fails in nothing
\* (EPollPoller.cpp:139-177).
LEMMA AddSucceeds ==
  ASSUME NEW p \in PollerState, NEW c \in Channel, NEW f \in Fd, p.kernel[f] = Vacant
  PROVE  Succeeded(p, EpollCtl(p, "add", c, f), f,
                   [channel |-> c, events |-> p.events[c]])
<1>1. [channel |-> c, events |-> p.events[c]] \in Entry
  BY DEF Entry, PollerState
<1>2. EpollCtl(p, "add", c, f)
        = [p EXCEPT !.kernel[f] = [channel |-> c, events |-> p.events[c]]]
  BY DEF EpollCtl
<1> QED BY <1>1, <1>2, KernelUpdate

LEMMA ModSucceeds ==
  ASSUME NEW p \in PollerState, NEW c \in Channel, NEW f \in Fd, p.kernel[f] # Vacant
  PROVE  Succeeded(p, EpollCtl(p, "mod", c, f), f,
                   [channel |-> c, events |-> p.events[c]])
<1>1. [channel |-> c, events |-> p.events[c]] \in Entry
  BY DEF Entry, PollerState
<1>2. EpollCtl(p, "mod", c, f)
        = [p EXCEPT !.kernel[f] = [channel |-> c, events |-> p.events[c]]]
  BY DEF EpollCtl
<1> QED BY <1>1, <1>2, KernelUpdate

LEMMA DelSucceeds ==
  ASSUME NEW p \in PollerState, NEW c \in Channel, NEW f \in Fd, p.kernel[f] # Vacant
  PROVE  Succeeded(p, EpollCtl(p, "del", c, f), f, Vacant)
<1>1. Vacant \in Entry
  BY DEF Entry, Vacant
<1>2. EpollCtl(p, "del", c, f) = [p EXCEPT !.kernel[f] = Vacant]
  BY DEF EpollCtl
<1> QED BY <1>1, <1>2, KernelUpdate

LEMMA EntryIsNotVacant ==
  ASSUME NEW c \in Channel, NEW evs
  PROVE  [channel |-> c, events |-> evs] # Vacant
BY NoneAssumption DEF Vacant

\* A change of interest (Channel.h:45-49, EPollPoller.cpp:77-108) keeps a sound
\* poller sound and touches no other channel.
LEMMA SetEventsSound ==
  ASSUME NEW p, NEW c \in Channel, NEW f \in Fd, NEW evs \in SUBSET Interest,
         Sound(p, c, f)
  PROVE  /\ Sound(SetEvents(p, c, f, evs), c, f)
         /\ Apart(p, SetEvents(p, c, f, evs), c, f)
         /\ SetEvents(p, c, f, evs).events[c] = evs
<1> DEFINE r == [p EXCEPT !.events[c] = evs]
           q == UpdateChannel(r, c, f)
<1>1. /\ r \in PollerState /\ r.errors = {}
      /\ r.index = p.index /\ r.channels = p.channels /\ r.kernel = p.kernel
      /\ r.events[c] = evs
      /\ \A d \in Channel \ {c} : r.events[d] = p.events[d]
  BY DEF Sound, PollerState
<1> SUFFICES /\ Sound(q, c, f) /\ Apart(p, q, c, f) /\ q.events[c] = evs
  BY DEF SetEvents
<1> HIDE DEF r
<1>2. CASE p.index[c] \in {"new", "deleted"}
  <2> DEFINE s == IF p.index[c] = "new"
                  THEN [r EXCEPT !.index[c] = "added", !.channels[f] = c]
                  ELSE [r EXCEPT !.index[c] = "added"]
  <2>1. /\ s \in PollerState /\ s.errors = {} /\ s.kernel = p.kernel
        /\ s.events = r.events /\ s.index[c] = "added" /\ s.channels[f] = c
        /\ \A d \in Channel \ {c} : s.index[d] = p.index[d]
        /\ \A g \in Fd \ {f} : s.channels[g] = p.channels[g]
    BY <1>1, <1>2 DEF PollerState, Index, Sound, MapMirrors
  <2>2. q = EpollCtl(s, "add", c, f)
    BY <1>1, <1>2 DEF UpdateChannel
  <2>3. s.kernel[f] = Vacant
    BY <1>2, <2>1 DEF Sound, KernelMirrors
  <2> HIDE DEF s, q
  <2>4. Succeeded(s, q, f, [channel |-> c, events |-> s.events[c]])
    BY <2>1, <2>2, <2>3, AddSucceeds
  <2> QED
    BY <1>1, <2>1, <2>4
       DEF Succeeded, Sound, Apart, KernelMirrors, MapMirrors, PollerState
<1>3. CASE p.index[c] = "added"
  <2>1. r.kernel[f] # Vacant
    BY <1>1, <1>3, EntryIsNotVacant DEF Sound, KernelMirrors
  <2>2. CASE evs = {}
    <3> DEFINE s == EpollCtl(r, "del", c, f)
    <3>1. q = [s EXCEPT !.index[c] = "deleted"]
      BY <1>1, <1>3, <2>2 DEF UpdateChannel
    <3>2. Succeeded(r, s, f, Vacant)
      BY <1>1, <2>1, DelSucceeds
    <3> HIDE DEF s, q
    <3>3. /\ q \in PollerState /\ q.errors = {} /\ q.index[c] = "deleted"
          /\ q.kernel = s.kernel /\ q.channels = s.channels /\ q.events = s.events
          /\ \A d \in Channel \ {c} : q.index[d] = p.index[d]
      BY <1>1, <3>1, <3>2 DEF Succeeded, PollerState, Index
    <3> QED
      BY <1>1, <1>3, <2>2, <3>2, <3>3
         DEF Succeeded, Sound, Apart, KernelMirrors, MapMirrors, PollerState
  <2>3. CASE evs # {}
    <3>1. q = EpollCtl(r, "mod", c, f)
      BY <1>1, <1>3, <2>3 DEF UpdateChannel
    <3> HIDE DEF q
    <3>2. Succeeded(r, q, f, [channel |-> c, events |-> r.events[c]])
      BY <1>1, <2>1, <3>1, ModSucceeds
    <3> QED
      BY <1>1, <1>3, <3>2
         DEF Succeeded, Sound, Apart, KernelMirrors, MapMirrors, PollerState
  <2> QED BY <2>2, <2>3
<1> QED
  BY <1>2, <1>3 DEF Sound, PollerState, Index

\* removeChannel (EPollPoller.cpp:112-125) leaves nothing of the channel behind
\* and touches no other.
LEMMA RemoveSound ==
  ASSUME NEW p, NEW c \in Channel, NEW f \in Fd, Sound(p, c, f)
  PROVE  /\ Sound(RemoveChannel(p, c, f), c, f)
         /\ RemoveChannel(p, c, f).index[c] = "new"
         /\ Apart(p, RemoveChannel(p, c, f), c, f)
<1> DEFINE r == [p EXCEPT !.channels[f] = None]
           s == IF p.index[c] = "added" THEN EpollCtl(r, "del", c, f) ELSE r
           q == RemoveChannel(p, c, f)
<1>1. /\ r \in PollerState /\ r.errors = {} /\ r.channels[f] = None
      /\ r.index = p.index /\ r.events = p.events /\ r.kernel = p.kernel
      /\ \A g \in Fd \ {f} : r.channels[g] = p.channels[g]
  BY DEF Sound, PollerState
<1>2. q = [s EXCEPT !.index[c] = "new"]
  BY DEF RemoveChannel
<1> HIDE DEF r, q
<1>3. /\ s \in PollerState /\ s.errors = {} /\ s.channels = r.channels
      /\ s.index = p.index /\ s.events = p.events
      /\ s.kernel[f] = Vacant
      /\ \A g \in Fd \ {f} : s.kernel[g] = p.kernel[g]
  <2>1. CASE p.index[c] = "added"
    <3>1. r.kernel[f] # Vacant
      BY <1>1, <2>1, EntryIsNotVacant DEF Sound, KernelMirrors
    <3>2. Succeeded(r, EpollCtl(r, "del", c, f), f, Vacant)
      BY <1>1, <3>1, DelSucceeds
    <3> QED BY <1>1, <2>1, <3>2 DEF Succeeded, PollerState
  <2>2. CASE p.index[c] # "added"
    BY <1>1, <2>2 DEF Sound, KernelMirrors
  <2> QED BY <2>1, <2>2
<1> HIDE DEF s
<1>4. /\ q \in PollerState /\ q.errors = {} /\ q.index[c] = "new"
      /\ q.events = s.events /\ q.kernel = s.kernel /\ q.channels = s.channels
      /\ \A d \in Channel \ {c} : q.index[d] = p.index[d]
  BY <1>2, <1>3 DEF PollerState, Index
<1> QED
  BY <1>1, <1>3, <1>4 DEF Sound, Apart, KernelMirrors, MapMirrors, q

\* removeChannel leaves the interest of the channel as it was.
LEMMA RemoveKeepsEvents ==
  ASSUME NEW p, NEW c \in Channel, NEW f \in Fd, Sound(p, c, f)
  PROVE  RemoveChannel(p, c, f).events[c] = p.events[c]
BY DEF Sound, PollerState, RemoveChannel, EpollCtl

-----------------------------------------------------------------------------
(***************************************************************************)
(* The inductive invariant.                                                *)
(***************************************************************************)
\* Every object has a descriptor of its own.
Ownership ==
    /\ \A c \in Channel : life[c] = "none" <=> fd[c] = None
    /\ \A c, d \in Live : fd[c] = fd[d] => c = d

\* Pointer c may be in channels_ under f.
Rightful(p, c, f) ==
    \/ c \in Racers \cup {None}
    \/ c \in Live /\ fd[c] = f /\ p.index[c] # "new"

\* Every live channel is in step with the kernel and the map, and nothing is
\* registered for a descriptor without an owner.
Registration ==
    /\ poller.errors = {}
    /\ \A c \in Live : KernelMirrors(poller, c, fd[c]) /\ MapMirrors(poller, c, fd[c])
    /\ \A f \in Fd : poller.kernel[f] # Vacant => \E c \in Live : fd[c] = f
    /\ pc # "ended" => \A f \in Fd : Rightful(poller, poller.channels[f], f)

\* The write side is closed, or will be once the buffer is empty.
NoMoreWrites(c) ==
    /\ state[c] = "disconnecting"
    /\ IsWriting(poller, c) \/ c \in shut

\* A connection that is closed or removed cannot begin to write again, unless the
\* store of a racing shutdown() undoes its state.
Quiet(c) ==
    /\ life[c] = "made" => state[c] = "connecting"
    /\ life[c] = "up" => state[c] = "connected" \/ NoMoreWrites(c)
    /\ life[c] = "closed" => state[c] = "disconnected"
    /\ life[c] = "removed" => /\ poller.index[c] = "new"
                              /\ state[c] = "disconnected" \/ NoMoreWrites(c)

\* The object is there, and is registered or may be.
InUse(c) == life[c] \notin {"none", "removed"}

\* The channels of a round are live, and the round is over before functors run.
Round ==
    /\ \A f \in ready : poller.kernel[f] # Vacant
    /\ \A c \in active \ Racers : InUse(c)
    /\ current # None => current \in Live
    /\ current \in Channel \ Racers => InUse(current)
    /\ active # {} => pc \in {"dispatch", "handler"}
    /\ current # None => pc = "handler"

\* Only a TcpConnection can be closed or removed.
OnlyConnections ==
    \A c \in Channel : life[c] \in {"closed", "removed"} => c \in Connection

IInv ==
    /\ TypeOK /\ Ownership /\ Registration /\ Round /\ OnlyConnections
    /\ \A c \in Connection \ Racers : Quiet(c)

LEMMA LiveHasFd ==
  ASSUME IInv, NEW c \in Live
  PROVE  c \in Channel /\ fd[c] \in Fd /\ Sound(poller, c, fd[c])
BY DEF IInv, TypeOK, Ownership, Registration, Sound, Live

\* A step in the life of a connection that leaves the poller alone.
LEMMA NoteStep ==
  ASSUME IInv, UNCHANGED <<poller, life, fd, ready, loopVars>>,
         state' \in [Channel -> State], calls' \subseteq Call, shut' \subseteq Connection,
         \A c \in Connection \ Racers : Quiet(c)'
  PROVE  IInv'
<1> USE DEF IInv
<1>1. UNCHANGED <<active, current, pc, size>> /\ Live' = Live
  BY DEF loopVars, Live
<1>2. TypeOK'
  BY <1>1 DEF TypeOK
<1>3. Ownership' /\ OnlyConnections'
  BY <1>1 DEF Ownership, OnlyConnections
<1>4. Registration'
  BY <1>1 DEF Registration, Rightful
<1>5. Round'
  BY <1>1 DEF Round, InUse
<1> QED BY <1>2, <1>3, <1>4, <1>5

\* A step by which the owner of a channel changes its registration and keeps it.
LEMMA KeepStep ==
  ASSUME IInv, NEW c \in Live, NEW q, NEW l \in Life \ {"none"},
         Sound(q, c, fd[c]), Apart(poller, q, c, fd[c]),
         PollerBecomes(q), life' = [life EXCEPT ![c] = l],
         l \in {"closed", "removed"} => c \in Connection,
         l = "removed" =>
            c \in Racers \/ life[c] = "removed" \/ pc \in {"functors", "ended"},
         state' \in [Channel -> State], shut' \subseteq Connection,
         \A d \in Channel \ {c} : state'[d] = state[d] /\ (d \in shut' <=> d \in shut),
         c \in Connection \ Racers => Quiet(c)',
         UNCHANGED <<fd, calls, loopVars>>
  PROVE  IInv'
<1> USE DEF IInv
<1>1. /\ c \in Channel /\ fd[c] \in Fd /\ poller' = q /\ q \in PollerState
      /\ UNCHANGED <<active, current, pc, size>>
      /\ \A d \in Channel \ {c} : life'[d] = life[d]
      /\ life'[c] = l
  BY LiveHasFd DEF PollerBecomes, Sound, loopVars, TypeOK
<1>2. Live' = Live
  BY <1>1 DEF Live, TypeOK
<1>3. TypeOK'
  BY <1>1 DEF TypeOK, PollerBecomes
<1>4. Ownership'
  BY <1>1, <1>2 DEF Ownership, TypeOK, Live
<1>5. Registration'
  <2>1. poller'.errors = {}
    BY <1>1 DEF Sound
  <2>2. ASSUME NEW d \in Live
        PROVE  KernelMirrors(q, d, fd[d]) /\ MapMirrors(q, d, fd[d])
    <3>1. CASE d = c
      BY <3>1 DEF Sound
    <3>2. CASE d # c
      <4>1. d \in Channel \ {c} /\ fd[d] \in Fd \ {fd[c]}
        BY <2>2, <3>2, LiveHasFd DEF Ownership
      <4>2. KernelMirrors(poller, d, fd[d]) /\ MapMirrors(poller, d, fd[d])
        BY <2>2 DEF Registration
      <4> QED BY <4>1, <4>2 DEF Apart, KernelMirrors, MapMirrors
    <3> QED BY <3>1, <3>2
  <2>3. ASSUME NEW f \in Fd, q.kernel[f] # Vacant
        PROVE  \E d \in Live : fd[d] = f
    <3>1. CASE f = fd[c]
      BY <3>1
    <3>2. CASE f # fd[c]
      BY <2>3, <3>2 DEF Apart, Registration
    <3> QED BY <3>1, <3>2
  <2>4. ASSUME NEW f \in Fd, pc # "ended"
        PROVE  Rightful(q, q.channels[f], f)
    <3>1. CASE f = fd[c]
      BY <2>2, <3>1 DEF MapMirrors, Rightful
    <3>2. CASE f # fd[c]
      <4>1. q.channels[f] = poller.channels[f]
        BY <3>2 DEF Apart
      <4>2. Rightful(poller, poller.channels[f], f)
        BY <2>4 DEF Registration
      <4>3. \A d \in Live : fd[d] = f => q.index[d] = poller.index[d]
        BY <3>2 DEF Apart, Live
      <4> QED BY <4>1, <4>2, <4>3 DEF Rightful
    <3> QED BY <3>1, <3>2
  <2> QED BY <1>1, <1>2, <2>1, <2>2, <2>3, <2>4 DEF Registration, Rightful
<1>6. Round'
  <2>1. ASSUME NEW d \in active \ Racers PROVE InUse(d)'
    <3>1. d \in Channel /\ InUse(d) /\ pc \in {"dispatch", "handler"}
      BY <2>1 DEF Round, TypeOK
    <3> QED BY <1>1, <2>1, <3>1 DEF InUse
  <2>2. ASSUME current \in Channel \ Racers PROVE InUse(current)'
    <3>1. InUse(current) /\ pc = "handler"
      BY <2>2, NoneAssumption DEF Round
    <3> QED BY <1>1, <2>2, <3>1 DEF InUse
  <2> QED BY <1>1, <1>2, <2>1, <2>2 DEF Round, PollerBecomes, InUse
<1>7. OnlyConnections'
  BY <1>1 DEF OnlyConnections
<1>8. ASSUME NEW d \in Connection \ Racers PROVE Quiet(d)'
  <2>1. CASE d = c
    BY <1>8, <2>1
  <2>2. CASE d # c
    <3>1. /\ d \in Channel \ {c} /\ Quiet(d)
          /\ q.index[d] = poller.index[d] /\ q.events[d] = poller.events[d]
      BY <1>8, <2>2, ConnectionAssumption DEF Apart
    <3> QED BY <1>1, <3>1 DEF Quiet, NoMoreWrites, IsWriting
  <2> QED BY <2>1, <2>2
<1> QED BY <1>3, <1>4, <1>5, <1>6, <1>7, <1>8

\* The owner of a channel is freed: one that has been removed, or any when nothing
\* uses the poller's map any more.
LEMMA FreeStep ==
  ASSUME IInv, NEW c \in Live, NEW q,
         Sound(q, c, fd[c]), Apart(poller, q, c, fd[c]),
         q.index[c] = "new" \/ c \in Racers \/ pc = "ended",
         ~InUse(c) \/ pc \in {"functors", "ended"}, c # current,
         Free(c, q)
  PROVE  IInv'
<1> USE DEF IInv
<1> DEFINE r == [q EXCEPT !.kernel[fd[c]] = Vacant]
<1>1. /\ c \in Channel /\ fd[c] \in Fd /\ poller' = r
      /\ q \in PollerState /\ q.errors = {}
      /\ UNCHANGED <<state, calls, shut, active, current, pc, size>>
      /\ \A d \in Channel \ {c} : life'[d] = life[d]
  BY LiveHasFd DEF Free, PollerBecomes, Sound, connVars, loopVars, TypeOK
<1>2. /\ r \in PollerState /\ r.errors = {} /\ r.kernel[fd[c]] = Vacant
      /\ \A f \in Fd \ {fd[c]} : r.kernel[f] = q.kernel[f]
      /\ r.channels = q.channels /\ r.index = q.index /\ r.events = q.events
  <2>1. Vacant \in Entry
    BY DEF Vacant, Entry
  <2> QED BY <1>1, <2>1 DEF PollerState
<1> HIDE DEF r
<1>3. Live' = Live \ {c}
  BY <1>1 DEF Live, TypeOK, Free
<1>4. \A d \in Live \ {c} : d \in Channel /\ fd'[d] = fd[d] /\ fd[d] \in Fd \ {fd[c]}
  BY <1>1, LiveHasFd DEF Ownership, TypeOK, Free
<1>5. TypeOK'
  BY <1>1, <1>2 DEF TypeOK, Free, PollerBecomes, Life
<1>6. Ownership'
  <2>1. \A d \in Channel : life'[d] = "none" <=> fd'[d] = None
    BY <1>1 DEF Ownership, TypeOK, Free
  <2> QED BY <1>3, <1>4, <2>1 DEF Ownership
<1>7. Registration'
  <2>1. ASSUME NEW d \in Live \ {c}
        PROVE  KernelMirrors(r, d, fd[d]) /\ MapMirrors(r, d, fd[d])
    <3>1. KernelMirrors(poller, d, fd[d]) /\ MapMirrors(poller, d, fd[d])
      BY <2>1 DEF Registration
    <3>2. d \in Channel \ {c} /\ fd[d] \in Fd \ {fd[c]}
      BY <1>4, <2>1
    <3> QED BY <1>2, <3>1, <3>2 DEF Apart, KernelMirrors, MapMirrors
  <2>2. ASSUME NEW f \in Fd, r.kernel[f] # Vacant
        PROVE  \E d \in Live \ {c} : fd[d] = f
    <3>1. f # fd[c]
      BY <1>2, <2>2
    <3>2. poller.kernel[f] # Vacant
      BY <1>2, <2>2, <3>1 DEF Apart
    <3> QED BY <3>1, <3>2 DEF Registration
  <2>3. ASSUME NEW f \in Fd, pc # "ended"
        PROVE  \/ r.channels[f] \in Racers \cup {None}
               \/ /\ r.channels[f] \in Live \ {c} /\ fd[r.channels[f]] = f
                  /\ r.index[r.channels[f]] # "new"
    <3>1. CASE f = fd[c]
      BY <1>2, <2>3, <3>1 DEF Sound, MapMirrors
    <3>2. CASE f # fd[c]
      <4>1. r.channels[f] = poller.channels[f]
        BY <1>2, <3>2 DEF Apart
      <4>2. Rightful(poller, poller.channels[f], f)
        BY <2>3 DEF Registration
      <4>3. \A d \in Live : fd[d] = f => d # c /\ r.index[d] = poller.index[d]
        BY <1>2, <3>2 DEF Apart, Live
      <4> QED BY <4>1, <4>2, <4>3 DEF Rightful
    <3> QED BY <3>1, <3>2
  <2> QED BY <1>1, <1>2, <1>3, <1>4, <2>1, <2>2, <2>3 DEF Registration, Rightful
<1>8. Round'
  <2>1. ASSUME NEW d \in active \ Racers PROVE InUse(d)'
    <3>1. d \in Channel /\ InUse(d) /\ pc \in {"dispatch", "handler"}
      BY <2>1 DEF Round, TypeOK
    <3> QED BY <1>1, <2>1, <3>1 DEF InUse
  <2>2. ASSUME current \in Channel \ Racers PROVE InUse(current)'
    <3>1. InUse(current)
      BY <2>2 DEF Round
    <3> QED BY <1>1, <2>2, <3>1 DEF InUse
  <2>3. current # None => current \in Live'
    BY <1>3 DEF Round
  <2> QED BY <1>1, <2>1, <2>2, <2>3 DEF Round, Free, PollerBecomes, InUse
<1>9. OnlyConnections'
  BY <1>1 DEF OnlyConnections, Free, TypeOK
<1>10. ASSUME NEW d \in Connection \ Racers PROVE Quiet(d)'
  <2>1. CASE d = c
    BY <1>1, <2>1 DEF Quiet, Free, TypeOK
  <2>2. CASE d # c
    <3>1. /\ d \in Channel \ {c} /\ Quiet(d)
          /\ r.index[d] = poller.index[d] /\ r.events[d] = poller.events[d]
      BY <1>2, <1>10, <2>2, ConnectionAssumption DEF Apart
    <3> QED BY <1>1, <3>1 DEF Quiet, NoMoreWrites, IsWriting
  <2> QED BY <2>1, <2>2
<1> QED BY <1>5, <1>6, <1>7, <1>8, <1>9, <1>10

\* A new object (the constructors of Channel and of its owner).
LEMMA ConstructStep ==
  ASSUME IInv, NEW c \in Channel, NEW f \in Fd, Construct(c, f)
  PROVE  IInv'
<1> USE DEF IInv
<1> DEFINE q == [poller EXCEPT !.index[c] = "new", !.events[c] = {}]
<1>1. /\ q \in PollerState /\ q.errors = {} /\ q.index[c] = "new"
      /\ q.kernel = poller.kernel /\ q.channels = poller.channels
      /\ \A d \in Channel \ {c} : q.index[d] = poller.index[d]
                               /\ q.events[d] = poller.events[d]
  BY DEF TypeOK, PollerState, Index, Registration
<1>2. /\ poller' = q
      /\ UNCHANGED <<calls, active, current, pc, size>> /\ pc # "ended"
      /\ life'[c] = "made" /\ state'[c] = "connecting"
      /\ \A d \in Channel \ {c} : life'[d] = life[d] /\ state'[d] = state[d]
      /\ \A d \in Channel \ {c} : d \in shut' <=> d \in shut
  BY DEF Construct, PollerBecomes, loopVars, TypeOK
<1> HIDE DEF q
<1>3. /\ c \notin Live /\ Live' = Live \cup {c} /\ fd'[c] = f
      /\ \A d \in Live : d \in Channel \ {c} /\ fd'[d] = fd[d] /\ fd[d] # f
  BY DEF Construct, Live, TypeOK
<1>4. q.kernel[f] = Vacant /\ q.channels[f] \in Racers \cup {None}
  BY <1>1, <1>2, <1>3 DEF Registration, Rightful
<1>5. TypeOK'
  BY <1>1, <1>2 DEF TypeOK, Construct, PollerBecomes, Life, State
<1>6. Ownership'
  <2>1. \A d \in Channel : life'[d] = "none" <=> fd'[d] = None
    BY FdAssumption DEF Ownership, TypeOK, Construct
  <2> QED BY <1>3, <2>1 DEF Ownership
<1>7. Registration'
  <2>1. KernelMirrors(q, c, f) /\ MapMirrors(q, c, f)
    BY <1>1, <1>4 DEF KernelMirrors, MapMirrors
  <2>2. \A d \in Live : KernelMirrors(q, d, fd[d]) /\ MapMirrors(q, d, fd[d])
    BY <1>1, <1>3 DEF Registration, KernelMirrors, MapMirrors
  <2>3. \A g \in Fd : Rightful(poller, poller.channels[g], g)
    BY <1>2 DEF Registration
  <2> QED BY <1>1, <1>2, <1>3, <2>1, <2>2, <2>3 DEF Registration, Rightful
<1>8. Round'
  <2>1. ASSUME NEW d \in active \ Racers PROVE InUse(d)'
    <3>1. d \in Live /\ InUse(d)
      BY <2>1 DEF Round, TypeOK, InUse, Live
    <3>2. d \in Channel \ {c}
      BY <1>3, <3>1
    <3> QED BY <1>2, <3>1, <3>2 DEF InUse
  <2>2. ASSUME current \in Channel \ Racers PROVE InUse(current)'
    <3>1. current \in Live /\ InUse(current)
      BY <2>2, NoneAssumption DEF Round
    <3>2. current \in Channel \ {c}
      BY <1>3, <3>1
    <3> QED BY <1>2, <3>1, <3>2 DEF InUse
  <2> QED BY <1>1, <1>2, <1>3, <2>1, <2>2 DEF Round, InUse, Construct, PollerBecomes
<1>9. OnlyConnections'
  BY <1>2 DEF OnlyConnections
<1>10. ASSUME NEW d \in Connection \ Racers PROVE Quiet(d)'
  <2>1. CASE d = c
    BY <1>2, <2>1 DEF Quiet
  <2>2. CASE d # c
    <3>1. /\ d \in Channel \ {c} /\ Quiet(d)
          /\ poller'.index[d] = poller.index[d] /\ poller'.events[d] = poller.events[d]
      BY <1>1, <1>2, <1>10, <2>2, ConnectionAssumption
    <3> QED BY <1>2, <3>1 DEF Quiet, NoMoreWrites, IsWriting
  <2> QED BY <2>1, <2>2
<1> QED BY <1>5, <1>6, <1>7, <1>8, <1>9, <1>10

\* epoll_wait hands back pointers to live channels only.
LEMMA PollStep ==
  ASSUME IInv, Poll
  PROVE  IInv'
<1> USE DEF IInv
<1>1. PICK reported \in SUBSET ready :
         /\ active' = {poller.kernel[f].channel : f \in reported}
         /\ Grow(Cardinality(reported))
  BY DEF Poll
<1>2. \A f \in reported : /\ poller.kernel[f].channel \in Live
                         /\ poller.index[poller.kernel[f].channel] = "added"
  <2> SUFFICES ASSUME NEW f \in reported
               PROVE  /\ poller.kernel[f].channel \in Live
                      /\ poller.index[poller.kernel[f].channel] = "added"
    OBVIOUS
  <2>1. f \in Fd /\ poller.kernel[f] # Vacant
    BY DEF TypeOK, Round
  <2>2. PICK c \in Live : fd[c] = f
    BY <2>1 DEF Registration
  <2>3. /\ poller.kernel[f] = [channel |-> c, events |-> poller.events[c]]
        /\ poller.index[c] = "added"
    BY <2>1, <2>2 DEF Registration, KernelMirrors
  <2> QED BY <2>2, <2>3
<1>3. size' \in Nat \ {0}
  BY <1>1 DEF Grow, TypeOK
<1>4. /\ UNCHANGED <<poller, life, fd, state, calls, shut, ready, current>>
      /\ Live' = Live /\ pc = "poll" /\ pc' = "dispatch"
  BY DEF Poll, Live, connVars
<1>5. \A c \in active' : c \in Live /\ poller.index[c] = "added"
  BY <1>1, <1>2
<1>6. TypeOK'
  BY <1>3, <1>4, <1>5 DEF TypeOK, Live
<1>7. Ownership' /\ Registration' /\ OnlyConnections'
  BY <1>4 DEF Ownership, Registration, OnlyConnections, Rightful
<1>8. Round'
  <2>1. ASSUME NEW c \in active' \ Racers PROVE InUse(c)
    BY <1>5, <2>1 DEF InUse, OnlyConnections, Quiet, Live
  <2>2. ~(current \in Channel)
    BY <1>4, NoneAssumption DEF Round
  <2> QED BY <1>4, <2>1, <2>2 DEF Round, InUse
<1>9. \A c \in Connection \ Racers : Quiet(c)'
  BY <1>4 DEF Quiet, NoMoreWrites
<1> QED BY <1>6, <1>7, <1>8, <1>9

\* The steps of the loop other than the poll.
LEMMA RoundStep ==
  ASSUME IInv,
         \/ HandlerReturns \/ DoPendingFunctors \/ FunctorsDone \/ LoopEnds
         \/ \E c \in Channel : Handle(c) \/ HandleFreed(c)
         \/ \E f \in Fd : IoArrives(f)
         \/ UNCHANGED vars
  PROVE  IInv'
<1> USE DEF IInv
<1>1. UNCHANGED <<poller, life, fd, state, calls, shut, size>> /\ Live' = Live
  BY DEF HandlerReturns, DoPendingFunctors, FunctorsDone, LoopEnds, Handle, HandleFreed,
         IoArrives, vars, connVars, loopVars, Live
<1>2. Ownership' /\ OnlyConnections'
  BY <1>1 DEF Ownership, OnlyConnections
<1>3. \A c \in Connection \ Racers : Quiet(c)'
  BY <1>1 DEF Quiet, NoMoreWrites
<1>4. pc' # "ended" => pc # "ended"
  BY DEF HandlerReturns, DoPendingFunctors, FunctorsDone, LoopEnds, Handle, HandleFreed,
         IoArrives, vars, loopVars
<1>5. Registration'
  BY <1>1, <1>4 DEF Registration, Rightful
<1>6. CASE HandlerReturns \/ DoPendingFunctors \/ FunctorsDone \/ LoopEnds
  BY <1>1, <1>2, <1>3, <1>5, <1>6, NoneAssumption
     DEF HandlerReturns, DoPendingFunctors, FunctorsDone, LoopEnds, TypeOK, Round, InUse
<1>7. ASSUME NEW c \in Channel, Handle(c) PROVE TypeOK' /\ Round'
  BY <1>1, <1>7 DEF Handle, TypeOK, Round, InUse
<1>8. ASSUME NEW c \in Channel, HandleFreed(c) PROVE TypeOK' /\ Round'
  BY <1>1, <1>8 DEF HandleFreed, TypeOK, Round, InUse
<1>9. ASSUME NEW f \in Fd, IoArrives(f) PROVE TypeOK' /\ Round'
  BY <1>1, <1>9 DEF IoArrives, loopVars, TypeOK, Round, InUse
<1>10. CASE UNCHANGED vars
  BY <1>1, <1>2, <1>3, <1>5, <1>10 DEF vars, loopVars, TypeOK, Round, InUse
<1>11. ASSUME TypeOK' /\ Round' PROVE IInv'
  BY <1>2, <1>3, <1>5, <1>11
<1> HIDE DEF IInv
<1> QED BY <1>6, <1>7, <1>8, <1>9, <1>10, <1>11

\* A change of interest by the owner of a channel, whatever becomes of its state_.
LEMMA InterestStep ==
  ASSUME IInv, NEW c \in Live, NEW evs \in SUBSET Interest, NEW l \in Life \ {"none", "removed"},
         PollerBecomes(SetEvents(poller, c, fd[c], evs)),
         life' = [life EXCEPT ![c] = l] \/ (c \in Racers /\ UNCHANGED life),
         l = "closed" => c \in Connection,
         state' \in [Channel -> State], shut' \subseteq Connection,
         \A d \in Channel \ {c} : state'[d] = state[d] /\ (d \in shut' <=> d \in shut),
         c \in Connection \ Racers => Quiet(c)',
         UNCHANGED <<fd, calls, loopVars>>
  PROVE  IInv' /\ poller'.events[c] = evs
<1> DEFINE q == SetEvents(poller, c, fd[c], evs)
<1>1. c \in Channel /\ fd[c] \in Fd /\ Sound(poller, c, fd[c])
  BY LiveHasFd
<1>2. /\ Sound(q, c, fd[c]) /\ Apart(poller, q, c, fd[c])
      /\ q.events[c] = evs /\ poller' = q /\ PollerBecomes(q)
  BY <1>1, SetEventsSound DEF PollerBecomes
<1> HIDE DEF q
<1>3. PICK k \in Life \ {"none"} :
         /\ life' = [life EXCEPT ![c] = k]
         /\ k \in {"closed", "removed"} => c \in Connection
         /\ k = "removed" => c \in Racers
  <2>1. CASE life' = [life EXCEPT ![c] = l]
    BY <2>1
  <2>2. CASE c \in Racers /\ UNCHANGED life
    <3>1. life[c] \in Life \ {"none"} /\ life = [life EXCEPT ![c] = life[c]]
      BY DEF IInv, TypeOK, Live
    <3> QED BY <2>2, <3>1, ConnectionAssumption
  <2> QED BY <2>1, <2>2
<1> QED BY <1>2, <1>3, KeepStep

\* The steps by which owners change the registration of their channels, and the calls
\* of shutdown().
LEMMA OwnerPreserves ==
  ASSUME IInv, NEW c \in Channel, OwnerStep(c)
  PROVE  IInv'
<1>1. ASSUME NEW f \in Fd, Construct(c, f) PROVE IInv'
  BY <1>1, ConstructStep
<1>2. CASE Establish(c) \/ StartWriting(c) \/ StopWriting(c) \/ CloseConnection(c)
  <2>1. /\ c \in Live /\ life[c] \in Life /\ fd[c] \in Fd
        /\ life = [life EXCEPT ![c] = life[c]]
        /\ poller.events[c] \in SUBSET Interest
        /\ UNCHANGED <<fd, calls, loopVars>>
    <3>1. c \in Live
      BY <1>2, NoneAssumption
         DEF Establish, StartWriting, StopWriting, CloseConnection, IInv, Round, Live
    <3>2. UNCHANGED <<fd, calls, loopVars>>
      BY <1>2 DEF Establish, StartWriting, StopWriting, CloseConnection, connVars
    <3> QED BY <3>1, <3>2, LiveHasFd DEF IInv, TypeOK, PollerState
  <2>2. \A d \in Channel \ {c} : state'[d] = state[d] /\ (d \in shut' <=> d \in shut)
    BY <1>2 DEF Establish, StartWriting, StopWriting, CloseConnection, connVars, IInv, TypeOK
  <2>3. state' \in [Channel -> State] /\ shut' \subseteq Connection
    BY <1>2
       DEF Establish, StartWriting, StopWriting, CloseConnection, connVars, IInv, TypeOK, State
  <2>4. c \in Connection \ Racers => Quiet(c)
    BY DEF IInv
  <2>5. CASE Establish(c)
    <3>1. /\ PollerBecomes(SetEvents(poller, c, fd[c], poller.events[c] \cup {"read"}))
          /\ life' = [life EXCEPT ![c] = "up"]
      BY <2>5 DEF Establish, EnableReading
    <3>2. c \in Connection => Quiet(c)'
      BY <2>5 DEF Establish, Quiet, IInv, TypeOK
    <3>3. /\ "up" \in Life \ {"none", "removed"}
          /\ poller.events[c] \cup {"read"} \in SUBSET Interest
      BY <2>1 DEF Life, Interest
    <3> QED BY <2>1, <2>2, <2>3, <3>1, <3>2, <3>3, InterestStep
  <2>6. CASE StartWriting(c)
    <3>1. /\ PollerBecomes(SetEvents(poller, c, fd[c], poller.events[c] \cup {"write"}))
          /\ UNCHANGED <<life, state, shut>> /\ c \in Connection
          /\ state[c] \in {"connected", "disconnecting"}
          /\ ~NoMoreWrites(c)
      BY <2>6 DEF StartWriting, EnableWriting, NoMoreWrites, connVars
    <3>2. c \notin Racers => life[c] # "removed"
      BY <2>4, <3>1 DEF Quiet
    <3>3. c \notin Racers => Quiet(c)'
      BY <2>4, <3>1, <3>2 DEF Quiet
    <3>4. \E l \in Life \ {"none", "removed"} :
             /\ life' = [life EXCEPT ![c] = l] \/ (c \in Racers /\ UNCHANGED life)
             /\ l = "closed" => c \in Connection
      <4>1. CASE life[c] = "removed"
        BY <3>1, <3>2, <4>1 DEF Life
      <4>2. CASE life[c] # "removed"
        BY <2>1, <3>1, <4>2 DEF Live
      <4> QED BY <4>1, <4>2
    <3> QED
      BY <2>1, <2>2, <2>3, <3>1, <3>3, <3>4, InterestStep DEF Interest
  <2>7. CASE StopWriting(c)
    <3>1. /\ PollerBecomes(SetEvents(poller, c, fd[c], poller.events[c] \ {"write"}))
          /\ UNCHANGED <<life, state>> /\ c \in Connection /\ c \in Channel
          /\ shut' = IF state[c] = "disconnecting" THEN shut \cup {c} ELSE shut
          /\ current = c
      BY <2>7 DEF StopWriting, DisableWriting
    <3>2. c \notin Racers => life[c] # "removed"
      BY <3>1 DEF IInv, Round, InUse
    <3>3. c \notin Racers => Quiet(c)'
      BY <2>4, <3>1, <3>2 DEF Quiet, NoMoreWrites
    <3>4. \E l \in Life \ {"none", "removed"} :
             /\ life' = [life EXCEPT ![c] = l] \/ (c \in Racers /\ UNCHANGED life)
             /\ l = "closed" => c \in Connection
      <4>1. CASE life[c] = "removed"
        BY <3>1, <3>2, <4>1 DEF Life
      <4>2. CASE life[c] # "removed"
        BY <2>1, <3>1, <4>2 DEF Live
      <4> QED BY <4>1, <4>2
    <3> QED
      BY <2>1, <2>2, <2>3, <3>1, <3>3, <3>4, InterestStep DEF Interest
  <2>8. CASE CloseConnection(c)
    <3>1. /\ PollerBecomes(SetEvents(poller, c, fd[c], {}))
          /\ \/ life' = [life EXCEPT ![c] = "closed"]
             \/ life[c] = "removed" /\ UNCHANGED life
          /\ state'[c] = "disconnected" /\ c \in Connection /\ current = c
      BY <2>8 DEF CloseConnection, DisableAll, IInv, TypeOK
    <3>2. c \notin Racers => life' = [life EXCEPT ![c] = "closed"]
      BY <3>1 DEF IInv, Round, InUse
    <3>3. c \notin Racers => Quiet(c)'
      BY <3>1, <3>2 DEF Quiet, IInv, TypeOK
    <3>4. "closed" \in Life \ {"none", "removed"} /\ {} \in SUBSET Interest
      BY DEF Life
    <3>5. life' = [life EXCEPT ![c] = "closed"] \/ (c \in Racers /\ UNCHANGED life)
      BY <3>1, <3>2
    <3> QED BY <2>1, <2>2, <2>3, <3>1, <3>3, <3>4, <3>5, InterestStep
  <2> QED BY <1>2, <2>5, <2>6, <2>7, <2>8
<1>3. CASE ConnectDestroyed(c)
  <2>1. /\ c \in Live /\ c \in Connection /\ "removed" \in Life \ {"none"}
        /\ pc \in {"functors", "ended"} /\ life[c] \in {"up", "closed", "removed"}
        /\ life' = [life EXCEPT ![c] = "removed"]
        /\ UNCHANGED <<fd, calls, shut, loopVars>>
    BY <1>3 DEF ConnectDestroyed, Live, Life
  <2>2. /\ fd[c] \in Fd /\ Sound(poller, c, fd[c])
        /\ state \in [Channel -> State] /\ shut \subseteq Connection
        /\ life \in [Channel -> Life]
    BY <2>1, LiveHasFd DEF IInv, TypeOK
  <2>3. c \notin Racers => Quiet(c)
    BY <2>1 DEF IInv
  <2>4. CASE state[c] = "connected"
    <3> DEFINE p == SetEvents(poller, c, fd[c], {})
               q == RemoveChannel(p, c, fd[c])
    <3>1. Sound(p, c, fd[c]) /\ Apart(poller, p, c, fd[c])
      BY <2>2, SetEventsSound
    <3>2. PollerBecomes(q) /\ state' = [state EXCEPT ![c] = "disconnected"]
      BY <1>3, <2>4 DEF ConnectDestroyed, Removed, DisableAll
    <3> HIDE DEF p
    <3>3. Sound(q, c, fd[c]) /\ q.index[c] = "new" /\ Apart(p, q, c, fd[c])
      BY <2>2, <3>1, RemoveSound
    <3>4. Apart(poller, q, c, fd[c])
      BY <3>1, <3>3 DEF Apart
    <3> HIDE DEF q
    <3>5. c \notin Racers => Quiet(c)'
      BY <2>1, <2>2, <3>2, <3>3 DEF Quiet, PollerBecomes
    <3>6. state' \in [Channel -> State]
      BY <2>2, <3>2 DEF State
    <3> QED BY <2>1, <2>2, <3>2, <3>3, <3>4, <3>5, <3>6, KeepStep
  <2>5. CASE state[c] # "connected"
    <3> DEFINE q == RemoveChannel(poller, c, fd[c])
    <3>1. PollerBecomes(q) /\ state' = state
      BY <1>3, <2>5 DEF ConnectDestroyed, Removed
    <3>2. Sound(q, c, fd[c]) /\ q.index[c] = "new" /\ Apart(poller, q, c, fd[c])
      BY <2>2, RemoveSound
    <3>3. q.events[c] = poller.events[c]
      BY <2>2, RemoveKeepsEvents
    <3> HIDE DEF q
    <3>4. c \notin Racers => Quiet(c)'
      <4>1. ASSUME c \notin Racers PROVE state[c] = "disconnected" \/ NoMoreWrites(c)
        BY <2>1, <2>3, <2>5, <4>1 DEF Quiet
      <4> QED
        BY <2>1, <2>2, <3>1, <3>2, <3>3, <4>1
           DEF Quiet, PollerBecomes, NoMoreWrites, IsWriting
    <3> QED BY <2>1, <2>2, <3>1, <3>2, <3>4, KeepStep
  <2> QED BY <2>4, <2>5
<1>4. CASE Release(c)
  <2>1. /\ c \in Live /\ c \in Connection /\ c # current /\ Free(c, poller)
        /\ life[c] = "removed" \/ pc = "ended"
    BY <1>4 DEF Release
  <2>2. Sound(poller, c, fd[c]) /\ Apart(poller, poller, c, fd[c])
    BY <2>1, LiveHasFd DEF Apart
  <2>3. poller.index[c] = "new" \/ c \in Racers \/ pc = "ended"
    BY <2>1 DEF IInv, Quiet
  <2> QED BY <2>1, <2>2, <2>3, FreeStep DEF InUse
<1>5. CASE DestroyOwner(c)
  <2> DEFINE p == SetEvents(poller, c, fd[c], {})
             q == RemoveChannel(p, c, fd[c])
  <2>1. c \in Live /\ pc \in {"functors", "ended"} /\ Free(c, q)
    BY <1>5 DEF DestroyOwner, DisableAll, Live
  <2>2. fd[c] \in Fd /\ Sound(poller, c, fd[c]) /\ c # current
    BY <2>1, NoneAssumption, LiveHasFd DEF IInv, Round, Live
  <2>3. Sound(p, c, fd[c]) /\ Apart(poller, p, c, fd[c])
    BY <2>1, <2>2, SetEventsSound
  <2> HIDE DEF p
  <2>4. Sound(q, c, fd[c]) /\ q.index[c] = "new" /\ Apart(p, q, c, fd[c])
    BY <2>2, <2>3, RemoveSound
  <2>5. Apart(poller, q, c, fd[c])
    BY <2>3, <2>4 DEF Apart
  <2> HIDE DEF q
  <2> QED BY <2>1, <2>2, <2>4, <2>5, FreeStep
<1>6. CASE LoopShutdown(c) \/ TestState(c) \/ StoreState(c) \/ RunShutdown(c)
  <2>1. UNCHANGED <<poller, life, fd, ready, loopVars>>
    BY <1>6 DEF LoopShutdown, TestState, StoreState, RunShutdown
  <2>2. \A d \in Channel \ {c} : state'[d] = state[d] /\ (d \in shut => d \in shut')
    BY <1>6 DEF LoopShutdown, TestState, StoreState, RunShutdown, ShutdownInLoop, IInv, TypeOK
  <2>3. /\ state' \in [Channel -> State] /\ calls' \subseteq Call
        /\ shut' \subseteq Connection
    <3>1. calls \subseteq Call /\ state \in [Channel -> State] /\ shut \subseteq Connection
      BY DEF IInv, TypeOK
    <3>2. CASE LoopShutdown(c)
      BY <3>1, <3>2 DEF LoopShutdown, ShutdownInLoop, State
    <3>3. CASE TestState(c)
      BY <3>1, <3>3 DEF TestState, Call
    <3>4. CASE StoreState(c)
      BY <3>1, <3>4 DEF StoreState, Call, State
    <3>5. CASE RunShutdown(c)
      BY <3>1, <3>5, ConnectionAssumption DEF RunShutdown, ShutdownInLoop, Call
    <3> QED BY <1>6, <3>2, <3>3, <3>4, <3>5
  <2>4. ASSUME NEW d \in Connection \ Racers PROVE Quiet(d)'
    <3>1. Quiet(d) /\ d \in Channel
      BY <2>4, ConnectionAssumption DEF IInv
    <3>2. CASE d # c
      BY <2>1, <2>2, <3>1, <3>2 DEF Quiet, NoMoreWrites
    <3>3. CASE d = c
      <4>1. LoopShutdown(c)
        BY <1>6, <2>4, <3>3 DEF TestState, StoreState, RunShutdown, IInv, TypeOK, Call
      <4>2. /\ state[c] = "connected" /\ state'[c] = "disconnecting" /\ c \in Live
            /\ IsWriting(poller, c) \/ c \in shut'
        BY <4>1 DEF LoopShutdown, ShutdownInLoop, IInv, TypeOK
      <4>3. life[c] = "up"
        BY <3>1, <3>3, <4>2 DEF Quiet, NoMoreWrites, IInv, TypeOK, Life, Live
      <4> QED BY <2>1, <3>3, <4>2, <4>3 DEF Quiet, NoMoreWrites
    <3> QED BY <3>2, <3>3
  <2> QED BY <2>1, <2>3, <2>4, NoteStep
<1> QED BY <1>1, <1>2, <1>3, <1>4, <1>5, <1>6 DEF OwnerStep

THEOREM Inductive == SafeSpec => []IInv
<1>1. Init => IInv
  <2> SUFFICES ASSUME Init PROVE IInv
    OBVIOUS
  <2>1. Live = {}
    BY DEF Init, Live
  <2>2. EmptyPoller \in PollerState
    BY DEF EmptyPoller, PollerState, Index, Entry, Vacant
  <2>3. TypeOK
    BY <2>2, SizeAssumption DEF Init, TypeOK, Life, State
  <2>4. Ownership
    BY <2>1 DEF Init, Ownership
  <2>5. Registration
    BY <2>1 DEF Init, Registration, Rightful, EmptyPoller
  <2>6. Round /\ OnlyConnections
    BY <2>1, NoneAssumption DEF Init, Round, OnlyConnections
  <2>7. \A c \in Connection \ Racers : Quiet(c)
    BY ConnectionAssumption DEF Init, Quiet
  <2> QED BY <2>3, <2>4, <2>5, <2>6, <2>7 DEF IInv
<1>2. IInv /\ [Next]_vars => IInv'
  BY PollStep, RoundStep, OwnerPreserves DEF Next, LoopStep
<1> QED BY <1>1, <1>2, PTL DEF SafeSpec

-----------------------------------------------------------------------------
\* EPollPoller::update never meets an error of epoll_ctl, so never ends the
\* process (EPollPoller.cpp:166-176); with shutdown() racing or not.
THEOREM NeverFatal == SafeSpec => []CtlNeverFails
<1>1. IInv => CtlNeverFails
  BY DEF IInv, Registration, CtlNeverFails
<1> QED BY <1>1, Inductive, PTL

\* epoll watches exactly what the added channels are interested in
\* (EPollPoller.cpp:77-125); with shutdown() racing or not.
THEOREM KernelIsExact == SafeSpec => []KernelAgrees
<1>1. IInv => KernelAgrees
  BY DEF IInv, Registration, KernelAgrees
<1> QED BY <1>1, Inductive, PTL

\* While the loop runs, channels_ holds the registered channels under their own
\* descriptors and no other pointer, but to connections that another thread shuts
\* down (EPollPoller.cpp:88,115, TcpConnection.cpp:89,178-187).
THEOREM MapIsExact == SafeSpec => []MapAgrees
<1>1. IInv => MapAgrees
  BY DEF IInv, Registration, Rightful, MapAgrees, MapMirrors, HasChannel
<1> QED BY <1>1, Inductive, PTL

\* Of the connections that no other thread shuts down, and of the other channels, the
\* loop never calls one that has been destroyed, on whatever thread; and none at all
\* is destroyed during its own callback (EventLoop.cpp:74-96, Channel.cpp:46-61).
THEOREM NoDeadChannelIsCalled == SafeSpec => []ActiveAlive
<1>1. IInv => ActiveAlive
  BY DEF IInv, TypeOK, Round, InUse, Live, ActiveAlive
<1> QED BY <1>1, Inductive, PTL

=============================================================================
