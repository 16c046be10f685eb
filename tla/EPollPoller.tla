---------------------------- MODULE EPollPoller -----------------------------
(***************************************************************************)
(* The registration of channels with epoll: Poller, EPollPoller and the    *)
(* part of Channel that talks to them (src/EPollPoller.cpp, src/Poller.cpp,*)
(* include/Channel.h).  The state of one poller, with the fields its       *)
(* channels keep for it, is a record, and each operation is an operator    *)
(* from such a state to the next; PollerLoop and TcpConnection build their *)
(* actions from them.                                                      *)
(***************************************************************************)
CONSTANTS
    Channel,      \* Channel objects
    Fd,           \* file descriptors
    None          \* no channel

ASSUME NoneAssumption == None \notin Channel

Interest == {"read", "write"}          \* kReadEvent, kWriteEvent

Index == {"new", "added", "deleted"}   \* kNew, kAdded, kDeleted

\* An entry of the epoll instance: the pointer and the events it was given.
Entry == [channel : Channel \cup {None}, events : SUBSET Interest]

Vacant == [channel |-> None, events |-> {}]

PollerState ==
    [index    : [Channel -> Index],                 \* Channel::index_
     events   : [Channel -> SUBSET Interest],       \* Channel::events_
     channels : [Fd -> Channel \cup {None}],        \* Poller::channels_
     kernel   : [Fd -> Entry],                      \* the epoll instance
     errors   : SUBSET {"add", "mod", "del"}]       \* operations that failed

EmptyPoller ==
    [index    |-> [c \in Channel |-> "new"],
     events   |-> [c \in Channel |-> {}],
     channels |-> [f \in Fd |-> None],
     kernel   |-> [f \in Fd |-> Vacant],
     errors   |-> {}]

\* Poller::hasChannel
HasChannel(p, c, f) == p.channels[f] = c

\* EPollPoller::update: epoll_ctl refuses to add a descriptor that is there, and
\* to modify or delete one that is not.  A refused add or mod is LOG_FATAL.
EpollCtl(p, op, c, f) ==
    IF (op = "add") = (p.kernel[f] # Vacant)
    THEN [p EXCEPT !.errors = @ \cup {op}]
    ELSE [p EXCEPT !.kernel[f] = IF op = "del" THEN Vacant
                                 ELSE [channel |-> c, events |-> p.events[c]]]

\* Mutants: a deleted channel is still marked as added; a change of interest is
\* not passed on to epoll.
UpdateChannelStaysAdded(p, c, f) ==
    IF p.index[c] # "added"
    THEN EpollCtl([p EXCEPT !.index[c] = "added", !.channels[f] = c], "add", c, f)
    ELSE EpollCtl(p, IF p.events[c] = {} THEN "del" ELSE "mod", c, f)
UpdateChannelNoMod(p, c, f) ==
    IF p.index[c] # "added"
    THEN EpollCtl([p EXCEPT !.index[c] = "added", !.channels[f] = c], "add", c, f)
    ELSE IF p.events[c] = {}
         THEN [EpollCtl(p, "del", c, f) EXCEPT !.index[c] = "deleted"]
         ELSE p

\* A new or deleted channel is added; an added one is deleted when it has no
\* interest left, and modified otherwise.
UpdateChannel(p, c, f) ==
    CASE p.index[c] = "new" ->
           EpollCtl([p EXCEPT !.index[c] = "added", !.channels[f] = c], "add", c, f)
      [] p.index[c] = "deleted" ->
           EpollCtl([p EXCEPT !.index[c] = "added"], "add", c, f)
      [] p.index[c] = "added" /\ p.events[c] = {} ->
           [EpollCtl(p, "del", c, f) EXCEPT !.index[c] = "deleted"]
      [] p.index[c] = "added" /\ p.events[c] # {} ->
           EpollCtl(p, "mod", c, f)

\* Mutant: the entry of channels_ outlives the channel.
RemoveChannelKeepsEntry(p, c, f) ==
    [IF p.index[c] = "added" THEN EpollCtl(p, "del", c, f) ELSE p
        EXCEPT !.index[c] = "new"]

RemoveChannel(p, c, f) ==
    LET q == [p EXCEPT !.channels[f] = None] IN
    [IF p.index[c] = "added" THEN EpollCtl(q, "del", c, f) ELSE q
        EXCEPT !.index[c] = "new"]

\* Channel::enableReading, enableWriting, disableWriting and disableAll.
SetEvents(p, c, f, events) == UpdateChannel([p EXCEPT !.events[c] = events], c, f)

EnableReading(p, c, f)  == SetEvents(p, c, f, p.events[c] \cup {"read"})
EnableWriting(p, c, f)  == SetEvents(p, c, f, p.events[c] \cup {"write"})
DisableWriting(p, c, f) == SetEvents(p, c, f, p.events[c] \ {"write"})
DisableAll(p, c, f)     == SetEvents(p, c, f, {})

IsWriting(p, c) == "write" \in p.events[c]

\* epoll holds for descriptor f what channel c believes it does.
KernelMirrors(p, c, f) ==
    p.kernel[f] = IF p.index[c] = "added"
                  THEN [channel |-> c, events |-> p.events[c]]
                  ELSE Vacant

=============================================================================
