----------------------------- MODULE DefaultPoller -----------------------------
(***************************************************************************)
(* Poller::newDefaultPoller() and the two pollers it chooses from, each    *)
(* with the books it keeps: PollPoller's array of pollfds, in which the    *)
(* file descriptor of a channel that asks for nothing is made negative and *)
(* a removed entry is overwritten by the last one, and EPollPoller's       *)
(* membership of the kernel's set and its array of results, which doubles  *)
(* when it was full.  Around them the part of the loop they work for and   *)
(* the owners of the channels, who call them in callbacks and functors.    *)
(***************************************************************************)
EXTENDS Integers, Sequences, FiniteSets, FiniteSetsExt, SequencesExt, Functions

CONSTANTS
    Channels,           \* Channel objects; one may be made again after its end
    FdsOf,              \* file descriptors that each may be made for
    Events,             \* what a channel can ask for
    kInitEventListSize

\* What is not asked for in words of its own: a hang-up, and silence in the module Poller.
ASSUME EventsAssumption == {"hup", "silent"} \intersect Events = {}
ASSUME FdsAssumption == FdsOf \in [Channels -> SUBSET Nat]
ASSUME ListSizeAssumption == kInitEventListSize \in Nat \ {0}

Fds == UNION Range(FdsOf)
None == -1
Reports == Events \union {"hup"}

\* Values of a Channel's index_ under EPollPoller; under PollPoller it is a position
\* in pollfds_, and negative in a new channel.
kNew == -1
kAdded == 1
kDeleted == 2

VARIABLES
    kind,       \* of the loop's poller: "poll" or "epoll"
    fd,         \* fd_ of each channel, None if there is no such object
    events,     \* events_
    index,      \* index_
    added,      \* addedToLoop_
    channels,   \* channels_: from file descriptors to channels
    pollfds,    \* pollfds_
    epollSet,   \* the kernel's epoll set: from descriptors to events and channel
    listSize,   \* events_.size()
    ready,      \* the kernel: what the watched descriptors are ready for in poll()
    phase,      \* of the loop: "poll", "dispatch", "functors"
    active,     \* activeChannels_, with each channel's revents_
    at,         \* how many of them were handled, the current one included
    failed      \* the assertion that ended the program

channelVars == <<fd, events, index, added>>
books == <<channels, pollfds, epollSet, listSize>>
loopVars == <<phase, active, at>>
pollerVars == <<kind, channelVars, books, ready, loopVars, failed>>

\* What a run of the program may end at.
Assertions ==
    {"updateNew", "updateRemoved", "updateIndex", "epoll_ctl",
     "removeUnknown", "removeIndex", "removeUnasked", "destroy"}

PollFds == [fd : Int, events : SUBSET Events]

PollerTypeOK ==
    /\ kind \in {"poll", "epoll"}
    /\ fd \in [Channels -> Fds \union {None}]
    /\ events \in [Channels -> SUBSET Events]
    /\ index \in [Channels -> Int]
    /\ added \in [Channels -> BOOLEAN]
    /\ DOMAIN channels \subseteq Fds /\ Range(channels) \subseteq Channels
    /\ pollfds \in Seq(PollFds)
    /\ DOMAIN epollSet \subseteq Fds
    /\ listSize \in Nat \ {0}
    /\ DOMAIN ready \subseteq Fds /\ Range(ready) \subseteq SUBSET Reports
    /\ phase \in {"poll", "dispatch", "functors"}
    /\ at \in 0..Len(active)
    /\ failed \in {"none"} \union Assertions

PollerInit ==
    /\ kind \in {"poll", "epoll"}           \* MUDUO_USE_POLL is set or not
    /\ fd = [c \in Channels |-> None]
    /\ events = [c \in Channels |-> {}]
    /\ index = [c \in Channels |-> kNew]
    /\ added = [c \in Channels |-> FALSE]
    /\ channels = <<>>
    /\ pollfds = <<>>
    /\ epollSet = <<>>
    /\ listSize = kInitEventListSize
    /\ ready = <<>>
    /\ phase = "functors"                   \* before loop() the owners may call
    /\ active = <<>>
    /\ at = 0
    /\ failed = "none"

\* An assertion of the poller that does not hold ends the program.
Abort(where) ==
    /\ failed' = where
    /\ UNCHANGED <<kind, channelVars, books, ready, loopVars>>

With(function, key, value) ==
    [k \in DOMAIN function \union {key} |-> IF k = key THEN value ELSE function[k]]
Without(function, key) == Restrict(function, DOMAIN function \ {key})

\* hasChannel(): the map has the channel under its descriptor.
HasChannel(c) == fd[c] \in DOMAIN channels /\ channels[fd[c]] = c

\* Channel::update() and Channel::remove(), besides what the poller does.
Asks(c, asked) ==
    /\ events' = [events EXCEPT ![c] = asked]
    /\ added' = [added EXCEPT ![c] = TRUE]
    /\ UNCHANGED <<kind, fd, listSize, ready, loopVars>>

Removed(c) ==
    /\ added' = [added EXCEPT ![c] = FALSE]
    /\ UNCHANGED <<kind, fd, events, listSize, ready, loopVars>>

-----------------------------------------------------------------------------
(* PollPoller.                                                             *)

MutNegated(f) == -f

\* Negative also for descriptor 0.
Negated(f) == -f - 1

\* The entry of a channel that asks for nothing is one poll() ignores.
PollFd(c, asked) == [fd |-> IF asked = {} THEN Negated(fd[c]) ELSE fd[c], events |-> asked]

\* The channel's index leads to its entry.
AtIndex(c) ==
    /\ index[c] \in 0..(Len(pollfds) - 1)
    /\ pollfds[index[c] + 1].fd \in {fd[c], Negated(fd[c])}

\* updateChannel() of a new channel, and of one that has an index.
PollAdd(c, asked) ==
    IF fd[c] \in DOMAIN channels THEN Abort("updateNew")
    ELSE /\ pollfds' = Append(pollfds, [fd |-> fd[c], events |-> asked])
         /\ index' = [index EXCEPT ![c] = Len(pollfds)]
         /\ channels' = With(channels, fd[c], c)
         /\ Asks(c, asked)
         /\ UNCHANGED <<epollSet, failed>>

PollModify(c, asked) ==
    IF ~HasChannel(c) THEN Abort("updateRemoved")
    ELSE IF ~AtIndex(c) THEN Abort("updateIndex")
    ELSE /\ pollfds' = [pollfds EXCEPT ![index[c] + 1] = PollFd(c, asked)]
         /\ Asks(c, asked)
         /\ UNCHANGED <<index, channels, epollSet, failed>>

PollUpdate(c, asked) == IF index[c] < 0 THEN PollAdd(c, asked) ELSE PollModify(c, asked)

\* The channel whose entry is at the end.
ChannelAtEnd ==
    LET f == Last(pollfds).fd IN channels[IF f < 0 THEN Negated(f) ELSE f]

MutPollErased(c) ==
    /\ pollfds' = Front([pollfds EXCEPT ![index[c] + 1] = Last(pollfds)])
    /\ index' = index

\* The end of removeChannel(): the last entry takes the place of the removed one.  The
\* index of the removed channel stays.
PollErased(c) ==
    /\ pollfds' = Front([pollfds EXCEPT ![index[c] + 1] = Last(pollfds)])
    /\ index' = IF index[c] = Len(pollfds) - 1 THEN index
                ELSE [index EXCEPT ![ChannelAtEnd] = index[c]]

\* removeChannel()
PollRemove(c) ==
    IF ~HasChannel(c) THEN Abort("removeUnknown")
    ELSE IF ~AtIndex(c) THEN Abort("removeIndex")
    ELSE IF pollfds[index[c] + 1] # PollFd(c, {}) THEN Abort("removeUnasked")
    ELSE /\ PollErased(c)
         /\ channels' = Without(channels, fd[c])
         /\ Removed(c)
         /\ UNCHANGED <<epollSet, failed>>

-----------------------------------------------------------------------------
(* EPollPoller.                                                            *)

\* update(): epoll_ctl(), which fails on a descriptor that is, or is not, in the set
\* already; that is fatal unless the operation is EPOLL_CTL_DEL.
EpollCtl(operation, c, asked) ==
    IF operation = "DEL" THEN epollSet' = Without(epollSet, fd[c])
    ELSE epollSet' = With(epollSet, fd[c], [events |-> asked, channel |-> c])

EpollFails(operation, c) ==
    IF operation = "ADD" THEN fd[c] \in DOMAIN epollSet ELSE fd[c] \notin DOMAIN epollSet

\* updateChannel(): a channel outside the set is added whatever it asks for.
EpollUpdate(c, asked) ==
    LET operation == IF index[c] # kAdded THEN "ADD" ELSE IF asked = {} THEN "DEL" ELSE "MOD" IN
    IF index[c] = kNew /\ fd[c] \in DOMAIN channels THEN Abort("updateNew")
    ELSE IF index[c] # kNew /\ ~HasChannel(c) THEN Abort("updateRemoved")
    ELSE IF EpollFails(operation, c) THEN Abort("epoll_ctl")
    ELSE /\ EpollCtl(operation, c, asked)
         /\ channels' = With(channels, fd[c], c)
         /\ index' = [index EXCEPT ![c] = IF operation = "DEL" THEN kDeleted ELSE kAdded]
         /\ Asks(c, asked)
         /\ UNCHANGED <<pollfds, failed>>

\* removeChannel()
EpollRemove(c) ==
    IF ~HasChannel(c) \/ index[c] = kNew THEN Abort("removeUnknown")
    ELSE /\ IF index[c] = kAdded THEN EpollCtl("DEL", c, {}) ELSE UNCHANGED epollSet
         /\ channels' = Without(channels, fd[c])
         /\ index' = [index EXCEPT ![c] = kNew]
         /\ Removed(c)
         /\ UNCHANGED <<pollfds, failed>>

-----------------------------------------------------------------------------
(* The owners of the channels, in callbacks and functors.                  *)

Running == failed = "none"

InUserCode == Running /\ (phase = "functors" \/ at > 0)

\* Channel::Channel(), for a descriptor no channel in the loop has.  A channel that
\* was removed may still have it: Connector hands its socket on that way.
Construct(c, f) ==
    /\ InUserCode
    /\ fd[c] = None
    /\ \A d \in Channels : fd[d] = f => ~added[d]
    /\ fd' = [fd EXCEPT ![c] = f]
    /\ UNCHANGED <<kind, events, index, added, books, ready, loopVars, failed>>

\* Channel::~Channel(), not from the channel's own callback.
Destroy(c) ==
    /\ InUserCode
    /\ fd[c] # None /\ ~added[c]
    /\ at > 0 => active[at].channel # c
    /\ IF HasChannel(c) THEN Abort("destroy")
       ELSE /\ fd' = [fd EXCEPT ![c] = None]
            /\ events' = [events EXCEPT ![c] = {}]
            /\ index' = [index EXCEPT ![c] = kNew]
            /\ UNCHANGED <<kind, added, books, ready, loopVars, failed>>

\* enableReading(), enableWriting(), disableReading(), disableWriting(), disableAll().
\* Also of a removed channel, as TcpConnection::startReadInLoop() may, while the
\* descriptor is still its own.
Update(c, asked) ==
    /\ InUserCode
    /\ fd[c] # None
    /\ added[c] \/ \A d \in Channels : fd[d] = fd[c] => d = c
    /\ asked = {} \/ \E e \in Events : asked \in {events[c] \union {e}, events[c] \ {e}}
    /\ IF kind = "poll" THEN PollUpdate(c, asked) ELSE EpollUpdate(c, asked)

\* remove(), as EventLoop::removeChannel() asserts: while channels are handled, the
\* current one or one that is not among them.
RemoveChannel(c) ==
    /\ InUserCode
    /\ added[c] /\ events[c] = {}
    /\ at > 0 => active[at].channel = c \/ \A i \in DOMAIN active : active[i].channel # c
    /\ IF kind = "poll" THEN PollRemove(c) ELSE EpollRemove(c)

-----------------------------------------------------------------------------
(* The kernel and the loop.                                                *)

\* What the kernel watches: from descriptors to events and channel.
Watched ==
    IF kind = "epoll" THEN epollSet
    ELSE [f \in {p.fd : p \in Range(pollfds)} \intersect Fds |->
            [events  |-> (CHOOSE p \in Range(pollfds) : p.fd = f).events,
             channel |-> channels[f]]]

Revents(f) == ready[f] \intersect (Watched[f].events \union {"hup"})
Reportable == {f \in DOMAIN Watched : Revents(f) # {}}

\* fillActiveChannels() of a sequence of descriptors.
Filled(fs) == [i \in DOMAIN fs |-> [channel |-> Watched[fs[i]].channel, revents |-> Revents(fs[i])]]

\* PollPoller::poll() looks at its array from the front.
PlaceOf(f) == CHOOSE i \in DOMAIN pollfds : pollfds[i].fd = f

PollPollerReturns ==
    /\ kind = "poll"
    /\ \E fs \in SetToSeqs(Reportable) :
        /\ \A i, j \in DOMAIN fs : i < j => PlaceOf(fs[i]) < PlaceOf(fs[j])
        /\ active' = Filled(fs)
    /\ UNCHANGED listSize

MutNeverGrows(n) == listSize

\* EPollPoller::poll(): no more results than the array has room for.
Grown(n) == IF n = listSize THEN 2 * listSize ELSE listSize

EPollPollerReturns ==
    /\ kind = "epoll"
    /\ \E F \in kSubset(Min({Cardinality(Reportable), listSize}), Reportable) :
        \E fs \in SetToSeqs(F) : active' = Filled(fs)
    /\ listSize' = Grown(Len(active'))

\* poll() returns with events, and without when it timed out or was interrupted.
PollReturns ==
    /\ Running
    /\ phase = "poll"
    /\ PollPollerReturns \/ EPollPollerReturns
    /\ phase' = "dispatch"
    /\ ready' = <<>>
    /\ UNCHANGED <<kind, channelVars, channels, pollfds, epollSet, at, failed>>

\* The next channel's handleEvent().
HandleEvent ==
    /\ Running
    /\ phase = "dispatch" /\ at < Len(active)
    /\ at' = at + 1
    /\ UNCHANGED <<kind, channelVars, books, ready, phase, active, failed>>

\* doPendingFunctors()
DoPendingFunctors ==
    /\ Running
    /\ phase = "dispatch" /\ at = Len(active)
    /\ phase' = "functors" /\ active' = <<>> /\ at' = 0
    /\ UNCHANGED <<kind, channelVars, books, ready, failed>>

\* Back to poll(), where the kernel finds any descriptors ready for anything.
EnterPoll ==
    /\ Running
    /\ phase = "functors"
    /\ phase' = "poll"
    /\ ready' \in [DOMAIN Watched -> SUBSET Reports]
    /\ UNCHANGED <<kind, channelVars, books, active, at, failed>>

Loop == PollReturns \/ HandleEvent \/ DoPendingFunctors \/ EnterPoll

PollerNext ==
    \/ Loop
    \/ \E c \in Channels : \E f \in FdsOf[c] : Construct(c, f)
    \/ \E c \in Channels : Destroy(c) \/ RemoveChannel(c)
    \/ \E c \in Channels, asked \in SUBSET Events : Update(c, asked)

\* The loop's thread runs, and callbacks and functors end.
PollerSpec == PollerInit /\ [][PollerNext]_pollerVars /\ WF_pollerVars(Loop)

-----------------------------------------------------------------------------
(* Properties.                                                             *)

\* Of all the assertions of the pollers and the errors of epoll_ctl(), owners that keep
\* the rules meet two, both of PollPoller: it takes no update of a channel that was
\* removed, and no removal of one whose only update asked for nothing.
AssertionsHold ==
    failed # "none" =>
        /\ kind = "poll"
        /\ \/ failed = "updateRemoved"
           \/ failed = "removeUnasked" /\ \E p \in Range(pollfds) : p.fd >= 0 /\ p.events = {}

\* However the channels come, ask, go and pass their descriptors on, the books agree:
\* the map has the channels that were added, each at its index, and the kernel watches
\* of each exactly what it asks for, and nothing of any other.
WatchedAsAsked ==
    /\ PollerTypeOK /\ AssertionsHold
    /\ Range(channels) = {c \in Channels : added[c]}
    /\ \A c \in Range(channels) : HasChannel(c)
    /\ kind = "poll" => Len(pollfds) = Cardinality(DOMAIN channels)
    /\ \A c \in Range(channels) :
        /\ kind = "poll" => AtIndex(c)
        /\ kind = "epoll" => (index[c] = kAdded <=> fd[c] \in DOMAIN Watched)
        /\ events[c] # {} => fd[c] \in DOMAIN Watched
    /\ \A f \in DOMAIN Watched :
        f \in DOMAIN channels /\ Watched[f] = [events |-> events[channels[f]], channel |-> channels[f]]

\* A channel whose descriptor every poll() finds ready is handled again and again,
\* however many others are ready: epoll's results double until there is room for all.
KeptReady(c) ==
    /\ Running /\ added[c]
    /\ phase = "poll" => fd[c] \in Reportable

ReadyIsHandled ==
    \A c \in Channels : <>[]KeptReady(c) => []<>(at > 0 /\ active[at].channel = c)

\* Both pollers keep the promise of the class they are derived from.
WaitingAt == {i \in DOMAIN active : i > at}

WatchOf(c) == IF fd[c] \in DOMAIN Watched THEN Watched[fd[c]].events ELSE {"silent"}

P == INSTANCE Poller WITH
    watch  <- [c \in Range(channels) |-> WatchOf(c)],
    active <- [c \in {active[i].channel : i \in WaitingAt} |->
                (CHOOSE r \in Range(active) : r.channel = c).revents]

ImplementsPoller == P!Spec

=============================================================================
