----------------------------- MODULE TcpServer -------------------------------
(***************************************************************************)
(* TcpServer with its Acceptor and its EventLoopThreadPool: connections    *)
(* are accepted on the base loop, live on a loop of the pool and are       *)
(* removed by functors that go from the one to the other.  Loop 0 is the   *)
(* base loop, 1..n are those of the pool; with n = 0 the base loop is also *)
(* the connections' loop.  A connection is freed, and its descriptor       *)
(* closed, when the last shared_ptr to it goes: one is in connections_,    *)
(* the others are bound into functors.  Assertions are compiled out: where *)
(* one fails on the way, it is noted.                                      *)
(***************************************************************************)
EXTENDS Naturals, Sequences, FiniteSets, SequencesExt

CONSTANTS
    MaxThreads,         \* bound on setThreadNum()
    MaxClients,         \* bound on the clients that ever connect
    Fds,                \* the descriptors that the process may have
    DestroyUnderLoop    \* may the server die, with a pool, while the base loop runs?

ASSUME BoundsAssumption == MaxThreads \in Nat /\ MaxClients \in Nat
ASSUME FdsAssumption == IsFiniteSet(Fds) /\ Fds \subseteq Nat /\ Fds # {}
ASSUME DestroyAssumption == DestroyUnderLoop \in BOOLEAN

VARIABLES
    server,             \* of the TcpServer: "new", "started", "dead"
    numThreads,         \* numThreads_; loops_ is 1..numThreads
    next,               \* next_
    nextConnId,         \* nextConnId_
    connections,        \* connections_, by the connections' numbers
    waiting,            \* clients in the listening socket's queue
    clients,            \* clients that ever connected
    idleFd,             \* idleFd_
    state, channel,     \* of each connection: state_, and its channel in its poller
    ioLoop, fd,         \* of each connection: loop_, socket_
    peerGone,           \* connections whose peer has closed
    phase,              \* of each loop: "starting" until its thread calls loop(),
                        \* "poll", "batch" or "exited"
    quit,               \* quit_ of each loop
    joining,            \* the loop of the pool whose thread is being joined, or 0
    pending, batch,     \* pendingFunctors_ of each loop, and the vector it runs
    ran,                \* how many functors of the vector have run
    dropped,            \* history: connections whose connectDestroyed() no loop ran
    unclean             \* history: connections whose channel was still enabled when
                        \* Channel::remove() was called, which asserts that it is not

serverVars == <<server, numThreads, next, nextConnId, connections>>
acceptVars == <<waiting, clients, idleFd>>
connVars   == <<state, channel, ioLoop, fd, peerGone>>
loopVars   == <<phase, quit, joining, pending, batch, ran>>
histVars   == <<dropped, unclean>>
vars == <<serverVars, acceptVars, connVars, loopVars, histVars>>

Base == 0
Loops == 0..MaxThreads
Pool == 1..numThreads
Conns == 1..MaxClients
Functors == [op : {"connectEstablished", "removeConnectionInLoop", "connectDestroyed"},
             conn : Conns]

TypeOK ==
    /\ server \in {"new", "started", "dead"}
    /\ numThreads \in 0..MaxThreads
    /\ next \in Loops /\ (numThreads > 0 => next < numThreads)
    /\ nextConnId \in 1..(MaxClients + 1)
    /\ connections \subseteq Conns
    /\ waiting \in 0..MaxClients /\ clients \in 0..MaxClients
    /\ idleFd \in Fds
    /\ state \in [Conns -> {"none", "kConnecting", "kConnected", "kDisconnecting",
                           "kDisconnected"}]
    /\ channel \in [Conns -> {"kNew", "kAdded", "kDeleted"}]
    /\ ioLoop \in [Conns -> Loops]
    /\ fd \in [Conns -> Fds]
    /\ peerGone \subseteq Conns
    /\ phase \in [Loops -> {"starting", "poll", "batch", "exited"}]
    /\ quit \in [Loops -> BOOLEAN]
    /\ joining \in Loops
    /\ pending \in [Loops -> Seq(Functors)]
    /\ batch \in [Loops -> Seq(Functors)]
    /\ ran \in [Loops -> Nat] /\ \A l \in Loops : ran[l] <= Len(batch[l])
    /\ dropped \subseteq Conns /\ unclean \subseteq Conns

Init ==
    /\ server = "new" /\ numThreads = 0 /\ next = 0 /\ nextConnId = 1
    /\ connections = {}
    /\ waiting = 0 /\ clients = 0
    /\ idleFd = CHOOSE f \in Fds : \A g \in Fds : f <= g
    /\ state = [c \in Conns |-> "none"]
    /\ channel = [c \in Conns |-> "kNew"]
    /\ ioLoop = [c \in Conns |-> Base]
    /\ fd = [c \in Conns |-> idleFd]
    /\ peerGone = {}
    /\ phase = [l \in Loops |-> IF l = Base THEN "poll" ELSE "starting"]
    /\ quit = [l \in Loops |-> FALSE]
    /\ joining = 0
    /\ pending = [l \in Loops |-> <<>>] /\ batch = [l \in Loops |-> <<>>]
    /\ ran = [l \in Loops |-> 0]
    /\ dropped = {} /\ unclean = {}

-----------------------------------------------------------------------------
(* References, descriptors, functors.                                      *)

Holds(functors, c) == \E i \in DOMAIN functors : functors[i].conn = c

\* The vector that a loop runs keeps its functors until the last one has run.
Referenced(c) ==
    c \in connections \/ \E l \in Loops : Holds(pending[l], c) \/ Holds(batch[l], c)

FreeFds == Fds \ ({idleFd} \union {fd[c] : c \in {d \in Conns : Referenced(d)}})

Functor(op, c) == [op |-> op, conn |-> c]

Queue(l, op, c) == pending' = [pending EXCEPT ![l] = Append(@, Functor(op, c))]

Connected(c) ==
    /\ state' = [state EXCEPT ![c] = "kConnected"]
    /\ channel' = [channel EXCEPT ![c] = "kAdded"]

-----------------------------------------------------------------------------
(* The server's owner.                                                     *)

\* setThreadNum(), then start(): the pool's loops are handed out, the Acceptor listens.
Start ==
    /\ server = "new"
    /\ server' = "started"
    /\ numThreads' \in 0..MaxThreads
    /\ UNCHANGED <<next, nextConnId, connections, acceptVars, connVars, loopVars, histVars>>

\* The application leaves the base loop, from within it.
QuitBase ==
    /\ server = "started"
    /\ phase[Base] # "exited"
    /\ quit' = [quit EXCEPT ![Base] = TRUE]
    /\ UNCHANGED <<serverVars, acceptVars, connVars, phase, joining, pending, batch, ran, histVars>>

\* connectDestroyed(): a kConnected connection becomes kDisconnected and its channel is
\* disabled; then the channel leaves the poller.  A connection that was shut down and
\* not closed yet keeps its state, and its channel is enabled.
StateAfter(c) == IF state[c] = "kConnected" THEN "kDisconnected" ELSE state[c]
StillEnabled(c) == state[c] # "kConnected" /\ channel[c] = "kAdded"

\* ~TcpServer(), on the base loop's thread: connectDestroyed() on every connection's
\* loop, which for the thread's own loop is a call.
Destroy ==
    /\ server = "started"
    /\ phase[Base] = "exited" \/ numThreads = 0 \/ DestroyUnderLoop
    /\ server' = "dead"
    /\ connections' = {}
    /\ IF numThreads = 0
       THEN /\ state' = [c \in Conns |-> IF c \in connections THEN StateAfter(c) ELSE state[c]]
            /\ channel' = [c \in Conns |-> IF c \in connections THEN "kNew" ELSE channel[c]]
            /\ unclean' = unclean \union {c \in connections : StillEnabled(c)}
            /\ UNCHANGED pending
       ELSE /\ pending' = [l \in Loops |-> pending[l] \o
                SetToSeq({Functor("connectDestroyed", c) : c \in {d \in connections : ioLoop[d] = l}})]
            /\ UNCHANGED <<state, channel, unclean>>
    /\ UNCHANGED <<numThreads, next, nextConnId, acceptVars, ioLoop, fd, peerGone,
                   phase, quit, joining, batch, ran, dropped>>

\* ~EventLoopThreadPool(), a member's destructor: each thread's loop is told to quit
\* and its thread joined, one thread after the other.
QuitLoop(l) ==
    /\ server = "dead"
    /\ l \in Pool /\ l = joining + 1
    /\ joining > 0 => phase[joining] = "exited"
    /\ joining' = l
    /\ quit' = [quit EXCEPT ![l] = TRUE]
    /\ UNCHANGED <<serverVars, acceptVars, connVars, phase, pending, batch, ran, histVars>>

\* ~EventLoop() of the base loop drops what it never ran.
DestroyBase ==
    /\ server = "dead"
    /\ phase[Base] = "exited" /\ \A l \in Pool : phase[l] = "exited"
    /\ pending[Base] # <<>>
    /\ pending' = [pending EXCEPT ![Base] = <<>>]
    /\ UNCHANGED <<serverVars, acceptVars, connVars, phase, quit, joining, batch, ran, histVars>>

-----------------------------------------------------------------------------
(* Accepting, on the base loop.                                            *)

Connect ==
    /\ server = "started"
    /\ clients < MaxClients
    /\ clients' = clients + 1
    /\ waiting' = waiting + 1
    /\ UNCHANGED <<serverVars, idleFd, connVars, loopVars, histVars>>

PeerCloses(c) ==
    /\ state[c] # "none" /\ Referenced(c)
    /\ c \notin peerGone
    /\ peerGone' = peerGone \union {c}
    /\ UNCHANGED <<serverVars, acceptVars, state, channel, ioLoop, fd, loopVars, histVars>>

Listening == server = "started" /\ phase[Base] = "poll" /\ waiting > 0

\* getNextLoop(): the loop next_ of loops_, and next_ moves on, or the base loop.
NextAfter == IF numThreads = 0 THEN next ELSE (next + 1) % numThreads
ChosenLoop == IF numThreads = 0 THEN Base ELSE next + 1

\* Acceptor::handleRead() and newConnection(): accept() returns the lowest free
\* descriptor; the new connection is entered, and established on its loop.
Accept ==
    /\ Listening
    /\ FreeFds # {}
    /\ waiting' = waiting - 1
    /\ nextConnId' = nextConnId + 1
    /\ connections' = connections \union {nextConnId}
    /\ fd' = [fd EXCEPT ![nextConnId] = CHOOSE f \in FreeFds : \A g \in FreeFds : f <= g]
    /\ ioLoop' = [ioLoop EXCEPT ![nextConnId] = ChosenLoop]
    /\ next' = NextAfter
    /\ \/ /\ ChosenLoop = Base
          /\ Connected(nextConnId)
          /\ UNCHANGED pending
       \/ /\ ChosenLoop # Base
          /\ state' = [state EXCEPT ![nextConnId] = "kConnecting"]
          /\ Queue(ChosenLoop, "connectEstablished", nextConnId)
          /\ UNCHANGED channel
    /\ UNCHANGED <<server, numThreads, clients, idleFd, peerGone, phase, quit, joining, batch, ran, histVars>>

MutTurnAwayNobody ==
    /\ Listening
    /\ FreeFds = {}
    /\ UNCHANGED vars

\* accept() fails with EMFILE: the spare descriptor is closed, spent on the client
\* that waits, closed again and opened again.
TurnAway ==
    /\ Listening
    /\ FreeFds = {}
    /\ waiting' = waiting - 1
    /\ UNCHANGED <<serverVars, clients, idleFd, connVars, loopVars, histVars>>

-----------------------------------------------------------------------------
(* A connection on its loop, and its removal.                              *)

\* shutdown() by the application on the connection's loop (HttpServer::onRequest()).
Shutdown(c) ==
    /\ state[c] = "kConnected"
    /\ phase[ioLoop[c]] # "exited"
    /\ state' = [state EXCEPT ![c] = "kDisconnecting"]
    /\ UNCHANGED <<serverVars, acceptVars, channel, ioLoop, fd, peerGone, loopVars, histVars>>

MutRemoveKeeps(c) ==
    /\ Queue(ioLoop[c], "connectDestroyed", c)
    /\ UNCHANGED connections

\* removeConnectionInLoop(): out of the map, and connectDestroyed() is queued, also
\* for the own loop, whose poller may be iterating over the connection's channel.
RemoveConnectionInLoop(c) ==
    /\ connections' = connections \ {c}
    /\ Queue(ioLoop[c], "connectDestroyed", c)

\* handleClose() and removeConnection() when the poller reports the peer's close.  (Its
\* assertion on state_ fails for kDisconnecting, see module TcpConnection.)
HandleClose(c) ==
    /\ channel[c] = "kAdded" /\ c \in peerGone
    /\ phase[ioLoop[c]] = "poll"
    /\ state' = [state EXCEPT ![c] = "kDisconnected"]
    /\ channel' = [channel EXCEPT ![c] = "kDeleted"]
    /\ IF ioLoop[c] = Base
       THEN RemoveConnectionInLoop(c)
       ELSE Queue(Base, "removeConnectionInLoop", c) /\ UNCHANGED connections
    /\ UNCHANGED <<server, numThreads, next, nextConnId, acceptVars, ioLoop, fd, peerGone,
                   phase, quit, joining, batch, ran, histVars>>

MutDestroyedKeepsChannel(c) ==
    /\ state' = [state EXCEPT ![c] = StateAfter(c)]
    /\ UNCHANGED <<channel, unclean>>

ConnectDestroyed(c) ==
    /\ state' = [state EXCEPT ![c] = StateAfter(c)]
    /\ channel' = [channel EXCEPT ![c] = "kNew"]
    /\ unclean' = IF StillEnabled(c) THEN unclean \union {c} ELSE unclean

-----------------------------------------------------------------------------
(* The loops.                                                              *)

\* loop() of a loop of the pool, which sets quit_ to false.
LoopBegins(l) ==
    /\ server # "new" /\ l \in Pool
    /\ phase[l] = "starting"
    /\ phase' = [phase EXCEPT ![l] = "poll"]
    /\ quit' = [quit EXCEPT ![l] = FALSE]
    /\ UNCHANGED <<serverVars, acceptVars, connVars, joining, pending, batch, ran, histVars>>

MutSwapOnlyWhenPending(l) ==
    /\ phase[l] = "poll"
    /\ pending[l] # <<>>
    /\ phase' = [phase EXCEPT ![l] = "batch"]
    /\ batch' = [batch EXCEPT ![l] = pending[l]]
    /\ pending' = [pending EXCEPT ![l] = <<>>]
    /\ UNCHANGED <<serverVars, acceptVars, connVars, quit, joining, ran, histVars>>

\* doPendingFunctors(): the swap, one functor, the end of the vector.
SwapFunctors(l) ==
    /\ phase[l] = "poll"
    /\ pending[l] # <<>> \/ quit[l]
    /\ phase' = [phase EXCEPT ![l] = "batch"]
    /\ batch' = [batch EXCEPT ![l] = pending[l]]
    /\ pending' = [pending EXCEPT ![l] = <<>>]
    /\ UNCHANGED <<serverVars, acceptVars, connVars, quit, joining, ran, histVars>>

RunFunctor(l) ==
    /\ phase[l] = "batch"
    /\ ran[l] < Len(batch[l])
    /\ ran' = [ran EXCEPT ![l] = @ + 1]
    /\ LET f == batch[l][ran[l] + 1] IN
       \/ /\ f.op = "connectEstablished"
          /\ Connected(f.conn)
          /\ UNCHANGED <<connections, pending, unclean>>
       \/ /\ f.op = "removeConnectionInLoop"
          /\ RemoveConnectionInLoop(f.conn)
          /\ UNCHANGED <<state, channel, unclean>>
       \/ /\ f.op = "connectDestroyed"
          /\ ConnectDestroyed(f.conn)
          /\ UNCHANGED <<connections, pending>>
    /\ UNCHANGED <<server, numThreads, next, nextConnId, acceptVars, ioLoop, fd, peerGone,
                   phase, quit, joining, batch, dropped>>

\* The vector goes, and with it the references; then loop() tests quit_.  A loop of
\* the pool is an automatic variable of its thread: it goes with its queue.
EndFunctors(l) ==
    /\ phase[l] = "batch"
    /\ ran[l] = Len(batch[l])
    /\ batch' = [batch EXCEPT ![l] = <<>>]
    /\ ran' = [ran EXCEPT ![l] = 0]
    /\ phase' = [phase EXCEPT ![l] = IF quit[l] THEN "exited" ELSE "poll"]
    /\ IF quit[l] /\ l # Base
       THEN /\ dropped' = dropped \union {c \in Conns : Holds(pending[l], c)}
            /\ pending' = [pending EXCEPT ![l] = <<>>]
       ELSE UNCHANGED <<dropped, pending>>
    /\ UNCHANGED <<serverVars, acceptVars, connVars, quit, joining, unclean>>

-----------------------------------------------------------------------------
BaseAccepts == Accept \/ TurnAway

LoopStep(l) ==
    \/ LoopBegins(l) \/ SwapFunctors(l) \/ RunFunctor(l) \/ EndFunctors(l)
    \/ \E c \in Conns : ioLoop[c] = l /\ HandleClose(c)

OwnerStep == DestroyBase \/ \E l \in Pool : QuitLoop(l)

Next ==
    \/ OwnerStep \/ Start \/ QuitBase \/ Destroy
    \/ Connect \/ BaseAccepts
    \/ \E c \in Conns : PeerCloses(c) \/ Shutdown(c)
    \/ \E l \in Loops : LoopStep(l)

Spec == Init /\ [][Next]_vars

\* poll() is level-triggered and serves every ready channel, so accepting and each
\* loop's work go on; a destructor that has begun goes on.  Nobody has to connect,
\* to close, or to end the server.
FairSpec ==
    /\ Spec
    /\ WF_vars(BaseAccepts)
    /\ \A l \in Loops : WF_vars(LoopBegins(l) \/ SwapFunctors(l) \/ RunFunctor(l) \/ EndFunctors(l))
    /\ \A c \in Conns : WF_vars(HandleClose(c))
    /\ WF_vars(OwnerStep)

-----------------------------------------------------------------------------
(* Properties.                                                             *)

\* removeConnectionInLoop() finds the connection in the map, once: one removal per
\* connection is on its way, whoever closes and whenever (assert n == 1 in
\* removeConnectionInLoop(); the map of a dead server is not looked into).
RemoveFindsConnection ==
    server = "started" =>
        LET coming == pending[Base] \o batch[Base]
            removals(c) == {i \in DOMAIN coming :
                /\ coming[i] = Functor("removeConnectionInLoop", c)
                /\ i <= Len(pending[Base]) \/ i > Len(pending[Base]) + ran[Base]}
        IN  \A c \in Conns : /\ Cardinality(removals(c)) <= 1
                             /\ removals(c) # {} => c \in connections

\* A running loop's poller never knows the channel of a freed connection, nor two
\* connections by the same descriptor: closing and reuse wait for the channel's
\* removal (assertions on channels_ in EPollPoller::updateChannel()).
NoDanglingChannel ==
    \A c \in Conns :
        (channel[c] # "kNew" /\ phase[ioLoop[c]] # "exited") =>
            /\ Referenced(c)
            /\ \A d \in Conns : (d # c /\ Referenced(d)) => fd[c] # fd[d]

\* Channel::remove() finds the channel disabled, its assertion, except for a connection
\* that the application had shut down, and the peer not closed, when the server died:
\* connectDestroyed() disables the channel of a kConnected connection only (the comment
\* above it foresees such a failure).
RemovedDisabled == \A c \in unclean : server = "dead" /\ state[c] = "kDisconnecting"

\* A connection is freed only after connectDestroyed(): the assertions of
\* ~TcpConnection() and ~Channel() hold, except for the connections of RemovedDisabled,
\* which are freed as kDisconnecting, and for one whose connectDestroyed() was dropped
\* by a loop of the pool that was told to quit while it ran functors.
FreedAfterDestroyed ==
    \A c \in 1..(nextConnId - 1) :
        ~Referenced(c) => \/ state[c] = "kDisconnected" /\ channel[c] = "kNew"
                          \/ c \in unclean /\ channel[c] = "kNew"
                          \/ c \in dropped

\* A client that connects is accepted or, without descriptors, turned away; it does
\* not make the level-triggered listening channel fire for ever.
ClientsAnswered == (waiting > 0) ~> (waiting = 0 \/ server = "dead" \/ phase[Base] = "exited")

\* A connection whose peer has closed is freed, and its descriptor closed, while the
\* base loop runs: the references in the map and in the functors all go.
ClosedIsFreed ==
    \A c \in Conns : (c \in peerGone) ~> (~Referenced(c) \/ phase[Base] = "exited")

\* quit() came before the loop's thread called loop(), which undid it: the loop runs
\* on while its thread is joined (see EventLoopThread, run thread_dtor).
QuitWasLost == \E l \in Pool : l <= joining /\ ~quit[l] /\ phase[l] # "exited"

\* The server's destructor returns, unless a quit() was lost: every loop of the pool
\* leaves.  And then every connection is freed, those included whose functors a
\* leaving loop or the base loop never ran.
ServerGoes ==
    (server = "dead") ~>
        \/ (\A l \in Pool : phase[l] = "exited") /\ (\A c \in Conns : ~Referenced(c))
        \/ QuitWasLost

\* Connections, their channels and descriptors go together, in states of the right
\* types; each is removed once; the type of next includes the wrap of the round robin (getNextLoop()).
ConnectionsSafe ==
    TypeOK /\ RemoveFindsConnection /\ NoDanglingChannel /\ RemovedDisabled /\ FreedAfterDestroyed

=============================================================================
