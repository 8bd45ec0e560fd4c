----------------------------- MODULE TcpClient -------------------------------
(***************************************************************************)
(* TcpClient on its Connector: connect(), disconnect() and stop() from     *)
(* other threads, the connection's life, reconnection when it closes, and  *)
(* the client's destructor on the loop's thread.                           *)
(*                                                                         *)
(* A TcpConnection has its socket's number.  The assertion of its          *)
(* handleClose() is checked in the module TcpConnection and not again      *)
(* here: a close goes on in kDisconnecting, too.                           *)
(***************************************************************************)
EXTENDS Connector

CONSTANT
    CarefulOwner        \* the owner calls connect() once, and destroys a client that
                        \* has a connection when no functor of the Connector is queued

ASSUME CarefulOwnerAssumption == CarefulOwner \in BOOLEAN

VARIABLES
    retry,              \* retry_
    wanted,             \* connect_ of the client
    user,               \* where the owner's thread is in disconnect() or stop()
    alive,              \* the client is not destroyed
    keptAlive,          \* ~TcpClient()'s timer that holds the Connector is pending
    connection,         \* connection_
    conn,               \* state of each TcpConnection
    closeCallback,      \* whose removeConnection() each TcpConnection calls
    removing,           \* removeConnection() is past its test of retry_ and connect_
    \* History, which no step tests.
    stalled,            \* a timer came too early for the loop, which did not go round for
                        \* 0.5 s (retry()) or twice in 1 s (~TcpClient()) after it was set
    rounds,             \* doPendingFunctors() still to come for ~TcpClient()'s second
    crossings           \* restarts since stop() cleared the Connector's connect_

userVars == <<wanted, user>>
lifeVars == <<alive, keptAlive, retry>>
connVars == <<connection, conn, closeCallback, removing>>
historyVars == <<stalled, rounds, crossings>>
vars == <<connectorVars, queueVars, userVars, lifeVars, connVars, historyVars>>

TypeOK ==
    /\ ConnectorTypeOK
    /\ {retry, wanted, alive, removing, keptAlive} \subseteq BOOLEAN
    /\ connection \in Sockets \union {NoSocket}
    /\ conn \in [Sockets -> {"none", "kConnected", "kDisconnecting", "kDisconnected", "freed"}]
    /\ closeCallback \in [Sockets -> {"client", "detail"}]
    /\ user \in {"new", "idle", "disconnect", "stop", "stopConnector", "stopped"}
    /\ stalled \in BOOLEAN /\ rounds \in 0..2 /\ crossings \in Nat

Init ==
    /\ ConnectorInit
    /\ retry \in BOOLEAN
    /\ wanted = TRUE /\ user = "new"
    /\ alive = TRUE /\ keptAlive = FALSE
    /\ connection = NoSocket
    /\ conn = [s \in Sockets |-> "none"]
    /\ closeCallback = [s \in Sockets |-> "client"]
    /\ removing = FALSE
    /\ stalled = FALSE /\ rounds = 0 /\ crossings = 0

\* The shared_ptrs to the Connector; those of timers are in startInLoop() timers.
ConnectorAlive == alive \/ keptAlive \/ timers > 0

-----------------------------------------------------------------------------
(* The owner.                                                              *)

MayConnect == alive /\ (user = "new" \/ (user = "stopped" /\ ~CarefulOwner))

\* connect() on the loop's thread, where runInLoop() calls, or on another.
ConnectHere ==
    /\ MayConnect /\ ~removing
    /\ user' = "idle"
    /\ wanted' = TRUE /\ connect' = TRUE
    /\ StartInLoop(state, TRUE, timers)
    /\ UNCHANGED <<queueVars, lifeVars, connVars, historyVars>>

ConnectElsewhere ==
    /\ MayConnect
    /\ user' = "idle"
    /\ wanted' = TRUE /\ connect' = TRUE
    /\ Queue("startInLoop", NoSocket)
    /\ UNCHANGED <<attemptVars, failed, batch, lifeVars, connVars, historyVars>>

\* disconnect(): the flag, then shutdown() of the connection, if there is one.
Disconnect ==
    /\ alive /\ user = "idle"
    /\ user' = "disconnect"
    /\ wanted' = FALSE
    /\ UNCHANGED <<connectorVars, queueVars, lifeVars, connVars, historyVars>>

DisconnectShutsDown ==
    /\ user = "disconnect"
    /\ user' = "idle"
    /\ conn' = [s \in Sockets |-> IF s = connection /\ conn[s] = "kConnected"
                                  THEN "kDisconnecting" ELSE conn[s]]
    /\ UNCHANGED <<wanted, connectorVars, queueVars, lifeVars, connection, closeCallback, removing,
                   historyVars>>

\* stop(): the client's flag, then Connector::stop().
Stop ==
    /\ alive /\ user = "idle"
    /\ user' = "stop"
    /\ wanted' = FALSE
    /\ UNCHANGED <<connectorVars, queueVars, lifeVars, connVars, historyVars>>

StopConnector ==
    /\ user = "stop"
    /\ user' = "stopConnector"
    /\ connect' = FALSE
    /\ crossings' = 0
    /\ UNCHANGED <<wanted, attemptVars, failed, queueVars, lifeVars, connVars, stalled, rounds>>

StopQueues ==
    /\ user = "stopConnector"
    /\ user' = "stopped"
    /\ Queue("stopInLoop", NoSocket)
    /\ UNCHANGED <<wanted, connectorVars, batch, lifeVars, connVars, historyVars>>

\* ~TcpClient() with a connection: its close callback no longer goes to the client
\* and, unless the user has a copy of the pointer, it is closed.
DestroyConnected ==
    /\ connection # NoSocket
    /\ closeCallback' = [closeCallback EXCEPT ![connection] = "detail"]
    /\ \/ /\ conn' = [conn EXCEPT ![connection] = "kDisconnecting"]
          /\ Queue("forceCloseInLoop", connection)
       \/ UNCHANGED <<conn, functors>>
    /\ Asserts(timers > 0 \/ channel = NoSocket)
    /\ UNCHANGED <<connect, keptAlive, rounds>>

\* Without one: the Connector is stopped, and kept for a second.
DestroyUnconnected ==
    /\ connection = NoSocket
    /\ connect' = FALSE
    /\ Queue("stopInLoop", NoSocket)
    /\ keptAlive' = TRUE /\ rounds' = 2
    /\ UNCHANGED <<conn, closeCallback, failed>>

Destroy ==
    /\ alive /\ ~removing
    /\ user \in {"idle", "stopped"}
    /\ CarefulOwner /\ connection # NoSocket => ~OwnPending
    /\ alive' = FALSE
    /\ DestroyConnected \/ DestroyUnconnected
    /\ connection' = NoSocket
    /\ UNCHANGED <<attemptVars, batch, userVars, retry, removing, stalled, crossings>>

\* The second is over: two rounds of functors come first, unless the loop stalled.
ReleaseConnector ==
    /\ keptAlive /\ ~removing /\ batch = <<>>
    /\ keptAlive' = FALSE
    /\ stalled' = (stalled \/ (rounds > 0 /\ OwnPending))
    /\ Asserts(timers > 0 \/ channel = NoSocket)
    /\ UNCHANGED <<connect, attemptVars, queueVars, userVars, alive, retry, connVars, rounds, crossings>>

-----------------------------------------------------------------------------
(* The loop: events, timers, functors.                                     *)

\* What an iteration registers is not among its own active channels: resetChannel()
\* has run when the next events come, or stopInLoop() queued it and nothing is registered.
Polling == ~removing /\ batch = <<>> /\ ~Pending(Functor("resetChannel", NoSocket))

\* newConnection(), called by handleWrite() if the Connector's connect_ is set.
NewConnection(s) ==
    /\ conn' = [conn EXCEPT ![s] = "kConnected"]
    /\ connection' = s

ConnectorEvent ==
    /\ Polling
    /\ \/ AttemptFails /\ UNCHANGED <<conn, connection>>
       \/ /\ AttemptSucceeds
          /\ IF connect THEN NewConnection(registered) ELSE UNCHANGED <<conn, connection>>
    /\ UNCHANGED <<connect, failed, batch, userVars, lifeVars, closeCallback, removing, historyVars>>

\* It may come before resetChannel(), where an attempt fails connecting()'s assertion.
RetryTimer ==
    /\ ~removing /\ batch = <<>>
    /\ timers > 0
    /\ StartInLoop(state, connect, timers - 1)
    /\ stalled' = (stalled \/ (Pending(Functor("resetChannel", NoSocket)) /\ state' = "kConnecting"))
    /\ UNCHANGED <<connect, queueVars, userVars, lifeVars, connVars, rounds, crossings>>

MutCloseKeepsConnection(s) ==
    /\ conn' = [conn EXCEPT ![s] = "kDisconnected"]
    /\ Queue("connectDestroyed", s)
    /\ removing' = (closeCallback[s] = "client" /\ retry /\ wanted)
    /\ Asserts(closeCallback[s] = "client" => connection = s)
    /\ UNCHANGED connection

\* handleClose() with the removeConnection() that it calls: the client's, up to its
\* test, or the one that the client left behind.
HandleClose(s) ==
    /\ conn' = [conn EXCEPT ![s] = "kDisconnected"]
    /\ Queue("connectDestroyed", s)
    /\ IF closeCallback[s] = "client"
       THEN /\ Asserts(connection = s)
            /\ connection' = NoSocket
            /\ removing' = (retry /\ wanted)
       ELSE UNCHANGED <<connection, removing, failed>>

\* The network ends a connection; the last one stays while it is wanted.
PeerCloses(s) ==
    /\ Polling
    /\ conn[s] \in {"kConnected", "kDisconnecting"}
    /\ s < MaxAttempts \/ ~wanted \/ ~alive
    /\ HandleClose(s)
    /\ UNCHANGED <<connect, attemptVars, batch, userVars, lifeVars, closeCallback, historyVars>>

MutRestartKeepsState ==
    /\ removing
    /\ removing' = FALSE
    /\ connect' = TRUE
    /\ crossings' = IF user \in {"stopConnector", "stopped"} THEN crossings + 1 ELSE crossings
    /\ StartInLoop(state, TRUE, timers)
    /\ UNCHANGED <<queueVars, userVars, lifeVars, connection, conn, closeCallback, stalled, rounds>>

\* restart()
Restart ==
    /\ removing
    /\ removing' = FALSE
    /\ connect' = TRUE
    /\ crossings' = IF user \in {"stopConnector", "stopped"} THEN crossings + 1 ELSE crossings
    /\ StartInLoop("kDisconnected", TRUE, timers)
    /\ UNCHANGED <<queueVars, userVars, lifeVars, connection, conn, closeCallback, stalled, rounds>>

SwapFunctors ==
    /\ ~removing /\ batch = <<>> /\ functors # <<>>
    /\ batch' = functors
    /\ functors' = <<>>
    /\ rounds' = IF rounds > 0 THEN rounds - 1 ELSE 0
    /\ UNCHANGED <<connectorVars, userVars, lifeVars, connVars, stalled, crossings>>

\* connectDestroyed(), and the end of the last pointer to the connection.
ConnectDestroyed(s) ==
    /\ conn' = [conn EXCEPT ![s] = "freed"]
    /\ open' = open \ {s}
    /\ UNCHANGED <<state, channel, registered, attempts, timers, gaveUp>>

RunFunctor ==
    /\ ~removing /\ batch # <<>>
    /\ batch' = Tail(batch)
    /\ LET f == Head(batch) IN
       \/ /\ f.op = "startInLoop"
          /\ StartInLoop(state, connect, timers)
          /\ UNCHANGED <<functors, connVars>>
       \/ /\ f.op = "stopInLoop"
          /\ StopInLoop
          /\ UNCHANGED <<failed, connVars>>
       \/ /\ f.op = "resetChannel"
          /\ ResetChannel
          /\ UNCHANGED <<functors, connVars>>
       \/ /\ f.op = "forceCloseInLoop"
          /\ IF conn[f.socket] \in {"kConnected", "kDisconnecting"}
             THEN HandleClose(f.socket)
             ELSE UNCHANGED <<functors, failed, connection, conn, removing>>
          /\ UNCHANGED <<attemptVars, closeCallback>>
       \/ /\ f.op = "connectDestroyed"
          /\ ConnectDestroyed(f.socket)
          /\ UNCHANGED <<functors, failed, connection, closeCallback, removing>>
    /\ UNCHANGED <<connect, userVars, lifeVars, historyVars>>

-----------------------------------------------------------------------------
UserStep == DisconnectShutsDown \/ StopConnector \/ StopQueues

FunctorStep == Restart \/ SwapFunctors \/ RunFunctor

Next ==
    \/ ConnectHere \/ ConnectElsewhere \/ Disconnect \/ Stop \/ Destroy
    \/ UserStep \/ FunctorStep \/ ConnectorEvent \/ RetryTimer \/ ReleaseConnector
    \/ \E s \in Sockets : PeerCloses(s)

Spec == Init /\ [][Next]_vars

\* The loop runs, timers expire, a call that has begun goes on, and the kernel ends
\* every attempt one way or the other.
FairSpec ==
    /\ Spec
    /\ WF_vars(UserStep) /\ WF_vars(FunctorStep)
    /\ WF_vars(ConnectorEvent) /\ WF_vars(RetryTimer) /\ WF_vars(ReleaseConnector)

-----------------------------------------------------------------------------
(* Properties.                                                             *)

\* The assertions of startInLoop(), connecting(), ~Connector(), ~Channel() and of the
\* client's removeConnection() hold, however the close of a connection, a restart,
\* stop(), disconnect() and the destructor interleave, if the owner is careful.
AssertionsHold == ~failed

\* No socket leaks and none is shared: those open are the one being connected and
\* those of connections that are not freed.
SocketsOwned ==
    open = {s \in Sockets : conn[s] \in {"kConnected", "kDisconnecting", "kDisconnected"}}
           \union (IF state = "kConnecting" THEN {registered} ELSE {})

\* One connection at a time: while the client has one, the Connector tries no other
\* and has no timer that would.
OneAtATime ==
    connection # NoSocket => /\ state = "kConnected" /\ timers = 0
                             /\ conn[connection] \in {"kConnected", "kDisconnecting"}

\* Bare pointers are good: the Connector outlives its queued functors and its
\* registered channel, the poller's channel is the Connector's, and the client outlives
\* the connections that call it.
CallbacksTargetAlive ==
    /\ (OwnPending \/ registered # NoSocket) => ConnectorAlive
    /\ registered # NoSocket => channel = registered
    /\ ~alive => /\ \A s \in Sockets : conn[s] \in {"kConnected", "kDisconnecting"}
                                         => closeCallback[s] = "detail"
                 /\ ~connect \/ state = "kConnected"

\* When stop() has taken effect no attempt is under way, and no timer or queued functor
\* begins one.  Only a restart() whose caller tested the client's connect_ before stop()
\* cleared it undoes this, and there is one of them at most.
StopEnds ==
    (user = "stopped" /\ ~Pending(Functor("stopInLoop", NoSocket)))
        => crossings <= 1 /\ (crossings = 0 => state # "kConnecting" /\ ~connect)

\* A client that is to reconnect has a connection in the end, if its owner does not
\* change his mind, no attempt meets an error that connect() does not retry and no timer
\* comes too early.
KeepsTrying ==
    (user # "new" /\ retry) ~> (connection # NoSocket \/ ~wanted \/ ~alive \/ gaveUp \/ stalled)

\* The client has one socket in use at a time, and no other open for nothing, unless a
\* timer came too early.
OneConnection == stalled \/ (SocketsOwned /\ OneAtATime)

\* Assertions and bare pointers are good, in states of the right types, unless a timer
\* came too early: the delays of 0.5 s and of 1 s are all that keeps it from that.
PointersGood == TypeOK /\ (stalled \/ (AssertionsHold /\ CallbacksTargetAlive))

=============================================================================
