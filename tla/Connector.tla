------------------------------ MODULE Connector ------------------------------
(***************************************************************************)
(* Connector: connects a socket without blocking, and again after a delay  *)
(* if that fails, on its loop's thread; start() and stop() may come from   *)
(* others.  Its handlers are operators here, and TcpClient makes actions   *)
(* of them.                                                                *)
(*                                                                         *)
(* An attempt is a socket, numbered.  The network answers as it likes, but *)
(* the last attempt of a model, number MaxAttempts, gets through.          *)
(***************************************************************************)
EXTENDS Naturals, Sequences

CONSTANT MaxAttempts        \* bound on the attempts to connect

ASSUME MaxAttemptsAssumption == MaxAttempts \in Nat \ {0}

VARIABLES
    connect,            \* connect_
    state,              \* state_
    channel,            \* channel_: the socket it is for, or NoSocket
    registered,         \* the socket of its that the poller watches, or NoSocket
    attempts,           \* sockets ever made
    open,               \* sockets, also those of connections, that are not closed
    timers,             \* pending runAfter() timers that call startInLoop()
    gaveUp,             \* connect() met an error that it does not retry
    functors, batch,    \* the loop's queue, and what is left of the vector it runs
    failed              \* an assertion of Connector or TcpClient has failed

attemptVars   == <<state, channel, registered, attempts, open, timers, gaveUp>>
connectorVars == <<connect, attemptVars, failed>>
queueVars     == <<functors, batch>>

Sockets == 1..MaxAttempts
NoSocket == 0

ConnectorTypeOK ==
    /\ connect \in BOOLEAN
    /\ state \in {"kDisconnected", "kConnecting", "kConnected"}
    /\ channel \in Sockets \union {NoSocket}
    /\ registered \in Sockets \union {NoSocket}
    /\ attempts \in 0..MaxAttempts
    /\ open \subseteq 1..attempts
    /\ timers \in Nat
    /\ gaveUp \in BOOLEAN
    /\ failed \in BOOLEAN

ConnectorInit ==
    /\ connect = FALSE /\ state = "kDisconnected"
    /\ channel = NoSocket /\ registered = NoSocket
    /\ attempts = 0 /\ open = {} /\ timers = 0 /\ gaveUp = FALSE
    /\ functors = <<>> /\ batch = <<>>
    /\ failed = FALSE

Functor(op, s) == [op |-> op, socket |-> s]

\* Those that are bound to the Connector by a bare pointer.
OwnFunctors == {Functor(op, NoSocket) : op \in {"startInLoop", "stopInLoop", "resetChannel"}}

Pending(f) == (\E i \in DOMAIN functors : functors[i] = f) \/ (\E i \in DOMAIN batch : batch[i] = f)

OwnPending == \E f \in OwnFunctors : Pending(f)

Queue(op, s) == functors' = Append(functors, Functor(op, s))

Asserts(P) == failed' = (failed \/ ~P)

-----------------------------------------------------------------------------
(* startInLoop() in state st, with connect_ as in wanted, while the timers  *)
(* left are pending.  Socket number attempts' is the one that connect()    *)
(* makes.                                                                  *)

\* connecting(): wait until the socket is writable.
InProgress(left) ==
    /\ state' = "kConnecting"
    /\ channel' = attempts' /\ registered' = attempts'
    /\ open' = open \union {attempts'}
    /\ timers' = left
    /\ UNCHANGED gaveUp

\* ECONNREFUSED and the like: retry(), which closes the socket at once.
Refused(left) ==
    /\ attempts' < MaxAttempts
    /\ state' = "kDisconnected"
    /\ timers' = left + 1
    /\ UNCHANGED <<channel, registered, open, gaveUp>>

\* EACCES and the like: the socket is closed, and nothing follows.
Hopeless(st, left) ==
    /\ attempts' < MaxAttempts
    /\ state' = st
    /\ gaveUp' = TRUE
    /\ timers' = left
    /\ UNCHANGED <<channel, registered, open>>

StartInLoop(st, wanted, left) ==
    IF wanted
    THEN /\ attempts < MaxAttempts
         /\ attempts' = attempts + 1
         /\ InProgress(left) \/ Refused(left) \/ Hopeless(st, left)
         /\ Asserts(st = "kDisconnected" /\ (channel' # channel => channel = NoSocket))
    ELSE /\ Asserts(st = "kDisconnected")
         /\ state' = st
         /\ timers' = left
         /\ UNCHANGED <<channel, registered, attempts, open, gaveUp>>

-----------------------------------------------------------------------------
(* The end of an attempt.                                                  *)

MutRetryNoTimer(s) ==
    /\ open' = open \ {s}
    /\ state' = "kDisconnected"
    /\ UNCHANGED timers

\* retry(): the socket is closed and, if it is still wanted, startInLoop() runs later.
Retry(s) ==
    /\ open' = open \ {s}
    /\ state' = "kDisconnected"
    /\ timers' = IF connect THEN timers + 1 ELSE timers

\* removeAndResetChannel(): the handler that runs is the channel's own, so the
\* channel leaves the poller now and is destroyed by a functor.
RemoveAndResetChannel ==
    /\ registered' = NoSocket
    /\ Queue("resetChannel", NoSocket)

\* handleError(), and handleWrite() with a socket error or a connection to itself.
AttemptFails ==
    /\ state = "kConnecting" /\ registered # NoSocket
    /\ registered < MaxAttempts
    /\ RemoveAndResetChannel
    /\ Retry(registered)
    /\ UNCHANGED <<channel, attempts, gaveUp>>

\* handleWrite() when the connection stands; newConnectionCallback_ is the caller's.
AttemptSucceeds ==
    /\ state = "kConnecting" /\ registered # NoSocket
    /\ RemoveAndResetChannel
    /\ state' = "kConnected"
    /\ open' = IF connect THEN open ELSE open \ {registered}
    /\ UNCHANGED <<channel, attempts, timers, gaveUp>>

MutStopOnlyFlags == UNCHANGED <<attemptVars, functors>>

\* stopInLoop().  Its retry() retries if connect_ is TRUE again.
StopInLoop ==
    /\ IF state = "kConnecting"
       THEN RemoveAndResetChannel /\ Retry(channel)
       ELSE UNCHANGED <<registered, functors, open, state, timers>>
    /\ UNCHANGED <<channel, attempts, gaveUp>>

\* ~Channel() wants a channel that has left the poller.
ResetChannel ==
    /\ Asserts(registered = NoSocket)
    /\ channel' = NoSocket
    /\ UNCHANGED <<state, registered, attempts, open, timers, gaveUp>>
=============================================================================
