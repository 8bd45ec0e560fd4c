---------------------------- MODULE TcpClientProofs ----------------------------
(***************************************************************************)
(* Theorems of TcpClient and its Connector for any number of attempts: no  *)
(* assertion fails and no bare pointer dangles until a timer comes too     *)
(* early for the loop, one socket and one connection are in use at a time, *)
(* and stop() ends an attempt.                                             *)
(***************************************************************************)
EXTENDS TcpClient, SequenceTheorems, TLAPS

StartF == Functor("startInLoop", NoSocket)
StopF == Functor("stopInLoop", NoSocket)
ResetF == Functor("resetChannel", NoSocket)
CloseF(s) == Functor("forceCloseInLoop", s)
DestroyedF(s) == Functor("connectDestroyed", s)

\* What the loop is given to run.
Functors ==
    {StartF, StopF, ResetF} \union {CloseF(s) : s \in Sockets} \union {DestroyedF(s) : s \in Sockets}

QueueTypeOK == functors \in Seq(Functors) /\ batch \in Seq(Functors)

\* The functors in a queue q and a batch b, and that startInLoop() is there once.
In(q, b) == {q[i] : i \in 1..Len(q)} \union {b[i] : i \in 1..Len(b)}

OneStart(q, b) ==
    /\ \A i, j \in 1..Len(q) : q[i] = StartF /\ q[j] = StartF => i = j
    /\ \A i, j \in 1..Len(b) : b[i] = StartF /\ b[j] = StartF => i = j
    /\ \A i \in 1..Len(q), j \in 1..Len(b) : ~(q[i] = StartF /\ b[j] = StartF)

Waiting == In(functors, batch)
StartOnce == OneStart(functors, batch)

\* A functor of a connection finds it in the state that it is for.
QueueInv ==
    /\ QueueTypeOK /\ StartOnce
    /\ ResetF \in Waiting => registered = NoSocket /\ attempts > 0
    /\ \A s \in Sockets : CloseF(s) \in Waiting => closeCallback[s] = "detail"
    /\ \A s \in Sockets : DestroyedF(s) \in Waiting => conn[s] \in {"kDisconnected", "freed"}

\* Until startInLoop() has run the first time there was no attempt.
BeginInv ==
    /\ user = "new" => Waiting = {} /\ alive
    /\ user = "new" \/ StartF \in Waiting =>
        /\ state = "kDisconnected" /\ channel = NoSocket /\ timers = 0
        /\ connection = NoSocket /\ attempts = 0

\* An attempt has its channel in the poller; one timer at most retries, after it.
ConnectorInv ==
    /\ state = "kConnecting" <=> registered # NoSocket
    /\ registered # NoSocket => channel = registered
    /\ channel # NoSocket => registered # NoSocket \/ ResetF \in Waiting
    /\ timers \in 0..1 /\ (timers > 0 => state = "kDisconnected")
    /\ \A s \in Sockets : s > attempts \/ s = registered => conn[s] = "none"
    /\ \A s \in Sockets : conn[s] = "none" => closeCallback[s] = "client"
    /\ removing => state = "kConnected" /\ connection = NoSocket /\ alive /\ ResetF \notin Waiting

\* A connection that calls the client is its connection; who is left behind when the
\* client is gone has the timer to rely on, and nothing new to do.
ClientInv ==
    /\ \A s \in Sockets :
        conn[s] \in {"kConnected", "kDisconnecting"} /\ closeCallback[s] = "client" => connection = s
    /\ connection # NoSocket =>
        /\ state = "kConnected" /\ closeCallback[connection] = "client"
        /\ conn[connection] \in {"kConnected", "kDisconnecting"}
    /\ ~alive =>
        /\ connection = NoSocket /\ user \in {"idle", "stopped"}
        /\ {StartF, StopF, ResetF} \cap Waiting # {} => keptAlive
        /\ ~connect \/ (state = "kConnected" /\ {StartF, StopF, ResetF} \cap Waiting = {})
        /\ state = "kConnecting" => StopF \in Waiting
    /\ keptAlive => ~alive

\* Of the second that ~TcpClient() grants the Connector: with one round to come what it
\* queued has been swapped, with none it has run, and what it queued has been swapped.
RoundsInv ==
    ~alive /\ keptAlive =>
        /\ rounds <= 1 => {StartF, StopF} \cap In(functors, <<>>) = {}
        /\ rounds = 0 => /\ ResetF \notin In(functors, <<>>)
                         /\ {StartF, StopF} \cap In(<<>>, batch) = {}

IInv == TypeOK /\ QueueInv /\ BeginInv /\ ConnectorInv /\ ClientInv /\ SocketsOwned /\ AssertionsHold

-----------------------------------------------------------------------------
(* The queue.                                                              *)

LEMMA FunctorFacts ==
    /\ StartF \in Functors /\ StopF \in Functors /\ ResetF \in Functors
    /\ \A s \in Sockets : CloseF(s) \in Functors /\ DestroyedF(s) \in Functors
    /\ StartF # StopF /\ StartF # ResetF /\ StopF # ResetF
    /\ \A s : {CloseF(s), DestroyedF(s)} \cap {StartF, StopF, ResetF} = {}
    /\ \A s, t : CloseF(s) # DestroyedF(t) /\ (CloseF(s) = CloseF(t) => s = t)
                 /\ (DestroyedF(s) = DestroyedF(t) => s = t)
<1>1. \A op, p, s, t : Functor(op, s) = Functor(p, t) => op = p /\ s = t
  BY DEF Functor
<1> QED
  BY <1>1 DEF Functors, StartF, StopF, ResetF, CloseF, DestroyedF

LEMMA WhichFunctor ==
    ASSUME NEW f \in Functors
    PROVE  /\ f.op = "startInLoop" => f = StartF
           /\ f.op = "stopInLoop" => f = StopF
           /\ f.op = "resetChannel" => f = ResetF
           /\ f.op = "forceCloseInLoop" => f.socket \in Sockets /\ f = CloseF(f.socket)
           /\ f.op = "connectDestroyed" => f.socket \in Sockets /\ f = DestroyedF(f.socket)
  BY DEF Functors, StartF, StopF, ResetF, CloseF, DestroyedF, Functor

LEMMA PendingIsWaiting ==
    ASSUME QueueTypeOK
    PROVE  /\ \A f : Pending(f) <=> f \in Waiting
           /\ OwnPending <=> {StartF, StopF, ResetF} \cap Waiting # {}
<1>1. DOMAIN functors = 1..Len(functors) /\ DOMAIN batch = 1..Len(batch)
  BY DEF QueueTypeOK
<1>2. \A f : Pending(f) <=> f \in Waiting
  BY <1>1 DEF Pending, Waiting, In
<1>3. OwnFunctors = {StartF, StopF, ResetF}
  BY DEF OwnFunctors, StartF, StopF, ResetF
<1> QED
  BY <1>2, <1>3 DEF OwnPending

LEMMA Longer ==
    ASSUME NEW q \in Seq(Functors), NEW b \in Seq(Functors), NEW f \in Functors
    PROVE  /\ Append(q, f) \in Seq(Functors) /\ In(Append(q, f), b) = In(q, b) \union {f}
           /\ OneStart(q, b) /\ (f # StartF \/ StartF \notin In(q, b)) => OneStart(Append(q, f), b)
<1> DEFINE r == Append(q, f)
<1>1. /\ Len(q) \in Nat /\ r \in Seq(Functors) /\ Len(r) = Len(q) + 1 /\ r[Len(q) + 1] = f
      /\ \A i \in 1..Len(q) : i \in 1..Len(r) /\ r[i] = q[i]
      /\ \A i \in 1..Len(r) : i \in 1..Len(q) \/ i = Len(q) + 1
  OBVIOUS
<1>2. Len(q) + 1 \in 1..Len(r)
  BY <1>1
<1> HIDE DEF r
<1>3. ASSUME NEW g \in In(r, b) PROVE g \in In(q, b) \union {f}
  BY <1>1, <1>3 DEF In
<1>4. ASSUME NEW g \in In(q, b) PROVE g \in In(r, b)
  BY <1>1 DEF In
<1>5. f \in In(r, b)
  BY <1>1, <1>2 DEF In
<1>6. ASSUME OneStart(q, b), f # StartF \/ StartF \notin In(q, b) PROVE OneStart(r, b)
  BY <1>1, <1>6 DEF OneStart, In
<1> QED
  BY <1>1, <1>3, <1>4, <1>5, <1>6 DEF r

LEMMA Shorter ==
    ASSUME NEW q \in Seq(Functors), NEW b \in Seq(Functors), b # <<>>
    PROVE  /\ Tail(b) \in Seq(Functors) /\ Head(b) \in Functors \cap In(q, b)
           /\ In(q, Tail(b)) \subseteq In(q, b) /\ In(q, b) \subseteq In(q, Tail(b)) \union {Head(b)}
           /\ OneStart(q, b) => /\ OneStart(q, Tail(b))
                                /\ Head(b) = StartF => StartF \notin In(q, Tail(b))
<1> DEFINE r == Tail(b)
           h == Head(b)
<1>1. /\ Len(b) \in Nat /\ Len(b) >= 1 /\ r \in Seq(Functors) /\ Len(r) = Len(b) - 1
      /\ h = b[1] /\ 1 \in 1..Len(b) /\ b[1] \in Functors
      /\ \A i \in 1..Len(r) : i + 1 \in 1..Len(b) /\ i + 1 # 1 /\ r[i] = b[i + 1]
  OBVIOUS
<1> HIDE DEF r, h
<1>2. \A i \in 1..Len(b) : i = 1 \/ (i - 1 \in 1..Len(r) /\ r[i - 1] = b[i])
  <2> SUFFICES ASSUME NEW i \in 1..Len(b), i # 1 PROVE i - 1 \in 1..Len(r) /\ r[i - 1] = b[i]
    OBVIOUS
  <2>1. i - 1 \in 1..Len(r) /\ (i - 1) + 1 = i
    BY <1>1
  <2> QED
    BY <1>1, <2>1
<1>3. ASSUME NEW g \in In(q, r) PROVE g \in In(q, b)
  BY <1>1, <1>3 DEF In
<1>4. ASSUME NEW g \in In(q, b) PROVE g \in In(q, r) \union {h}
  <2>1. ASSUME NEW i \in 1..Len(b), g = b[i], i # 1 PROVE g \in In(q, r)
    BY <1>2, <2>1 DEF In
  <2> QED
    BY <1>1, <1>4, <2>1 DEF In
<1>5. h \in Functors \cap In(q, b)
  BY <1>1 DEF In
<1>6. OneStart(q, b) => OneStart(q, r)
  <2> HAVE OneStart(q, b)
  <2>1. ASSUME NEW i \in 1..Len(r), NEW j \in 1..Len(r), r[i] = StartF, r[j] = StartF PROVE i = j
    <3>1. i + 1 = j + 1
      BY <1>1, <2>1 DEF OneStart
    <3> QED
      BY <3>1
  <2> QED
    BY <1>1, <2>1 DEF OneStart
<1>7. ASSUME OneStart(q, b), h = StartF, StartF \in In(q, r) PROVE FALSE
  <2>1. CASE \E i \in 1..Len(q) : q[i] = StartF
    BY <1>1, <1>7, <2>1 DEF OneStart
  <2>2. ASSUME NEW i \in 1..Len(r), r[i] = StartF PROVE FALSE
    BY <1>1, <1>7, <2>2 DEF OneStart
  <2> QED
    BY <1>7, <2>1, <2>2 DEF In
<1> QED
  BY <1>1, <1>3, <1>4, <1>5, <1>6, <1>7 DEF r, h

\* The same of the loop's queue, in the three ways in which it changes.
LEMMA QueueSame ==
    ASSUME QueueTypeOK, UNCHANGED queueVars \/ SwapFunctors
    PROVE  QueueTypeOK' /\ Waiting' = Waiting /\ (StartOnce => StartOnce')
<1>1. CASE UNCHANGED queueVars
  BY <1>1 DEF QueueTypeOK, StartOnce, Waiting, queueVars
<1>2. CASE SwapFunctors
  <2>1. batch = <<>> /\ batch' = functors /\ functors' = <<>>
    BY <1>2 DEF SwapFunctors
  <2>2. 1..Len(<<>>) = {} /\ <<>> \in Seq(Functors)
    OBVIOUS
  <2> QED
    BY <2>1, <2>2 DEF QueueTypeOK, StartOnce, Waiting, In, OneStart
<1> QED
  BY <1>1, <1>2

LEMMA QueueLonger ==
    ASSUME QueueTypeOK, NEW f \in Functors, functors' = Append(functors, f), batch' = batch
    PROVE  /\ QueueTypeOK' /\ Waiting' = Waiting \union {f}
           /\ StartOnce /\ (f # StartF \/ StartF \notin Waiting) => StartOnce'
  BY Longer DEF QueueTypeOK, StartOnce, Waiting

\* The functor at the head leaves, and one that it queues, if any, is in more.
LEMMA QueueShorter ==
    ASSUME QueueTypeOK, batch # <<>>, batch' = Tail(batch), NEW more \in SUBSET (Functors \ {StartF}),
           \/ functors' = functors /\ more = {}
           \/ \E f \in Functors : functors' = Append(functors, f) /\ more = {f}
    PROVE  /\ QueueTypeOK' /\ Head(batch) \in Functors \cap Waiting
           /\ Waiting' \subseteq Waiting \union more
           /\ Waiting \union more \subseteq Waiting' \union {Head(batch)} /\ more \subseteq Waiting'
           /\ StartOnce => StartOnce' /\ (Head(batch) = StartF => StartF \notin Waiting')
<1>1. functors \in Seq(Functors) /\ batch \in Seq(Functors)
  BY DEF QueueTypeOK
<1>2. /\ batch' \in Seq(Functors) /\ Head(batch) \in Functors \cap Waiting
      /\ In(functors, batch') \subseteq Waiting /\ Waiting \subseteq In(functors, batch') \union {Head(batch)}
      /\ StartOnce => /\ OneStart(functors, batch')
                      /\ Head(batch) = StartF => StartF \notin In(functors, batch')
  BY <1>1, Shorter DEF Waiting, StartOnce
<1>3. /\ functors' \in Seq(Functors) /\ Waiting' = In(functors, batch') \union more
      /\ OneStart(functors, batch') => StartOnce'
  <2>1. CASE functors' = functors /\ more = {}
    BY <1>1, <2>1 DEF Waiting, StartOnce
  <2>2. CASE \E f \in Functors : functors' = Append(functors, f) /\ more = {f}
    <3>1. PICK f \in Functors \ {StartF} : functors' = Append(functors, f) /\ more = {f}
      BY <2>2
    <3> QED
      BY <1>1, <1>2, <3>1, Longer DEF Waiting, StartOnce
  <2> QED
    BY <2>1, <2>2
<1> QED
  BY <1>2, <1>3 DEF QueueTypeOK

LEMMA QueuePopped ==
    ASSUME QueueTypeOK, batch # <<>>, batch' = Tail(batch), functors' = functors
    PROVE  /\ QueueTypeOK' /\ Head(batch) \in Functors \cap Waiting
           /\ Waiting' \subseteq Waiting /\ Waiting \subseteq Waiting' \union {Head(batch)}
           /\ StartOnce => StartOnce' /\ (Head(batch) = StartF => StartF \notin Waiting')
<1>1. {} \in SUBSET (Functors \ {StartF})
  OBVIOUS
<1> QED
  BY <1>1, QueueShorter

-----------------------------------------------------------------------------
(* Types, which every step keeps, also after an assertion has failed.      *)

LEMMA StartTypes ==
    ASSUME ConnectorTypeOK, NEW st \in {"kDisconnected", "kConnecting", "kConnected"}, NEW w \in BOOLEAN,
           NEW left \in Nat, StartInLoop(st, w, left), connect' \in BOOLEAN
    PROVE  ConnectorTypeOK'
<1>1. /\ attempts \in 0..MaxAttempts /\ open \subseteq 1..attempts /\ NoSocket = 0
      /\ Sockets = 1..MaxAttempts /\ MaxAttempts \in Nat
  BY MaxAttemptsAssumption DEF ConnectorTypeOK, NoSocket, Sockets
<1>2. failed' \in BOOLEAN
  BY DEF StartInLoop, Asserts, ConnectorTypeOK
<1>3. CASE w
  <2>1. /\ attempts' = attempts + 1 /\ attempts' \in Sockets
        /\ InProgress(left) \/ Refused(left) \/ Hopeless(st, left)
    BY <1>1, <1>3 DEF StartInLoop
  <2>2. attempts' \in 0..MaxAttempts /\ attempts' \in 1..attempts' /\ 1..attempts \subseteq 1..attempts'
    BY <1>1, <2>1
  <2>3. CASE InProgress(left)
    BY <1>1, <1>2, <2>1, <2>2, <2>3 DEF ConnectorTypeOK, InProgress
  <2>4. CASE Refused(left) \/ Hopeless(st, left)
    <3>1. /\ state' \in {"kDisconnected", "kConnecting", "kConnected"} /\ timers' \in Nat /\ gaveUp' \in BOOLEAN
          /\ UNCHANGED <<channel, registered, open>>
      <4>1. gaveUp \in BOOLEAN /\ left + 1 \in Nat
        BY DEF ConnectorTypeOK
      <4>2. CASE Refused(left)
        BY <4>1, <4>2 DEF Refused
      <4>3. CASE Hopeless(st, left)
        BY <4>3 DEF Hopeless
      <4> QED
        BY <2>4, <4>2, <4>3
    <3> QED
      BY <1>1, <1>2, <2>2, <3>1 DEF ConnectorTypeOK
  <2> QED
    BY <2>1, <2>3, <2>4
<1>4. CASE ~w
  BY <1>2, <1>4 DEF StartInLoop, ConnectorTypeOK
<1> QED
  BY <1>3, <1>4

LEMMA ConnectorTypes ==
    ASSUME ConnectorTypeOK, connect' = connect, failed' = failed, AttemptFails \/ AttemptSucceeds \/ StopInLoop
    PROVE  ConnectorTypeOK'
<1>1. registered' \in {registered, NoSocket} /\ UNCHANGED <<channel, attempts, gaveUp>>
  BY DEF AttemptFails, AttemptSucceeds, StopInLoop, RemoveAndResetChannel
<1>2. state' \in {"kDisconnected", "kConnecting", "kConnected"} /\ open' \subseteq open /\ timers' \in Nat
  BY DEF AttemptFails, AttemptSucceeds, StopInLoop, Retry, ConnectorTypeOK
<1> QED
  BY <1>1, <1>2 DEF ConnectorTypeOK

LEMMA QueueTypes ==
    ASSUME QueueTypeOK, batch' \in {batch, Tail(batch)}, batch' = batch \/ batch # <<>>,
           functors' = functors \/ \E f \in Functors : functors' = Append(functors, f)
    PROVE  QueueTypeOK'
<1>1. batch' \in Seq(Functors)
  BY DEF QueueTypeOK
<1>2. functors' \in Seq(Functors)
  BY DEF QueueTypeOK
<1> QED
  BY <1>1, <1>2 DEF QueueTypeOK

LEMMA CloseTypes ==
    ASSUME TypeOK, NEW s \in Sockets, HandleClose(s)
    PROVE  /\ conn' \in [Sockets -> {"none", "kConnected", "kDisconnecting", "kDisconnected", "freed"}]
           /\ connection' \in Sockets \union {NoSocket} /\ removing' \in BOOLEAN /\ failed' \in BOOLEAN
           /\ functors' = Append(functors, DestroyedF(s))
<1>1. conn' = [conn EXCEPT ![s] = "kDisconnected"] /\ functors' = Append(functors, DestroyedF(s))
  BY DEF HandleClose, Queue, DestroyedF
<1>2. connection' \in Sockets \union {NoSocket} /\ removing' \in BOOLEAN /\ failed' \in BOOLEAN
  BY DEF HandleClose, Asserts, TypeOK, ConnectorTypeOK
<1> QED
  BY <1>1, <1>2 DEF TypeOK

LEMMA TypesKept ==
    ASSUME TypeOK, QueueTypeOK, [Next]_vars
    PROVE  TypeOK' /\ QueueTypeOK'
<1> USE DEF TypeOK
<1>1. CASE ConnectHere
  <2>1. ConnectorTypeOK'
    BY <1>1, StartTypes DEF ConnectHere, ConnectorTypeOK
  <2> QED
    BY <1>1, <2>1 DEF ConnectHere, QueueTypeOK, queueVars, lifeVars, connVars, historyVars
<1>2. CASE ConnectElsewhere \/ Disconnect \/ Stop \/ UserStep
  <2>1. QueueTypeOK'
    <3>1. batch' = batch /\ (functors' = functors \/ \E f \in Functors : functors' = Append(functors, f))
      BY <1>2, FunctorFacts DEF ConnectElsewhere, Disconnect, Stop, UserStep, DisconnectShutsDown, StopConnector,
         StopQueues, Queue, StartF, StopF, queueVars
    <3> QED
      BY <3>1, QueueTypes
  <2>2. CASE ConnectElsewhere
    BY <2>1, <2>2 DEF ConnectElsewhere, ConnectorTypeOK, attemptVars, lifeVars, connVars, historyVars
  <2>3. CASE Disconnect \/ Stop
    BY <2>1, <2>3 DEF Disconnect, Stop, ConnectorTypeOK, connectorVars, attemptVars, lifeVars, connVars, historyVars
  <2>4. CASE DisconnectShutsDown
    <3>1. conn' \in [Sockets -> {"none", "kConnected", "kDisconnecting", "kDisconnected", "freed"}]
      BY <2>4 DEF DisconnectShutsDown
    <3> QED
      BY <2>1, <2>4, <3>1 DEF DisconnectShutsDown, ConnectorTypeOK, connectorVars, attemptVars, lifeVars, historyVars
  <2>5. CASE StopConnector
    BY <2>1, <2>5 DEF StopConnector, ConnectorTypeOK, attemptVars, lifeVars, connVars
  <2>6. CASE StopQueues
    BY <2>1, <2>6 DEF StopQueues, ConnectorTypeOK, connectorVars, attemptVars, lifeVars, connVars, historyVars
  <2> QED
    BY <1>2, <2>2, <2>3, <2>4, <2>5, <2>6 DEF UserStep
<1>3. CASE Destroy
  <2>1. /\ batch' = batch /\ alive' = FALSE /\ connection' = NoSocket
        /\ UNCHANGED <<attemptVars, userVars, retry, removing, stalled, crossings>>
        /\ DestroyConnected \/ DestroyUnconnected
    BY <1>3 DEF Destroy
  <2>2. CASE DestroyConnected
    <3>1. /\ connection \in Sockets /\ failed' \in BOOLEAN /\ UNCHANGED <<connect, keptAlive, rounds>>
          /\ closeCallback' = [closeCallback EXCEPT ![connection] = "detail"]
          /\ \/ conn' = [conn EXCEPT ![connection] = "kDisconnecting"] /\ functors' = Append(functors, CloseF(connection))
             \/ UNCHANGED <<conn, functors>>
      BY <2>2 DEF DestroyConnected, Asserts, ConnectorTypeOK, Queue, CloseF
    <3>2. /\ closeCallback' \in [Sockets -> {"client", "detail"}]
          /\ conn' \in [Sockets -> {"none", "kConnected", "kDisconnecting", "kDisconnected", "freed"}]
      BY <3>1
    <3>3. QueueTypeOK'
      BY <2>1, <3>1, QueueTypes, FunctorFacts
    <3> QED
      BY <2>1, <3>1, <3>2, <3>3 DEF ConnectorTypeOK, attemptVars, userVars
  <2>3. CASE DestroyUnconnected
    <3>1. QueueTypeOK'
      BY <2>1, <2>3, QueueTypes, FunctorFacts DEF DestroyUnconnected, Queue, StopF
    <3>2. /\ connect' = FALSE /\ keptAlive' = TRUE /\ rounds' \in 0..2
          /\ UNCHANGED <<conn, closeCallback, failed>>
      BY <2>3 DEF DestroyUnconnected
    <3> QED
      BY <2>1, <3>1, <3>2 DEF ConnectorTypeOK, attemptVars, userVars
  <2> QED
    BY <2>1, <2>2, <2>3
<1>4. CASE Restart \/ RetryTimer \/ ReleaseConnector
  <2>1. QueueTypeOK'
    BY <1>4 DEF Restart, RetryTimer, ReleaseConnector, QueueTypeOK, queueVars
  <2>2. CASE Restart
    <3>1. StartInLoop("kDisconnected", TRUE, timers) /\ timers \in Nat /\ connect' \in BOOLEAN
      BY <2>2 DEF Restart, ConnectorTypeOK
    <3>2. ConnectorTypeOK'
      BY <3>1, StartTypes
    <3>3. crossings' \in Nat
      BY <2>2 DEF Restart
    <3> QED
      BY <2>1, <2>2, <3>2, <3>3 DEF Restart, userVars, lifeVars
  <2>3. CASE RetryTimer
    <3>1. timers - 1 \in Nat /\ connect \in BOOLEAN /\ connect' = connect
      BY <2>3 DEF RetryTimer, ConnectorTypeOK
    <3>2. ConnectorTypeOK' /\ stalled' \in BOOLEAN
      BY <2>3, <3>1, StartTypes DEF RetryTimer, ConnectorTypeOK
    <3> QED
      BY <2>1, <2>3, <3>2 DEF RetryTimer, userVars, lifeVars, connVars
  <2>4. CASE ReleaseConnector
    <3>1. ConnectorTypeOK' /\ stalled' \in BOOLEAN
      BY <2>4 DEF ReleaseConnector, Asserts, ConnectorTypeOK, attemptVars
    <3> QED
      BY <2>1, <2>4, <3>1 DEF ReleaseConnector, userVars, connVars
  <2> QED
    BY <1>4, <2>2, <2>3, <2>4
<1>5. CASE ConnectorEvent
  <2>1. /\ AttemptFails \/ AttemptSucceeds
        /\ RemoveAndResetChannel /\ batch' = batch
        /\ UNCHANGED <<connect, failed, userVars, lifeVars, closeCallback, removing, historyVars>>
        /\ UNCHANGED <<conn, connection>> \/ (NewConnection(registered) /\ registered # NoSocket)
    BY <1>5 DEF ConnectorEvent, AttemptFails, AttemptSucceeds
  <2>2. ConnectorTypeOK'
    BY <2>1, ConnectorTypes
  <2>3. QueueTypeOK'
    BY <2>1, QueueTypes, FunctorFacts DEF RemoveAndResetChannel, Queue, ResetF
  <2>4. /\ conn' \in [Sockets -> {"none", "kConnected", "kDisconnecting", "kDisconnected", "freed"}]
        /\ connection' \in Sockets \union {NoSocket}
    BY <2>1 DEF NewConnection, ConnectorTypeOK
  <2> QED
    BY <2>1, <2>2, <2>3, <2>4 DEF userVars, lifeVars, historyVars
<1>6. ASSUME NEW s \in Sockets, PeerCloses(s) PROVE TypeOK' /\ QueueTypeOK'
  <2>1. /\ HandleClose(s) /\ batch' = batch
        /\ UNCHANGED <<connect, attemptVars, userVars, lifeVars, closeCallback, historyVars>>
    BY <1>6 DEF PeerCloses
  <2>2. QueueTypeOK'
    BY <2>1, CloseTypes, QueueTypes, FunctorFacts
  <2> QED
    BY <2>1, <2>2, CloseTypes DEF ConnectorTypeOK, attemptVars, userVars, lifeVars, historyVars
<1>7. CASE SwapFunctors \/ UNCHANGED vars
  <2>1. QueueTypeOK'
    BY <1>7, QueueSame DEF vars
  <2>2. rounds' \in 0..2
    BY <1>7 DEF SwapFunctors, vars, historyVars
  <2> QED
    BY <1>7, <2>1, <2>2 DEF SwapFunctors, vars, ConnectorTypeOK, connectorVars, attemptVars, userVars, lifeVars,
       connVars, historyVars
<1>8. CASE RunFunctor
  <2> DEFINE f == Head(batch)
  <2>1. /\ batch # <<>> /\ batch' = Tail(batch) /\ f \in Functors
        /\ UNCHANGED <<connect, userVars, lifeVars, historyVars>>
    BY <1>8, Shorter DEF RunFunctor, QueueTypeOK
  <2>2. CASE f.op = "startInLoop"
    <3>1. ConnectorTypeOK' /\ UNCHANGED <<functors, connVars>>
      BY <1>8, <2>1, <2>2, StartTypes DEF RunFunctor, ConnectorTypeOK
    <3> QED
      BY <2>1, <3>1, QueueTypes DEF connVars, userVars, lifeVars, historyVars
  <2>3. CASE f.op = "stopInLoop"
    <3>1. StopInLoop /\ UNCHANGED <<failed, connVars>>
      BY <1>8, <2>3 DEF RunFunctor
    <3>2. ConnectorTypeOK'
      BY <2>1, <3>1, ConnectorTypes
    <3>3. functors' = functors \/ \E g \in Functors : functors' = Append(functors, g)
      BY <3>1, FunctorFacts DEF StopInLoop, RemoveAndResetChannel, Queue, ResetF
    <3> QED
      BY <2>1, <3>1, <3>2, <3>3, QueueTypes DEF connVars, userVars, lifeVars, historyVars
  <2>4. CASE f.op = "resetChannel"
    <3>1. ResetChannel /\ UNCHANGED <<functors, connVars>>
      BY <1>8, <2>4 DEF RunFunctor
    <3>2. ConnectorTypeOK'
      BY <2>1, <3>1 DEF ResetChannel, Asserts, ConnectorTypeOK
    <3> QED
      BY <2>1, <3>1, <3>2, QueueTypes DEF connVars, userVars, lifeVars, historyVars
  <2>5. CASE f.op = "forceCloseInLoop"
    <3>1. f.socket \in Sockets
      BY <2>1, <2>5, WhichFunctor
    <3>2. /\ HandleClose(f.socket) \/ UNCHANGED <<functors, failed, connection, conn, removing>>
          /\ UNCHANGED <<attemptVars, closeCallback>>
      BY <1>8, <2>5 DEF RunFunctor
    <3>3. CASE HandleClose(f.socket)
      BY <2>1, <3>1, <3>2, <3>3, CloseTypes, QueueTypes, FunctorFacts
      DEF ConnectorTypeOK, attemptVars, userVars, lifeVars, historyVars
    <3>4. CASE UNCHANGED <<functors, failed, connection, conn, removing>>
      BY <2>1, <3>2, <3>4, QueueTypes DEF ConnectorTypeOK, attemptVars, userVars, lifeVars, historyVars
    <3> QED
      BY <3>2, <3>3, <3>4
  <2>6. CASE f.op = "connectDestroyed"
    <3>1. ConnectDestroyed(f.socket) /\ UNCHANGED <<functors, failed, connection, closeCallback, removing>>
      BY <1>8, <2>6 DEF RunFunctor
    <3>2. /\ open' \subseteq open /\ UNCHANGED <<state, channel, registered, attempts, timers, gaveUp>>
          /\ conn' \in [Sockets -> {"none", "kConnected", "kDisconnecting", "kDisconnected", "freed"}]
      BY <3>1 DEF ConnectDestroyed
    <3> QED
      BY <2>1, <3>1, <3>2, QueueTypes DEF ConnectorTypeOK, userVars, lifeVars, historyVars
  <2> QED
    BY <1>8, <2>2, <2>3, <2>4, <2>5, <2>6 DEF RunFunctor
<1> QED
  BY <1>1, <1>2, <1>3, <1>4, <1>5, <1>6, <1>7, <1>8 DEF Next, UserStep, FunctorStep

-----------------------------------------------------------------------------
(* The attempts.                                                           *)

\* startInLoop() for a Connector that has no channel: an attempt is in progress with a
\* new socket, or there is none.
LEMMA Started ==
    ASSUME IInv, NEW w \in BOOLEAN, StartInLoop("kDisconnected", w, 0), channel = NoSocket
    PROVE  /\ state' \in {"kDisconnected", "kConnecting"} /\ (~w => state' = "kDisconnected")
           /\ state' = "kConnecting" <=> registered' # NoSocket
           /\ channel' = registered' /\ registered' \in Sockets \union {NoSocket}
           /\ attempts' \in 0..MaxAttempts /\ attempts' >= attempts
           /\ registered' # NoSocket => registered' = attempts' /\ attempts' > attempts
           /\ open' = open \union (IF state' = "kConnecting" THEN {registered'} ELSE {})
           /\ open' \subseteq 1..attempts'
           /\ timers' \in 0..1 /\ (timers' > 0 => state' = "kDisconnected")
           /\ gaveUp' \in BOOLEAN /\ failed' = FALSE
<1>1. /\ registered = NoSocket /\ attempts \in 0..MaxAttempts /\ open \subseteq 1..attempts
      /\ gaveUp \in BOOLEAN /\ failed = FALSE /\ NoSocket = 0
      /\ MaxAttempts \in Nat /\ MaxAttempts >= 1
  BY MaxAttemptsAssumption DEF IInv, TypeOK, ConnectorTypeOK, ConnectorInv, AssertionsHold, NoSocket
<1>2. CASE ~w
  <2>1. /\ failed' = (failed \/ ~("kDisconnected" = "kDisconnected"))
        /\ state' = "kDisconnected" /\ timers' = 0
        /\ UNCHANGED <<channel, registered, attempts, open, gaveUp>>
    BY <1>2 DEF StartInLoop, Asserts
  <2> QED
    BY <1>1, <1>2, <2>1
<1>3. CASE w
  <2>1. /\ attempts' = attempts + 1 /\ attempts' \in Sockets
        /\ InProgress(0) \/ Refused(0) \/ Hopeless("kDisconnected", 0)
    BY <1>1, <1>3 DEF StartInLoop, Sockets
  <2>a. failed' = FALSE
    <3>1. failed' = (failed \/ ~("kDisconnected" = "kDisconnected" /\ (channel' # channel => channel = NoSocket)))
      BY <1>3 DEF StartInLoop, Asserts
    <3> QED
      BY <1>1, <3>1
  <2>2. CASE InProgress(0)
    BY <2>a, <1>1, <1>3, <2>1, <2>2 DEF InProgress, Sockets
  <2>3. CASE Refused(0)
    BY <2>a, <1>1, <1>3, <2>1, <2>3 DEF Refused
  <2>4. CASE Hopeless("kDisconnected", 0)
    BY <2>a, <1>1, <1>3, <2>1, <2>4 DEF Hopeless
  <2> QED
    BY <2>1, <2>2, <2>3, <2>4
<1> QED
  BY <1>2, <1>3

\* A caller of startInLoop() that has no connection, and none of the functors that
\* would disturb the attempt, keeps the invariant.
LEMMA StartKeepsIInv ==
    ASSUME IInv, TypeOK', NEW w \in BOOLEAN, StartInLoop("kDisconnected", w, 0), channel = NoSocket,
           connection = NoSocket, UNCHANGED <<connection, conn, closeCallback, lifeVars>>,
           QueueTypeOK', StartOnce', Waiting' \subseteq Waiting,
           \A f \in Waiting : f # StartF => f \in Waiting', StartF \notin Waiting', ResetF \notin Waiting,
           removing' = FALSE, user' \in {"idle", user}, user' # "new",
           ~alive => ~w /\ connect' = connect /\ state = "kDisconnected"
    PROVE  IInv'
<1>1. /\ state' \in {"kDisconnected", "kConnecting"} /\ (~w => state' = "kDisconnected")
      /\ state' = "kConnecting" <=> registered' # NoSocket
      /\ channel' = registered' /\ registered' \in Sockets \union {NoSocket}
      /\ attempts' \in 0..MaxAttempts /\ attempts' >= attempts
      /\ registered' # NoSocket => registered' = attempts' /\ attempts' > attempts
      /\ open' = open \union (IF state' = "kConnecting" THEN {registered'} ELSE {})
      /\ open' \subseteq 1..attempts'
      /\ timers' \in 0..1 /\ (timers' > 0 => state' = "kDisconnected")
      /\ gaveUp' \in BOOLEAN /\ failed' = FALSE
  BY Started
<1>2. /\ TypeOK /\ QueueInv /\ BeginInv /\ ConnectorInv /\ ClientInv /\ SocketsOwned
      /\ attempts \in Nat /\ registered = NoSocket /\ Sockets = 1..MaxAttempts
  BY DEF IInv, TypeOK, ConnectorTypeOK, ConnectorInv, Sockets
<1>4. QueueInv'
  BY <1>1, <1>2, FunctorFacts DEF QueueInv
<1>5. BeginInv'
  BY DEF BeginInv
<1>6. ConnectorInv'
  BY <1>1, <1>2 DEF ConnectorInv, BeginInv
<1>7. ClientInv'
  BY <1>1, <1>2, FunctorFacts DEF ClientInv, lifeVars
<1>8. SocketsOwned'
  BY <1>1, <1>2 DEF SocketsOwned, ConnectorInv
<1> QED
  BY <1>1, <1>4, <1>5, <1>6, <1>7, <1>8 DEF IInv, AssertionsHold

\* The callers of startInLoop().
LEMMA ConnectHereKeeps ==
    ASSUME IInv, TypeOK', CarefulOwner, ConnectHere
    PROVE  IInv'
<1>1. /\ user = "new" /\ state = "kDisconnected" /\ timers = 0 /\ channel = NoSocket
      /\ connection = NoSocket /\ Waiting = {} /\ alive /\ removing = FALSE
  BY DEF ConnectHere, MayConnect, IInv, BeginInv, TypeOK
<1>2. QueueTypeOK' /\ StartOnce' /\ Waiting' = Waiting
  BY QueueSame DEF ConnectHere, IInv, QueueInv
<1>3. StartInLoop("kDisconnected", TRUE, 0)
  BY <1>1 DEF ConnectHere
<1> QED
  BY <1>1, <1>2, <1>3, StartKeepsIInv DEF ConnectHere, connVars

\* A timer that comes before resetChannel() and begins no attempt changes little; one
\* that begins an attempt has come too early.
LEMMA RetryTimerKeeps ==
    ASSUME IInv, TypeOK', RetryTimer, ~stalled'
    PROVE  IInv'
<1>1. QueueTypeOK' /\ StartOnce' /\ Waiting' = Waiting
  BY QueueSame DEF RetryTimer, IInv, QueueInv
<1>2. /\ state = "kDisconnected" /\ timers = 1 /\ registered = NoSocket /\ connection = NoSocket
      /\ StartF \notin Waiting /\ user # "new" /\ removing = FALSE
  BY DEF RetryTimer, IInv, TypeOK, ConnectorInv, ClientInv, BeginInv
<1>3. /\ StartInLoop("kDisconnected", connect, 0)
      /\ UNCHANGED <<connect, userVars, lifeVars, connVars>>
  BY <1>2 DEF RetryTimer
<1>a. ResetF \in Waiting => state' # "kConnecting"
  <2>1. Pending(ResetF) <=> ResetF \in Waiting
    BY PendingIsWaiting DEF IInv, QueueInv
  <2> QED
    BY <2>1 DEF RetryTimer, ResetF
<1>4. connect \in BOOLEAN /\ (~alive => ~connect)
  BY <1>2 DEF IInv, TypeOK, ConnectorTypeOK, ClientInv
<1>5. CASE ResetF \notin Waiting
  <2>1. channel = NoSocket
    BY <1>2, <1>5 DEF IInv, ConnectorInv
  <2> QED
    BY <1>1, <1>2, <1>3, <1>4, <1>5, <2>1, StartKeepsIInv DEF connVars, userVars
<1>6. CASE ResetF \in Waiting
  <2>1. /\ state' = "kDisconnected" /\ timers' \in 0..1 /\ attempts' >= attempts
        /\ UNCHANGED <<channel, registered, open>> /\ failed' = FALSE
    <3>1. attempts \in Nat /\ failed = FALSE
      BY DEF IInv, TypeOK, ConnectorTypeOK, AssertionsHold
    <3>2. CASE connect
      <4>1. /\ attempts' = attempts + 1 /\ (Refused(0) \/ Hopeless("kDisconnected", 0))
            /\ failed' = (failed \/ ~("kDisconnected" = "kDisconnected" /\ (channel' # channel => channel = NoSocket)))
        BY <1>3, <1>a, <1>6, <3>2 DEF StartInLoop, InProgress, Asserts
      <4>2. /\ state' = "kDisconnected" /\ timers' \in 0..1 /\ UNCHANGED <<channel, registered, open>>
        BY <4>1 DEF Refused, Hopeless
      <4>3. failed' = FALSE
        BY <3>1, <4>1, <4>2
      <4>4. attempts' >= attempts
        <5>1. attempts' = attempts + 1
          BY <4>1
        <5> QED
          BY <3>1, <5>1
      <4> QED
        BY <4>2, <4>3, <4>4
    <3>3. CASE ~connect
      <4>1. /\ failed' = (failed \/ ~("kDisconnected" = "kDisconnected"))
            /\ state' = "kDisconnected" /\ timers' = 0
            /\ UNCHANGED <<channel, registered, attempts, open, gaveUp>>
        BY <1>3, <3>3 DEF StartInLoop, Asserts
      <4>2. failed' = FALSE
        BY <3>1, <4>1
      <4>3. attempts' >= attempts /\ timers' \in 0..1
        BY <3>1, <4>1
      <4> QED
        BY <4>1, <4>2, <4>3
    <3> QED
      BY <3>2, <3>3
  <2>2. attempts \in Nat /\ attempts' \in Nat /\ NoSocket \notin Sockets /\ Sockets \subseteq Nat
    BY DEF IInv, TypeOK, ConnectorTypeOK, Sockets, NoSocket
  <2>3. QueueInv' /\ BeginInv' /\ AssertionsHold'
    BY <1>1, <1>2, <1>3, <2>1, <2>2 DEF IInv, QueueInv, BeginInv, AssertionsHold, userVars, connVars
  <2>4. ConnectorInv' /\ ClientInv'
    BY <1>1, <1>2, <1>3, <2>1, <2>2 DEF IInv, ConnectorInv, ClientInv, userVars, lifeVars, connVars
  <2>5. SocketsOwned'
    BY <1>2, <1>3, <2>1 DEF IInv, SocketsOwned, connVars
  <2> QED
    BY <2>3, <2>4, <2>5 DEF IInv
<1> QED
  BY <1>5, <1>6

LEMMA RestartKeeps ==
    ASSUME IInv, TypeOK', Restart
    PROVE  IInv'
<1>1. QueueTypeOK' /\ StartOnce' /\ Waiting' = Waiting
  BY QueueSame DEF Restart, IInv, QueueInv
<1>2. /\ state = "kConnected" /\ connection = NoSocket /\ alive /\ ResetF \notin Waiting
      /\ channel = NoSocket /\ timers = 0 /\ StartF \notin Waiting /\ user # "new"
  BY DEF Restart, IInv, ConnectorInv, BeginInv
<1>3. StartInLoop("kDisconnected", TRUE, 0) /\ wanted \in BOOLEAN
  BY <1>2 DEF Restart, IInv, TypeOK
<1> QED
  BY <1>1, <1>2, <1>3, StartKeepsIInv DEF Restart, userVars

LEMMA StartFunctorKeeps ==
    ASSUME IInv, TypeOK', RunFunctor, Head(batch).op = "startInLoop"
    PROVE  IInv'
<1>1. /\ QueueTypeOK' /\ StartOnce' /\ Waiting' \subseteq Waiting /\ Head(batch) \in Functors \cap Waiting
      /\ Waiting \subseteq Waiting' \union {Head(batch)}
      /\ Head(batch) = StartF => StartF \notin Waiting'
  <2>1. batch # <<>> /\ batch' = Tail(batch) /\ functors' = functors
    BY DEF RunFunctor
  <2> QED
    BY <2>1, QueuePopped DEF IInv, QueueInv
<1>2. Head(batch) = StartF
  BY <1>1, WhichFunctor
<1>3. /\ state = "kDisconnected" /\ timers = 0 /\ channel = NoSocket /\ connection = NoSocket
      /\ user # "new" /\ ResetF \notin Waiting
  BY <1>1, <1>2 DEF IInv, BeginInv, QueueInv
<1>4. /\ StartInLoop("kDisconnected", connect, 0)
      /\ connect \in BOOLEAN /\ removing = FALSE /\ (~alive => ~connect)
  BY <1>3 DEF RunFunctor, IInv, TypeOK, ConnectorTypeOK, ClientInv
<1> QED
  BY <1>1, <1>2, <1>3, <1>4, StartKeepsIInv DEF RunFunctor, connVars, userVars
-----------------------------------------------------------------------------
(* The owner.                                                              *)

LEMMA UserKeeps ==
    ASSUME IInv, TypeOK', CarefulOwner,
           ConnectElsewhere \/ Disconnect \/ Stop \/ DisconnectShutsDown \/ StopConnector \/ StopQueues
    PROVE  IInv'
<1> USE DEF IInv
<1>1. CASE ConnectElsewhere
  <2>1. /\ user = "new" /\ user' = "idle" /\ wanted' = TRUE /\ connect' = TRUE /\ alive
        /\ UNCHANGED <<attemptVars, failed, lifeVars, connVars>>
        /\ functors' = Append(functors, StartF) /\ batch' = batch
    BY <1>1 DEF ConnectElsewhere, MayConnect, Queue, StartF
  <2>2. Waiting = {} /\ QueueTypeOK' /\ StartOnce' /\ Waiting' = {StartF}
    BY <2>1, QueueLonger, FunctorFacts DEF QueueInv, BeginInv
  <2> QED
    BY <2>1, <2>2, FunctorFacts DEF TypeOK, ConnectorTypeOK, QueueInv, BeginInv, ConnectorInv, ClientInv,
         SocketsOwned, AssertionsHold, attemptVars, lifeVars, connVars
<1>2. CASE Disconnect \/ Stop \/ StopConnector
  <2>1. /\ alive /\ user # "new"
        /\ user' \in {"disconnect", "stop", "stopConnector"} /\ wanted' \in BOOLEAN /\ connect' \in BOOLEAN
        /\ UNCHANGED <<attemptVars, failed, queueVars, lifeVars, connVars>>
    BY <1>2 DEF Disconnect, Stop, StopConnector, TypeOK, ConnectorTypeOK, connectorVars, ClientInv
  <2>2. QueueTypeOK' /\ StartOnce' /\ Waiting' = Waiting
    BY <2>1, QueueSame DEF QueueInv
  <2> QED
    BY <2>1, <2>2 DEF TypeOK, ConnectorTypeOK, QueueInv, BeginInv, ConnectorInv, ClientInv,
         SocketsOwned, AssertionsHold, attemptVars, lifeVars, connVars
<1>3. CASE StopQueues
  <2>1. /\ alive /\ user = "stopConnector" /\ user' = "stopped"
        /\ UNCHANGED <<wanted, connectorVars, lifeVars, connVars>>
        /\ functors' = Append(functors, StopF) /\ batch' = batch
    BY <1>3 DEF StopQueues, Queue, StopF, ClientInv
  <2>2. QueueTypeOK' /\ StartOnce' /\ Waiting' = Waiting \union {StopF}
    BY <2>1, QueueLonger, FunctorFacts DEF QueueInv
  <2> QED
    BY <2>1, <2>2, FunctorFacts DEF TypeOK, ConnectorTypeOK, QueueInv, BeginInv, ConnectorInv, ClientInv,
         SocketsOwned, AssertionsHold, attemptVars, lifeVars, connVars, connectorVars
<1>4. CASE DisconnectShutsDown
  <2>1. /\ alive /\ user = "disconnect" /\ user' = "idle"
        /\ UNCHANGED <<wanted, connectorVars, queueVars, lifeVars, connection, closeCallback, removing>>
        /\ conn' \in [Sockets -> {"none", "kConnected", "kDisconnecting", "kDisconnected", "freed"}]
        /\ \A s \in Sockets : conn'[s] = conn[s] \/ (conn[s] = "kConnected" /\ conn'[s] = "kDisconnecting")
    BY <1>4 DEF DisconnectShutsDown, ClientInv, TypeOK
  <2>2. QueueTypeOK' /\ StartOnce' /\ Waiting' = Waiting
    BY <2>1, QueueSame DEF QueueInv
  <2>3. BeginInv' /\ AssertionsHold'
    BY <2>1, <2>2 DEF BeginInv, AssertionsHold, attemptVars, lifeVars, connectorVars
  <2>4. QueueInv' /\ ConnectorInv' /\ ClientInv'
    BY <2>1, <2>2 DEF TypeOK, QueueInv, ConnectorInv, ClientInv, attemptVars, lifeVars, connectorVars
  <2>5. SocketsOwned'
    BY <2>1 DEF SocketsOwned, attemptVars, connectorVars
  <2> QED
    BY <2>3, <2>4, <2>5
<1> QED
  BY <1>1, <1>2, <1>3, <1>4

LEMMA DestroyKeeps ==
    ASSUME IInv, TypeOK', CarefulOwner, Destroy
    PROVE  IInv'
<1> USE DEF IInv
<1>1. /\ alive /\ removing = FALSE /\ user \in {"idle", "stopped"}
      /\ keptAlive = FALSE /\ alive' = FALSE /\ connection' = NoSocket /\ batch' = batch
      /\ UNCHANGED <<attemptVars, userVars, retry, removing>>
  BY DEF Destroy, ClientInv, TypeOK
<1>2. CASE DestroyConnected
  <2>0. {StartF, StopF, ResetF} \cap Waiting = {}
    BY <1>2, PendingIsWaiting DEF Destroy, DestroyConnected, QueueInv
  <2>1. /\ connection \in Sockets /\ state = "kConnected" /\ conn[connection] \in {"kConnected", "kDisconnecting"}
        /\ timers = 0 /\ channel = NoSocket
    BY <1>1, <1>2, <2>0 DEF DestroyConnected, ClientInv, ConnectorInv, TypeOK, NoSocket
  <2>2. /\ closeCallback' = [closeCallback EXCEPT ![connection] = "detail"]
        /\ UNCHANGED <<connect, keptAlive>> /\ failed' = FALSE
    BY <1>2, <2>1 DEF DestroyConnected, Asserts, AssertionsHold
  <2>3. /\ conn' \in [Sockets -> {"none", "kConnected", "kDisconnecting", "kDisconnected", "freed"}]
        /\ \A s \in Sockets : conn'[s] = conn[s] \/ (s = connection /\ conn'[s] = "kDisconnecting")
        /\ closeCallback' \in [Sockets -> {"client", "detail"}]
        /\ \A s \in Sockets : closeCallback'[s] = IF s = connection THEN "detail" ELSE closeCallback[s]
    BY <1>2, <2>1, <2>2 DEF DestroyConnected, TypeOK
  <2>4. /\ QueueTypeOK' /\ StartOnce'
        /\ \A f \in Waiting' : f \in Waiting \/ f = CloseF(connection)
        /\ Waiting \subseteq Waiting'
    <3>1. CASE functors' = functors
      BY <1>1, <3>1, QueueSame DEF QueueInv, queueVars
    <3>2. CASE functors' = Append(functors, CloseF(connection))
      BY <1>1, <2>0, <2>1, <3>2, QueueLonger, FunctorFacts DEF QueueInv
    <3> QED
      BY <1>2, <3>1, <3>2 DEF DestroyConnected, Queue, CloseF
  <2>5. {StartF, StopF, ResetF} \cap Waiting' = {}
    BY <2>0, <2>4, FunctorFacts
  <2>6. BeginInv' /\ AssertionsHold'
    BY <1>1, <2>2, <2>5 DEF BeginInv, AssertionsHold, attemptVars, userVars
  <2>7. QueueInv'
    BY <1>1, <2>1, <2>3, <2>4, <2>5, FunctorFacts DEF QueueInv
  <2>8. ConnectorInv' /\ ClientInv'
    BY <1>1, <2>1, <2>2, <2>3, <2>5 DEF ConnectorInv, ClientInv, attemptVars, userVars
  <2>9. SocketsOwned'
    BY <1>1, <2>1, <2>3 DEF SocketsOwned, attemptVars
  <2> QED
    BY <2>6, <2>7, <2>8, <2>9
<1>3. CASE DestroyUnconnected
  <2>1. /\ connection = NoSocket /\ connect' = FALSE /\ keptAlive' = TRUE
        /\ UNCHANGED <<conn, closeCallback, failed>>
        /\ functors' = Append(functors, StopF)
    BY <1>3 DEF DestroyUnconnected, Queue, StopF
  <2>2. QueueTypeOK' /\ StartOnce' /\ Waiting' = Waiting \union {StopF}
    BY <1>1, <2>1, QueueLonger, FunctorFacts DEF QueueInv
  <2> QED
    BY <1>1, <2>1, <2>2, FunctorFacts DEF TypeOK, ConnectorTypeOK, QueueInv, BeginInv, ConnectorInv, ClientInv,
         SocketsOwned, AssertionsHold, attemptVars, userVars
<1> QED
  BY <1>2, <1>3 DEF Destroy

LEMMA ReleaseKeeps ==
    ASSUME IInv, RoundsInv, TypeOK', ReleaseConnector, ~stalled'
    PROVE  IInv'
<1> USE DEF IInv
<1>0. /\ keptAlive /\ ~alive /\ batch = <<>> /\ (OwnPending => rounds = 0)
  <2>1. keptAlive /\ ~alive /\ batch = <<>> /\ (OwnPending => ~(rounds > 0)) /\ rounds \in 0..2
    BY DEF ReleaseConnector, ClientInv, TypeOK
  <2> QED
    BY <2>1
<1>b. In(functors, batch) = In(functors, <<>>)
  BY <1>0
<1>1. /\ keptAlive' = FALSE /\ {StartF, StopF, ResetF} \cap Waiting = {}
      /\ UNCHANGED <<connect, attemptVars, queueVars, userVars, alive, retry, connVars>>
  BY <1>0, <1>b, PendingIsWaiting DEF ReleaseConnector, QueueInv, RoundsInv, Waiting
<1>2. channel = NoSocket
  BY <1>0, <1>1 DEF ConnectorInv, ClientInv
<1>3. failed' = FALSE
  BY <1>2 DEF ReleaseConnector, Asserts, AssertionsHold
<1>4. QueueTypeOK' /\ StartOnce' /\ Waiting' = Waiting
  BY <1>1, QueueSame DEF QueueInv
<1> QED
  BY <1>0, <1>1, <1>3, <1>4 DEF TypeOK, ConnectorTypeOK, QueueInv, BeginInv, ConnectorInv, ClientInv,
       SocketsOwned, AssertionsHold, attemptVars, userVars, connVars

-----------------------------------------------------------------------------
(* The loop.                                                               *)

LEMMA EventKeeps ==
    ASSUME IInv, TypeOK', ConnectorEvent
    PROVE  IInv'
<1> USE DEF IInv
<1>1. /\ state = "kConnecting" /\ registered \in Sockets /\ channel = registered /\ timers = 0 /\ ~removing
      /\ connection = NoSocket /\ conn[registered] = "none" /\ closeCallback[registered] = "client"
      /\ registered <= attempts /\ attempts \in Nat /\ attempts > 0 /\ NoSocket \notin Sockets
      /\ registered' = NoSocket /\ batch' = batch /\ functors' = Append(functors, ResetF)
      /\ UNCHANGED <<connect, failed, channel, attempts, gaveUp, userVars, lifeVars, closeCallback, removing>>
  <2>1. /\ state = "kConnecting" /\ registered # NoSocket /\ ~removing /\ RemoveAndResetChannel
        /\ UNCHANGED <<connect, failed, channel, attempts, gaveUp, userVars, lifeVars, closeCallback, removing, batch>>
    BY DEF ConnectorEvent, Polling, AttemptFails, AttemptSucceeds
  <2>2. registered \in open /\ open \subseteq 1..attempts /\ attempts \in 0..MaxAttempts
    BY <2>1 DEF SocketsOwned, TypeOK, ConnectorTypeOK
  <2> QED
    BY <2>1, <2>2 DEF RemoveAndResetChannel, Queue, ResetF, ConnectorInv, ClientInv, TypeOK,
         ConnectorTypeOK, Sockets, NoSocket
<1>2. QueueTypeOK' /\ StartOnce' /\ Waiting' = Waiting \union {ResetF}
  BY <1>1, QueueLonger, FunctorFacts DEF QueueInv
<1>3. StartF \notin Waiting' /\ user # "new"
  BY <1>1, <1>2, FunctorFacts DEF BeginInv
<1>4. ~alive => StopF \in Waiting /\ keptAlive /\ ~connect
  BY <1>1 DEF ClientInv
<1>5. CASE AttemptFails /\ UNCHANGED <<conn, connection>>
  <2>1. /\ UNCHANGED <<conn, connection>> /\ open' = open \ {registered} /\ state' = "kDisconnected"
        /\ timers' \in 0..1
    BY <1>1, <1>5 DEF AttemptFails, Retry
  <2>3. QueueInv' /\ BeginInv' /\ AssertionsHold'
    BY <1>1, <1>2, <1>3, <2>1, FunctorFacts DEF QueueInv, BeginInv, AssertionsHold, userVars
  <2>4. ConnectorInv' /\ ClientInv'
    BY <1>1, <1>2, <1>4, <2>1, FunctorFacts DEF ConnectorInv, ClientInv, userVars, lifeVars
  <2>5. SocketsOwned'
    BY <1>1, <2>1 DEF SocketsOwned
  <2> QED
    BY <2>3, <2>4, <2>5
<1>6. CASE AttemptSucceeds /\ ~connect /\ UNCHANGED <<conn, connection>>
  <2>1. UNCHANGED <<conn, connection, timers>> /\ open' = open \ {registered} /\ state' = "kConnected"
    BY <1>1, <1>6 DEF AttemptSucceeds
  <2>2. QueueInv' /\ BeginInv' /\ AssertionsHold'
    BY <1>1, <1>2, <1>3, <2>1, FunctorFacts
       DEF QueueInv, BeginInv, AssertionsHold, userVars, lifeVars
  <2>3. ConnectorInv' /\ ClientInv'
    BY <1>1, <1>2, <1>4, <2>1, FunctorFacts DEF ConnectorInv, ClientInv, userVars, lifeVars
  <2>4. SocketsOwned'
    BY <1>1, <2>1 DEF SocketsOwned
  <2> QED
    BY <2>2, <2>3, <2>4
<1>7. CASE AttemptSucceeds /\ connect /\ NewConnection(registered)
  <2>1. /\ UNCHANGED <<timers, open>> /\ state' = "kConnected" /\ connection' = registered
        /\ conn' \in [Sockets -> {"none", "kConnected", "kDisconnecting", "kDisconnected", "freed"}]
        /\ \A s \in Sockets : conn'[s] = IF s = registered THEN "kConnected" ELSE conn[s]
    BY <1>1, <1>7 DEF AttemptSucceeds, NewConnection, TypeOK
  <2>2. BeginInv' /\ AssertionsHold'
    BY <1>1, <1>2, <1>3, <2>1, FunctorFacts
       DEF BeginInv, AssertionsHold, userVars, lifeVars
  <2>3. QueueInv'
    BY <1>1, <1>2, <2>1, FunctorFacts DEF QueueInv
  <2>4. ConnectorInv' /\ ClientInv'
    BY <1>1, <1>2, <1>4, <1>7, <2>1, FunctorFacts DEF ConnectorInv, ClientInv, userVars, lifeVars, NoSocket, Sockets
  <2>5. SocketsOwned'
    BY <1>1, <2>1 DEF SocketsOwned
  <2> QED
    BY <2>2, <2>3, <2>4, <2>5
<1> QED
  BY <1>5, <1>6, <1>7 DEF ConnectorEvent

\* handleClose() of an open connection, which queues one functor in any case.
LEMMA CloseKeeps ==
    ASSUME IInv, TypeOK', NEW s \in Sockets, conn[s] \in {"kConnected", "kDisconnecting"}, ~removing, HandleClose(s),
           UNCHANGED <<connect, attemptVars, userVars, lifeVars, closeCallback>>,
           QueueTypeOK', StartOnce', Waiting' \subseteq Waiting \union {DestroyedF(s)},
           \A f \in {StartF, StopF, ResetF} : f \in Waiting => f \in Waiting',
           closeCallback[s] = "client" => ResetF \notin Waiting
    PROVE  IInv'
<1> USE DEF IInv
<1>1. /\ connection' = IF closeCallback[s] = "client" THEN NoSocket ELSE connection
      /\ failed' = FALSE /\ removing' \in BOOLEAN /\ (removing' => closeCallback[s] = "client")
      /\ closeCallback[s] = "client" => connection = s
      /\ NoSocket \notin Sockets
  <2>1. CASE closeCallback[s] = "client"
    BY <2>1 DEF HandleClose, Asserts, AssertionsHold, ClientInv, TypeOK, Sockets, NoSocket
  <2>2. CASE closeCallback[s] # "client"
    BY <2>2 DEF HandleClose, AssertionsHold, TypeOK, Sockets, NoSocket
  <2> QED
    BY <2>1, <2>2
<1>2. /\ conn' \in [Sockets -> {"none", "kConnected", "kDisconnecting", "kDisconnected", "freed"}]
      /\ \A t \in Sockets : conn'[t] = IF t = s THEN "kDisconnected" ELSE conn[t]
  BY DEF HandleClose, TypeOK
<1>3. AssertionsHold'
  BY <1>1 DEF AssertionsHold
<1>4. QueueInv'
  BY <1>1, <1>2, FunctorFacts DEF QueueInv, attemptVars
<1>5. \A f \in {StartF, StopF, ResetF} : f \in Waiting' <=> f \in Waiting
  BY FunctorFacts
<1>6. BeginInv'
  <2>1. user # "new"
    BY DEF BeginInv, ConnectorInv, TypeOK, ConnectorTypeOK, Sockets
  <2>2. StartF \notin Waiting
    BY DEF BeginInv, ConnectorInv, Sockets
  <2> QED
    BY <1>5, <2>1, <2>2 DEF BeginInv, userVars
<1>7. ConnectorInv'
  BY <1>1, <1>2, <1>5 DEF ConnectorInv, ClientInv, attemptVars, lifeVars
<1>8. ClientInv'
  <2>1. connection \in Sockets \union {NoSocket}
    BY DEF TypeOK
  <2> QED
    BY <1>1, <1>2, <1>5, <2>1 DEF ClientInv, attemptVars, lifeVars, userVars
<1>9. SocketsOwned'
  BY <1>2 DEF SocketsOwned, attemptVars
<1> QED
  BY <1>3, <1>4, <1>6, <1>7, <1>8, <1>9

LEMMA PeerClosesKeeps ==
    ASSUME IInv, TypeOK', NEW s \in Sockets, PeerCloses(s)
    PROVE  IInv'
<1>1. QueueTypeOK /\ StartOnce /\ ResetF \notin Waiting /\ DestroyedF(s) \in Functors
  BY PendingIsWaiting, FunctorFacts DEF PeerCloses, Polling, ResetF, IInv, QueueInv
<1>2. /\ conn[s] \in {"kConnected", "kDisconnecting"} /\ ~removing /\ HandleClose(s) /\ batch' = batch
      /\ functors' = Append(functors, DestroyedF(s))
      /\ UNCHANGED <<connect, attemptVars, userVars, lifeVars, closeCallback>>
  BY DEF PeerCloses, Polling, HandleClose, Queue, DestroyedF
<1>3. QueueTypeOK' /\ StartOnce' /\ Waiting' = Waiting \union {DestroyedF(s)}
  BY <1>1, <1>2, QueueLonger, FunctorFacts
<1> QED
  BY <1>1, <1>2, <1>3, CloseKeeps

LEMMA SwapKeeps ==
    ASSUME IInv, TypeOK', SwapFunctors \/ UNCHANGED vars
    PROVE  IInv'
<1>1. QueueTypeOK' /\ StartOnce' /\ Waiting' = Waiting
  BY QueueSame DEF IInv, QueueInv, vars
<1>2. UNCHANGED <<connectorVars, userVars, lifeVars, connVars>>
  BY DEF SwapFunctors, vars
<1> QED
  BY <1>1, <1>2 DEF IInv, TypeOK, ConnectorTypeOK, QueueInv, BeginInv, ConnectorInv, ClientInv,
     SocketsOwned, AssertionsHold, connectorVars, attemptVars, userVars, lifeVars, connVars

\* The other functors of the Connector.
LEMMA StopFunctorKeeps ==
    ASSUME IInv, TypeOK', RunFunctor, Head(batch).op = "stopInLoop"
    PROVE  IInv'
<1> USE DEF IInv
<1>1. /\ ~removing /\ batch # <<>> /\ batch' = Tail(batch) /\ StopInLoop
      /\ UNCHANGED <<failed, connVars, connect, userVars, lifeVars>>
  BY DEF RunFunctor
<1>2. CASE state = "kConnecting"
  <2>1. /\ registered \in Sockets /\ channel = registered /\ timers = 0 /\ connection = NoSocket
        /\ conn[registered] = "none" /\ attempts \in Nat /\ attempts > 0 /\ NoSocket \notin Sockets
        /\ registered' = NoSocket /\ functors' = Append(functors, ResetF)
        /\ open' = open \ {registered} /\ state' = "kDisconnected" /\ timers' \in 0..1
        /\ UNCHANGED <<channel, attempts, gaveUp>>
    <3>1. RemoveAndResetChannel /\ Retry(channel) /\ UNCHANGED <<channel, attempts, gaveUp>>
      BY <1>1, <1>2 DEF StopInLoop
    <3>2. registered \in open /\ open \subseteq 1..attempts /\ attempts \in 0..MaxAttempts
      BY <1>2 DEF SocketsOwned, TypeOK, ConnectorTypeOK
    <3> QED
      BY <1>2, <3>1, <3>2 DEF RemoveAndResetChannel, Retry, Queue, ResetF, ConnectorInv, ClientInv, TypeOK,
         ConnectorTypeOK, Sockets, NoSocket
  <2>2. /\ QueueTypeOK' /\ StartOnce' /\ Waiting' \subseteq Waiting \union {ResetF}
        /\ ResetF \in Waiting' /\ Head(batch) \in Functors \cap Waiting
    <3>1. {ResetF} \in SUBSET (Functors \ {StartF})
      BY FunctorFacts
    <3> QED
      BY <1>1, <2>1, <3>1, QueueShorter DEF QueueInv
  <2>3. StopF \in Waiting
    BY <2>2, WhichFunctor
  <2>4. StartF \notin Waiting' /\ user # "new"
    BY <1>2, <2>2, FunctorFacts DEF BeginInv
  <2>5. ~alive => keptAlive /\ ~connect
    BY <1>2, <2>3 DEF ClientInv
  <2>7. QueueInv' /\ BeginInv' /\ AssertionsHold'
    BY <1>1, <2>1, <2>2, <2>4, FunctorFacts DEF QueueInv, BeginInv, AssertionsHold, connVars, userVars
  <2>8. ConnectorInv' /\ ClientInv'
    BY <1>1, <2>1, <2>2, <2>5 DEF ConnectorInv, ClientInv, connVars, userVars, lifeVars
  <2>9. SocketsOwned'
    BY <1>1, <1>2, <2>1 DEF SocketsOwned, connVars
  <2> QED
    BY <2>7, <2>8, <2>9
<1>3. CASE state # "kConnecting"
  <2>1. UNCHANGED <<attemptVars, functors>>
    BY <1>1, <1>3 DEF StopInLoop, attemptVars
  <2>2. /\ QueueTypeOK' /\ StartOnce' /\ Head(batch) \in Functors \cap Waiting
        /\ Waiting' \subseteq Waiting /\ Waiting \subseteq Waiting' \union {Head(batch)}
    BY <1>1, <2>1, QueuePopped DEF QueueInv
  <2>3. Head(batch) = StopF
    BY <2>2, WhichFunctor
  <2> QED
    BY <1>1, <1>3, <2>1, <2>2, <2>3, FunctorFacts DEF TypeOK, ConnectorTypeOK, QueueInv, BeginInv, ConnectorInv,
       ClientInv, SocketsOwned, AssertionsHold, attemptVars, connVars, userVars, lifeVars
<1> QED
  BY <1>2, <1>3

LEMMA ResetFunctorKeeps ==
    ASSUME IInv, TypeOK', RunFunctor, Head(batch).op = "resetChannel"
    PROVE  IInv'
<1> USE DEF IInv
<1>1. /\ ~removing /\ batch # <<>> /\ batch' = Tail(batch) /\ ResetChannel
      /\ UNCHANGED <<functors, connVars, connect, userVars, lifeVars>>
  BY DEF RunFunctor
<1>2. /\ QueueTypeOK' /\ StartOnce' /\ Head(batch) \in Functors \cap Waiting
      /\ Waiting' \subseteq Waiting /\ Waiting \subseteq Waiting' \union {Head(batch)}
  BY <1>1, QueuePopped DEF QueueInv
<1>3. Head(batch) = ResetF
  BY <1>2, WhichFunctor
<1>4. /\ registered = NoSocket /\ channel' = NoSocket /\ failed' = FALSE
      /\ UNCHANGED <<state, registered, attempts, open, timers, gaveUp>>
  BY <1>1, <1>2, <1>3 DEF ResetChannel, Asserts, AssertionsHold, QueueInv
<1> QED
  BY <1>1, <1>2, <1>3, <1>4, FunctorFacts DEF TypeOK, ConnectorTypeOK, QueueInv, BeginInv, ConnectorInv,
     ClientInv, SocketsOwned, AssertionsHold, connVars, userVars, lifeVars

\* The functors of a connection.
LEMMA CloseFunctorKeeps ==
    ASSUME IInv, TypeOK', RunFunctor, Head(batch).op = "forceCloseInLoop"
    PROVE  IInv'
<1> USE DEF IInv
<1> DEFINE s == Head(batch).socket
<1>1. /\ ~removing /\ batch # <<>> /\ batch' = Tail(batch)
      /\ UNCHANGED <<connect, attemptVars, userVars, lifeVars, closeCallback>>
      /\ IF conn[s] \in {"kConnected", "kDisconnecting"}
         THEN HandleClose(s)
         ELSE UNCHANGED <<functors, failed, connection, conn, removing>>
  BY DEF RunFunctor
<1>2. CASE conn[s] \in {"kConnected", "kDisconnecting"}
  <2>1. HandleClose(s)
    BY <1>1, <1>2
  <2>2. functors' = Append(functors, DestroyedF(s))
    BY <2>1 DEF HandleClose, Queue, DestroyedF
  <2>3. Head(batch) \in Functors \cap Waiting
    BY <1>1, Shorter DEF QueueInv, QueueTypeOK, Waiting
  <2>4. s \in Sockets /\ Head(batch) = CloseF(s)
    BY <2>3, WhichFunctor
  <2> HIDE DEF s
  <2>5. {DestroyedF(s)} \in SUBSET (Functors \ {StartF}) /\ DestroyedF(s) \in Functors
    BY <2>4, FunctorFacts
  <2>6. /\ QueueTypeOK' /\ StartOnce' /\ Waiting' \subseteq Waiting \union {DestroyedF(s)}
        /\ Waiting \subseteq Waiting' \union {Head(batch)}
    BY <1>1, <2>2, <2>5, QueueShorter DEF QueueInv
  <2>7. \A f \in {StartF, StopF, ResetF} : f \in Waiting => f \in Waiting'
    BY <2>4, <2>6, FunctorFacts
  <2>8. closeCallback[s] # "client"
    BY <2>3, <2>4 DEF QueueInv
  <2> QED
    BY <1>1, <1>2, <2>1, <2>4, <2>6, <2>7, <2>8, CloseKeeps
<1>3. CASE conn[s] \notin {"kConnected", "kDisconnecting"}
  <2>1. UNCHANGED <<functors, failed, connection, conn, removing>>
    BY <1>1, <1>3
  <2>2. /\ QueueTypeOK' /\ StartOnce' /\ Head(batch) \in Functors \cap Waiting
        /\ Waiting' \subseteq Waiting /\ Waiting \subseteq Waiting' \union {Head(batch)}
    BY <1>1, <2>1, QueuePopped DEF QueueInv
  <2>3. s \in Sockets /\ Head(batch) = CloseF(s)
    BY <2>2, WhichFunctor
  <2> HIDE DEF s
  <2>4. \A f \in {StartF, StopF, ResetF} : f \in Waiting' <=> f \in Waiting
    BY <2>2, <2>3, FunctorFacts
  <2> QED
    BY <1>1, <2>1, <2>2, <2>4 DEF TypeOK, ConnectorTypeOK, QueueInv, BeginInv, ConnectorInv,
       ClientInv, SocketsOwned, AssertionsHold, attemptVars, userVars, lifeVars
<1> QED
  BY <1>2, <1>3

LEMMA DestroyedFunctorKeeps ==
    ASSUME IInv, TypeOK', RunFunctor, Head(batch).op = "connectDestroyed"
    PROVE  IInv'
<1> USE DEF IInv
<1> DEFINE s == Head(batch).socket
<1>1. /\ ~removing /\ batch # <<>> /\ batch' = Tail(batch) /\ ConnectDestroyed(s)
      /\ UNCHANGED <<functors, failed, connection, closeCallback, removing, connect, userVars, lifeVars>>
  BY DEF RunFunctor
<1>2. /\ QueueTypeOK' /\ StartOnce' /\ Head(batch) \in Functors \cap Waiting
      /\ Waiting' \subseteq Waiting /\ Waiting \subseteq Waiting' \union {Head(batch)}
  BY <1>1, QueuePopped DEF QueueInv
<1>3. s \in Sockets /\ Head(batch) = DestroyedF(s)
  BY <1>2, WhichFunctor
<1> HIDE DEF s
<1>4. conn[s] \in {"kDisconnected", "freed"}
  BY <1>2, <1>3 DEF QueueInv
<1>5. /\ conn' \in [Sockets -> {"none", "kConnected", "kDisconnecting", "kDisconnected", "freed"}]
      /\ \A t \in Sockets : conn'[t] = IF t = s THEN "freed" ELSE conn[t]
      /\ open' = open \ {s}
      /\ UNCHANGED <<state, channel, registered, attempts, timers, gaveUp>>
  BY <1>1, <1>3 DEF ConnectDestroyed, TypeOK
<1>6. \A f \in {StartF, StopF, ResetF} : f \in Waiting' <=> f \in Waiting
  BY <1>2, <1>3, FunctorFacts
<1>7. BeginInv' /\ AssertionsHold'
  BY <1>1, <1>2, <1>5, <1>6 DEF BeginInv, AssertionsHold, userVars, lifeVars
<1>8. QueueInv'
  BY <1>1, <1>2, <1>4, <1>5 DEF QueueInv
<1>9. ConnectorInv' /\ ClientInv'
  BY <1>1, <1>4, <1>5, <1>6 DEF ConnectorInv, ClientInv, TypeOK, userVars, lifeVars
<1>10. SocketsOwned'
  BY <1>3, <1>4, <1>5 DEF SocketsOwned, ConnectorInv
<1> QED
  BY <1>7, <1>8, <1>9, <1>10

-----------------------------------------------------------------------------
(* The theorems.                                                           *)

LEMMA InitIInv ==
    ASSUME Init
    PROVE  IInv
<1>1. functors = <<>> /\ batch = <<>> /\ 1..0 = {} /\ Len(<<>>) = 0 /\ <<>> \in Seq(Functors)
  BY DEF Init, ConnectorInit
<1>2. QueueTypeOK /\ StartOnce /\ Waiting = {}
  BY <1>1 DEF QueueTypeOK, StartOnce, OneStart, Waiting, In
<1>3. /\ NoSocket = 0 /\ NoSocket \notin Sockets /\ 0 \in 0..MaxAttempts /\ Sockets = 1..MaxAttempts
      /\ 0 \in Nat /\ 0 \in 0..2
  BY MaxAttemptsAssumption DEF NoSocket, Sockets
<1>4. TypeOK
  BY <1>3 DEF Init, ConnectorInit, TypeOK, ConnectorTypeOK
<1>5. QueueInv /\ BeginInv /\ ConnectorInv /\ ClientInv
  BY <1>2, <1>3 DEF Init, ConnectorInit, QueueInv, BeginInv, ConnectorInv, ClientInv
<1>6. SocketsOwned /\ AssertionsHold
  BY DEF Init, ConnectorInit, SocketsOwned, AssertionsHold
<1> QED
  BY <1>4, <1>5, <1>6 DEF IInv

LEMMA StepIInv ==
    ASSUME IInv, RoundsInv, TypeOK', CarefulOwner, [Next]_vars, ~stalled'
    PROVE  IInv'
<1>1. CASE RunFunctor
  <2>1. Head(batch).op \in {"startInLoop", "stopInLoop", "resetChannel", "forceCloseInLoop", "connectDestroyed"}
    BY <1>1 DEF RunFunctor
  <2> QED
    BY <1>1, <2>1, StartFunctorKeeps, StopFunctorKeeps, ResetFunctorKeeps, CloseFunctorKeeps, DestroyedFunctorKeeps
<1> QED
  BY <1>1, ConnectHereKeeps, UserKeeps, DestroyKeeps, RestartKeeps, SwapKeeps, EventKeeps, RetryTimerKeeps,
     ReleaseKeeps, PeerClosesKeeps
  DEF Next, UserStep, FunctorStep

-----------------------------------------------------------------------------
(* The second of ~TcpClient().                                             *)

\* A step after the destructor that queues nothing for the Connector, and does not swap.
LEMMA RoundsStep ==
    ASSUME RoundsInv, QueueTypeOK, ~alive, keptAlive, rounds' = rounds,
           batch' = batch \/ (batch # <<>> /\ batch' = Tail(batch)),
           functors' = functors \/ \E s \in Sockets : functors' = Append(functors, DestroyedF(s))
    PROVE  RoundsInv'
<1>1. functors \in Seq(Functors) /\ batch \in Seq(Functors) /\ <<>> \in Seq(Functors)
  BY DEF QueueTypeOK
<1>2. {StartF, StopF, ResetF} \cap In(functors', <<>>) \subseteq In(functors, <<>>)
  <2>1. ASSUME NEW s \in Sockets, functors' = Append(functors, DestroyedF(s))
        PROVE  In(functors', <<>>) = In(functors, <<>>) \union {DestroyedF(s)}
    <3>1. DestroyedF(s) \in Functors
      BY FunctorFacts
    <3>2. \A b \in Seq(Functors) : In(functors', b) = In(functors, b) \union {DestroyedF(s)}
      BY <1>1, <2>1, <3>1, Longer
    <3> QED
      BY <1>1, <3>2
  <2>2. \A s \in Sockets : DestroyedF(s) \notin {StartF, StopF, ResetF}
    BY FunctorFacts
  <2> QED
    BY <2>1, <2>2
<1>3. In(<<>>, batch') \subseteq In(<<>>, batch)
  BY <1>1, Shorter
<1> QED
  BY <1>2, <1>3 DEF RoundsInv

LEMMA RoundsKept ==
    ASSUME IInv, RoundsInv, TypeOK', [Next]_vars, ~stalled'
    PROVE  RoundsInv'
<1>1. /\ functors \in Seq(Functors) /\ batch \in Seq(Functors) /\ <<>> \in Seq(Functors) /\ QueueTypeOK
      /\ rounds \in 0..2 /\ (keptAlive => ~alive)
  BY DEF IInv, QueueInv, QueueTypeOK, TypeOK, ClientInv
<1>2. In(<<>>, <<>>) = {}
  BY DEF In
<1>3. CASE Destroy
  <2>1. ~keptAlive' \/ rounds' = 2
    BY <1>1, <1>3 DEF Destroy, DestroyConnected, DestroyUnconnected, TypeOK
  <2> QED
    BY <2>1 DEF RoundsInv
<1>4. CASE SwapFunctors
  <2>1. /\ batch = <<>> /\ batch' = functors /\ functors' = <<>> /\ UNCHANGED lifeVars
        /\ rounds' = IF rounds > 0 THEN rounds - 1 ELSE 0
    BY <1>4 DEF SwapFunctors
  <2>2. In(<<>>, batch') = In(functors, <<>>) /\ In(functors', <<>>) = {}
    BY <1>2, <2>1 DEF In
  <2>3. rounds' = 0 => rounds <= 1
    BY <1>1, <2>1
  <2> QED
    BY <2>1, <2>2, <2>3 DEF RoundsInv, lifeVars
<1>5. CASE ~alive /\ keptAlive /\ (RunFunctor \/ ConnectorEvent \/ \E s \in Sockets : PeerCloses(s))
  <2>1. rounds' = rounds /\ UNCHANGED <<alive, keptAlive>>
    BY <1>5 DEF RunFunctor, ConnectorEvent, PeerCloses, historyVars, lifeVars
  <2>2. CASE ConnectorEvent
    <3>1. /\ state = "kConnecting" /\ batch = <<>> /\ batch' = batch /\ functors' = Append(functors, ResetF)
      BY <2>2 DEF ConnectorEvent, Polling, AttemptFails, AttemptSucceeds, RemoveAndResetChannel, Queue, ResetF
    <3>2. StopF \in In(functors, <<>>)
      BY <1>5, <3>1 DEF IInv, ClientInv, Waiting
    <3>3. ~(rounds <= 1)
      BY <1>5, <3>2 DEF RoundsInv
    <3> QED
      BY <1>1, <2>1, <3>3 DEF RoundsInv
  <2>3. ASSUME NEW s \in Sockets, PeerCloses(s) PROVE RoundsInv'
    <3>1. batch' = batch /\ functors' = Append(functors, DestroyedF(s))
      BY <2>3 DEF PeerCloses, HandleClose, Queue, DestroyedF
    <3> QED
      BY <1>1, <1>5, <2>1, <3>1, RoundsStep
  <2>4. CASE RunFunctor
    <3> DEFINE f == Head(batch)
    <3>1. batch # <<>> /\ batch' = Tail(batch) /\ f \in Functors
      BY <1>1, <2>4, Shorter DEF RunFunctor
    <3>2. CASE f.op = "stopInLoop"
      <4>1. functors' = functors \/ functors' = Append(functors, ResetF)
        BY <2>4, <3>2 DEF RunFunctor, StopInLoop, RemoveAndResetChannel, Queue, ResetF
      <4>2. StopF \in In(<<>>, batch)
        <5>1. f = StopF /\ f \in In(<<>>, batch)
          BY <1>1, <3>1, <3>2, Shorter, WhichFunctor
        <5> QED
          BY <5>1
      <4>3. rounds # 0
        BY <1>5, <4>2 DEF RoundsInv
      <4>4. {StartF, StopF} \cap In(functors', <<>>) \subseteq In(functors, <<>>)
        <5>1. ResetF \in Functors
          BY FunctorFacts
        <5>2. In(Append(functors, ResetF), <<>>) = In(functors, <<>>) \union {ResetF}
          <6>1. \A b \in Seq(Functors) : In(Append(functors, ResetF), b) = In(functors, b) \union {ResetF}
            BY <1>1, <5>1, Longer
          <6> QED
            BY <1>1, <6>1
        <5> QED
          BY <4>1, <5>2, FunctorFacts
      <4> QED
        BY <1>5, <2>1, <4>3, <4>4 DEF RoundsInv
    <3>3. CASE f.op # "stopInLoop"
      <4>1. functors' = functors \/ \E s \in Sockets : functors' = Append(functors, DestroyedF(s))
        <5>1. CASE f.op = "forceCloseInLoop"
          <6>1. f.socket \in Sockets
            BY <3>1, <5>1, WhichFunctor
          <6>2. functors' = functors \/ functors' = Append(functors, DestroyedF(f.socket))
            BY <2>4, <5>1 DEF RunFunctor, HandleClose, Queue, DestroyedF
          <6> QED
            BY <6>1, <6>2
        <5> QED
          BY <2>4, <3>3, <5>1 DEF RunFunctor
      <4> QED
        BY <1>1, <1>5, <2>1, <3>1, <4>1, RoundsStep
    <3> QED
      BY <3>2, <3>3
  <2> QED
    BY <1>5, <2>2, <2>3, <2>4
<1>6. CASE alive /\ ~Destroy
  <2>1. alive'
    BY <1>6 DEF Next, ConnectHere, ConnectElsewhere, Disconnect, Stop, UserStep, DisconnectShutsDown, StopConnector,
       StopQueues, FunctorStep, Restart, SwapFunctors, RunFunctor, ConnectorEvent, RetryTimer, ReleaseConnector,
       PeerCloses, lifeVars, vars
  <2> QED
    BY <2>1 DEF RoundsInv
<1>7. CASE ~alive /\ ~keptAlive
  <2>1. keptAlive' = keptAlive
    BY <1>7 DEF Next, ConnectHere, MayConnect, ConnectElsewhere, Disconnect, Stop, UserStep, DisconnectShutsDown,
       StopConnector, StopQueues, FunctorStep, Restart, SwapFunctors, RunFunctor, ConnectorEvent, RetryTimer,
       ReleaseConnector, PeerCloses, Destroy, lifeVars, vars
  <2> QED
    BY <1>7, <2>1 DEF RoundsInv
<1>8. CASE ~alive /\ keptAlive /\ (ReleaseConnector \/ RetryTimer \/ UNCHANGED vars)
  BY <1>8 DEF ReleaseConnector, RetryTimer, vars, queueVars, lifeVars, historyVars, RoundsInv
<1>9. ASSUME ~alive PROVE ~(ConnectHere \/ ConnectElsewhere \/ Disconnect \/ Stop \/ Destroy \/ UserStep \/ Restart)
  BY <1>9 DEF ConnectHere, MayConnect, ConnectElsewhere, Disconnect, Stop, Destroy, UserStep, DisconnectShutsDown,
     StopConnector, StopQueues, Restart, IInv, ClientInv, ConnectorInv
<1> QED
  BY <1>3, <1>4, <1>5, <1>6, <1>7, <1>8, <1>9 DEF Next, FunctorStep

\* With an owner who connects once, and destroys a client that has a connection when no
\* functor of its Connector is queued, the invariant of the whole holds of any number of
\* attempts until a timer comes too early for the loop; the types hold then, too.
Inductive == TypeOK /\ QueueTypeOK /\ (stalled \/ (IInv /\ RoundsInv))

LEMMA Invariant == CarefulOwner => (Spec => []Inductive)
<1> SUFFICES ASSUME CarefulOwner PROVE Spec => []Inductive
  OBVIOUS
<1>1. Init => Inductive
  BY InitIInv DEF Init, IInv, QueueInv, RoundsInv, Inductive
<1>2. Inductive /\ [Next]_vars => Inductive'
  <2> SUFFICES ASSUME Inductive, [Next]_vars PROVE Inductive'
    OBVIOUS
  <2>1. TypeOK' /\ QueueTypeOK'
    BY TypesKept DEF Inductive
  <2>2. stalled => stalled'
    BY DEF Next, ConnectHere, ConnectElsewhere, Disconnect, Stop, UserStep, DisconnectShutsDown, StopConnector,
       StopQueues, FunctorStep, Restart, SwapFunctors, RunFunctor, ConnectorEvent, RetryTimer, ReleaseConnector,
       PeerCloses, Destroy, historyVars, vars
  <2> QED
    BY <2>1, <2>2, StepIInv, RoundsKept DEF Inductive
<1> QED
  BY <1>1, <1>2, PTL DEF Spec

\* Under an owner who connects once, and destroys a client that has a connection with none
\* of the Connector's functors queued: no assertion of Connector.cpp and TcpClient.cpp fails
\* and no functor, channel or connection calls an object that is gone, however closing,
\* restarting, stop(), disconnect() and ~TcpClient() interleave, until the loop stalls for
\* the delay of a timer.  The second for which ~TcpClient() keeps the Connector suffices
\* if the loop goes round twice in it: once for stopInLoop() and all that was queued, once
\* for the resetChannel() that these queue.
THEOREM PointersAreGood == CarefulOwner => (Spec => []PointersGood)
<1>1. Inductive => PointersGood
  <2> SUFFICES ASSUME IInv PROVE CallbacksTargetAlive
    BY DEF Inductive, IInv, PointersGood
  <2>1. OwnPending <=> {StartF, StopF, ResetF} \cap Waiting # {}
    BY PendingIsWaiting DEF IInv, QueueInv
  <2>2. ~alive /\ registered # NoSocket => StopF \in Waiting /\ keptAlive
    BY DEF IInv, ClientInv, ConnectorInv
  <2>3. ~alive => \A s \in Sockets : conn[s] \in {"kConnected", "kDisconnecting"} => closeCallback[s] = "detail"
    BY DEF IInv, TypeOK, ClientInv, NoSocket, Sockets
  <2>4. OwnPending \/ registered # NoSocket => ConnectorAlive
    BY <2>1, <2>2 DEF ConnectorAlive, IInv, ClientInv
  <2> QED
    BY <2>3, <2>4 DEF CallbacksTargetAlive, IInv, ClientInv, ConnectorInv
<1> QED
  BY <1>1, Invariant, PTL

\* Under the same owner and loop: every socket that is open is the attempt's or a
\* connection's, and while the client has a connection its Connector neither tries another
\* nor has a timer that would, through any number of reconnections.
THEOREM ConnectsOnce == CarefulOwner => (Spec => []OneConnection)
<1>1. Inductive => OneConnection
  BY DEF Inductive, IInv, OneConnection, OneAtATime, ClientInv, ConnectorInv
<1> QED
  BY <1>1, Invariant, PTL

-----------------------------------------------------------------------------
(* stop(), whatever the owner does before and after it.                    *)

\* One restart() at most crosses stop(), and until it does connect_ stays cleared.
Crossed ==
    /\ user \in {"stop", "stopConnector", "stopped"} => ~wanted
    /\ user \in {"stopConnector", "stopped"} =>
        /\ crossings + (IF removing THEN 1 ELSE 0) <= 1
        /\ crossings = 0 => ~connect

StopWaits ==
    user = "stopped" /\ crossings = 0 /\ StopF \notin Waiting => state # "kConnecting"

StopInv == TypeOK /\ QueueTypeOK /\ Crossed /\ StopWaits

LEMMA CrossedKept ==
    ASSUME TypeOK, Crossed, [Next]_vars
    PROVE  Crossed'
<1> USE DEF TypeOK
<1>1. CASE ConnectHere \/ ConnectElsewhere \/ Disconnect \/ DisconnectShutsDown \/ Stop
  <2>1. user' \in {"idle", "disconnect"} \/ (user' = "stop" /\ ~wanted')
    BY <1>1 DEF ConnectHere, ConnectElsewhere, Disconnect, DisconnectShutsDown, Stop
  <2> QED
    BY <2>1 DEF Crossed
<1>2. CASE StopConnector
  BY <1>2 DEF StopConnector, Crossed, connVars
<1>3. CASE StopQueues
  BY <1>3 DEF StopQueues, Crossed, connectorVars, connVars, historyVars
<1>4. CASE Destroy
  BY <1>4 DEF Destroy, DestroyConnected, DestroyUnconnected, userVars, Crossed
<1>5. CASE Restart
  BY <1>5 DEF Restart, userVars, Crossed
<1>6. ASSUME NEW s, HandleClose(s) PROVE ~wanted => ~removing' \/ removing' = removing
  BY <1>6 DEF HandleClose
<1>7. CASE RetryTimer \/ ReleaseConnector \/ ConnectorEvent \/ SwapFunctors \/ UNCHANGED vars \/ RunFunctor
           \/ \E s \in Sockets : PeerCloses(s)
  <2>1. UNCHANGED <<connect, user, wanted, crossings>>
    BY <1>7 DEF RetryTimer, ReleaseConnector, ConnectorEvent, SwapFunctors, RunFunctor, PeerCloses, vars, connectorVars,
       userVars, historyVars
  <2>2. ~wanted => ~removing' \/ removing' = removing
    BY <1>6, <1>7 DEF RetryTimer, ReleaseConnector, ConnectorEvent, SwapFunctors, RunFunctor, PeerCloses, vars, connVars
  <2> QED
    BY <2>1, <2>2 DEF Crossed
<1> QED
  BY <1>1, <1>2, <1>3, <1>4, <1>5, <1>7 DEF Next, UserStep, FunctorStep

\* startInLoop() begins an attempt only if connect_ is set.
LEMMA StartedWanted ==
    ASSUME NEW st, NEW left, StartInLoop(st, FALSE, left)
    PROVE  state' = st
  BY DEF StartInLoop

LEMMA NotWanted ==
    ASSUME TypeOK, [Next]_vars, ~connect, ~connect'
    PROVE  state' = state \/ state' # "kConnecting"
<1>0. connect = FALSE
  BY DEF TypeOK, ConnectorTypeOK
<1>1. CASE RetryTimer
  BY <1>0, <1>1, StartedWanted DEF RetryTimer
<1>2. CASE RunFunctor
  <2>1. CASE Head(batch).op = "startInLoop"
    BY <1>0, <1>2, <2>1, StartedWanted DEF RunFunctor
  <2>2. CASE Head(batch).op # "startInLoop"
    BY <1>2, <2>2 DEF RunFunctor, StopInLoop, Retry, ResetChannel, ConnectDestroyed, attemptVars
  <2> QED
    BY <2>1, <2>2
<1>3. CASE ~RetryTimer /\ ~RunFunctor
  BY <1>3 DEF Next, ConnectHere, ConnectElsewhere, Disconnect, Stop, UserStep, DisconnectShutsDown, StopConnector,
     StopQueues, FunctorStep, Restart, SwapFunctors, ConnectorEvent, AttemptFails, AttemptSucceeds, Retry,
     ReleaseConnector, PeerCloses, Destroy, connectorVars, attemptVars, vars
<1> QED
  BY <1>1, <1>2, <1>3

\* Only stopInLoop() itself takes stopInLoop() from the queue.
LEMMA StopFKept ==
    ASSUME TypeOK, QueueTypeOK, [Next]_vars, StopF \in Waiting
    PROVE  StopF \in Waiting' \/ state' # "kConnecting"
<1>1. CASE SwapFunctors \/ UNCHANGED queueVars
  BY <1>1, QueueSame
<1>2. ASSUME batch' = batch, NEW f \in Functors, functors' = Append(functors, f) PROVE StopF \in Waiting'
  BY <1>2, QueueLonger
<1>3. CASE ConnectElsewhere \/ StopQueues \/ Destroy \/ ConnectorEvent \/ \E s \in Sockets : PeerCloses(s)
  <2>1. batch' = batch /\ (functors' = functors \/ \E f \in Functors : functors' = Append(functors, f))
    <3>1. CASE ConnectElsewhere \/ StopQueues \/ ConnectorEvent
      BY <3>1, FunctorFacts DEF ConnectElsewhere, StopQueues, ConnectorEvent, AttemptFails, AttemptSucceeds,
         RemoveAndResetChannel, Queue, StartF, StopF, ResetF
    <3>2. CASE Destroy
      <4>1. batch' = batch /\ (DestroyConnected \/ DestroyUnconnected)
        BY <3>2 DEF Destroy
      <4>2. CASE DestroyUnconnected
        BY <4>1, <4>2, FunctorFacts DEF DestroyUnconnected, Queue, StopF
      <4>3. CASE DestroyConnected
        <5>1. connection \in Sockets
          BY <4>3 DEF DestroyConnected, TypeOK
        <5> QED
          BY <4>1, <4>3, <5>1, FunctorFacts DEF DestroyConnected, Queue, CloseF
      <4> QED
        BY <4>1, <4>2, <4>3
    <3>3. ASSUME NEW s \in Sockets, PeerCloses(s) PROVE batch' = batch /\ functors' = Append(functors, DestroyedF(s))
      BY <3>3 DEF PeerCloses, HandleClose, Queue, DestroyedF
    <3> QED
      BY <1>3, <3>1, <3>2, <3>3, FunctorFacts
  <2> QED
    BY <1>1, <1>2, <2>1 DEF queueVars
<1>4. CASE RunFunctor
  <2> DEFINE f == Head(batch)
  <2>1. batch # <<>> /\ batch' = Tail(batch) /\ f \in Functors
    BY <1>4, Shorter DEF RunFunctor, QueueTypeOK
  <2>2. CASE f.op = "stopInLoop"
    BY <1>4, <2>2 DEF RunFunctor, StopInLoop, Retry
  <2>3. CASE f.op # "stopInLoop"
    <3>1. f # StopF
      BY <2>3 DEF StopF, Functor
    <3>2. CASE functors' = functors
      BY <2>1, <3>1, <3>2, QueuePopped
    <3>3. CASE functors' = Append(functors, DestroyedF(f.socket)) /\ f.op = "forceCloseInLoop"
      <4>1. {DestroyedF(f.socket)} \in SUBSET (Functors \ {StartF}) /\ DestroyedF(f.socket) \in Functors
        <5>1. f.socket \in Sockets
          BY <2>1, <3>3, WhichFunctor
        <5> QED
          BY <5>1, FunctorFacts
      <4> QED
        BY <2>1, <3>1, <3>3, <4>1, QueueShorter
    <3> QED
      BY <1>4, <2>3, <3>2, <3>3 DEF RunFunctor, HandleClose, Queue, DestroyedF
  <2> QED
    BY <2>2, <2>3
<1>5. CASE ConnectHere \/ Disconnect \/ Stop \/ DisconnectShutsDown \/ StopConnector \/ ReleaseConnector \/ RetryTimer
           \/ Restart \/ UNCHANGED vars
  <2>1. UNCHANGED queueVars
    BY <1>5 DEF ConnectHere, Disconnect, Stop, DisconnectShutsDown, StopConnector, ReleaseConnector, RetryTimer, Restart,
       vars
  <2> QED
    BY <1>1, <2>1
<1> QED
  BY <1>1, <1>3, <1>4, <1>5 DEF Next, UserStep, FunctorStep

LEMMA StopWaitsKept ==
    ASSUME StopInv, [Next]_vars, QueueTypeOK', Crossed'
    PROVE  StopWaits'
<1> SUFFICES ASSUME user' = "stopped", crossings' = 0, StopF \notin Waiting' PROVE state' # "kConnecting"
  BY DEF StopWaits
<1>1. CASE StopQueues
  BY <1>1, QueueLonger, FunctorFacts DEF StopQueues, Queue, StopF, StopInv
<1>2. CASE ~StopQueues
  <2>a. ~Restart
    <3>1. crossings \in Nat /\ crossings + 1 # 0
      BY DEF StopInv, TypeOK
    <3>2. Restart => user = "stopped" /\ crossings' = crossings + 1
      BY DEF Restart, userVars
    <3> QED
      BY <3>1, <3>2
  <2>1. user = "stopped" /\ crossings = 0
    BY <1>2, <2>a DEF Next, ConnectHere, ConnectElsewhere, Disconnect, Stop, UserStep, DisconnectShutsDown, StopConnector,
       FunctorStep, SwapFunctors, RunFunctor, ConnectorEvent, RetryTimer, ReleaseConnector, PeerCloses, Destroy,
       userVars, historyVars, vars
  <2>2. ~connect /\ ~connect'
    BY <2>1 DEF StopInv, Crossed
  <2>3. StopF \notin Waiting => state # "kConnecting"
    BY <2>1 DEF StopInv, StopWaits
  <2> QED
    BY <2>2, <2>3, NotWanted, StopFKept DEF StopInv
<1> QED
  BY <1>1, <1>2

\* Of every owner and every loop: when stop() has taken effect no attempt is under way and
\* connect_ stays cleared: stopInLoop() ends the attempt that it finds, and every
\* startInLoop() that runs later, be it a retry's or the owner's, reads connect_.  One
\* restart() at most that had begun before undoes this.
THEOREM StopIsFinal == Spec => []StopEnds
<1>1. Init => StopInv
  <2> SUFFICES ASSUME Init PROVE StopInv
    OBVIOUS
  <2>1. IInv /\ user = "new"
    BY InitIInv DEF Init
  <2> QED
    BY <2>1 DEF IInv, QueueInv, StopInv, Crossed, StopWaits
<1>2. StopInv /\ [Next]_vars => StopInv'
  BY TypesKept, CrossedKept, StopWaitsKept DEF StopInv
<1>3. StopInv => StopEnds
  <2> SUFFICES ASSUME StopInv, user = "stopped", ~Pending(StopF)
               PROVE  crossings <= 1 /\ (crossings = 0 => state # "kConnecting" /\ ~connect)
    BY DEF StopEnds, StopF
  <2>1. StopF \notin Waiting
    BY PendingIsWaiting DEF StopInv
  <2>2. crossings \in Nat
    BY DEF StopInv, TypeOK
  <2> QED
    BY <2>1, <2>2 DEF StopInv, Crossed, StopWaits
<1> QED
  BY <1>1, <1>2, <1>3, PTL DEF Spec

=============================================================================
