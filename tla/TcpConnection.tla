---------------------------- MODULE TcpConnection ----------------------------
(***************************************************************************)
(* muduo::net::TcpConnection: one connection from connectEstablished() to  *)
(* its destructor, on the loop that owns it, with callbacks of the         *)
(* application on that loop and other threads that call its public         *)
(* functions.  The loop's queue is a FIFO (module EventLoop shows that it  *)
(* is one); handlers of the loop thread are atomic, calls of other threads *)
(* are not: state_ is read, then written, then a functor is queued.        *)
(*                                                                         *)
(* A byte is <<thread, k>>: the k-th that thread handed over.  What the    *)
(* kernel took is `wire'.  Input data is not kept: what arrives only makes *)
(* the application act.                                                    *)
(***************************************************************************)
EXTENDS Naturals, Sequences, FiniteSets

CONSTANTS
    Threads,            \* threads of the application other than the loop's
    Loop,               \* the loop's thread, as a caller of send()
    Apps,               \* the applications that are considered, see AppsAssumption
    HighWaterMark,      \* highWaterMark_
    WhileConnected,     \* callbacks switch reading only if conn->connected()
    NDEBUG              \* assert() is compiled out

Ops == {"send", "shutdown", "forceClose", "forceCloseWithDelay", "startRead", "stopRead"}

ASSUME ThreadsAssumption == Loop \notin Threads
\* An application: what its callbacks on the loop call, what its other threads call,
\* whether ~TcpServer() may run before the connection closes, and the bounds on the
\* bytes of one send(), on the bytes each thread sends, and on other calls.
ASSUME AppsAssumption ==
    Apps \subseteq [loopOps : SUBSET Ops, foreignOps : SUBSET (Ops \ {"forceCloseWithDelay"}),
                    ownerMayDie : BOOLEAN, maxMessage : Nat, maxBytes : Nat, maxCalls : Nat]
ASSUME FlagsAssumption == HighWaterMark \in Nat /\ {WhileConnected, NDEBUG} \subseteq BOOLEAN

Senders == Threads \union {Loop}
States == {"kConnecting", "kConnected", "kDisconnecting", "kDisconnected"}
Functors == {"connectEstablished", "connectDestroyed", "sendInLoop", "shutdownInLoop",
             "forceCloseInLoop", "startReadInLoop", "stopReadInLoop",
             "writeCompleteCallback", "highWaterMarkCallback"}

VARIABLES
    app,                \* the application, chosen at the start
    state,              \* state_
    interest,           \* what channel_ is enabled for
    index,              \* channel_->index(): kNew, kAdded (in the epoll set), kDeleted
    added,              \* channel_->addedToLoop_
    reading,            \* reading_
    revents,            \* callbacks channel_->handleEvent() has still to call
    out,                \* outputBuffer_
    queue,              \* functors of this connection in its loop's queue
    delayed,            \* a timer of forceCloseWithDelay() is set
    owner,              \* the server: has it, was told to remove it, let it go, is dead
    call,               \* where each other thread is in a call
    destroyed,          \* ~TcpConnection() ran
    wire, fin,          \* the kernel: bytes taken, write side shut down
    peer,               \* the other end: "open", "closed" (FIN), "reset", or
                        \* "dead" once read() has reported the reset
    sent,               \* history: bytes each thread handed over
    calls,              \* calls other than send() so far
    ups, downs,         \* history: connectionCallback_ calls, connected and not
    failed              \* history: the assertions that failed

chanVars == <<interest, index, added>>
connVars == <<state, chanVars, reading, out>>
kernelVars == <<wire, fin, peer>>
userVars == <<call, sent, calls>>
histVars == <<ups, downs, failed>>
vars == <<app, connVars, revents, queue, delayed, owner, destroyed, kernelVars, userVars, histVars>>

\* What another thread queues for an operation that carries no data.
InLoop == [shutdown |-> "shutdownInLoop", forceClose |-> "forceCloseInLoop",
           startRead |-> "startReadInLoop", stopRead |-> "stopReadInLoop"]

\* These are bound to the bare `this' ("FIXME" where they are queued): they hold no
\* reference.  All others are bound to a TcpConnectionPtr.
BareThis == {"sendInLoop", "shutdownInLoop", "startReadInLoop", "stopReadInLoop"}

Functor(op, data) == [op |-> op, data |-> data]
Idle == [op |-> "none", at |-> "none"]

Bytes == Senders \X (1..app.maxBytes)

ControlTypeOK ==
    /\ app \in Apps
    /\ state \in States
    /\ interest \subseteq {"read", "write"}
    /\ index \in {"kNew", "kAdded", "kDeleted"}
    /\ added \in BOOLEAN /\ reading \in BOOLEAN /\ delayed \in BOOLEAN /\ destroyed \in BOOLEAN
    /\ revents \in {<<>>, <<"read">>, <<"write">>, <<"read", "write">>, <<"close">>, <<"close", "write">>}
    /\ owner \in {"has", "told", "gone", "dead"}
    /\ call \in [Threads -> {Idle} \union [op : app.foreignOps, at : {"checked", "set"}]]
    /\ fin \in BOOLEAN
    /\ peer \in {"open", "closed", "reset", "dead"}
    /\ calls \in 0..app.maxCalls
    /\ ups \in 0..1 /\ downs \in Nat
    /\ failed \subseteq {"handleClose", "removeConnectionInLoop", "deadServer",
                         "connectEstablished", "remove", "channelDtor", "dtor"}

QueuedFunctors == [op : Functors, data : Seq(Bytes)]

DataTypeOK ==
    /\ out \in Seq(Bytes) /\ wire \in Seq(Bytes)
    /\ queue \in Seq(QueuedFunctors)
    /\ sent \in [Senders -> 0..app.maxBytes]

TypeOK == ControlTypeOK /\ DataTypeOK

\* The constructor has run and TcpServer::newConnection() has queued the rest.
Init ==
    /\ app \in Apps
    /\ state = "kConnecting"
    /\ interest = {} /\ index = "kNew" /\ added = FALSE
    /\ reading = TRUE
    /\ revents = <<>>
    /\ out = <<>>
    /\ queue = <<Functor("connectEstablished", <<>>)>>
    /\ delayed = FALSE
    /\ owner = "has"
    /\ call = [t \in Threads |-> Idle]
    /\ destroyed = FALSE
    /\ wire = <<>> /\ fin = FALSE /\ peer = "open"
    /\ sent = [t \in Senders |-> 0]
    /\ calls = 0
    /\ ups = 0 /\ downs = 0
    /\ failed = {}

\* A failed assertion aborts the process in a build with assertions.
Running == ~destroyed /\ (NDEBUG \/ failed = {})
Step == Running /\ UNCHANGED app

\* The names of the assertions that fail: those of the pairs whose condition is FALSE.
Asserts(checks) == failed' = failed \union {c[2] : c \in {d \in checks : ~d[1]}}

Writing == "write" \in interest

\* Channel::update() and EPollPoller::updateChannel().  A channel that is not in the
\* epoll set is added to it, be its interest empty or not.
Update(events) ==
    /\ interest' = events
    /\ added' = TRUE
    /\ index' = IF index # "kAdded" \/ events # {} THEN "kAdded" ELSE "kDeleted"

\* write() on a socket whose write side is shut, or that was reset, fails with
\* EPIPE or ECONNRESET.
Broken == fin \/ peer \in {"reset", "dead"}

\* The next bytes of thread t.
Message(t, n) == [i \in 1..n |-> <<t, sent[t] + i>>]

-----------------------------------------------------------------------------
(* The *InLoop functions, run by the loop thread.  Each gives the queue    *)
(* its next value; q is what the queue holds without them.                 *)

MutSendsPastBuffer(msg, q) ==
    \E n \in 0..Len(msg) :
        LET rest == SubSeq(msg, n + 1, Len(msg)) IN
        /\ wire' = wire \o SubSeq(msg, 1, n)
        /\ out' = out \o rest
        /\ IF rest # <<>> THEN Update(interest \union {"write"}) ELSE UNCHANGED chanVars
        /\ queue' = q

MutForgetsWriteInterest(msg, q) ==
    /\ wire' = wire
    /\ out' = out \o msg
    /\ queue' = q
    /\ UNCHANGED chanVars

\* sendInLoop(): give up when disconnected; write at once when nothing is queued
\* before; keep the rest, unless the socket is broken, and watch for writability.
SendInLoop(msg, q) ==
    IF state = "kDisconnected" THEN queue' = q /\ UNCHANGED <<wire, out, chanVars>>
    ELSE \E n \in 0..Len(msg) :
        LET direct == ~Writing /\ out = <<>>
            fault  == direct /\ Broken
            rest   == IF fault THEN <<>> ELSE SubSeq(msg, n + 1, Len(msg))
            level  == Len(out) + Len(rest)
            done   == IF direct /\ n = Len(msg)
                      THEN <<Functor("writeCompleteCallback", <<>>)>> ELSE <<>>
            high   == IF rest # <<>> /\ level >= HighWaterMark /\ Len(out) < HighWaterMark
                      THEN <<Functor("highWaterMarkCallback", <<>>)>> ELSE <<>>
        IN
        /\ (~direct \/ fault) => n = 0
        /\ wire' = wire \o SubSeq(msg, 1, n)
        /\ out' = out \o rest
        /\ IF rest # <<>> /\ ~Writing THEN Update(interest \union {"write"}) ELSE UNCHANGED chanVars
        /\ queue' = q \o done \o high

ShutdownInLoop == fin' = (fin \/ ~Writing)

StartReadInLoop ==
    /\ IF ~reading \/ "read" \notin interest
       THEN Update(interest \union {"read"}) ELSE UNCHANGED chanVars
    /\ reading' = TRUE

StopReadInLoop ==
    /\ IF reading \/ "read" \in interest
       THEN Update(interest \ {"read"}) ELSE UNCHANGED chanVars
    /\ reading' = FALSE

CloseChecks == {<<state \in {"kConnected", "kDisconnected"}, "handleClose">>,
                <<owner \notin {"told", "gone"}, "removeConnectionInLoop">>,
                <<owner # "dead", "deadServer">>}

MutHandleCloseKeepsState ==
    /\ Asserts(CloseChecks)
    /\ UNCHANGED state
    /\ Update({})
    /\ downs' = downs + 1
    /\ owner' = IF owner = "has" THEN "told" ELSE owner

MutHandleCloseNoCallback ==
    /\ Asserts(CloseChecks)
    /\ state' = "kDisconnected"
    /\ Update({})
    /\ downs' = downs + 1
    /\ UNCHANGED owner

\* handleClose(): connectionCallback_ and closeCallback_ (removeConnection()).  A
\* second closeCallback_ lets removeConnectionInLoop() find no such connection; one
\* after ~TcpServer() calls a function of a dead object.
HandleClose ==
    /\ Asserts(CloseChecks)
    /\ state' = "kDisconnected"
    /\ Update({})
    /\ downs' = downs + 1
    /\ owner' = IF owner = "has" THEN "told" ELSE owner

-----------------------------------------------------------------------------
(* The loop: channel events.                                               *)

\* poll() reports a channel in the epoll set: `read' for data, FIN or reset; `write'
\* for room in the socket's buffer; and, with or without interest, POLLHUP, which
\* handleEvent() takes for a close only without POLLIN.
Poll(readable, writable) ==
    LET ended == peer \in {"reset", "dead"} \/ (peer = "closed" /\ fin)
        r == IF "read" \in interest /\ (readable \/ peer # "open") THEN <<"read">>
             ELSE IF "read" \notin interest /\ ended THEN <<"close">> ELSE <<>>
        w == IF Writing /\ writable THEN <<"write">> ELSE <<>>
    IN
    /\ Step
    /\ index = "kAdded"
    /\ revents = <<>>
    /\ revents' = r \o w
    /\ revents' # <<>>
    /\ UNCHANGED <<connVars, queue, delayed, owner, destroyed, kernelVars, userVars, histVars>>

Dispatch(event) == Step /\ revents # <<>> /\ Head(revents) = event /\ revents' = Tail(revents)

\* closeCallback_, and handleRead() reading 0.
OnClose ==
    /\ \/ Dispatch("close")
       \/ Dispatch("read") /\ peer \in {"closed", "dead"}
    /\ HandleClose
    /\ UNCHANGED <<reading, out, queue, delayed, destroyed, kernelVars, userVars, ups>>

\* handleRead() reading data or failing (the reset is seen as an error first):
\* messageCallback_ and handleError() change nothing here.
OnRead ==
    /\ Dispatch("read")
    /\ peer \in {"open", "reset"}
    /\ peer' = IF peer = "reset" THEN "dead" ELSE peer
    /\ UNCHANGED <<connVars, queue, delayed, owner, destroyed, wire, fin, userVars, histVars>>

MutHandleWriteUnchecked ==
    /\ Dispatch("write")
    /\ \E n \in 0..Len(out) :
        /\ wire' = wire \o SubSeq(out, 1, n)
        /\ out' = SubSeq(out, n + 1, Len(out))
        /\ Update(IF n = Len(out) THEN interest \ {"write"} ELSE interest)
        /\ queue' = queue
    /\ UNCHANGED <<state, reading, delayed, owner, destroyed, fin, peer, userVars, histVars>>

\* handleWrite(): write what the socket takes; when the buffer is empty, stop
\* watching for writability.  (It does not look at state_: see ShutdownSendsFin.)
OnWrite ==
    /\ Dispatch("write")
    /\ IF ~Writing \/ Broken
       THEN UNCHANGED <<wire, out, chanVars, queue>>
       ELSE \E n \in 1..Len(out) :
            /\ wire' = wire \o SubSeq(out, 1, n)
            /\ out' = SubSeq(out, n + 1, Len(out))
            /\ IF n = Len(out)
               THEN /\ Update(interest \ {"write"})
                    /\ queue' = Append(queue, Functor("writeCompleteCallback", <<>>))
               ELSE UNCHANGED <<chanVars, queue>>
    /\ UNCHANGED <<state, reading, delayed, owner, destroyed, fin, peer, userVars, histVars>>

-----------------------------------------------------------------------------
(* The loop: functors, which run when the events have been dispatched.     *)

Runs(op) == Step /\ revents = <<>> /\ queue # <<>> /\ Head(queue).op = op
Pop == queue' = Tail(queue)

ConnectEstablished ==
    /\ Runs("connectEstablished")
    /\ Pop
    /\ Asserts({<<state = "kConnecting", "connectEstablished">>})
    /\ state' = "kConnected"
    /\ Update(interest \union {"read"})
    /\ ups' = ups + 1
    /\ UNCHANGED <<reading, out, revents, delayed, owner, destroyed, kernelVars, userVars, downs>>

MutConnectDestroyedStaysEnabled ==
    /\ Runs("connectDestroyed")
    /\ Pop
    /\ IF state = "kConnected"
       THEN state' = "kDisconnected" /\ downs' = downs + 1
       ELSE UNCHANGED <<state, downs>>
    /\ Asserts({<<interest = {}, "remove">>})
    /\ index' = "kNew"
    /\ added' = FALSE
    /\ UNCHANGED <<interest, reading, out, revents, delayed, owner, destroyed, kernelVars, userVars, ups>>

\* connectDestroyed(), with Channel::remove(), whose assertion is on the interest.
ConnectDestroyed ==
    /\ Runs("connectDestroyed")
    /\ Pop
    /\ IF state = "kConnected"
       THEN state' = "kDisconnected" /\ interest' = {} /\ downs' = downs + 1
       ELSE UNCHANGED <<state, interest, downs>>
    /\ Asserts({<<interest' = {}, "remove">>})
    /\ index' = "kNew"
    /\ added' = FALSE
    /\ UNCHANGED <<reading, out, revents, delayed, owner, destroyed, kernelVars, userVars, ups>>

RunSend ==
    /\ Runs("sendInLoop")
    /\ SendInLoop(Head(queue).data, Tail(queue))
    /\ UNCHANGED <<state, reading, revents, delayed, owner, destroyed, fin, peer, userVars, histVars>>

RunShutdown ==
    /\ Runs("shutdownInLoop")
    /\ Pop
    /\ ShutdownInLoop
    /\ UNCHANGED <<connVars, revents, delayed, owner, destroyed, wire, peer, userVars, histVars>>

\* forceCloseInLoop()
RunForceClose ==
    /\ Runs("forceCloseInLoop")
    /\ Pop
    /\ IF state \in {"kConnected", "kDisconnecting"} THEN HandleClose
       ELSE UNCHANGED <<state, chanVars, downs, owner, failed>>
    /\ UNCHANGED <<reading, out, revents, delayed, destroyed, kernelVars, userVars, ups>>

RunReadSwitch ==
    /\ \/ Runs("startReadInLoop") /\ StartReadInLoop
       \/ Runs("stopReadInLoop") /\ StopReadInLoop
    /\ Pop
    /\ UNCHANGED <<state, out, revents, delayed, owner, destroyed, kernelVars, userVars, histVars>>

\* The application's writeCompleteCallback_ and highWaterMarkCallback_.
RunUserCallback ==
    /\ Runs("writeCompleteCallback") \/ Runs("highWaterMarkCallback")
    /\ Pop
    /\ UNCHANGED <<connVars, revents, delayed, owner, destroyed, kernelVars, userVars, histVars>>

-----------------------------------------------------------------------------
(* The application on the loop thread: in the callbacks of this connection *)
(* or of others, at any time after the first connectionCallback_.          *)

LoopMay(op) == Step /\ ups = 1 /\ op \in app.loopOps
Counted == calls < app.maxCalls /\ calls' = calls + 1

LoopSend(n) ==
    /\ LoopMay("send")
    /\ state = "kConnected"
    /\ sent[Loop] + n <= app.maxBytes
    /\ SendInLoop(Message(Loop, n), queue)
    /\ sent' = [sent EXCEPT ![Loop] = @ + n]
    /\ UNCHANGED <<state, reading, revents, delayed, owner, destroyed, fin, peer, call, calls, histVars>>

LoopShutdown ==
    /\ LoopMay("shutdown")
    /\ Counted
    /\ state = "kConnected"
    /\ state' = "kDisconnecting"
    /\ ShutdownInLoop
    /\ UNCHANGED <<chanVars, reading, out, revents, queue, delayed, owner, destroyed, wire, peer, call, sent, histVars>>

\* forceClose(): the check, the store and the queueing.
ForceClose ==
    IF state \in {"kConnected", "kDisconnecting"}
    THEN /\ state' = "kDisconnecting"
         /\ queue' = Append(queue, Functor("forceCloseInLoop", <<>>))
    ELSE UNCHANGED <<state, queue>>

LoopForceClose ==
    /\ LoopMay("forceClose")
    /\ Counted
    /\ ForceClose
    /\ UNCHANGED <<chanVars, reading, out, revents, delayed, owner, destroyed, kernelVars, call, sent, histVars>>

LoopForceCloseWithDelay ==
    /\ LoopMay("forceCloseWithDelay")
    /\ Counted
    /\ ~delayed
    /\ state \in {"kConnected", "kDisconnecting"}
    /\ state' = "kDisconnecting"
    /\ delayed' = TRUE
    /\ UNCHANGED <<chanVars, reading, out, revents, queue, owner, destroyed, kernelVars, call, sent, histVars>>

\* The timer's WeakCallback calls forceClose() on a connection that still exists.
DelayExpires ==
    /\ Step
    /\ delayed
    /\ delayed' = FALSE
    /\ ForceClose
    /\ UNCHANGED <<chanVars, reading, out, revents, owner, destroyed, kernelVars, userVars, histVars>>

LoopReadSwitch ==
    /\ \/ LoopMay("startRead") /\ StartReadInLoop
       \/ LoopMay("stopRead") /\ StopReadInLoop
    /\ Counted
    /\ WhileConnected => state = "kConnected"
    /\ UNCHANGED <<state, out, revents, queue, delayed, owner, destroyed, kernelVars, call, sent, histVars>>

-----------------------------------------------------------------------------
(* The application on other threads.                                       *)

\* The test of state_ with which send(), shutdown() and forceClose() begin.
ForeignCheck(t, op) ==
    /\ Step /\ ups = 1 /\ op \in app.foreignOps
    /\ call[t] = Idle
    /\ op \in {"send", "shutdown"} => state = "kConnected"
    /\ op = "forceClose" => state \in {"kConnected", "kDisconnecting"}
    /\ IF op = "send" THEN sent[t] < app.maxBytes /\ UNCHANGED calls ELSE Counted
    /\ call' = [call EXCEPT ![t] = [op |-> op, at |-> "checked"]]
    /\ UNCHANGED <<connVars, revents, queue, delayed, owner, destroyed, kernelVars, sent, histVars>>

\* setState(kDisconnecting) of shutdown() and forceClose().
ForeignSet(t) ==
    /\ Step
    /\ call[t].at = "checked" /\ call[t].op \in {"shutdown", "forceClose"}
    /\ state' = "kDisconnecting"
    /\ call' = [call EXCEPT ![t].at = "set"]
    /\ UNCHANGED <<chanVars, reading, out, revents, queue, delayed, owner, destroyed, kernelVars, sent, calls, histVars>>

\* runInLoop() or queueInLoop() of the rest.
ForeignQueue(t, n) ==
    /\ Step
    /\ \/ call[t].at = "checked" /\ call[t].op \in {"send", "startRead", "stopRead"}
       \/ call[t].at = "set"
    /\ IF call[t].op = "send"
       THEN /\ sent[t] + n <= app.maxBytes
            /\ sent' = [sent EXCEPT ![t] = @ + n]
            /\ queue' = Append(queue, Functor("sendInLoop", Message(t, n)))
       ELSE /\ n = 1
            /\ queue' = Append(queue, Functor(InLoop[call[t].op], <<>>))
            /\ UNCHANGED sent
    /\ call' = [call EXCEPT ![t] = Idle]
    /\ UNCHANGED <<connVars, revents, delayed, owner, destroyed, kernelVars, calls, histVars>>

-----------------------------------------------------------------------------
(* The server, the peer, the end.                                          *)

\* TcpServer::removeConnectionInLoop(), told by closeCallback_, or ~TcpServer(),
\* which is not modelled while removeConnectionInLoop() is on its way: the
\* connection leaves the map and connectDestroyed() is queued.
OwnerLetsGo ==
    /\ Step
    /\ \/ owner = "told" /\ owner' = "gone"
       \/ owner = "has" /\ app.ownerMayDie /\ owner' = "dead"
    /\ queue' = Append(queue, Functor("connectDestroyed", <<>>))
    /\ UNCHANGED <<connVars, revents, delayed, destroyed, kernelVars, userVars, histVars>>

PeerCloses ==
    /\ Step
    /\ peer = "open"
    /\ peer' \in {"closed", "reset"}
    /\ UNCHANGED <<connVars, revents, queue, delayed, owner, destroyed, wire, fin, userVars, histVars>>

MutDestroyBeforeRemoval ==
    /\ Step
    /\ owner \in {"gone", "dead"}
    /\ \A i \in 1..Len(queue) : queue[i].op \in BareThis \union {"connectDestroyed"}
    /\ \A t \in Threads : call[t] = Idle
    /\ Asserts({<<state = "kDisconnected", "dtor">>, <<~added, "channelDtor">>})
    /\ destroyed' = TRUE
    /\ UNCHANGED <<connVars, revents, queue, delayed, owner, kernelVars, userVars, ups, downs>>

\* The last reference is dropped: ~TcpConnection() and ~Channel().  The server's map
\* holds one, a functor that is not bound to the bare `this', and a thread that is in
\* a call.  (The functors of a batch keep theirs until the batch is over: what then
\* is left in the queue was put there while the batch ran.)
Destroy ==
    /\ Step
    /\ owner \in {"gone", "dead"}
    /\ \A i \in 1..Len(queue) : queue[i].op \in BareThis
    /\ \A t \in Threads : call[t] = Idle
    /\ Asserts({<<state = "kDisconnected", "dtor">>, <<~added, "channelDtor">>})
    /\ destroyed' = TRUE
    /\ UNCHANGED <<connVars, revents, queue, delayed, owner, kernelVars, userVars, ups, downs>>

-----------------------------------------------------------------------------
LoopStep ==
    \/ OnClose \/ OnRead \/ OnWrite
    \/ ConnectEstablished \/ ConnectDestroyed \/ RunSend \/ RunShutdown \/ RunForceClose
    \/ RunReadSwitch \/ RunUserCallback

PollStep == \E r, w \in BOOLEAN : Poll(r, w)

LoopUser ==
    \/ \E n \in 1..app.maxMessage : LoopSend(n)
    \/ LoopShutdown \/ LoopForceClose \/ LoopForceCloseWithDelay \/ LoopReadSwitch

ForeignCall(t) == ForeignSet(t) \/ \E n \in 1..app.maxMessage : ForeignQueue(t, n)

Next ==
    \/ LoopStep \/ PollStep \/ LoopUser \/ DelayExpires
    \/ OwnerLetsGo \/ PeerCloses \/ Destroy
    \/ \E t \in Threads : ForeignCall(t) \/ \E op \in Ops : ForeignCheck(t, op)

Spec == Init /\ [][Next]_vars

\* The loop and the threads in a call run, timers fire and references are dropped;
\* poll() is level-triggered, so a channel that watches for writability, or for
\* reading while the peer has closed, is reported again and again.
Fairness ==
    /\ WF_vars(LoopStep)
    /\ WF_vars(OwnerLetsGo /\ owner = "told")
    /\ WF_vars(DelayExpires)
    /\ WF_vars(Destroy)
    /\ SF_vars(Poll(TRUE, TRUE))
    /\ \A t \in Threads : WF_vars(ForeignCall(t))

FairSpec == Spec /\ Fairness

-----------------------------------------------------------------------------
(* Properties.                                                             *)

\* An application that closes on the loop only, and leaves reading alone; if its server
\* may be destroyed under it, it does not close at all: connectDestroyed() does nothing
\* for a connection that is kDisconnecting.
ClosesOnLoop ==
    /\ app.foreignOps \subseteq {"send"} /\ app.loopOps \cap {"startRead", "stopRead"} = {}
    /\ app.ownerMayDie => app.loopOps \subseteq {"send"}

\* What s holds of each sender is the first bytes that it sent, in order.
FirstOnes(s) ==
    \A i \in 1..Len(s) :
        /\ \A j \in 1..(i - 1) : s[j][1] = s[i][1] => s[j][2] < s[i][2]
        /\ s[i][2] > 1 => \E j \in 1..(i - 1) : s[j] = <<s[i][1], s[i][2] - 1>>

\* What a thread hands to send() leaves in that order and without gaps, over
\* direct writes, outputBuffer_ and handleWrite(): the bytes the kernel took,
\* followed by those in the buffer, are the first ones the thread sent.  (That ends
\* when the connection is down and a thread overwrites kDisconnected: what waits in
\* the queue after a send that was given up is sent.)  Until the connection is down
\* data never waits for an event nobody asked for, and an empty
\* buffer never makes poll() spin (comment above handleWrite()), and no FIN overtakes
\* data, in whatever order send() and shutdown() are called.
BytesThenFin ==
    /\ downs = 0 \/ ClosesOnLoop => FirstOnes(wire \o out)
    /\ downs = 0 => (Writing <=> out # <<>>) /\ (fin => out = <<>>)

\* Once the application has been told that the connection is down, no byte of it
\* goes out: neither a write event of the same dispatch nor a queued sendInLoop()
\* writes to the socket.
NothingSentAfterDown == [][ClosesOnLoop /\ downs > 0 => wire' = wire]_vars

\* The application is told once that the connection is up and once, before the
\* destructor, that it is down, whichever of peer, forceClose() and server ends it.
ToldUpAndDownOnce == downs <= ups /\ (destroyed => downs = 1)

\* Of a destroyed connection nothing waits in the queue but sendInLoop()s of other
\* threads, which will use the dead object: send() queues the bare `this', a race that
\* the comment above it calls hard to meet.  After a close that is not the server's
\* end a thread leaves at most one, of the call it was in when the connection went down.
OnlyLateSendsLeft ==
    destroyed =>
        /\ \A i \in 1..Len(queue) : queue[i].op = "sendInLoop"
        /\ owner = "gone" =>
            \A i, j \in 1..Len(queue) : queue[i].data[1][1] = queue[j].data[1][1] => i = j

\* A connection that the application was told is down is in no epoll set, and no event
\* reaches one that is destroyed.
DownIsSilent == (downs = 1 => index # "kAdded") /\ (destroyed => revents = <<>>)

\* An application that only sends, on any thread, runs into no assertion, also when
\* its server is destroyed at any time.  (What a close does with a dead server is
\* another matter: the FIXME at TcpServer::newConnection() says it is unsafe.)  One
\* that closes on the loop, in any way and as often as it likes, runs into one only:
\* that of handleClose(), which does not expect kDisconnecting.
NoAssertionFails ==
    /\ calls = 0 => failed \subseteq {"deadServer"}
    /\ ClosesOnLoop => failed \subseteq {"deadServer", "handleClose"}

\* Buffered data leaves as long as the peer takes it and the connection is up.
BufferDrains ==
    (out # <<>>) ~> (out = <<>> \/ peer # "open" \/ state = "kDisconnected" \/ owner = "dead")

\* A connection whose peer is gone is found out, taken from the server and
\* destroyed, unless stopRead() keeps it from looking.
PeerCloseDestroys == (peer # "open" /\ "read" \in interest) ~> (destroyed \/ ~reading)

\* "shutdown(): close the connection": after shutdown(), once the data that was
\* pending has been taken by the peer, the write side is shut.
ShutdownSendsFin ==
    (state = "kDisconnecting") ~> (fin \/ state = "kDisconnected" \/ peer # "open")

\* Up once, down once, silent after it, in states of the right types.
UpThenDown == TypeOK /\ (ClosesOnLoop => ToldUpAndDownOnce /\ DownIsSilent /\ OnlyLateSendsLeft)

=============================================================================
