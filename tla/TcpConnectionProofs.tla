------------------------- MODULE TcpConnectionProofs -------------------------
(***************************************************************************)
(* Theorems of TcpConnection for every set of threads, every application   *)
(* and every high-water mark: the application is told once that the        *)
(* connection is up and once that it is down, nothing is sent after that,  *)
(* no assertion fails for who only sends, bytes leave in order, no FIN     *)
(* overtakes them, and the channel watches for writability while there is  *)
(* something to write.  And what the calls of Buffer do to its readable    *)
(* bytes, for every size of the prepend area, of the buffer and the data.  *)
(***************************************************************************)
EXTENDS TcpConnection, Buffer, SequenceTheorems, TLAPS

\* The functors in the queue.
QueueOps == {queue[i].op : i \in 1..Len(queue)}
DestroyOnce ==
    \A i, j \in 1..Len(queue) :
        queue[i].op = "connectDestroyed" /\ queue[j].op = "connectDestroyed" => i = j

\* Before connectEstablished() nothing happens but the end of the server.
BeforeInv ==
    /\ ups = 0 =>
        /\ state = "kConnecting" /\ interest = {} /\ index = "kNew" /\ ~added
        /\ revents = <<>> /\ out = <<>> /\ ~fin /\ downs = 0 /\ calls = 0 /\ ~delayed /\ reading
        /\ call = [t \in Threads |-> Idle]
        /\ \/ owner = "has" /\ queue = <<Functor("connectEstablished", <<>>)>>
           \/ owner = "dead" /\ queue = <<Functor("connectEstablished", <<>>), Functor("connectDestroyed", <<>>)>>
    /\ ups = 1 => "connectEstablished" \notin QueueOps

\* The rest is about applications that close on the loop, and about any other one as
\* long as it has only called send().
Orderly == ClosesOnLoop \/ calls = 0

\* Some function but send() has been called on the loop.
Closing == calls > 0 /\ ~(app.loopOps \subseteq {"send"})

\* What threads and the queue hold then.
CallsInv ==
    /\ \A t \in Threads : call[t] = Idle \/ call[t].op = "send"
    /\ QueueOps \cap {"startReadInLoop", "stopReadInLoop", "shutdownInLoop"} = {}
    /\ reading
    /\ state = "kDisconnecting" \/ delayed \/ "forceCloseInLoop" \in QueueOps => Closing

\* connectDestroyed() is queued once, when the server lets the connection go.
OwnerInv ==
    /\ DestroyOnce
    /\ "connectDestroyed" \in QueueOps => owner \in {"gone", "dead"}
    /\ owner = "dead" => app.ownerMayDie

\* Up, and not down: the channel is in the epoll set for reading.
UpInv ==
    ups = 1 /\ downs = 0 =>
        /\ state \in {"kConnected", "kDisconnecting"}
        /\ "read" \in interest /\ index = "kAdded" /\ added
        /\ owner = "has" \/ (owner = "dead" /\ "connectDestroyed" \in QueueOps)

\* Down: the channel watches for nothing, and leaves the poller by connectDestroyed().
DownInv ==
    /\ downs \in {0, 1} /\ downs <= ups
    /\ downs = 1 =>
        /\ state = "kDisconnected" /\ interest = {} /\ index \in {"kDeleted", "kNew"}
        /\ revents \in {<<>>, <<"write">>}
        /\ owner # "has"
        /\ added => owner = "told" \/ "connectDestroyed" \in QueueOps
        /\ ~added => revents = <<>>
    /\ destroyed => downs = 1 /\ ~added /\ QueueOps \subseteq {"sendInLoop"}

OrderlyInv == CallsInv /\ OwnerInv /\ UpInv /\ DownInv

\* The second half of BytesThenFin.
WritesInv == downs = 0 => (Writing <=> out # <<>>) /\ (fin => out = <<>>)

\* Each sender's bytes appear in s in their order; those in r come before those in s.
Increasing(s) == \A i, j \in 1..Len(s) : i < j /\ s[i][1] = s[j][1] => s[i][2] < s[j][2]

AllBefore(r, s) == \A i \in 1..Len(r), j \in 1..Len(s) : r[i][1] = s[j][1] => r[i][2] < s[j][2]

Has(s, b) == \E i \in 1..Len(s) : s[i] = b

\* The bytes in s, and behind them those in the functors of q, are all that was sent, and
\* each sender's are in their order.
Piped(s, q, n) ==
    /\ Increasing(s)
    /\ \A i \in 1..Len(q) : Increasing(q[i].data) /\ AllBefore(s, q[i].data)
    /\ \A i, j \in 1..Len(q) : i < j => AllBefore(q[i].data, q[j].data)
    /\ \A b \in Bytes : (Has(s, b) \/ \E i \in 1..Len(q) : Has(q[i].data, b)) <=> b[2] <= n[b[1]]

\* Nothing that is sent from now on is kept.
Gone == downs > 0 \/ (Broken /\ out = <<>>)

\* Only sendInLoop() carries bytes, and none of the loop's thread, which sends at once.
CargoInv ==
    \A i \in 1..Len(queue) :
        /\ queue[i].op # "sendInLoop" => queue[i].data = <<>>
        /\ \A j \in 1..Len(queue[i].data) : queue[i].data[j][1] # Loop

\* The first half of BytesThenFin, with the pipe it comes from.
BytesInv ==
    /\ CargoInv
    /\ state = "kDisconnected" => downs > 0
    /\ downs = 0 \/ ClosesOnLoop => FirstOnes(wire \o out)
    /\ ~Gone => Piped(wire \o out, queue, sent)

\* The i-th functor is a send() that connectDestroyed() does not wait for.
Late(i) == queue[i].op = "sendInLoop" /\ \A j \in i..Len(queue) : queue[j].op # "connectDestroyed"
LateSender(i) == queue[i].data[1][1]

\* Once the server let the connection go after a close, who has such a send() queued
\* is out of its call and cannot begin another one.
LateInv ==
    owner = "gone" =>
        /\ \A i \in 1..Len(queue) : Late(i) => call[LateSender(i)] = Idle
        /\ \A i, j \in 1..Len(queue) : Late(i) /\ Late(j) /\ LateSender(i) = LateSender(j) => i = j

IInv ==
    /\ TypeOK /\ BeforeInv /\ WritesInv /\ (Orderly => OrderlyInv) /\ NoAssertionFails /\ BytesInv
    /\ ClosesOnLoop => LateInv

-----------------------------------------------------------------------------
(* The queue.                                                              *)

LEMMA Popped ==
    ASSUME queue \in Seq(QueuedFunctors), queue # <<>>, queue' = Tail(queue)
    PROVE  /\ queue' \in Seq(QueuedFunctors)
           /\ Head(queue).op \in QueueOps /\ QueueOps' \subseteq QueueOps
           /\ \A op \in QueueOps : op # Head(queue).op => op \in QueueOps'
           /\ DestroyOnce => DestroyOnce'
           /\ DestroyOnce /\ Head(queue).op = "connectDestroyed" => "connectDestroyed" \notin QueueOps'
<1>1. /\ queue' \in Seq(QueuedFunctors) /\ Len(queue) \in Nat /\ Len(queue') = Len(queue) - 1 /\ Len(queue) >= 1
      /\ Head(queue) = queue[1]
      /\ \A i \in 1..Len(queue') : i + 1 \in 1..Len(queue) /\ queue'[i] = queue[i + 1]
  OBVIOUS
<1>2. \A i \in 1..Len(queue) : i = 1 \/ (i - 1 \in 1..Len(queue') /\ queue'[i - 1] = queue[i])
  <2> SUFFICES ASSUME NEW i \in 1..Len(queue), i # 1 PROVE i - 1 \in 1..Len(queue') /\ queue'[i - 1] = queue[i]
    OBVIOUS
  <2>1. i - 1 \in 1..Len(queue') /\ (i - 1) + 1 = i
    BY <1>1
  <2> QED
    BY <1>1, <2>1
<1>3. Head(queue).op \in QueueOps
  BY <1>1 DEF QueueOps
<1>4. QueueOps' \subseteq QueueOps
  BY <1>1 DEF QueueOps
<1>5. ASSUME NEW op \in QueueOps, op # Head(queue).op PROVE op \in QueueOps'
  <2>1. PICK i \in 1..Len(queue) : queue[i].op = op
    BY DEF QueueOps
  <2>2. i - 1 \in 1..Len(queue') /\ queue'[i - 1].op = op
    BY <1>1, <1>2, <1>5, <2>1
  <2> QED
    BY <2>2 DEF QueueOps
<1>6. DestroyOnce => DestroyOnce'
  <2> SUFFICES ASSUME DestroyOnce, NEW i \in 1..Len(queue'), NEW j \in 1..Len(queue'),
                      queue'[i].op = "connectDestroyed", queue'[j].op = "connectDestroyed"
               PROVE  i = j
    BY DEF DestroyOnce
  <2>1. i + 1 = j + 1
    BY <1>1 DEF DestroyOnce
  <2> QED
    BY <2>1
<1>7. ASSUME DestroyOnce, Head(queue).op = "connectDestroyed" PROVE "connectDestroyed" \notin QueueOps'
  <2> SUFFICES ASSUME NEW i \in 1..Len(queue'), queue'[i].op = "connectDestroyed" PROVE FALSE
    BY DEF QueueOps
  <2>1. i + 1 = 1
    BY <1>1, <1>7 DEF DestroyOnce
  <2> QED
    BY <2>1
<1> QED
  BY <1>1, <1>3, <1>4, <1>5, <1>6, <1>7

LEMMA Pushed ==
    ASSUME queue \in Seq(QueuedFunctors), NEW f \in QueuedFunctors, queue' = Append(queue, f)
    PROVE  /\ queue' \in Seq(QueuedFunctors)
           /\ QueueOps' = QueueOps \union {f.op}
           /\ DestroyOnce /\ (f.op # "connectDestroyed" \/ "connectDestroyed" \notin QueueOps) => DestroyOnce'
<1>1. /\ queue' \in Seq(QueuedFunctors) /\ Len(queue) \in Nat /\ Len(queue') = Len(queue) + 1
      /\ queue'[Len(queue) + 1] = f
      /\ \A i \in 1..Len(queue) : i \in 1..Len(queue') /\ queue'[i] = queue[i]
      /\ \A i \in 1..Len(queue') : i \in 1..Len(queue) \/ i = Len(queue) + 1
  OBVIOUS
<1>2. Len(queue) + 1 \in 1..Len(queue')
  BY <1>1
<1>3. QueueOps' = QueueOps \union {f.op}
  <2>1. ASSUME NEW op \in QueueOps' PROVE op \in QueueOps \union {f.op}
    BY <1>1, <2>1 DEF QueueOps
  <2>2. ASSUME NEW op \in QueueOps PROVE op \in QueueOps'
    BY <1>1 DEF QueueOps
  <2>3. f.op \in QueueOps'
    BY <1>1, <1>2 DEF QueueOps
  <2> QED
    BY <2>1, <2>2, <2>3
<1>4. ASSUME DestroyOnce, f.op # "connectDestroyed" \/ "connectDestroyed" \notin QueueOps PROVE DestroyOnce'
  BY <1>1, <1>4 DEF DestroyOnce, QueueOps
<1> QED
  BY <1>1, <1>3, <1>4

UserOps == {"writeCompleteCallback", "highWaterMarkCallback"}

\* sendInLoop() adds callbacks of the application to the queue, also when it was its head.
LEMMA Called ==
    ASSUME queue \in Seq(QueuedFunctors), NEW q \in Seq(QueuedFunctors), NEW more \in Seq(QueuedFunctors),
           q = queue \/ (queue # <<>> /\ q = Tail(queue) /\ Head(queue).op = "sendInLoop"),
           \A i \in 1..Len(more) : more[i].op \in UserOps,
           queue' = q \o more
    PROVE  /\ queue' \in Seq(QueuedFunctors)
           /\ QueueOps' \subseteq QueueOps \union UserOps
           /\ \A op \in QueueOps : op # "sendInLoop" => op \in QueueOps'
           /\ DestroyOnce => DestroyOnce'
<1> USE DEF UserOps
<1>1. PICK h \in {0, 1} : /\ Len(q) = Len(queue) - h
                          /\ \A i \in 1..Len(q) : i + h \in 1..Len(queue) /\ q[i] = queue[i + h]
                          /\ h = 1 => queue[1].op = "sendInLoop"
  <2>1. CASE q = queue
    BY <2>1
  <2>2. CASE queue # <<>> /\ q = Tail(queue) /\ Head(queue).op = "sendInLoop"
    BY <2>2
  <2> QED
    BY <2>1, <2>2
<1>2. /\ queue' \in Seq(QueuedFunctors) /\ Len(queue) \in Nat /\ Len(q) \in Nat /\ Len(more) \in Nat
      /\ Len(queue') = Len(q) + Len(more)
      /\ \A i \in 1..Len(q) : i \in 1..Len(queue') /\ queue'[i] = q[i]
      /\ \A i \in 1..Len(queue') : i > Len(q) => i - Len(q) \in 1..Len(more) /\ queue'[i] = more[i - Len(q)]
  OBVIOUS
<1>3. \A i \in 1..Len(queue') : (i \in 1..Len(q) /\ i + h \in 1..Len(queue) /\ queue'[i] = queue[i + h])
                                  \/ queue'[i].op \in UserOps
  <2> SUFFICES ASSUME NEW i \in 1..Len(queue')
               PROVE  (i \in 1..Len(q) /\ i + h \in 1..Len(queue) /\ queue'[i] = queue[i + h])
                      \/ queue'[i].op \in UserOps
    OBVIOUS
  <2>1. CASE i \in 1..Len(q)
    BY <1>1, <1>2, <2>1
  <2>2. CASE i > Len(q)
    BY <1>2, <2>2
  <2> QED
    BY <1>2, <2>1, <2>2
<1>4. ASSUME NEW op \in QueueOps' PROVE op \in QueueOps \union UserOps
  <2>1. PICK i \in 1..Len(queue') : queue'[i].op = op
    BY DEF QueueOps
  <2>2. CASE i + h \in 1..Len(queue) /\ queue'[i] = queue[i + h]
    BY <2>1, <2>2 DEF QueueOps
  <2> QED
    BY <1>3, <2>1, <2>2
<1>5. ASSUME NEW op \in QueueOps, op # "sendInLoop" PROVE op \in QueueOps'
  <2>1. PICK i \in 1..Len(queue) : queue[i].op = op
    BY DEF QueueOps
  <2>2. i - h \in 1..Len(q) /\ (i - h) + h = i
    BY <1>1, <1>2, <1>5, <2>1
  <2>3. i - h \in 1..Len(queue') /\ queue'[i - h] = queue[i]
    BY <1>1, <1>2, <2>2
  <2> QED
    BY <2>1, <2>3 DEF QueueOps
<1>6. ASSUME DestroyOnce PROVE DestroyOnce'
  <2> SUFFICES ASSUME NEW i \in 1..Len(queue'), NEW j \in 1..Len(queue'),
                      queue'[i].op = "connectDestroyed", queue'[j].op = "connectDestroyed"
               PROVE  i = j
    BY DEF DestroyOnce
  <2>1. i + h = j + h
    BY <1>3, <1>6 DEF DestroyOnce
  <2> QED
    BY <1>2, <2>1
<1> QED
  BY <1>2, <1>4, <1>5, <1>6

-----------------------------------------------------------------------------
(* sendInLoop().                                                           *)

LEMMA AtMostOne ==
    ASSUME NEW D, NEW w \in D, NEW a, a = <<>> \/ a = <<w>>
    PROVE  a \in Seq(D) /\ \A i \in 1..Len(a) : a[i] = w
<1>1. <<>> \in Seq(D) /\ <<w>> \in Seq(D)
  OBVIOUS
<1>2. a \in Seq(D)
  BY <1>1
<1>3. \A i \in 1..Len(a) : a[i] = w
  OBVIOUS
<1> QED
  BY <1>2, <1>3

LEMMA BothOf ==
    ASSUME NEW D, NEW w \in D, NEW h \in D, NEW a \in Seq(D), NEW b \in Seq(D),
           \A i \in 1..Len(a) : a[i] = w, \A i \in 1..Len(b) : b[i] = h
    PROVE  a \o b \in Seq(D) /\ \A i \in 1..Len(a \o b) : (a \o b)[i] \in {w, h}
<1>0. a \o b \in Seq(D)
  BY ConcatProperties, Zenon
<1>1. PICK c \in Seq(D) : c = a \o b
  BY <1>0, Zenon
<1>2. /\ Len(a) \in Nat /\ Len(b) \in Nat /\ Len(c) = Len(a) + Len(b)
      /\ \A i \in 1..Len(c) : i <= Len(a) => i \in 1..Len(a) /\ c[i] = a[i]
      /\ \A i \in 1..Len(c) : i > Len(a) => i - Len(a) \in 1..Len(b) /\ c[i] = b[i - Len(a)]
  BY <1>1
<1>3. ASSUME NEW i \in 1..Len(c) PROVE c[i] \in {w, h}
  <2>1. CASE i <= Len(a)
    BY <1>2, <2>1
  <2>2. CASE i > Len(a)
    BY <1>2, <2>2
  <2>3. i <= Len(a) \/ i > Len(a)
    BY <1>2
  <2> QED
    BY <2>1, <2>2, <2>3
<1> QED
  BY <1>1, <1>3

LEMMA Rejoined ==
    ASSUME NEW D, NEW s \in Seq(D), NEW n \in 0..Len(s)
    PROVE  /\ SubSeq(s, 1, n) \in Seq(D) /\ SubSeq(s, n + 1, Len(s)) \in Seq(D)
           /\ SubSeq(s, 1, n) \o SubSeq(s, n + 1, Len(s)) = s
<1> DEFINE a == SubSeq(s, 1, n)
           b == SubSeq(s, n + 1, Len(s))
<1>1. /\ a \in Seq(D) /\ b \in Seq(D) /\ Len(s) \in Nat /\ n \in Nat /\ n <= Len(s)
      /\ Len(a) = n /\ Len(b) = Len(s) - n
  OBVIOUS
<1>2. (\A i \in 1..n : a[i] = s[i]) /\ \A i \in 1..(Len(s) - n) : b[i] = s[n + i]
  <2>1. \A i \in 1..n : a[i] = s[i]
    OBVIOUS
  <2>2. \A i \in 1..(Len(s) - n) : b[i] = s[n + i]
    BY <1>1
  <2> QED
    BY <2>1, <2>2
<1> HIDE DEF a, b
<1>3. PICK c \in Seq(D) : c = a \o b /\ Len(c) = Len(s)
  <2>1. a \o b \in Seq(D) /\ Len(a \o b) = Len(s)
    BY <1>1
  <2> QED
    BY <2>1, Zenon
<1>4. \A i \in 1..Len(c) : c[i] = s[i]
  <2> TAKE i \in 1..Len(c)
  <2>1. CASE i <= n
    BY <1>1, <1>2, <1>3, <2>1
  <2>2. CASE i > n
    <3>1. i - n \in 1..(Len(s) - n) /\ n + (i - n) = i
      BY <1>1, <1>3, <2>2
    <3>2. c[i] = b[i - n]
      BY <1>1, <1>3, <2>2
    <3> QED
      BY <1>2, <3>1, <3>2
  <2> QED
    BY <1>1, <2>1, <2>2
<1>5. c = s
  BY <1>1, <1>3, <1>4, SeqEqual
<1> QED
  BY <1>1, <1>3, <1>5 DEF a, b

LEMMA Sends ==
    ASSUME DataTypeOK, interest \subseteq {"read", "write"}, NEW msg \in Seq(Bytes), NEW q \in Seq(QueuedFunctors),
           SendInLoop(msg, q), app' = app
    PROVE  /\ out' \in Seq(Bytes) /\ wire' \in Seq(Bytes)
           /\ \E more \in Seq(QueuedFunctors) :
                  queue' = q \o more /\ \A i \in 1..Len(more) : more[i].op \in UserOps /\ more[i].data = <<>>
           /\ UNCHANGED chanVars \/ (state # "kDisconnected" /\ Update(interest \union {"write"}))
           /\ state = "kDisconnected" => UNCHANGED <<wire, out, chanVars>>
           /\ UNCHANGED <<fin, downs>> /\ WritesInv => WritesInv'
           /\ state # "kDisconnected" =>
                  IF Broken /\ out = <<>> /\ ~Writing THEN UNCHANGED <<wire, out>>
                  ELSE wire' \o out' = (wire \o out) \o msg
<1>1. CASE state = "kDisconnected"
  <2>1. queue' = q /\ UNCHANGED <<wire, out, chanVars>>
    BY <1>1 DEF SendInLoop
  <2>2. q = q \o <<>> /\ <<>> \in Seq(QueuedFunctors) /\ \A i \in 1..Len(<<>>) : <<>>[i].op \in UserOps /\ <<>>[i].data = <<>>
    OBVIOUS
  <2>3. UNCHANGED <<fin, downs>> /\ WritesInv => WritesInv'
    BY <2>1 DEF WritesInv, chanVars, Writing
  <2> QED
    BY <1>1, <2>1, <2>2, <2>3 DEF DataTypeOK
<1>2. CASE state # "kDisconnected"
  <2> DEFINE direct == ~Writing /\ out = <<>>
             fault == direct /\ Broken
             W == Functor("writeCompleteCallback", <<>>)
             H == Functor("highWaterMarkCallback", <<>>)
  <2> DEFINE Outcome(n, rest, done, high) ==
          /\ (~direct \/ fault) => n = 0
          /\ rest = IF fault THEN <<>> ELSE SubSeq(msg, n + 1, Len(msg))
          /\ done \in {<<>>, <<W>>} /\ high \in {<<>>, <<H>>}
          /\ wire' = wire \o SubSeq(msg, 1, n)
          /\ out' = out \o rest
          /\ IF rest # <<>> /\ ~Writing THEN Update(interest \union {"write"}) ELSE UNCHANGED chanVars
          /\ queue' = q \o done \o high
  <2>0. PICK n \in 0..Len(msg) : \E rest, done, high : Outcome(n, rest, done, high)
    BY <1>2 DEF SendInLoop
  <2>1. PICK rest, done, high : Outcome(n, rest, done, high)
    BY <2>0
  <2>2. rest \in Seq(Bytes) /\ SubSeq(msg, 1, n) \in Seq(Bytes) /\ out \in Seq(Bytes) /\ wire \in Seq(Bytes)
    <3>1. SubSeq(msg, 1, n) \in Seq(Bytes) /\ SubSeq(msg, n + 1, Len(msg)) \in Seq(Bytes) /\ <<>> \in Seq(Bytes)
      BY Rejoined
    <3>2. rest = <<>> \/ rest = SubSeq(msg, n + 1, Len(msg))
      BY <2>1
    <3> QED
      BY <3>1, <3>2 DEF DataTypeOK
  <2>3. out' \in Seq(Bytes) /\ wire' \in Seq(Bytes)
    BY <2>1, <2>2
  <2>4. W \in QueuedFunctors /\ H \in QueuedFunctors /\ W.op \in UserOps /\ H.op \in UserOps
        /\ W.data = <<>> /\ H.data = <<>>
    BY DEF QueuedFunctors, Functors, Functor, UserOps
  <2> HIDE DEF W, H
  <2>5. \E more \in Seq(QueuedFunctors) : queue' = q \o more /\ \A i \in 1..Len(more) : more[i].op \in UserOps /\ more[i].data = <<>>
    <3>1. done \in {<<>>, <<W>>} /\ high \in {<<>>, <<H>>}
      BY <2>1
    <3>2. /\ done \in Seq(QueuedFunctors) /\ high \in Seq(QueuedFunctors)
          /\ \A i \in 1..Len(done) : done[i] = W
          /\ \A i \in 1..Len(high) : high[i] = H
      <4>1. done = <<>> \/ done = <<W>>
        BY <3>1
      <4>2. high = <<>> \/ high = <<H>>
        BY <3>1
      <4>3. done \in Seq(QueuedFunctors) /\ \A i \in 1..Len(done) : done[i] = W
        BY <2>4, <4>1, AtMostOne, Zenon
      <4>4. high \in Seq(QueuedFunctors) /\ \A i \in 1..Len(high) : high[i] = H
        BY <2>4, <4>2, AtMostOne, Zenon
      <4> QED
        BY <4>3, <4>4
    <3>3. done \o high \in Seq(QueuedFunctors) /\ \A i \in 1..Len(done \o high) : (done \o high)[i] \in {W, H}
      BY <2>4, <3>2, BothOf, Zenon
    <3>4. PICK more \in Seq(QueuedFunctors) : more = done \o high /\ \A i \in 1..Len(more) : more[i] \in {W, H}
      BY <3>3, Zenon
    <3>5. \A i \in 1..Len(more) : more[i].op \in UserOps /\ more[i].data = <<>>
      BY <2>4, <3>4
    <3>6. queue' = q \o more
      <4>1. queue' = q \o done \o high
        BY <2>1
      <4>2. q \o done \o high = q \o (done \o high)
        BY <3>2
      <4> QED
        BY <3>4, <4>1, <4>2
    <3> QED
      BY <3>5, <3>6
  <2>6. UNCHANGED <<fin, downs>> /\ WritesInv => WritesInv'
    <3> SUFFICES ASSUME UNCHANGED <<fin, downs>>, WritesInv, downs = 0 PROVE (Writing' <=> out' # <<>>) /\ (fin' => out' = <<>>)
      BY DEF WritesInv
    <3>1. (Writing <=> out # <<>>) /\ (fin => out = <<>>)
      BY DEF WritesInv
    <3>2. CASE rest = <<>>
      <4>1. out' = out /\ UNCHANGED interest
        <5>1. out' = out \o rest /\ UNCHANGED chanVars
          BY <2>1, <3>2
        <5> QED
          BY <2>2, <3>2, <5>1 DEF chanVars
      <4> QED
        BY <3>1, <4>1 DEF Writing
    <3>3. CASE rest # <<>>
      <4>1. out' # <<>>
        BY <2>1, <2>2, <3>3
      <4>2. Writing'
        BY <2>1, <3>3 DEF Writing, Update, chanVars
      <4>3. ~fin
        BY <2>1, <3>1, <3>3 DEF Broken
      <4> QED
        BY <4>1, <4>2, <4>3
    <3> QED
      BY <3>2, <3>3
  <2>7. IF Broken /\ out = <<>> /\ ~Writing THEN UNCHANGED <<wire, out>>
        ELSE wire' \o out' = (wire \o out) \o msg
    <3> DEFINE a == SubSeq(msg, 1, n)
               b == SubSeq(msg, n + 1, Len(msg))
    <3>1. a \in Seq(Bytes) /\ b \in Seq(Bytes) /\ a \o b = msg
      BY Rejoined, Zenon
    <3>2. /\ (~direct \/ fault) => n = 0
          /\ wire' = wire \o a /\ out' = out \o rest
          /\ rest = IF fault THEN <<>> ELSE b
      BY <2>1
    <3>3. n = 0 => a = <<>>
      BY SubSeqEmpty
    <3> HIDE DEF a, b
    <3>4. CASE fault
      BY <2>2, <3>2, <3>3, <3>4, ConcatEmptySeq, Zenon
    <3>5. CASE ~fault /\ out = <<>>
      <4>1. out' = b /\ wire \o out = wire
        BY <2>2, <3>2, <3>1, <3>5, ConcatEmptySeq, Zenon
      <4>2. (wire \o a) \o b = wire \o (a \o b)
        <5>1. wire \in Seq(Bytes) /\ a \in Seq(Bytes) /\ b \in Seq(Bytes)
          BY <2>2, <3>1
        <5> QED
          BY <5>1, ConcatAssociative
      <4> QED
        BY <3>1, <3>2, <3>5, <4>1, <4>2
    <3>6. CASE ~fault /\ out # <<>>
      <4>1. a = <<>> /\ wire' = wire /\ b = msg
        BY <2>2, <3>1, <3>2, <3>3, <3>6, ConcatEmptySeq, Zenon
      <4>2. (wire \o out) \o msg = wire \o (out \o msg)
        BY <2>2
      <4> QED
        BY <3>2, <3>6, <4>1, <4>2
    <3> QED
      BY <3>4, <3>5, <3>6
  <2> QED
    BY <1>2, <2>1, <2>3, <2>5, <2>6, <2>7
<1> QED
  BY <1>1, <1>2

-----------------------------------------------------------------------------
(* Types.                                                                  *)

LEMMA AppTypes ==
    ASSUME app \in Apps
    PROVE  /\ app.maxBytes \in Nat /\ app.maxMessage \in Nat /\ app.maxCalls \in Nat
           /\ app.foreignOps \subseteq Ops \ {"forceCloseWithDelay"} /\ app.loopOps \subseteq Ops /\ app.ownerMayDie \in BOOLEAN
<1>1. app \in [loopOps : SUBSET Ops, foreignOps : SUBSET (Ops \ {"forceCloseWithDelay"}),
              ownerMayDie : BOOLEAN, maxMessage : Nat, maxBytes : Nat, maxCalls : Nat]
  BY AppsAssumption
<1> QED
  BY <1>1

\* ControlTypeOK in parts.
ChannelTypeOK == interest \subseteq {"read", "write"} /\ index \in {"kNew", "kAdded", "kDeleted"} /\ added \in BOOLEAN
ReventsTypeOK == revents \in {<<>>, <<"read">>, <<"write">>, <<"read", "write">>, <<"close">>, <<"close", "write">>}
CallTypeOK == call \in [Threads -> {Idle} \union [op : app.foreignOps, at : {"checked", "set"}]]
FailedTypeOK == failed \subseteq {"handleClose", "removeConnectionInLoop", "deadServer",
                                  "connectEstablished", "remove", "channelDtor", "dtor"}
FlagsTypeOK ==
    /\ state \in States /\ owner \in {"has", "told", "gone", "dead"}
    /\ peer \in {"open", "closed", "reset", "dead"}
    /\ reading \in BOOLEAN /\ delayed \in BOOLEAN /\ destroyed \in BOOLEAN /\ fin \in BOOLEAN
CountsTypeOK == calls \in 0..app.maxCalls /\ ups \in 0..1 /\ downs \in Nat

\* What the assertions of a step add to `failed'.
LEMMA AssertedTwo ==
    ASSUME NEW a \in BOOLEAN, NEW b \in BOOLEAN, NEW m, NEW n, Asserts({<<a, m>>, <<b, n>>})
    PROVE  failed' \subseteq failed \union {m, n} /\ \A f \in failed' : f \in failed \/ (f = m /\ ~a) \/ (f = n /\ ~b)
  BY DEF Asserts

LEMMA AssertedOne ==
    ASSUME NEW a \in BOOLEAN, NEW m, Asserts({<<a, m>>})
    PROVE  failed' \subseteq failed \union {m} /\ (a => failed' = failed)
  BY DEF Asserts

LEMMA CloseAsserts ==
    ASSUME HandleClose
    PROVE  /\ failed' \subseteq failed \union {"handleClose", "removeConnectionInLoop", "deadServer"}
           /\ state \in {"kConnected", "kDisconnected"} /\ "handleClose" \in failed' => "handleClose" \in failed
           /\ owner \notin {"told", "gone"} /\ "removeConnectionInLoop" \in failed' => "removeConnectionInLoop" \in failed
<1>a. PICK a \in BOOLEAN : a = (state \in {"kConnected", "kDisconnected"})
  <2>1. (state \in {"kConnected", "kDisconnected"}) \in BOOLEAN
    OBVIOUS
  <2> QED
    BY <2>1, Zenon
<1>b. PICK b \in BOOLEAN : b = (owner \notin {"told", "gone"})
  BY Zenon
<1>c. PICK c \in BOOLEAN : c = (owner # "dead")
  BY Zenon
<1>2. Asserts({<<a, "handleClose">>, <<b, "removeConnectionInLoop">>, <<c, "deadServer">>})
  BY <1>a, <1>b, <1>c DEF HandleClose, CloseChecks
<1>3. /\ failed' \subseteq failed \union {"handleClose", "removeConnectionInLoop", "deadServer"}
      /\ \A f \in failed' : f \in failed \/ (f = "handleClose" /\ ~a) \/ (f = "removeConnectionInLoop" /\ ~b)
                                         \/ (f = "deadServer" /\ ~c)
  <2>1. a \in BOOLEAN /\ b \in BOOLEAN /\ c \in BOOLEAN
    BY <1>a, <1>b, <1>c
  <2> QED
    BY <2>1, <1>2 DEF Asserts
<1> QED
  BY <1>a, <1>b, <1>3

LEMMA EstablishAsserts ==
    ASSUME ConnectEstablished
    PROVE  failed' \subseteq failed \union {"connectEstablished"} /\ (state = "kConnecting" => failed' = failed)
<1>1. PICK a \in BOOLEAN : a = (state = "kConnecting")
  BY Zenon
<1>2. Asserts({<<a, "connectEstablished">>})
  BY <1>1 DEF ConnectEstablished
<1> QED
  BY <1>1, <1>2, AssertedOne

LEMMA DestroyedAsserts ==
    ASSUME ConnectDestroyed
    PROVE  failed' \subseteq failed \union {"remove"} /\ (interest' = {} => failed' = failed)
<1>1. PICK a \in BOOLEAN : a = (interest' = {})
  BY Zenon
<1>2. Asserts({<<a, "remove">>})
  BY <1>1 DEF ConnectDestroyed
<1> QED
  BY <1>1, <1>2, AssertedOne

LEMMA DestroyAsserts ==
    ASSUME Destroy
    PROVE  failed' \subseteq failed \union {"dtor", "channelDtor"} /\ (state = "kDisconnected" /\ ~added => failed' \subseteq failed)
<1>1. PICK a \in BOOLEAN, b \in BOOLEAN : a = (state = "kDisconnected") /\ b = (~added)
  BY Zenon
<1>2. Asserts({<<a, "dtor">>, <<b, "channelDtor">>})
  BY <1>1 DEF Destroy
<1> QED
  BY <1>1, <1>2, AssertedTwo

LEMMA Dispatched ==
    ASSUME ReventsTypeOK, NEW event, Dispatch(event)
    PROVE  /\ revents' \in {<<>>, <<"write">>} /\ event \in {"read", "write", "close"}
           /\ revents = <<"write">> => revents' = <<>> /\ event = "write"
           /\ app' = app /\ ~destroyed
<1>0. app' = app /\ ~destroyed
  BY DEF Dispatch, Step, Running
<1>1. revents # <<>> /\ event = Head(revents) /\ revents' = Tail(revents)
  BY DEF Dispatch
<1>2. \/ revents = <<"read">> \/ revents = <<"write">> \/ revents = <<"read", "write">>
      \/ revents = <<"close">> \/ revents = <<"close", "write">>
  BY <1>1 DEF ReventsTypeOK
<1>3. /\ Head(<<"read">>) = "read" /\ Tail(<<"read">>) = <<>>
      /\ Head(<<"write">>) = "write" /\ Tail(<<"write">>) = <<>>
      /\ Head(<<"close">>) = "close" /\ Tail(<<"close">>) = <<>>
  OBVIOUS
<1>4. /\ Head(<<"read", "write">>) = "read" /\ Tail(<<"read", "write">>) = <<"write">>
      /\ Head(<<"close", "write">>) = "close" /\ Tail(<<"close", "write">>) = <<"write">>
  OBVIOUS
<1>5. revents = <<"write">> => revents' = <<>> /\ event = "write"
  BY <1>1, <1>3
<1>6. revents' \in {<<>>, <<"write">>}
  BY <1>1, <1>2, <1>3, <1>4, Zenon
<1>7. event \in {"read", "write", "close"}
  BY <1>1, <1>2, <1>3, <1>4, Zenon
<1> QED
  BY <1>0, <1>5, <1>6, <1>7

\* The prover does not know these of sequences written out.
LEMMA OneAndNone ==
    ASSUME NEW x
    PROVE  <<x>> \o <<>> = <<x>> /\ <<>> \o <<x>> = <<x>> /\ <<>> \o <<>> = <<>>
<1>1. <<x>> \in Seq({x}) /\ <<>> \in Seq({x})
  OBVIOUS
<1> QED
  BY <1>1, ConcatEmptySeq, Zenon

LEMMA TwoInARow ==
    ASSUME NEW x, NEW y
    PROVE  <<x>> \o <<y>> = <<x, y>>
<1> DEFINE D == {x, y}
           s == <<x>>
           t == <<y>>
           u == s \o t
           v == <<x, y>>
<1>1. s \in Seq(D) /\ Len(s) = 1 /\ t \in Seq(D) /\ Len(t) = 1
  OBVIOUS
<1>2. v \in Seq(D) /\ Len(v) = 2
  OBVIOUS
<1>3. s[1] = v[1] /\ t[1] = v[2]
  OBVIOUS
<1> HIDE DEF s, t, v
<1>4. /\ u \in Seq(D) /\ Len(u) = Len(s) + Len(t)
      /\ \A i \in 1..Len(s) + Len(t) : u[i] = IF i <= Len(s) THEN s[i] ELSE t[i - Len(s)]
  BY <1>1, ConcatProperties, Zenon
<1>5. u[1] = s[1] /\ u[2] = t[1]
  BY <1>1, <1>4
<1>6. \A i \in 1..Len(u) : u[i] = v[i]
  BY <1>1, <1>3, <1>4, <1>5
<1>7. u = v
  BY <1>1, <1>2, <1>4, <1>6, SeqEqual
<1> QED
  BY <1>7 DEF s, t, v

LEMMA Polled ==
    ASSUME NEW r \in BOOLEAN, NEW w \in BOOLEAN, Poll(r, w)
    PROVE  revents' \in {<<"read">>, <<"write">>, <<"read", "write">>, <<"close">>, <<"close", "write">>}
<1>1. PICK a \in {<<>>, <<"read">>, <<"close">>}, b \in {<<>>, <<"write">>} : revents' = a \o b
  <2> DEFINE ended == peer \in {"reset", "dead"} \/ (peer = "closed" /\ fin)
             a == IF "read" \in interest /\ (r \/ peer # "open") THEN <<"read">>
                  ELSE IF "read" \notin interest /\ ended THEN <<"close">> ELSE <<>>
             b == IF Writing /\ w THEN <<"write">> ELSE <<>>
  <2>1. a \in {<<>>, <<"read">>, <<"close">>} /\ b \in {<<>>, <<"write">>}
    OBVIOUS
  <2>2. revents' = a \o b
    BY DEF Poll
  <2> QED
    BY <2>1, <2>2, Zenon
<1>2. revents' # <<>>
  BY DEF Poll
<1>3. /\ <<>> \o <<>> = <<>> /\ <<>> \o <<"write">> = <<"write">>
      /\ <<"read">> \o <<>> = <<"read">> /\ <<"close">> \o <<>> = <<"close">>
  BY OneAndNone
<1>4. <<"read">> \o <<"write">> = <<"read", "write">> /\ <<"close">> \o <<"write">> = <<"close", "write">>
  BY TwoInARow
<1> QED
  BY <1>1, <1>2, <1>3, <1>4, Zenon

LEMMA Messages ==
    ASSUME TypeOK, NEW t \in Senders, NEW n \in 1..app.maxMessage, sent[t] + n <= app.maxBytes
    PROVE  Message(t, n) \in Seq(Bytes)
<1>1. sent[t] \in Nat /\ app.maxBytes \in Nat /\ app.maxMessage \in Nat
  BY AppTypes DEF TypeOK, DataTypeOK, ControlTypeOK
<1>2. \A i \in 1..n : <<t, sent[t] + i>> \in Bytes
  BY <1>1 DEF Bytes
<1> QED
  BY <1>1, <1>2 DEF Message

\* RunSend and LoopSend().
LEMMA Sent ==
    ASSUME TypeOK, RunSend \/ \E n \in 1..app.maxMessage : LoopSend(n)
    PROVE  /\ out' \in Seq(Bytes) /\ wire' \in Seq(Bytes)
           /\ queue' \in Seq(QueuedFunctors)
           /\ QueueOps' \subseteq QueueOps \union UserOps
           /\ \A op \in QueueOps : op # "sendInLoop" => op \in QueueOps'
           /\ DestroyOnce => DestroyOnce'
           /\ UNCHANGED chanVars \/ (state # "kDisconnected" /\ Update(interest \union {"write"}))
           /\ state = "kDisconnected" => UNCHANGED <<wire, out, chanVars>>
           /\ WritesInv => WritesInv'
           /\ app' = app /\ UNCHANGED <<state, reading, revents, delayed, owner, destroyed, fin, peer, call, calls, histVars>>
<1>1. /\ app' = app /\ UNCHANGED <<state, reading, revents, delayed, owner, destroyed, fin, peer, call, calls, histVars>>
  BY DEF RunSend, LoopSend, Runs, LoopMay, Step, userVars
<1>q. queue \in Seq(QueuedFunctors)
  BY DEF RunSend, LoopSend, Runs, LoopMay, Step, userVars, histVars, TypeOK, DataTypeOK
<1>2. PICK msg \in Seq(Bytes), q \in Seq(QueuedFunctors) :
          /\ SendInLoop(msg, q)
          /\ q = queue \/ (queue # <<>> /\ q = Tail(queue) /\ Head(queue).op = "sendInLoop")
  <2>1. CASE RunSend
    <3>1. queue # <<>> /\ Head(queue).op = "sendInLoop" /\ SendInLoop(Head(queue).data, Tail(queue))
      BY <2>1 DEF RunSend, Runs
    <3>2. Head(queue) \in QueuedFunctors /\ Tail(queue) \in Seq(QueuedFunctors)
      BY <1>q, <3>1
    <3>3. Head(queue).data \in Seq(Bytes)
      BY <3>2 DEF QueuedFunctors
    <3> QED
      BY <3>1, <3>2, <3>3, Zenon
  <2>2. ASSUME NEW n \in 1..app.maxMessage, LoopSend(n)
        PROVE  SendInLoop(Message(Loop, n), queue) /\ Message(Loop, n) \in Seq(Bytes)
    BY <2>2, Messages DEF LoopSend, Senders
  <2>3. ASSUME NEW n \in 1..app.maxMessage, LoopSend(n)
        PROVE  \E msg \in Seq(Bytes), q \in Seq(QueuedFunctors) :
                   SendInLoop(msg, q) /\ q = queue
    BY <1>q, <2>2, <2>3, Zenon
  <2> QED
    BY <2>1, <2>3
<1>3. DataTypeOK /\ interest \subseteq {"read", "write"}
  BY DEF TypeOK, ControlTypeOK
<1>4. /\ out' \in Seq(Bytes) /\ wire' \in Seq(Bytes)
      /\ \E more \in Seq(QueuedFunctors) :
             queue' = q \o more /\ \A i \in 1..Len(more) : more[i].op \in UserOps
      /\ UNCHANGED chanVars \/ (state # "kDisconnected" /\ Update(interest \union {"write"}))
      /\ state = "kDisconnected" => UNCHANGED <<wire, out, chanVars>>
      /\ UNCHANGED <<fin, downs>> /\ WritesInv => WritesInv'
  BY <1>1, <1>2, <1>3, Sends
<1>5. /\ queue' \in Seq(QueuedFunctors)
      /\ QueueOps' \subseteq QueueOps \union UserOps
      /\ \A op \in QueueOps : op # "sendInLoop" => op \in QueueOps'
      /\ DestroyOnce => DestroyOnce'
  BY <1>q, <1>2, <1>4, Called
<1>6. UNCHANGED <<fin, downs>>
  BY <1>1 DEF histVars
<1> QED
  BY <1>1, <1>4, <1>5, <1>6, Zenon

LEMMA ControlKept ==
    ASSUME TypeOK, BeforeInv, [Next]_vars
    PROVE  ControlTypeOK'
<1> DEFINE Parts == /\ app \in Apps /\ ChannelTypeOK /\ ReventsTypeOK /\ CallTypeOK /\ FailedTypeOK
                    /\ FlagsTypeOK /\ CountsTypeOK
<1>a. Parts /\ app.maxCalls \in Nat
  BY AppTypes DEF TypeOK, ControlTypeOK, ChannelTypeOK, ReventsTypeOK, CallTypeOK, FailedTypeOK, FlagsTypeOK,
                  CountsTypeOK
<1>b. ASSUME UNCHANGED app
      PROVE  /\ UNCHANGED <<interest, index, added>> => ChannelTypeOK'
             /\ UNCHANGED revents => ReventsTypeOK'
             /\ UNCHANGED call => CallTypeOK'
             /\ UNCHANGED failed => FailedTypeOK'
             /\ UNCHANGED <<state, owner, peer, reading, delayed, destroyed, fin>> => FlagsTypeOK'
             /\ UNCHANGED <<calls, ups, downs>> => CountsTypeOK'
  <2>1. UNCHANGED <<interest, index, added>> => ChannelTypeOK'
    BY <1>a DEF ChannelTypeOK
  <2>2. UNCHANGED revents => ReventsTypeOK'
    BY <1>a DEF ReventsTypeOK
  <2>3. UNCHANGED call => CallTypeOK'
    BY <1>a, <1>b DEF CallTypeOK
  <2>4. UNCHANGED failed => FailedTypeOK'
    BY <1>a DEF FailedTypeOK
  <2>5. UNCHANGED <<state, owner, peer, reading, delayed, destroyed, fin>> => FlagsTypeOK'
    BY <1>a DEF FlagsTypeOK
  <2>6. UNCHANGED <<calls, ups, downs>> => CountsTypeOK'
    BY <1>a, <1>b DEF CountsTypeOK
  <2> QED
    BY <2>1, <2>2, <2>3, <2>4, <2>5, <2>6
<1>1. ASSUME OnClose PROVE Parts'
  <2>1. UNCHANGED <<app, call>>
    BY <1>1 DEF OnClose, HandleClose, CloseChecks, Update, Dispatch, Step, kernelVars, userVars
  <2>2. ChannelTypeOK'
    BY <1>a, <2>1, <1>1 DEF ChannelTypeOK, OnClose, HandleClose, Update, kernelVars, userVars
  <2>3. ReventsTypeOK'
    <3>1. Dispatch("close") \/ Dispatch("read")
      BY <1>1 DEF OnClose
    <3> QED
      BY <1>a, <3>1, Dispatched DEF ReventsTypeOK
  <2>4. FailedTypeOK'
    <3>1. HandleClose
      BY <1>1 DEF OnClose
    <3> QED
      BY <1>a, <3>1, CloseAsserts DEF FailedTypeOK
  <2>5. FlagsTypeOK'
    BY <1>a, <2>1, <1>1 DEF FlagsTypeOK, OnClose, HandleClose, States, kernelVars, userVars
  <2>6. CountsTypeOK'
    BY <1>a, <2>1, <1>1 DEF CountsTypeOK, OnClose, HandleClose, kernelVars, userVars
  <2> QED
    BY <1>a, <1>b, <2>1, <2>2, <2>3, <2>4, <2>5, <2>6
<1>2. ASSUME OnRead PROVE Parts'
  <2>1. UNCHANGED <<app, interest, index, added, call, failed, calls, ups, downs>>
    BY <1>2 DEF OnRead, Dispatch, Step, connVars, chanVars, userVars, histVars
  <2>2. ReventsTypeOK'
    <3>1. Dispatch("read")
      BY <1>2 DEF OnRead
    <3> QED
      BY <1>a, <3>1, Dispatched DEF ReventsTypeOK
  <2>3. FlagsTypeOK'
    BY <1>a, <2>1, <1>2 DEF FlagsTypeOK, OnRead, States, connVars, chanVars, userVars, histVars
  <2> QED
    BY <1>a, <1>b, <2>1, <2>2, <2>3
<1>3. ASSUME OnWrite PROVE Parts'
  <2>1. UNCHANGED <<app, call, failed, state, owner, peer, reading, delayed, destroyed, fin, calls, ups, downs>>
    BY <1>3 DEF OnWrite, Update, Dispatch, Step, chanVars, userVars, histVars
  <2>2. ChannelTypeOK'
    BY <1>a, <2>1, <1>3 DEF ChannelTypeOK, OnWrite, Update, chanVars, userVars, histVars
  <2>3. ReventsTypeOK'
    <3>1. Dispatch("write")
      BY <1>3 DEF OnWrite
    <3> QED
      BY <1>a, <3>1, Dispatched DEF ReventsTypeOK
  <2> QED
    BY <1>a, <1>b, <2>1, <2>2, <2>3
<1>4. ASSUME ConnectEstablished PROVE Parts'
  <2>1. UNCHANGED <<app, revents, call>>
    BY <1>4 DEF ConnectEstablished, Runs, Step, Pop, Update, kernelVars, userVars
  <2>2. ChannelTypeOK'
    BY <1>a, <2>1, <1>4 DEF ChannelTypeOK, ConnectEstablished, Runs, Step, Pop, Update, kernelVars, userVars
  <2>3. FailedTypeOK'
    BY <1>a, <1>4, EstablishAsserts DEF FailedTypeOK
  <2>4. FlagsTypeOK'
    BY <1>a, <2>1, <1>4 DEF FlagsTypeOK, ConnectEstablished, Runs, Step, Pop, States, kernelVars, userVars
  <2>5. CountsTypeOK'
    <3>1. queue \in Seq(QueuedFunctors) /\ queue # <<>> /\ Head(queue).op = "connectEstablished"
      BY <1>4 DEF ConnectEstablished, Runs, TypeOK, DataTypeOK
    <3>2. "connectEstablished" \in QueueOps
      BY <3>1 DEF QueueOps
    <3>3. ups = 0
      BY <1>a, <3>2 DEF BeforeInv, CountsTypeOK
    <3> QED
      BY <1>a, <2>1, <1>4, <3>3 DEF CountsTypeOK, ConnectEstablished, userVars
  <2> QED
    BY <1>a, <1>b, <2>1, <2>2, <2>3, <2>4, <2>5
<1>5. ASSUME ConnectDestroyed PROVE Parts'
  <2>1. UNCHANGED <<app, revents, call>>
    BY <1>5 DEF ConnectDestroyed, Runs, Step, Pop, kernelVars, userVars
  <2>2. ChannelTypeOK'
    BY <1>a, <2>1, <1>5 DEF ChannelTypeOK, ConnectDestroyed, Runs, Step, Pop, Update, kernelVars, userVars
  <2>3. FailedTypeOK'
    BY <1>a, <1>5, DestroyedAsserts DEF FailedTypeOK
  <2>4. FlagsTypeOK'
    BY <1>a, <2>1, <1>5 DEF FlagsTypeOK, ConnectDestroyed, Runs, Step, Pop, States, kernelVars, userVars
  <2>5. CountsTypeOK'
    BY <1>a, <2>1, <1>5 DEF CountsTypeOK, ConnectDestroyed, Runs, Step, Pop, kernelVars, userVars
  <2> QED
    BY <1>a, <1>b, <2>1, <2>2, <2>3, <2>4, <2>5
<1>6. ASSUME RunSend PROVE Parts'
  <2>1. UNCHANGED <<app, revents, call, failed, state, owner, peer, reading, delayed, destroyed, fin, calls,
                    ups, downs>>
    BY <1>6, Sent DEF vars, connVars, chanVars, kernelVars, userVars, histVars
  <2>2. ChannelTypeOK'
    BY <1>a, <2>1, <1>6, Sent DEF ChannelTypeOK, Update, vars, connVars, chanVars, kernelVars, userVars,
                                  histVars
  <2> QED
    BY <1>a, <1>b, <2>1, <2>2
<1>7. ASSUME RunShutdown PROVE Parts'
  <2>1. UNCHANGED <<app, interest, index, added, revents, call, failed, calls, ups, downs>>
    BY <1>7 DEF RunShutdown, Runs, Step, Pop, ShutdownInLoop, connVars, chanVars, userVars, histVars
  <2>2. FlagsTypeOK'
    BY <1>a, <2>1, <1>7 DEF FlagsTypeOK, RunShutdown, Runs, Step, Pop, ShutdownInLoop, States, connVars,
                            chanVars, userVars, histVars
  <2> QED
    BY <1>a, <1>b, <2>1, <2>2
<1>8. ASSUME RunForceClose PROVE Parts'
  <2>1. UNCHANGED <<app, revents, call>>
    BY <1>8 DEF RunForceClose, Runs, Step, Pop, HandleClose, CloseChecks, Update, chanVars, kernelVars, userVars
  <2>2. ChannelTypeOK'
    BY <1>a, <2>1, <1>8 DEF ChannelTypeOK, RunForceClose, Runs, Step, Pop, HandleClose, Update, chanVars,
                            kernelVars, userVars
  <2>3. FailedTypeOK'
    <3>1. HandleClose \/ failed' = failed
      BY <1>8 DEF RunForceClose
    <3> QED
      BY <1>a, <3>1, CloseAsserts DEF FailedTypeOK
  <2>4. FlagsTypeOK'
    BY <1>a, <2>1, <1>8 DEF FlagsTypeOK, RunForceClose, Runs, Step, Pop, HandleClose, States, chanVars,
                            kernelVars, userVars
  <2>5. CountsTypeOK'
    BY <1>a, <2>1, <1>8 DEF CountsTypeOK, RunForceClose, Runs, Step, Pop, HandleClose, chanVars, kernelVars,
                            userVars
  <2> QED
    BY <1>a, <1>b, <2>1, <2>2, <2>3, <2>4, <2>5
<1>9. ASSUME RunReadSwitch PROVE Parts'
  <2>1. UNCHANGED <<app, revents, call, failed, calls, ups, downs>>
    BY <1>9 DEF RunReadSwitch, Runs, Step, Pop, StartReadInLoop, StopReadInLoop, Update, chanVars, kernelVars,
                userVars, histVars
  <2>2. ChannelTypeOK'
    BY <1>a, <2>1, <1>9 DEF ChannelTypeOK, RunReadSwitch, Runs, Step, Pop, StartReadInLoop, StopReadInLoop,
                            Update, chanVars, kernelVars, userVars, histVars
  <2>3. FlagsTypeOK'
    BY <1>a, <2>1, <1>9 DEF FlagsTypeOK, RunReadSwitch, Runs, Step, Pop, StartReadInLoop, StopReadInLoop,
                            States, chanVars, kernelVars, userVars, histVars
  <2> QED
    BY <1>a, <1>b, <2>1, <2>2, <2>3
<1>10. ASSUME RunUserCallback PROVE Parts'
  <2>1. UNCHANGED <<app, interest, index, added, revents, call, failed, state, owner, peer, reading, delayed,
                    destroyed, fin, calls, ups, downs>>
    BY <1>10 DEF RunUserCallback, Runs, Step, Pop, connVars, chanVars, kernelVars, userVars, histVars
  <2> QED
    BY <1>a, <1>b, <2>1
<1>11. ASSUME NEW r \in BOOLEAN, NEW w \in BOOLEAN, Poll(r, w) PROVE Parts'
  <2>1. UNCHANGED <<app, interest, index, added, call, failed, state, owner, peer, reading, delayed, destroyed,
                    fin, calls, ups, downs>>
    BY <1>11, Polled DEF Poll, Step, connVars, chanVars, kernelVars, userVars, histVars
  <2>2. ReventsTypeOK'
    BY <1>11, Polled DEF ReventsTypeOK
  <2> QED
    BY <1>a, <1>b, <2>1, <2>2
<1>12. ASSUME NEW n \in 1..app.maxMessage, LoopSend(n) PROVE Parts'
  <2>1. UNCHANGED <<app, revents, call, failed, state, owner, peer, reading, delayed, destroyed, fin, calls,
                    ups, downs>>
    BY <1>12, Sent DEF vars, connVars, chanVars, kernelVars, userVars, histVars
  <2>2. ChannelTypeOK'
    BY <1>a, <2>1, <1>12, Sent DEF ChannelTypeOK, Update, vars, connVars, chanVars, kernelVars, userVars,
                                   histVars
  <2> QED
    BY <1>a, <1>b, <2>1, <2>2
<1>13. ASSUME LoopShutdown PROVE Parts'
  <2>1. UNCHANGED <<app, interest, index, added, revents, call, failed>>
    BY <1>13 DEF LoopShutdown, LoopMay, Step, Counted, ShutdownInLoop, chanVars, histVars
  <2>2. FlagsTypeOK'
    BY <1>a, <2>1, <1>13 DEF FlagsTypeOK, LoopShutdown, LoopMay, Step, Counted, ShutdownInLoop, States,
                             chanVars, histVars
  <2>3. CountsTypeOK'
    BY <1>a, <2>1, <1>13 DEF CountsTypeOK, LoopShutdown, LoopMay, Step, Counted, ShutdownInLoop, chanVars,
                             histVars
  <2> QED
    BY <1>a, <1>b, <2>1, <2>2, <2>3
<1>14. ASSUME LoopForceClose PROVE Parts'
  <2>1. UNCHANGED <<app, interest, index, added, revents, call, failed>>
    BY <1>14 DEF LoopForceClose, LoopMay, Step, Counted, ForceClose, chanVars, kernelVars, histVars
  <2>2. FlagsTypeOK'
    BY <1>a, <2>1, <1>14 DEF FlagsTypeOK, LoopForceClose, LoopMay, Step, Counted, ForceClose, States, chanVars,
                             kernelVars, histVars
  <2>3. CountsTypeOK'
    BY <1>a, <2>1, <1>14 DEF CountsTypeOK, LoopForceClose, LoopMay, Step, Counted, ForceClose, chanVars,
                             kernelVars, histVars
  <2> QED
    BY <1>a, <1>b, <2>1, <2>2, <2>3
<1>15. ASSUME LoopForceCloseWithDelay PROVE Parts'
  <2>1. UNCHANGED <<app, interest, index, added, revents, call, failed>>
    BY <1>15 DEF LoopForceCloseWithDelay, LoopMay, Step, Counted, chanVars, kernelVars, histVars
  <2>2. FlagsTypeOK'
    BY <1>a, <2>1, <1>15 DEF FlagsTypeOK, LoopForceCloseWithDelay, LoopMay, Step, Counted, States, chanVars,
                             kernelVars, histVars
  <2>3. CountsTypeOK'
    BY <1>a, <2>1, <1>15 DEF CountsTypeOK, LoopForceCloseWithDelay, LoopMay, Step, Counted, chanVars,
                             kernelVars, histVars
  <2> QED
    BY <1>a, <1>b, <2>1, <2>2, <2>3
<1>16. ASSUME LoopReadSwitch PROVE Parts'
  <2>1. UNCHANGED <<app, revents, call, failed>>
    BY <1>16 DEF LoopReadSwitch, LoopMay, Step, Counted, StartReadInLoop, StopReadInLoop, Update, chanVars,
                 kernelVars, histVars
  <2>2. ChannelTypeOK'
    BY <1>a, <2>1, <1>16 DEF ChannelTypeOK, LoopReadSwitch, LoopMay, Step, Counted, StartReadInLoop,
                             StopReadInLoop, Update, chanVars, kernelVars, histVars
  <2>3. FlagsTypeOK'
    BY <1>a, <2>1, <1>16 DEF FlagsTypeOK, LoopReadSwitch, LoopMay, Step, Counted, StartReadInLoop,
                             StopReadInLoop, States, chanVars, kernelVars, histVars
  <2>4. CountsTypeOK'
    BY <1>a, <2>1, <1>16 DEF CountsTypeOK, LoopReadSwitch, LoopMay, Step, Counted, StartReadInLoop,
                             StopReadInLoop, chanVars, kernelVars, histVars
  <2> QED
    BY <1>a, <1>b, <2>1, <2>2, <2>3, <2>4
<1>17. ASSUME DelayExpires PROVE Parts'
  <2>1. UNCHANGED <<app, interest, index, added, revents, call, failed, calls, ups, downs>>
    BY <1>17 DEF DelayExpires, Step, ForceClose, chanVars, kernelVars, userVars, histVars
  <2>2. FlagsTypeOK'
    BY <1>a, <2>1, <1>17 DEF FlagsTypeOK, DelayExpires, Step, ForceClose, States, chanVars, kernelVars,
                             userVars, histVars
  <2> QED
    BY <1>a, <1>b, <2>1, <2>2
<1>18. ASSUME OwnerLetsGo PROVE Parts'
  <2>1. UNCHANGED <<app, interest, index, added, revents, call, failed, calls, ups, downs>>
    BY <1>18 DEF OwnerLetsGo, Step, connVars, chanVars, kernelVars, userVars, histVars
  <2>2. FlagsTypeOK'
    BY <1>a, <2>1, <1>18 DEF FlagsTypeOK, OwnerLetsGo, Step, States, connVars, chanVars, kernelVars, userVars,
                             histVars
  <2> QED
    BY <1>a, <1>b, <2>1, <2>2
<1>19. ASSUME PeerCloses PROVE Parts'
  <2>1. UNCHANGED <<app, interest, index, added, revents, call, failed, calls, ups, downs>>
    BY <1>19 DEF PeerCloses, Step, connVars, chanVars, userVars, histVars
  <2>2. FlagsTypeOK'
    BY <1>a, <2>1, <1>19 DEF FlagsTypeOK, PeerCloses, Step, States, connVars, chanVars, userVars, histVars
  <2> QED
    BY <1>a, <1>b, <2>1, <2>2
<1>20. ASSUME Destroy PROVE Parts'
  <2>1. UNCHANGED <<app, interest, index, added, revents, call, calls, ups, downs>>
    BY <1>20 DEF Destroy, Step, connVars, chanVars, kernelVars, userVars
  <2>2. FailedTypeOK'
    BY <1>a, <1>20, DestroyAsserts DEF FailedTypeOK
  <2>3. FlagsTypeOK'
    BY <1>a, <2>1, <1>20 DEF FlagsTypeOK, Destroy, Step, States, connVars, chanVars, kernelVars, userVars
  <2> QED
    BY <1>a, <1>b, <2>1, <2>2, <2>3
<1>21. ASSUME NEW t \in Threads, NEW op \in Ops, ForeignCheck(t, op) PROVE Parts'
  <2>1. UNCHANGED <<app, interest, index, added, revents, failed, state, owner, peer, reading, delayed,
                    destroyed, fin>>
    BY <1>21 DEF ForeignCheck, Step, Counted, connVars, chanVars, kernelVars, histVars
  <2>2. CallTypeOK'
    BY <1>a, <2>1, <1>21 DEF CallTypeOK, ForeignCheck, Step, Counted, connVars, chanVars, kernelVars, histVars
  <2>3. CountsTypeOK'
    BY <1>a, <2>1, <1>21 DEF CountsTypeOK, ForeignCheck, Step, Counted, connVars, chanVars, kernelVars, histVars
  <2> QED
    BY <1>a, <1>b, <2>1, <2>2, <2>3
<1>22. ASSUME NEW t \in Threads, ForeignSet(t) PROVE Parts'
  <2>1. UNCHANGED <<app, interest, index, added, revents, failed, calls, ups, downs>>
    BY <1>22 DEF ForeignSet, Step, chanVars, kernelVars, histVars
  <2>2. CallTypeOK'
    <3>1. call[t] \in [op : app.foreignOps, at : {"checked", "set"}]
      BY <1>a, <1>22 DEF CallTypeOK, ForeignSet, Idle
    <3>2. call' = [call EXCEPT ![t] = [op |-> call[t].op, at |-> "set"]]
      <4>1. [call[t] EXCEPT !.at = "set"] = [op |-> call[t].op, at |-> "set"]
        BY <3>1
      <4>2. call' = [call EXCEPT ![t] = [call[t] EXCEPT !.at = "set"]]
        BY <1>22 DEF ForeignSet
      <4> QED
        BY <4>1, <4>2
    <3>3. [op |-> call[t].op, at |-> "set"] \in [op : app.foreignOps, at : {"checked", "set"}]
      BY <3>1
    <3> QED
      BY <1>a, <2>1, <3>2, <3>3 DEF CallTypeOK
  <2>3. FlagsTypeOK'
    BY <1>a, <2>1, <1>22 DEF FlagsTypeOK, ForeignSet, Step, States, chanVars, kernelVars, histVars
  <2> QED
    BY <1>a, <1>b, <2>1, <2>2, <2>3
<1>23. ASSUME NEW t \in Threads, NEW n \in 1..app.maxMessage, ForeignQueue(t, n) PROVE Parts'
  <2>1. UNCHANGED <<app, interest, index, added, revents, failed, state, owner, peer, reading, delayed,
                    destroyed, fin, calls, ups, downs>>
    BY <1>23 DEF ForeignQueue, Step, connVars, chanVars, kernelVars, histVars
  <2>2. CallTypeOK'
    BY <1>a, <2>1, <1>23 DEF CallTypeOK, ForeignQueue, Step, connVars, chanVars, kernelVars, histVars
  <2> QED
    BY <1>a, <1>b, <2>1, <2>2
<1>24. ASSUME UNCHANGED vars PROVE Parts'
  <2>1. UNCHANGED app /\ UNCHANGED <<interest, index,
                                     added>> /\ UNCHANGED revents /\ UNCHANGED call /\ UNCHANGED failed
    BY <1>24 DEF vars, connVars, chanVars, kernelVars, userVars, histVars
  <2>2. /\ UNCHANGED <<state, owner, peer, reading, delayed, destroyed, fin>>
        /\ UNCHANGED <<calls, ups, downs>>
    BY <1>24 DEF vars, connVars, chanVars, kernelVars, userVars, histVars
  <2>3. ChannelTypeOK' /\ ReventsTypeOK' /\ CallTypeOK' /\ FailedTypeOK'
    BY <1>b, <2>1
  <2>5. app' \in Apps
    BY <1>a, <2>1
  <2>4. FlagsTypeOK' /\ CountsTypeOK'
    BY <1>b, <2>1, <2>2
  <2> QED
    BY <2>3, <2>4, <2>5, Zenon
<1> HIDE DEF Parts
<1>25. LoopStep => Parts'
  BY <1>1, <1>2, <1>3, <1>4, <1>5, <1>6, <1>7, <1>8, <1>9, <1>10 DEF LoopStep
<1>26. PollStep => Parts'
  BY <1>11 DEF PollStep
<1>27. LoopUser => Parts'
  BY <1>12, <1>13, <1>14, <1>15, <1>16 DEF LoopUser
<1>28. ASSUME NEW t \in Threads, ForeignCall(t) PROVE Parts'
  BY <1>28, <1>22, <1>23 DEF ForeignCall
<1>29. Next => Parts'
  BY <1>17, <1>18, <1>19, <1>20, <1>21, <1>25, <1>26, <1>27, <1>28 DEF Next
<1> QED
  BY <1>24, <1>29 DEF Parts, ControlTypeOK, ChannelTypeOK, ReventsTypeOK, CallTypeOK, FailedTypeOK,
                      FlagsTypeOK, CountsTypeOK

\* How steps change the queue.
Popping == queue # <<>> /\ queue' = Tail(queue)
Pushing(op) == \E data \in Seq(Bytes) : queue' = Append(queue, Functor(op, data))

LEMMA Queued ==
    ASSUME queue \in Seq(QueuedFunctors), NEW op \in Functors, Pushing(op)
    PROVE  /\ queue' \in Seq(QueuedFunctors)
           /\ QueueOps' = QueueOps \union {op}
           /\ DestroyOnce /\ (op # "connectDestroyed" \/ "connectDestroyed" \notin QueueOps) => DestroyOnce'
<1>1. PICK data \in Seq(Bytes) : queue' = Append(queue, Functor(op, data))
  BY DEF Pushing
<1>2. [op |-> op, data |-> data] \in QueuedFunctors
  BY DEF QueuedFunctors
<1>3. PICK f \in QueuedFunctors : f = Functor(op, data) /\ f.op = op
  BY <1>2 DEF Functor
<1> QED
  BY <1>1, <1>3, Pushed

LEMMA DataKept ==
    ASSUME TypeOK, [Next]_vars
    PROVE  DataTypeOK' /\ ("connectEstablished" \in QueueOps' => "connectEstablished" \in QueueOps)
<1> DEFINE NoNew == "connectEstablished" \in QueueOps' => "connectEstablished" \in QueueOps
           Goal == DataTypeOK' /\ NoNew
<1> HIDE DEF NoNew
<1>a. /\ out \in Seq(Bytes) /\ wire \in Seq(Bytes) /\ queue \in Seq(QueuedFunctors)
      /\ sent \in [Senders -> 0..app.maxBytes] /\ app.maxBytes \in Nat /\ app.maxMessage \in Nat
      /\ call \in [Threads -> {Idle} \union [op : app.foreignOps, at : {"checked", "set"}]]
      /\ app.foreignOps \subseteq Ops \ {"forceCloseWithDelay"}
      /\ <<>> \in Seq(Bytes)
  BY AppTypes DEF TypeOK, ControlTypeOK, DataTypeOK
<1>b. ASSUME app' = app, out' \in Seq(Bytes), wire' \in Seq(Bytes), queue' \in Seq(QueuedFunctors),
             sent' \in [Senders -> 0..app.maxBytes], NoNew
      PROVE  Goal
  BY <1>b DEF DataTypeOK, QueuedFunctors, Bytes
<1>c. queue' = queue \/ Popping \/ (\E op \in Functors : op # "connectEstablished" /\ Pushing(op))
      => queue' \in Seq(QueuedFunctors) /\ NoNew
  BY <1>a, Popped, Queued DEF Popping, NoNew, QueueOps
<1>1. ASSUME OnClose PROVE Goal
  <2>1. UNCHANGED <<app, out, wire, queue, sent>>
    BY <1>1 DEF OnClose, HandleClose, CloseChecks, Update, Dispatch, Step, kernelVars, userVars
  <2> QED
    BY <1>a, <1>b, <1>c, <2>1
<1>2. ASSUME OnRead PROVE Goal
  <2>1. UNCHANGED <<app, out, wire, queue, sent>>
    BY <1>2 DEF OnRead, Dispatch, Step, connVars, chanVars, userVars, histVars
  <2> QED
    BY <1>a, <1>b, <1>c, <2>1
<1>3. ASSUME OnWrite PROVE Goal
  <2>1. app' = app /\ sent' = sent /\ (queue' = queue \/ Pushing("writeCompleteCallback"))
    BY <1>a, <1>3 DEF Pushing, OnWrite, Update, Dispatch, Step, chanVars, userVars, histVars
  <2>2. \/ UNCHANGED <<out, wire>>
        \/ \E k \in 1..Len(out) : wire' = wire \o SubSeq(out, 1, k) /\ out' = SubSeq(out, k + 1, Len(out))
    BY <1>3 DEF OnWrite
  <2>3. out' \in Seq(Bytes) /\ wire' \in Seq(Bytes)
    <3>1. ASSUME NEW k \in 1..Len(out), wire' = wire \o SubSeq(out, 1, k), out' = SubSeq(out, k + 1, Len(out))
          PROVE  out' \in Seq(Bytes) /\ wire' \in Seq(Bytes)
      <4>1. SubSeq(out, 1, k) \in Seq(Bytes) /\ SubSeq(out, k + 1, Len(out)) \in Seq(Bytes)
        BY <1>a
      <4> QED
        BY <1>a, <3>1, <4>1
    <3> QED
      BY <1>a, <2>2, <3>1
  <2> QED
    BY <1>a, <1>b, <1>c, <2>1, <2>3 DEF Functors
<1>4. ASSUME ConnectEstablished PROVE Goal
  <2>1. app' = app /\ Popping /\ UNCHANGED <<out, wire, sent>>
    BY <1>4 DEF Popping, ConnectEstablished, Runs, Step, Pop, Update, kernelVars, userVars
  <2> QED
    BY <1>a, <1>b, <1>c, <2>1
<1>5. ASSUME ConnectDestroyed PROVE Goal
  <2>1. app' = app /\ Popping /\ UNCHANGED <<out, wire, sent>>
    BY <1>5 DEF Popping, ConnectDestroyed, Runs, Step, Pop, kernelVars, userVars
  <2> QED
    BY <1>a, <1>b, <1>c, <2>1
<1>6. ASSUME RunSend PROVE Goal
  <2>1. app' = app /\ out' \in Seq(Bytes) /\ wire' \in Seq(Bytes) /\ queue' \in Seq(QueuedFunctors) /\ NoNew
    BY <1>6, Sent DEF NoNew, UserOps
  <2>2. sent' = sent
    BY <1>6 DEF RunSend, userVars
  <2> QED
    BY <1>a, <1>b, <2>1, <2>2
<1>7. ASSUME RunShutdown PROVE Goal
  <2>1. app' = app /\ Popping /\ UNCHANGED <<out, wire, sent>>
    BY <1>7 DEF Popping, RunShutdown, Runs, Step, Pop, ShutdownInLoop, connVars, chanVars, userVars, histVars
  <2> QED
    BY <1>a, <1>b, <1>c, <2>1
<1>8. ASSUME RunForceClose PROVE Goal
  <2>1. app' = app /\ Popping /\ UNCHANGED <<out, wire, sent>>
    BY <1>8 DEF Popping, RunForceClose, Runs, Step, Pop, HandleClose, CloseChecks, Update, chanVars,
                kernelVars, userVars
  <2> QED
    BY <1>a, <1>b, <1>c, <2>1
<1>9. ASSUME RunReadSwitch PROVE Goal
  <2>1. app' = app /\ Popping /\ UNCHANGED <<out, wire, sent>>
    BY <1>9 DEF Popping, RunReadSwitch, Runs, Step, Pop, StartReadInLoop, StopReadInLoop, Update, chanVars,
                kernelVars, userVars, histVars
  <2> QED
    BY <1>a, <1>b, <1>c, <2>1
<1>10. ASSUME RunUserCallback PROVE Goal
  <2>1. app' = app /\ Popping /\ UNCHANGED <<out, wire, sent>>
    BY <1>10 DEF Popping, RunUserCallback, Runs, Step, Pop, connVars, chanVars, kernelVars, userVars, histVars
  <2> QED
    BY <1>a, <1>b, <1>c, <2>1
<1>11. ASSUME NEW r \in BOOLEAN, NEW w \in BOOLEAN, Poll(r, w) PROVE Goal
  <2>1. UNCHANGED <<app, out, wire, queue, sent>>
    BY <1>11 DEF Poll, Step, connVars, chanVars, kernelVars, userVars, histVars
  <2> QED
    BY <1>a, <1>b, <1>c, <2>1
<1>12. ASSUME NEW n \in 1..app.maxMessage, LoopSend(n) PROVE Goal
  <2>1. app' = app /\ out' \in Seq(Bytes) /\ wire' \in Seq(Bytes) /\ queue' \in Seq(QueuedFunctors) /\ NoNew
    BY <1>12, Sent DEF NoNew, UserOps
  <2>2. sent' \in [Senders -> 0..app.maxBytes]
    BY <1>a, <1>12 DEF LoopSend, Senders
  <2> QED
    BY <1>b, <2>1, <2>2
<1>13. ASSUME LoopShutdown PROVE Goal
  <2>1. UNCHANGED <<app, out, wire, queue, sent>>
    BY <1>13 DEF LoopShutdown, LoopMay, Step, Counted, ShutdownInLoop, chanVars, histVars
  <2> QED
    BY <1>a, <1>b, <1>c, <2>1
<1>14. ASSUME LoopForceClose PROVE Goal
  <2>1. app' = app /\ UNCHANGED <<out, wire, sent>> /\ (Pushing("forceCloseInLoop") \/ queue' = queue)
    BY <1>a, <1>14 DEF Pushing, LoopForceClose, LoopMay, Step, Counted, ForceClose, chanVars, kernelVars,
                       histVars
  <2> QED
    BY <1>a, <1>b, <1>c, <2>1 DEF Functors
<1>15. ASSUME LoopForceCloseWithDelay PROVE Goal
  <2>1. UNCHANGED <<app, out, wire, queue, sent>>
    BY <1>15 DEF LoopForceCloseWithDelay, LoopMay, Step, Counted, chanVars, kernelVars, histVars
  <2> QED
    BY <1>a, <1>b, <1>c, <2>1
<1>16. ASSUME LoopReadSwitch PROVE Goal
  <2>1. UNCHANGED <<app, out, wire, queue, sent>>
    BY <1>16 DEF LoopReadSwitch, LoopMay, Step, Counted, StartReadInLoop, StopReadInLoop, Update, chanVars,
                 kernelVars, histVars
  <2> QED
    BY <1>a, <1>b, <1>c, <2>1
<1>17. ASSUME DelayExpires PROVE Goal
  <2>1. app' = app /\ UNCHANGED <<out, wire, sent>> /\ (Pushing("forceCloseInLoop") \/ queue' = queue)
    BY <1>a, <1>17 DEF Pushing, DelayExpires, Step, ForceClose, chanVars, kernelVars, userVars, histVars
  <2> QED
    BY <1>a, <1>b, <1>c, <2>1 DEF Functors
<1>18. ASSUME OwnerLetsGo PROVE Goal
  <2>1. app' = app /\ UNCHANGED <<out, wire, sent>> /\ (Pushing("connectDestroyed"))
    BY <1>a, <1>18 DEF Pushing, OwnerLetsGo, Step, connVars, chanVars, kernelVars, userVars, histVars
  <2> QED
    BY <1>a, <1>b, <1>c, <2>1 DEF Functors
<1>19. ASSUME PeerCloses PROVE Goal
  <2>1. UNCHANGED <<app, out, wire, queue, sent>>
    BY <1>19 DEF PeerCloses, Step, connVars, chanVars, userVars, histVars
  <2> QED
    BY <1>a, <1>b, <1>c, <2>1
<1>20. ASSUME Destroy PROVE Goal
  <2>1. UNCHANGED <<app, out, wire, queue, sent>>
    BY <1>20 DEF Destroy, Step, connVars, chanVars, kernelVars, userVars
  <2> QED
    BY <1>a, <1>b, <1>c, <2>1
<1>21. ASSUME NEW t \in Threads, NEW op \in Ops, ForeignCheck(t, op) PROVE Goal
  <2>1. UNCHANGED <<app, out, wire, queue, sent>>
    BY <1>21 DEF ForeignCheck, Step, Counted, connVars, chanVars, kernelVars, histVars
  <2> QED
    BY <1>a, <1>b, <1>c, <2>1
<1>22. ASSUME NEW t \in Threads, ForeignSet(t) PROVE Goal
  <2>1. UNCHANGED <<app, out, wire, queue, sent>>
    BY <1>22 DEF ForeignSet, Step, chanVars, kernelVars, histVars
  <2> QED
    BY <1>a, <1>b, <1>c, <2>1
<1>23. ASSUME NEW t \in Threads, NEW n \in 1..app.maxMessage, ForeignQueue(t, n) PROVE Goal
  <2>1. app' = app /\ UNCHANGED <<out, wire>>
    BY <1>23 DEF ForeignQueue, Step, connVars, chanVars, kernelVars, histVars
  <2>2. CASE call[t].op = "send"
    <3>1. sent' = [sent EXCEPT ![t] = @ + n] /\ sent[t] + n <= app.maxBytes /\ t \in Senders
      BY <1>23, <2>2 DEF ForeignQueue, Senders
    <3>2. Message(t, n) \in Seq(Bytes)
      BY <3>1, Messages
    <3>3. sent' \in [Senders -> 0..app.maxBytes]
      BY <1>a, <3>1
    <3>4. Pushing("sendInLoop")
      BY <1>23, <2>2, <3>2 DEF ForeignQueue, Pushing
    <3> QED
      BY <1>a, <1>b, <1>c, <2>1, <3>3, <3>4 DEF Functors
  <2>3. CASE call[t].op # "send"
    <3>1. queue' = Append(queue, Functor(InLoop[call[t].op], <<>>)) /\ sent' = sent
      BY <1>23, <2>3 DEF ForeignQueue
    <3>2. InLoop[call[t].op] \in Functors /\ InLoop[call[t].op] # "connectEstablished"
      <4>1. call[t] \in [op : app.foreignOps, at : {"checked", "set"}]
        BY <1>23, <1>a DEF ForeignQueue, Idle
      <4>2. call[t].op \in {"shutdown", "forceClose", "startRead", "stopRead"}
        BY <1>a, <2>3, <4>1 DEF Ops
      <4> QED
        BY <4>2 DEF InLoop, Functors
    <3>3. Pushing(InLoop[call[t].op])
      BY <1>a, <3>1 DEF Pushing
    <3> QED
      BY <1>a, <1>b, <1>c, <2>1, <3>1, <3>2, <3>3
  <2> QED
    BY <2>2, <2>3
<1>24. ASSUME UNCHANGED vars PROVE Goal
  <2>1. UNCHANGED <<app, out, wire, queue, sent>>
    BY <1>24 DEF vars, connVars, chanVars, kernelVars, userVars, histVars
  <2> QED
    BY <1>a, <1>b, <1>c, <2>1
<1> HIDE DEF Goal
<1>25. LoopStep => Goal
  BY <1>1, <1>2, <1>3, <1>4, <1>5, <1>6, <1>7, <1>8, <1>9, <1>10 DEF LoopStep
<1>26. PollStep => Goal
  BY <1>11 DEF PollStep
<1>27. LoopUser => Goal
  BY <1>12, <1>13, <1>14, <1>15, <1>16 DEF LoopUser
<1>28. ASSUME NEW t \in Threads, ForeignCall(t) PROVE Goal
  BY <1>28, <1>22, <1>23 DEF ForeignCall
<1>29. Next => Goal
  BY <1>17, <1>18, <1>19, <1>20, <1>21, <1>25, <1>26, <1>27, <1>28 DEF Next
<1> QED
  BY <1>24, <1>29 DEF Goal, NoNew

LEMMA Forward ==
    ASSUME [Next]_vars
    PROVE  app' = app /\ (ups' = ups \/ (ups' = ups + 1 /\ ConnectEstablished)) /\ (calls' = calls \/ calls' = calls + 1)
<1> DEFINE Goal == app' = app /\ (ups' = ups \/ (ups' = ups + 1 /\ ConnectEstablished)) /\ (calls' = calls \/ calls' = calls + 1)
<1>1. ASSUME LoopStep PROVE Goal
  BY <1>1 DEF LoopStep, OnClose, OnRead, OnWrite, ConnectEstablished, ConnectDestroyed, RunSend, RunShutdown,
              RunForceClose,
              RunReadSwitch, RunUserCallback, Dispatch, Runs, Step, HandleClose, userVars, histVars
<1>2. ASSUME LoopUser PROVE Goal
  BY <1>2 DEF LoopUser, LoopSend, LoopShutdown, LoopForceClose, LoopForceCloseWithDelay, LoopReadSwitch,
              LoopMay, Step,
              Counted, userVars, histVars
<1>3. ASSUME PollStep \/ DelayExpires \/ OwnerLetsGo \/ PeerCloses \/ Destroy PROVE Goal
  BY <1>3 DEF PollStep, Poll, DelayExpires, OwnerLetsGo, PeerCloses, Destroy, Step, userVars, histVars
<1>4. ASSUME NEW t \in Threads, NEW op \in Ops, ForeignCall(t) \/ ForeignCheck(t, op) PROVE Goal
  BY <1>4 DEF ForeignCall, ForeignSet, ForeignQueue, ForeignCheck, Step, Counted, userVars, histVars
<1>5. ASSUME UNCHANGED vars PROVE Goal
  BY <1>5 DEF vars, userVars, histVars
<1>6. Ops # {}
  BY DEF Ops
<1> HIDE DEF Goal
<1>7. Goal
  BY <1>1, <1>2, <1>3, <1>4, <1>5, <1>6 DEF Next
<1> QED
  BY <1>7 DEF Goal

-----------------------------------------------------------------------------
(* Before connectEstablished() there is only the end of the server.        *)

LEMMA QueuedFirst ==
    ASSUME BeforeInv, ups = 0
    PROVE  queue # <<>> /\ Head(queue).op = "connectEstablished"
<1>1. \/ queue = <<Functor("connectEstablished", <<>>)>>
      \/ queue = <<Functor("connectEstablished", <<>>), Functor("connectDestroyed", <<>>)>>
  BY DEF BeforeInv
<1>2. \A f, g : Head(<<f>>) = f /\ Head(<<f, g>>) = f /\ <<f>> # <<>> /\ <<f, g>> # <<>>
  OBVIOUS
<1>3. Functor("connectEstablished", <<>>).op = "connectEstablished"
  BY DEF Functor
<1> QED
  BY <1>1, <1>2, <1>3

LEMMA FirstSteps ==
    ASSUME TypeOK, BeforeInv, ups = 0, Next
    PROVE  ConnectEstablished \/ OwnerLetsGo \/ PeerCloses
<1>1. /\ interest = {} /\ index = "kNew" /\ revents = <<>> /\ ~delayed
      /\ call = [t \in Threads |-> Idle]
      /\ \/ queue = <<Functor("connectEstablished", <<>>)>>
         \/ queue = <<Functor("connectEstablished", <<>>), Functor("connectDestroyed", <<>>)>>
  BY DEF BeforeInv
<1>2. queue # <<>> /\ Head(queue).op = "connectEstablished"
  BY QueuedFirst
<1>3. LoopStep => ConnectEstablished
  BY <1>1, <1>2 DEF LoopStep, OnClose, OnRead, OnWrite, Dispatch, Runs, ConnectDestroyed, RunSend, RunShutdown,
                    RunForceClose, RunReadSwitch, RunUserCallback
<1>6. ~Destroy
  <2>1. "connectEstablished" \notin BareThis /\ queue \in Seq(QueuedFunctors)
    BY DEF BareThis, TypeOK, DataTypeOK
  <2>2. 1 \in 1..Len(queue) /\ queue[1] = Head(queue)
    BY <1>2, <2>1
  <2> QED
    BY <1>2, <2>1, <2>2 DEF Destroy
<1>4. ~PollStep /\ ~LoopUser /\ ~DelayExpires /\ ~Destroy
  BY <1>1, <1>2, <1>6 DEF PollStep, Poll, LoopUser, LoopSend, LoopShutdown, LoopForceClose, LoopForceCloseWithDelay,
                    LoopReadSwitch, LoopMay, DelayExpires
<1>5. \A t \in Threads : ~ForeignCall(t) /\ \A op \in Ops : ~ForeignCheck(t, op)
  BY <1>1 DEF ForeignCall, ForeignSet, ForeignQueue, ForeignCheck, Idle
<1> QED
  BY <1>3, <1>4, <1>5 DEF Next

LEMMA BeforeKept ==
    ASSUME TypeOK, BeforeInv, [Next]_vars
    PROVE  BeforeInv'
<1>1. CASE UNCHANGED vars
  BY <1>1 DEF BeforeInv, QueueOps, vars, connVars, chanVars, kernelVars, userVars, histVars
<1>2. CASE ups = 1
  <2>1. ups' = 1 /\ "connectEstablished" \notin QueueOps
    <3>1. "connectEstablished" \notin QueueOps
      BY <1>2 DEF BeforeInv
    <3>2. ConnectEstablished => "connectEstablished" \in QueueOps
      BY Popped DEF ConnectEstablished, Runs, Pop, TypeOK, DataTypeOK
    <3> QED
      BY <1>2, <3>1, <3>2, Forward
  <2>2. "connectEstablished" \notin QueueOps'
    BY <2>1, DataKept
  <2> QED
    BY <2>1, <2>2 DEF BeforeInv
<1>3. CASE ups = 0 /\ ConnectEstablished
  <2>1. ups' = 1
    BY <1>3 DEF ConnectEstablished
  <2>2. \/ queue' = <<>>
        \/ queue' = <<Functor("connectDestroyed", <<>>)>>
    <3>1. \A f, g : Tail(<<f>>) = <<>> /\ Tail(<<f, g>>) = <<g>>
      OBVIOUS
    <3>2. queue' = Tail(queue)
      BY <1>3 DEF ConnectEstablished, Pop
    <3> QED
      BY <1>3, <3>1, <3>2 DEF BeforeInv
  <2>3. QueueOps' \subseteq {"connectDestroyed"}
    BY <2>2 DEF QueueOps, Functor
  <2> QED
    BY <2>1, <2>3 DEF BeforeInv
<1>4. CASE ups = 0 /\ OwnerLetsGo
  <2>1. ups' = 0 /\ owner = "has" /\ owner' = "dead"
    BY <1>4 DEF OwnerLetsGo, BeforeInv, histVars
  <2>2. queue' = <<Functor("connectEstablished", <<>>), Functor("connectDestroyed", <<>>)>>
    <3>1. queue = <<Functor("connectEstablished", <<>>)>> /\ queue' = Append(queue, Functor("connectDestroyed", <<>>))
      BY <1>4, <2>1 DEF OwnerLetsGo, BeforeInv
    <3>2. queue' = queue \o <<Functor("connectDestroyed", <<>>)>>
      <4>1. queue \in Seq({Functor("connectEstablished", <<>>), Functor("connectDestroyed", <<>>)})
        BY <3>1
      <4> QED
        BY <3>1, <4>1, AppendIsConcat
    <3> QED
      BY <3>1, <3>2, TwoInARow
  <2>3. UNCHANGED <<state, interest, index, added, revents, out, fin, downs, calls, delayed, reading, call>>
    BY <1>4 DEF OwnerLetsGo, connVars, chanVars, kernelVars, userVars, histVars
  <2> QED
    BY <1>4, <2>1, <2>2, <2>3 DEF BeforeInv
<1>5. CASE ups = 0 /\ PeerCloses
  <2>1. UNCHANGED <<state, interest, index, added, revents, out, fin, downs, calls, delayed, reading, call,
                    ups, owner, queue>>
    BY <1>5 DEF PeerCloses, connVars, chanVars, kernelVars, userVars, histVars
  <2> QED
    BY <1>5, <2>1 DEF BeforeInv
<1>6. ups \in {0, 1}
  BY DEF TypeOK, ControlTypeOK
<1> QED
  BY <1>1, <1>2, <1>3, <1>4, <1>5, <1>6, FirstSteps

\* A step that leaves the channel, the buffer and the FIN alone, or ends with a close.
LEMMA WritesKept ==
    ASSUME TypeOK, WritesInv, [Next]_vars
    PROVE  WritesInv'
<1>a. downs \in Nat /\ out \in Seq(Bytes)
  BY DEF TypeOK, ControlTypeOK, DataTypeOK
<1>b. UNCHANGED <<interest, out, fin, downs>> \/ downs' = downs + 1 => WritesInv'
  BY <1>a DEF WritesInv, Writing
<1>c. UNCHANGED <<out, fin, downs>> /\ (\E events \in {interest \union {"read"},
                  interest \ {"read"}} : interest' = events) => WritesInv'
  BY DEF WritesInv, Writing
<1>d. UNCHANGED <<interest, out, downs>> /\ ShutdownInLoop => WritesInv'
  BY DEF WritesInv, Writing, ShutdownInLoop
<1>1. ASSUME OnClose PROVE WritesInv'
  BY <1>b, <1>1 DEF OnClose, HandleClose
<1>2. ASSUME OnRead PROVE WritesInv'
  BY <1>b, <1>2 DEF OnRead, connVars, chanVars, userVars, histVars
<1>3. ASSUME OnWrite PROVE WritesInv'
  <2>1. UNCHANGED <<fin, downs>>
    BY <1>3 DEF OnWrite, histVars
  <2>2. CASE ~Writing \/ Broken
    BY <1>b, <1>3, <2>1, <2>2 DEF OnWrite, chanVars
  <2>3. CASE ~(~Writing \/ Broken)
    <3>1. PICK k \in 1..Len(out) :
              /\ out' = SubSeq(out, k + 1, Len(out))
              /\ IF k = Len(out) THEN interest' = interest \ {"write"} ELSE UNCHANGED interest
      BY <1>3, <2>3 DEF OnWrite, Update, chanVars
    <3>2. ~fin /\ Writing
      BY <2>3 DEF Broken
    <3>3. CASE k = Len(out)
      <4>1. out' = <<>>
        BY <1>a, <3>1, <3>3
      <4> QED
        BY <2>1, <3>1, <3>2, <3>3, <4>1 DEF WritesInv, Writing
    <3>4. CASE k # Len(out)
      <4>1. out' # <<>>
        <5>1. Len(out) \in Nat /\ k < Len(out)
          BY <1>a, <3>1, <3>4
        <5>2. Len(SubSeq(out, k + 1, Len(out))) = Len(out) - k
          BY <1>a, <5>1
        <5>3. Len(out') = Len(out) - k
          BY <3>1, <5>2, Zenon
        <5>4. Len(<<>>) = 0
          OBVIOUS
        <5> QED
          BY <5>1, <5>3, <5>4
      <4> QED
        BY <2>1, <3>1, <3>2, <3>4, <4>1 DEF WritesInv, Writing
    <3> QED
      BY <3>3, <3>4
  <2> QED
    BY <2>2, <2>3
<1>4. ASSUME ConnectEstablished PROVE WritesInv'
  BY <1>b, <1>c, <1>4 DEF ConnectEstablished, Runs, Step, Pop, Update, kernelVars, userVars
<1>5. ASSUME ConnectDestroyed PROVE WritesInv'
  BY <1>b, <1>5 DEF ConnectDestroyed, kernelVars
<1>6. ASSUME RunSend PROVE WritesInv'
  BY <1>6, Sent
<1>7. ASSUME RunShutdown PROVE WritesInv'
  BY <1>d, <1>7 DEF RunShutdown, Runs, Step, Pop, connVars, chanVars, userVars, histVars
<1>8. ASSUME RunForceClose PROVE WritesInv'
  BY <1>b, <1>8 DEF RunForceClose, HandleClose, chanVars, kernelVars
<1>9. ASSUME RunReadSwitch PROVE WritesInv'
  BY <1>b, <1>c, <1>9 DEF RunReadSwitch, Runs, Step, Pop, StartReadInLoop, StopReadInLoop, Update, chanVars,
                          kernelVars, userVars, histVars
<1>10. ASSUME RunUserCallback PROVE WritesInv'
  BY <1>b, <1>10 DEF RunUserCallback, Runs, Step, Pop, connVars, chanVars, kernelVars, userVars, histVars
<1>11. ASSUME NEW r \in BOOLEAN, NEW w \in BOOLEAN, Poll(r, w) PROVE WritesInv'
  BY <1>b, <1>11 DEF Poll, Step, connVars, chanVars, kernelVars, userVars, histVars
<1>12. ASSUME NEW n \in 1..app.maxMessage, LoopSend(n) PROVE WritesInv'
  BY <1>12, Sent
<1>13. ASSUME LoopShutdown PROVE WritesInv'
  BY <1>d, <1>13 DEF LoopShutdown, LoopMay, Step, Counted, chanVars, histVars
<1>14. ASSUME LoopForceClose PROVE WritesInv'
  BY <1>b, <1>14 DEF LoopForceClose, LoopMay, Step, Counted, ForceClose, chanVars, kernelVars, histVars
<1>15. ASSUME LoopForceCloseWithDelay PROVE WritesInv'
  BY <1>b, <1>15 DEF LoopForceCloseWithDelay, LoopMay, Step, Counted, chanVars, kernelVars, histVars
<1>16. ASSUME LoopReadSwitch PROVE WritesInv'
  BY <1>b, <1>c, <1>16 DEF LoopReadSwitch, LoopMay, Step, Counted, StartReadInLoop, StopReadInLoop, Update,
                           chanVars, kernelVars, histVars
<1>17. ASSUME DelayExpires PROVE WritesInv'
  BY <1>b, <1>17 DEF DelayExpires, Step, ForceClose, chanVars, kernelVars, userVars, histVars
<1>18. ASSUME OwnerLetsGo PROVE WritesInv'
  BY <1>b, <1>18 DEF OwnerLetsGo, Step, connVars, chanVars, kernelVars, userVars, histVars
<1>19. ASSUME PeerCloses PROVE WritesInv'
  BY <1>b, <1>19 DEF PeerCloses, Step, connVars, chanVars, userVars, histVars
<1>20. ASSUME Destroy PROVE WritesInv'
  BY <1>b, <1>20 DEF Destroy, Step, connVars, chanVars, kernelVars, userVars
<1>21. ASSUME NEW t \in Threads, NEW op \in Ops, ForeignCheck(t, op) PROVE WritesInv'
  BY <1>b, <1>21 DEF ForeignCheck, Step, Counted, connVars, chanVars, kernelVars, histVars
<1>22. ASSUME NEW t \in Threads, ForeignSet(t) PROVE WritesInv'
  BY <1>b, <1>22 DEF ForeignSet, Step, chanVars, kernelVars, histVars
<1>23. ASSUME NEW t \in Threads, NEW n \in 1..app.maxMessage, ForeignQueue(t, n) PROVE WritesInv'
  BY <1>b, <1>23 DEF ForeignQueue, Step, connVars, chanVars, kernelVars, histVars
<1>24. ASSUME UNCHANGED vars PROVE WritesInv'
  BY <1>b, <1>24 DEF vars, connVars, chanVars, kernelVars, userVars, histVars
<1>25. LoopStep => WritesInv'
  BY <1>1, <1>2, <1>3, <1>4, <1>5, <1>6, <1>7, <1>8, <1>9, <1>10 DEF LoopStep
<1>26. PollStep => WritesInv'
  BY <1>11 DEF PollStep
<1>27. LoopUser => WritesInv'
  BY <1>12, <1>13, <1>14, <1>15, <1>16 DEF LoopUser
<1>28. ASSUME NEW t \in Threads, ForeignCall(t) PROVE WritesInv'
  BY <1>28, <1>22, <1>23 DEF ForeignCall
<1>29. Next => WritesInv'
  BY <1>17, <1>18, <1>19, <1>20, <1>21, <1>25, <1>26, <1>27, <1>28 DEF Next
<1> QED
  BY <1>24, <1>29

-----------------------------------------------------------------------------
(* The bytes: what the kernel took, what outputBuffer_ holds and what waits *)
(* in the queue form one pipe.                                              *)

\* The first functor's bytes go behind s; there may be none.
LEMMA PipeTaken ==
    ASSUME NEW s \in Seq(Bytes), NEW q \in Seq(QueuedFunctors), NEW n, q # <<>>, Piped(s, q, n)
    PROVE  Piped(s \o Head(q).data, Tail(q), n)
<1> DEFINE d == Head(q).data
           u == s \o d
           r == Tail(q)
<1>1. /\ d = q[1].data /\ d \in Seq(Bytes) /\ u \in Seq(Bytes) /\ Len(u) = Len(s) + Len(d)
      /\ Len(s) \in Nat /\ Len(d) \in Nat /\ Len(q) \in Nat /\ Len(r) = Len(q) - 1 /\ 1 \in 1..Len(q)
      /\ \A i \in 1..Len(r) : i + 1 \in 1..Len(q) /\ i + 1 > 1 /\ r[i] = q[i + 1]
  <2>1. Head(q) = q[1] /\ Head(q) \in QueuedFunctors
    OBVIOUS
  <2>2. d \in Seq(Bytes)
    BY <2>1 DEF QueuedFunctors
  <2> QED
    BY <2>1, <2>2
<1>2. /\ \A i \in 1..Len(s) : i \in 1..Len(u) /\ u[i] = s[i]
      /\ \A i \in 1..Len(d) : Len(s) + i \in 1..Len(u) /\ u[Len(s) + i] = d[i]
      /\ \A i \in 1..Len(u) : \/ i \in 1..Len(s) /\ u[i] = s[i]
                              \/ i - Len(s) \in 1..Len(d) /\ u[i] = d[i - Len(s)]
  BY <1>1
<1>3. \A b : Has(u, b) <=> Has(s, b) \/ Has(d, b)
  BY <1>2 DEF Has
<1>4. Increasing(u)
  <2> SUFFICES ASSUME NEW i \in 1..Len(u), NEW j \in 1..Len(u), i < j, u[i][1] = u[j][1]
               PROVE  u[i][2] < u[j][2]
    BY DEF Increasing
  <2>1. CASE j \in 1..Len(s)
    BY <1>1, <1>2, <2>1 DEF Piped, Increasing
  <2>2. CASE i \in 1..Len(s) /\ j \notin 1..Len(s)
    <3>1. j - Len(s) \in 1..Len(d) /\ u[j] = d[j - Len(s)] /\ u[i] = s[i]
      BY <1>2, <2>2
    <3>2. AllBefore(s, d)
      BY <1>1 DEF Piped
    <3> QED
      BY <2>2, <3>1, <3>2 DEF AllBefore
  <2>3. CASE i \notin 1..Len(s)
    <3>1. /\ i - Len(s) \in 1..Len(d) /\ u[i] = d[i - Len(s)]
          /\ j - Len(s) \in 1..Len(d) /\ u[j] = d[j - Len(s)]
          /\ i - Len(s) < j - Len(s)
      BY <1>1, <1>2, <2>3
    <3>2. Increasing(d)
      BY <1>1 DEF Piped
    <3> QED
      BY <3>1, <3>2 DEF Increasing
  <2> QED
    BY <1>1, <2>1, <2>2, <2>3
<1>5. ASSUME NEW i \in 1..Len(r) PROVE Increasing(r[i].data) /\ AllBefore(u, r[i].data)
  <2>1. Increasing(q[i + 1].data) /\ AllBefore(s, q[i + 1].data) /\ AllBefore(d, q[i + 1].data)
    BY <1>1 DEF Piped
  <2>2. AllBefore(u, r[i].data)
    <3> SUFFICES ASSUME NEW k \in 1..Len(u), NEW j \in 1..Len(q[i + 1].data), u[k][1] = q[i + 1].data[j][1]
                 PROVE  u[k][2] < q[i + 1].data[j][2]
      BY <1>1 DEF AllBefore
    <3>1. CASE k \in 1..Len(s) /\ u[k] = s[k]
      BY <2>1, <3>1 DEF AllBefore
    <3>2. CASE k - Len(s) \in 1..Len(d) /\ u[k] = d[k - Len(s)]
      BY <2>1, <3>2 DEF AllBefore
    <3> QED
      BY <1>2, <3>1, <3>2
  <2> QED
    BY <1>1, <2>1, <2>2
<1>6. \A i, j \in 1..Len(r) : i < j => AllBefore(r[i].data, r[j].data)
  BY <1>1 DEF Piped
<1>7. ASSUME NEW b \in Bytes
      PROVE  (Has(u, b) \/ \E i \in 1..Len(r) : Has(r[i].data, b)) <=> b[2] <= n[b[1]]
  <2>1. (Has(s, b) \/ \E i \in 1..Len(q) : Has(q[i].data, b)) <=> b[2] <= n[b[1]]
    BY DEF Piped
  <2>2. \A i \in 1..Len(q) : i = 1 \/ (i - 1 \in 1..Len(r) /\ r[i - 1] = q[i])
    <3> TAKE i \in 1..Len(q)
    <3>1. i # 1 => i - 1 \in 1..Len(r) /\ (i - 1) + 1 = i
      BY <1>1
    <3> QED
      BY <1>1, <3>1
  <2> HIDE DEF d, u, r
  <2>3. (\E i \in 1..Len(q) : Has(q[i].data, b)) <=> Has(d, b) \/ \E i \in 1..Len(r) : Has(r[i].data, b)
    <3>1. ASSUME NEW i \in 1..Len(q), Has(q[i].data, b)
          PROVE  Has(d, b) \/ \E j \in 1..Len(r) : Has(r[j].data, b)
      <4>1. CASE i = 1
        BY <1>1, <3>1, <4>1
      <4>2. CASE i - 1 \in 1..Len(r) /\ r[i - 1] = q[i]
        <5>1. Has(r[i - 1].data, b)
          BY <3>1, <4>2
        <5> QED
          BY <4>2, <5>1
      <4> QED
        BY <2>2, <4>1, <4>2
    <3>2. ASSUME NEW i \in 1..Len(r), Has(r[i].data, b) PROVE \E j \in 1..Len(q) : Has(q[j].data, b)
      BY <1>1, <3>2
    <3>3. Has(d, b) => \E j \in 1..Len(q) : Has(q[j].data, b)
      BY <1>1
    <3> QED
      BY <3>1, <3>2, <3>3
  <2> QED
    BY <1>3, <2>1, <2>3
<1> HIDE DEF d, u, r
<1>8. Piped(u, r, n)
  BY <1>4, <1>5, <1>6, <1>7 DEF Piped
<1> QED
  BY <1>8 DEF u, r, d

\* Functors without bytes go behind q.
LEMMA PipeLengthened ==
    ASSUME NEW s, NEW q \in Seq(QueuedFunctors), NEW n, NEW more \in Seq(QueuedFunctors),
           \A i \in 1..Len(more) : more[i].data = <<>>, Piped(s, q, n)
    PROVE  Piped(s, q \o more, n)
<1> DEFINE r == q \o more
<1>1. /\ Len(q) \in Nat /\ Len(more) \in Nat /\ Len(r) = Len(q) + Len(more)
      /\ \A i \in 1..Len(q) : i \in 1..Len(r) /\ r[i] = q[i]
      /\ \A i \in 1..Len(r) : i \in 1..Len(q) \/ r[i].data = <<>>
  BY SMT
<1> HIDE DEF r
<1>2. Len(<<>>) = 0
  OBVIOUS
<1>3. Increasing(<<>>) /\ \A d : AllBefore(d, <<>>) /\ AllBefore(<<>>, d)
  BY <1>2 DEF Increasing, AllBefore
<1>4. \A i \in 1..Len(r) : Increasing(r[i].data) /\ AllBefore(s, r[i].data)
  BY <1>1, <1>3 DEF Piped
<1>5. \A i, j \in 1..Len(r) : i < j => AllBefore(r[i].data, r[j].data)
  <2> SUFFICES ASSUME NEW i \in 1..Len(r), NEW j \in 1..Len(r), i < j PROVE AllBefore(r[i].data, r[j].data)
    OBVIOUS
  <2>1. CASE i \in 1..Len(q) /\ j \in 1..Len(q)
    BY <1>1, <2>1 DEF Piped
  <2>2. CASE r[i].data = <<>> \/ r[j].data = <<>>
    BY <1>3, <2>2
  <2> QED
    BY <1>1, <2>1, <2>2
<1>6. \A b : (\E i \in 1..Len(r) : Has(r[i].data, b)) <=> \E i \in 1..Len(q) : Has(q[i].data, b)
  <2>1. \A b : ~Has(<<>>, b)
    BY <1>2 DEF Has
  <2> QED
    BY <1>1, <2>1
<1>7. Piped(s, r, n)
  BY <1>4, <1>5, <1>6 DEF Piped
<1> QED
  BY <1>7 DEF r

\* The next bytes of a sender, and who has been handed over then.
LEMMA NextBytes ==
    ASSUME TypeOK, NEW t \in Senders, NEW m \in 1..app.maxMessage, sent[t] + m <= app.maxBytes
    PROVE  LET d == Message(t, m)
               n == [sent EXCEPT ![t] = @ + m]
           IN  /\ d \in Seq(Bytes) /\ Increasing(d)
               /\ \A i \in 1..Len(d) : d[i][1] = t /\ d[i][2] > sent[t]
               /\ \A b \in Bytes : Has(d, b) \/ b[2] <= sent[b[1]] <=> b[2] <= n[b[1]]
<1> DEFINE d == Message(t, m)
           n == [sent EXCEPT ![t] = @ + m]
<1>1. sent \in [Senders -> 0..app.maxBytes] /\ app.maxBytes \in Nat /\ app.maxMessage \in Nat /\ sent[t] \in Nat
  BY AppTypes DEF TypeOK, DataTypeOK, ControlTypeOK
<1>2. d \in Seq(Bytes)
  BY Messages
<1>3. Len(d) = m /\ \A i \in 1..m : d[i] = <<t, sent[t] + i>>
  BY <1>1 DEF Message
<1>4. Increasing(d) /\ \A i \in 1..Len(d) : d[i][1] = t /\ d[i][2] > sent[t]
  BY <1>1, <1>3 DEF Increasing
<1>5. ASSUME NEW b \in Bytes PROVE Has(d, b) \/ b[2] <= sent[b[1]] <=> b[2] <= n[b[1]]
  <2>1. PICK u \in Senders, k \in 1..app.maxBytes : b = <<u, k>>
    BY DEF Bytes
  <2>2. b[1] = u /\ b[2] = k
    BY <2>1
  <2>3. CASE u # t
    BY <1>1, <1>3, <2>1, <2>2, <2>3 DEF Has
  <2>4. CASE u = t
    <3>1. n[t] = sent[t] + m
      BY <1>1
    <3>2. Has(d, b) <=> k > sent[t] /\ k <= sent[t] + m
      <4>1. Has(d, b) => k > sent[t] /\ k <= sent[t] + m
        BY <1>1, <1>3, <2>1, <2>4 DEF Has
      <4>2. ASSUME k > sent[t], k <= sent[t] + m PROVE Has(d, b)
        <5>1. k - sent[t] \in 1..m /\ sent[t] + (k - sent[t]) = k
          BY <1>1, <4>2
        <5> QED
          BY <1>3, <2>1, <2>4, <5>1 DEF Has
      <4> QED
        BY <4>1, <4>2
    <3> QED
      BY <1>1, <2>2, <2>4, <3>1, <3>2
  <2> QED
    BY <2>3, <2>4
<1> QED
  BY <1>2, <1>4, <1>5

LEMMA PipeFirst ==
    ASSUME NEW s \in Seq(Bytes), NEW q, NEW n \in [Senders -> Int], app.maxBytes \in Nat,
           Piped(s, q, n)
    PROVE  FirstOnes(s)
<1> SUFFICES ASSUME NEW i \in 1..Len(s)
             PROVE  /\ \A j \in 1..(i - 1) : s[j][1] = s[i][1] => s[j][2] < s[i][2]
                    /\ s[i][2] > 1 => \E j \in 1..(i - 1) : s[j] = <<s[i][1], s[i][2] - 1>>
  BY DEF FirstOnes
<1>1. Len(s) \in Nat
  OBVIOUS
<1>2. \A j \in 1..(i - 1) : s[j][1] = s[i][1] => s[j][2] < s[i][2]
  BY <1>1 DEF Piped, Increasing
<1>3. ASSUME s[i][2] > 1 PROVE \E j \in 1..(i - 1) : s[j] = <<s[i][1], s[i][2] - 1>>
  <2>1. PICK t \in Senders, k \in 1..app.maxBytes : s[i] = <<t, k>>
    <3>1. s[i] \in Bytes
      OBVIOUS
    <3> QED
      BY <3>1 DEF Bytes
  <2> DEFINE b == <<t, k - 1>>
  <2>2. k > 1 /\ b \in Bytes /\ s[i] \in Bytes
    <3>1. k > 1
      BY <1>3, <2>1
    <3>2. k - 1 \in 1..app.maxBytes
      BY <2>1, <3>1
    <3> QED
      BY <2>1, <3>1, <3>2 DEF Bytes
  <2>3. k <= n[t]
    <3>1. Has(s, s[i])
      BY DEF Has
    <3>2. s[i][2] <= n[s[i][1]]
      BY <2>2, <3>1 DEF Piped
    <3> QED
      BY <2>1, <3>2
  <2>4. k - 1 <= n[t]
    <3>1. n[t] \in Int
      BY <2>1
    <3> QED
      BY <2>2, <2>3, <3>1
  <2>5. Has(s, b) \/ \E j \in 1..Len(q) : Has(q[j].data, b)
    BY <2>2, <2>4 DEF Piped
  <2>6. ~\E j \in 1..Len(q) : Has(q[j].data, b)
    <3> SUFFICES ASSUME NEW j \in 1..Len(q), Has(q[j].data, b) PROVE FALSE
      OBVIOUS
    <3>1. AllBefore(s, q[j].data)
      BY DEF Piped
    <3> QED
      BY <2>1, <3>1 DEF AllBefore, Has
  <2>7. PICK j \in 1..Len(s) : s[j] = b
    BY <2>5, <2>6 DEF Has
  <2>8. j < i
    BY <1>1, <2>1, <2>7 DEF Piped, Increasing
  <2> QED
    BY <1>1, <2>1, <2>7, <2>8
<1> QED
  BY <1>2, <1>3

\* A send() of the loop's thread goes behind s, past what other threads have queued.
LEMMA PipeSent ==
    ASSUME TypeOK, NEW s \in Seq(Bytes), NEW q \in Seq(QueuedFunctors), NEW m \in 1..app.maxMessage,
           sent[Loop] + m <= app.maxBytes, Piped(s, q, sent),
           \A i \in 1..Len(q) : \A j \in 1..Len(q[i].data) : q[i].data[j][1] # Loop
    PROVE  Piped(s \o Message(Loop, m), q, [sent EXCEPT ![Loop] = @ + m])
<1> DEFINE d == Message(Loop, m)
           n == [sent EXCEPT ![Loop] = @ + m]
           u == s \o d
<1>0. Loop \in Senders
  BY DEF Senders
<1>1. /\ d \in Seq(Bytes) /\ Increasing(d)
      /\ \A i \in 1..Len(d) : d[i][1] = Loop /\ d[i][2] > sent[Loop]
      /\ \A b \in Bytes : Has(d, b) \/ b[2] <= sent[b[1]] <=> b[2] <= n[b[1]]
  BY <1>0, NextBytes
<1>2. sent[Loop] \in Nat
  BY <1>0, AppTypes DEF TypeOK, DataTypeOK, ControlTypeOK
<1> HIDE DEF d, n
<1>3. u \in Seq(Bytes) /\ Len(u) = Len(s) + Len(d) /\ Len(s) \in Nat /\ Len(d) \in Nat
  BY <1>1
<1>4. /\ \A i \in 1..Len(s) : i \in 1..Len(u) /\ u[i] = s[i]
      /\ \A i \in 1..Len(d) : Len(s) + i \in 1..Len(u) /\ u[Len(s) + i] = d[i]
      /\ \A i \in 1..Len(u) : \/ i \in 1..Len(s) /\ u[i] = s[i]
                              \/ i - Len(s) \in 1..Len(d) /\ u[i] = d[i - Len(s)]
  BY <1>1, <1>3
<1> HIDE DEF u
<1>5. ASSUME NEW b PROVE Has(u, b) <=> Has(s, b) \/ Has(d, b)
  <2>1. ASSUME NEW i \in 1..Len(u), u[i] = b PROVE Has(s, b) \/ Has(d, b)
    BY <1>4, <2>1 DEF Has
  <2>2. Has(s, b) => Has(u, b)
    BY <1>4 DEF Has
  <2>3. ASSUME NEW i \in 1..Len(d), d[i] = b PROVE Has(u, b)
    <3>1. Len(s) + i \in 1..Len(u) /\ u[Len(s) + i] = b
      BY <1>4, <2>3
    <3> QED
      BY <3>1 DEF Has
  <2> QED
    BY <2>1, <2>2, <2>3 DEF Has
<1>6. \A i \in 1..Len(s) : s[i] \in Bytes /\ s[i][2] \in Nat /\ (s[i][1] = Loop => s[i][2] <= sent[Loop])
  <2> TAKE i \in 1..Len(s)
  <2>1. s[i] \in Bytes
    OBVIOUS
  <2>2. Has(s, s[i])
    BY DEF Has
  <2>3. s[i][2] \in Nat
    BY <2>1 DEF Bytes
  <2> QED
    BY <2>1, <2>2, <2>3 DEF Piped
<1>7. \A i \in 1..Len(d) : d[i][2] \in Nat
  <2> TAKE i \in 1..Len(d)
  <2>1. d[i] \in Bytes
    BY <1>1
  <2> QED
    BY <2>1 DEF Bytes
<1>8. Increasing(u)
  <2> SUFFICES ASSUME NEW i \in 1..Len(u), NEW j \in 1..Len(u), i < j, u[i][1] = u[j][1]
               PROVE  u[i][2] < u[j][2]
    BY DEF Increasing
  <2>1. CASE j \in 1..Len(s)
    <3>1. i \in 1..Len(s)
      BY <1>3, <2>1
    <3> QED
      BY <1>4, <2>1, <3>1 DEF Piped, Increasing
  <2>2. CASE i \in 1..Len(s) /\ j \notin 1..Len(s)
    <3>1. j - Len(s) \in 1..Len(d) /\ u[j] = d[j - Len(s)] /\ u[i] = s[i]
      BY <1>4, <2>2
    <3>2. u[j][1] = Loop /\ u[j][2] > sent[Loop] /\ u[j][2] \in Nat
      BY <1>1, <1>7, <3>1
    <3>3. u[i][2] \in Nat /\ u[i][2] <= sent[Loop]
      BY <1>6, <2>2, <3>1, <3>2
    <3> QED
      BY <1>2, <3>2, <3>3
  <2>3. CASE i \notin 1..Len(s)
    <3>1. /\ i - Len(s) \in 1..Len(d) /\ u[i] = d[i - Len(s)]
          /\ j - Len(s) \in 1..Len(d) /\ u[j] = d[j - Len(s)]
          /\ i - Len(s) < j - Len(s)
      BY <1>3, <1>4, <2>3
    <3> QED
      BY <1>1, <3>1 DEF Increasing
  <2> QED
    BY <2>1, <2>2, <2>3
<1>9. ASSUME NEW i \in 1..Len(q) PROVE Increasing(q[i].data) /\ AllBefore(u, q[i].data)
  <2>1. Increasing(q[i].data) /\ AllBefore(s, q[i].data)
    BY DEF Piped
  <2>2. AllBefore(u, q[i].data)
    <3> SUFFICES ASSUME NEW k \in 1..Len(u), NEW j \in 1..Len(q[i].data), u[k][1] = q[i].data[j][1]
                 PROVE  u[k][2] < q[i].data[j][2]
      BY DEF AllBefore
    <3>1. q[i].data[j][1] # Loop
      OBVIOUS
    <3>2. k \in 1..Len(s) /\ u[k] = s[k]
      BY <1>1, <1>4, <3>1
    <3> QED
      BY <2>1, <3>2 DEF AllBefore
  <2> QED
    BY <2>1, <2>2
<1>10. \A i, j \in 1..Len(q) : i < j => AllBefore(q[i].data, q[j].data)
  BY DEF Piped
<1>11. ASSUME NEW b \in Bytes
       PROVE  (Has(u, b) \/ \E i \in 1..Len(q) : Has(q[i].data, b)) <=> b[2] <= n[b[1]]
  <2>1. (Has(s, b) \/ \E i \in 1..Len(q) : Has(q[i].data, b)) <=> b[2] <= sent[b[1]]
    BY DEF Piped
  <2> QED
    BY <1>1, <1>5, <2>1
<1>12. Piped(u, q, n)
  BY <1>8, <1>9, <1>10, <1>11 DEF Piped
<1> QED
  BY <1>12 DEF d, n, u

\* A send() of another thread goes to the end of the queue.
LEMMA PipeQueued ==
    ASSUME TypeOK, NEW s \in Seq(Bytes), NEW t \in Senders, NEW m \in 1..app.maxMessage,
           sent[t] + m <= app.maxBytes, Piped(s, queue, sent)
    PROVE  Piped(s, Append(queue, Functor("sendInLoop", Message(t, m))), [sent EXCEPT ![t] = @ + m])
<1> DEFINE d == Message(t, m)
           f == Functor("sendInLoop", d)
           n == [sent EXCEPT ![t] = @ + m]
           r == Append(queue, f)
           L == Len(queue)
<1>1. /\ d \in Seq(Bytes) /\ Increasing(d)
      /\ \A i \in 1..Len(d) : d[i][1] = t /\ d[i][2] > sent[t]
      /\ \A b \in Bytes : Has(d, b) \/ b[2] <= sent[b[1]] <=> b[2] <= n[b[1]]
  BY NextBytes
<1>2. sent[t] \in Nat /\ queue \in Seq(QueuedFunctors)
  BY AppTypes DEF TypeOK, DataTypeOK, ControlTypeOK
<1> HIDE DEF d, n
<1>3. f.data = d
  BY DEF Functor
<1> HIDE DEF f
<1>4. /\ L \in Nat /\ Len(r) = L + 1 /\ L + 1 \in 1..Len(r) /\ r[L + 1] = f
      /\ \A i \in 1..L : i \in 1..Len(r) /\ r[i] = queue[i]
      /\ \A i \in 1..Len(r) : i = L + 1 \/ i \in 1..L
  BY <1>2
<1> HIDE DEF r
<1>5. ASSUME NEW a \in Seq(Bytes), \A b \in Bytes : Has(a, b) => b[2] <= sent[b[1]]
      PROVE  AllBefore(a, d)
  <2> SUFFICES ASSUME NEW i \in 1..Len(a), NEW j \in 1..Len(d), a[i][1] = d[j][1]
               PROVE  a[i][2] < d[j][2]
    BY DEF AllBefore
  <2>1. a[i] \in Bytes /\ d[j] \in Bytes
    BY <1>1
  <2>2. a[i][2] \in Nat /\ d[j][2] \in Nat
    BY <2>1 DEF Bytes
  <2>3. a[i][2] <= sent[t]
    BY <1>1, <1>5, <2>1 DEF Has
  <2>4. d[j][2] > sent[t]
    BY <1>1
  <2> QED
    BY <1>2, <2>2, <2>3, <2>4
<1>6. ASSUME NEW i \in 1..Len(r) PROVE Increasing(r[i].data) /\ AllBefore(s, r[i].data)
  <2>1. CASE i = L + 1
    <3>1. \A b \in Bytes : Has(s, b) => b[2] <= sent[b[1]]
      BY DEF Piped
    <3> QED
      BY <1>1, <1>3, <1>4, <1>5, <2>1, <3>1
  <2>2. CASE i \in 1..L
    BY <1>4, <2>2 DEF Piped
  <2> QED
    BY <1>4, <2>1, <2>2
<1>7. ASSUME NEW i \in 1..Len(r), NEW j \in 1..Len(r), i < j PROVE AllBefore(r[i].data, r[j].data)
  <2>1. CASE j = L + 1
    <3>1. i \in 1..L
      BY <1>4, <1>7, <2>1
    <3>2. \A b \in Bytes : Has(queue[i].data, b) => b[2] <= sent[b[1]]
      BY <3>1 DEF Piped
    <3>3. queue[i] \in QueuedFunctors
      BY <1>2, <3>1
    <3>4. queue[i].data \in Seq(Bytes)
      BY <3>3 DEF QueuedFunctors
    <3>5. AllBefore(queue[i].data, d)
      BY <1>5, <3>2, <3>4
    <3> QED
      BY <1>3, <1>4, <2>1, <3>1, <3>5
  <2>2. CASE j \in 1..L
    <3>1. i \in 1..L
      BY <1>4, <1>7, <2>2
    <3> QED
      BY <1>4, <1>7, <2>2, <3>1 DEF Piped
  <2> QED
    BY <1>4, <2>1, <2>2
<1>8. ASSUME NEW b \in Bytes
      PROVE  (Has(s, b) \/ \E i \in 1..Len(r) : Has(r[i].data, b)) <=> b[2] <= n[b[1]]
  <2>1. (Has(s, b) \/ \E i \in 1..L : Has(queue[i].data, b)) <=> b[2] <= sent[b[1]]
    BY DEF Piped
  <2>2. (\E i \in 1..Len(r) : Has(r[i].data, b)) <=> Has(d, b) \/ \E i \in 1..L : Has(queue[i].data, b)
    <3>1. ASSUME NEW i \in 1..Len(r), Has(r[i].data, b)
          PROVE  Has(d, b) \/ \E k \in 1..L : Has(queue[k].data, b)
      BY <1>3, <1>4, <3>1
    <3>2. ASSUME NEW i \in 1..L, Has(queue[i].data, b) PROVE \E k \in 1..Len(r) : Has(r[k].data, b)
      <4>1. i \in 1..Len(r) /\ r[i].data = queue[i].data
        BY <1>4
      <4> QED
        BY <3>2, <4>1
    <3>3. Has(d, b) => \E k \in 1..Len(r) : Has(r[k].data, b)
      <4>1. L + 1 \in 1..Len(r) /\ r[L + 1].data = d
        BY <1>3, <1>4
      <4> QED
        BY <4>1
    <3> QED
      BY <3>1, <3>2, <3>3
  <2> QED
    BY <1>1, <2>1, <2>2
<1>9. Piped(s, r, n)
  BY <1>6, <1>7, <1>8 DEF Piped
<1> QED
  BY <1>9 DEF d, f, n, r

\* CargoInv, as functors leave and enter the queue.
LEMMA CargoKept ==
    ASSUME queue \in Seq(QueuedFunctors), CargoInv, NEW q \in Seq(QueuedFunctors),
           q = queue \/ (queue # <<>> /\ q = Tail(queue)),
           NEW more \in Seq(QueuedFunctors), queue' = q \o more,
           \A i \in 1..Len(more) :
               /\ more[i].op # "sendInLoop" => more[i].data = <<>>
               /\ \A j \in 1..Len(more[i].data) : more[i].data[j][1] # Loop
    PROVE  CargoInv'
<1>1. PICK h \in {0, 1} : Len(q) = Len(queue) - h /\ \A i \in 1..Len(q) : i + h \in 1..Len(queue) /\ q[i] = queue[i + h]
  <2>1. CASE q = queue
    BY <2>1
  <2>2. CASE queue # <<>> /\ q = Tail(queue)
    BY <2>2
  <2> QED
    BY <2>1, <2>2
<1>2. \A i \in 1..Len(queue') : \/ i \in 1..Len(q) /\ queue'[i] = q[i]
                                \/ i - Len(q) \in 1..Len(more) /\ queue'[i] = more[i - Len(q)]
  OBVIOUS
<1>3. ASSUME NEW i \in 1..Len(queue')
      PROVE  /\ queue'[i].op # "sendInLoop" => queue'[i].data = <<>>
             /\ \A j \in 1..Len(queue'[i].data) : queue'[i].data[j][1] # Loop
  <2>1. CASE i \in 1..Len(q) /\ queue'[i] = q[i]
    <3>1. i + h \in 1..Len(queue) /\ queue'[i] = queue[i + h]
      BY <1>1, <2>1
    <3> QED
      BY <3>1 DEF CargoInv
  <2>2. CASE i - Len(q) \in 1..Len(more) /\ queue'[i] = more[i - Len(q)]
    BY <2>2
  <2> QED
    BY <1>2, <2>1, <2>2
<1> QED
  BY <1>3 DEF CargoInv

\* A step that neither sends nor drops a byte.
Quiet ==
    /\ UNCHANGED <<app, sent>> /\ wire' \o out' = wire \o out
    /\ \/ queue' = queue
       \/ Popping /\ Head(queue).op # "sendInLoop"
       \/ \E op \in Functors \ {"sendInLoop"} : queue' = Append(queue, Functor(op, <<>>))
    /\ downs' = 0 => downs = 0
    /\ Gone => Gone'
    /\ state' = "kDisconnected" => state = "kDisconnected" \/ downs' > 0

LEMMA QuietKept ==
    ASSUME TypeOK, BytesInv, Quiet, downs' \in Nat
    PROVE  BytesInv'
<1>1. /\ queue \in Seq(QueuedFunctors) /\ downs \in Nat /\ wire \in Seq(Bytes) /\ out \in Seq(Bytes)
      /\ <<>> \in Seq(QueuedFunctors) /\ <<>> \in Seq(Bytes)
  BY DEF TypeOK, ControlTypeOK, DataTypeOK
<1>2. wire \o out \in Seq(Bytes)
  BY <1>1, ConcatProperties, Zenon
<1>3. PICK q \in Seq(QueuedFunctors), more \in Seq(QueuedFunctors) :
          /\ queue' = q \o more
          /\ q = queue \/ (queue # <<>> /\ q = Tail(queue) /\ Head(queue).op # "sendInLoop")
          /\ \A i \in 1..Len(more) : more[i].data = <<>>
  <2>1. CASE queue' = queue
    <3>1. queue' = queue \o <<>> /\ \A i \in 1..Len(<<>>) : <<>>[i].data = <<>>
      BY <1>1, <2>1
    <3> QED
      BY <1>1, <3>1
  <2>2. CASE Popping /\ Head(queue).op # "sendInLoop"
    <3>1. queue # <<>> /\ queue' = Tail(queue)
      BY <2>2 DEF Popping
    <3>2. Tail(queue) \in Seq(QueuedFunctors) /\ Tail(queue) = Tail(queue) \o <<>>
      BY <1>1, <3>1
    <3>3. \A i \in 1..Len(<<>>) : <<>>[i].data = <<>>
      OBVIOUS
    <3> QED
      BY <1>1, <2>2, <3>1, <3>2, <3>3
  <2>3. ASSUME NEW op \in Functors \ {"sendInLoop"}, queue' = Append(queue, Functor(op, <<>>))
        PROVE  \E more \in Seq(QueuedFunctors) : queue' = queue \o more /\ \A i \in 1..Len(more) : more[i].data = <<>>
    <3>1. PICK f \in QueuedFunctors : f = Functor(op, <<>>) /\ f.data = <<>>
      <4>1. [op |-> op, data |-> <<>>] \in QueuedFunctors
        BY <1>1 DEF QueuedFunctors
      <4> QED
        BY <4>1 DEF Functor
    <3>2. <<f>> \in Seq(QueuedFunctors) /\ \A i \in 1..Len(<<f>>) : <<f>>[i].data = <<>>
      BY <3>1
    <3>3. Append(queue, f) = queue \o <<f>>
      BY <1>1, AppendIsConcat, Zenon
    <3> QED
      BY <2>3, <3>1, <3>2, <3>3
  <2> QED
    BY <1>1, <2>1, <2>2, <2>3 DEF Quiet
<1>4. CargoInv'
  <2>1. \A i \in 1..Len(more) : \A j \in 1..Len(more[i].data) : more[i].data[j][1] # Loop
    <3> SUFFICES ASSUME NEW i \in 1..Len(more) PROVE \A j \in 1..Len(more[i].data) : more[i].data[j][1] # Loop
      OBVIOUS
    <3>1. more[i].data = <<>>
      BY <1>3
    <3>2. 1..Len(<<>>) = {}
      OBVIOUS
    <3> QED
      BY <3>1, <3>2
  <2>2. CargoInv
    BY DEF BytesInv
  <2> QED
    BY <1>1, <1>3, <2>1, <2>2, CargoKept
<1>5. state' = "kDisconnected" => downs' > 0
  BY <1>1 DEF BytesInv, Quiet
<1>6. downs' = 0 \/ ClosesOnLoop' => FirstOnes(wire' \o out')
  BY DEF BytesInv, Quiet, ClosesOnLoop
<1>7. ASSUME ~Gone' PROVE Piped(wire \o out, queue, sent)'
  <2>1. Piped(wire \o out, queue, sent)
    BY <1>7 DEF BytesInv, Quiet
  <2>2. Piped(wire \o out, q, sent)
    <3>1. CASE queue # <<>> /\ q = Tail(queue) /\ Head(queue).op # "sendInLoop"
      <4>1. Piped((wire \o out) \o Head(queue).data, q, sent)
        BY <1>1, <1>2, <2>1, <3>1, PipeTaken
      <4>2. Head(queue) = queue[1] /\ 1 \in 1..Len(queue)
        BY <1>1, <3>1
      <4>3. Head(queue).data = <<>>
        BY <3>1, <4>2 DEF BytesInv, CargoInv
      <4>4. (wire \o out) \o <<>> = wire \o out
        BY <1>2, ConcatEmptySeq, Zenon
      <4> QED
        BY <4>1, <4>3, <4>4
    <3> QED
      BY <1>3, <2>1, <3>1
  <2>3. Piped(wire \o out, q \o more, sent)
    BY <1>3, <2>2, PipeLengthened
  <2>4. wire' \o out' = wire \o out /\ sent' = sent /\ app' = app
    BY DEF Quiet
  <2> QED
    BY <1>3, <2>3, <2>4 DEF Piped, Bytes
<1> QED
  BY <1>4, <1>5, <1>6, <1>7 DEF BytesInv

\* A send that is carried out, by the loop's thread now or from the queue.
LEMMA SentOn ==
    ASSUME TypeOK, WritesInv, BytesInv, app' = app, UNCHANGED <<state, fin, peer, downs>>,
           NEW msg \in Seq(Bytes), NEW q \in Seq(QueuedFunctors), SendInLoop(msg, q),
           q = queue \/ (queue # <<>> /\ q = Tail(queue)),
           ClosesOnLoop /\ downs > 0 => state = "kDisconnected",
           sent' \in [Senders -> 0..app.maxBytes], ~Gone => Piped((wire \o out) \o msg, q, sent')
    PROVE  BytesInv'
<1>1. /\ DataTypeOK /\ interest \subseteq {"read", "write"} /\ downs \in Nat /\ queue \in Seq(QueuedFunctors)
      /\ out \in Seq(Bytes) /\ wire \in Seq(Bytes) /\ sent \in [Senders -> 0..app.maxBytes] /\ app.maxBytes \in Nat
  BY AppTypes DEF TypeOK, ControlTypeOK, DataTypeOK
<1>2. /\ out' \in Seq(Bytes) /\ wire' \in Seq(Bytes)
      /\ \E more \in Seq(QueuedFunctors) :
             queue' = q \o more /\ \A i \in 1..Len(more) : more[i].op \in UserOps /\ more[i].data = <<>>
      /\ state = "kDisconnected" => UNCHANGED <<wire, out, chanVars>>
      /\ state # "kDisconnected" =>
             IF Broken /\ out = <<>> /\ ~Writing THEN UNCHANGED <<wire, out>>
             ELSE wire' \o out' = (wire \o out) \o msg
  BY <1>1, Sends
<1>3. PICK more \in Seq(QueuedFunctors) :
          queue' = q \o more /\ \A i \in 1..Len(more) : more[i].op \in UserOps /\ more[i].data = <<>>
  BY <1>2
<1>4. CargoInv'
  <2>1. \A i \in 1..Len(more) : \A j \in 1..Len(more[i].data) : more[i].data[j][1] # Loop
    <3> SUFFICES ASSUME NEW i \in 1..Len(more) PROVE \A j \in 1..Len(more[i].data) : more[i].data[j][1] # Loop
      OBVIOUS
    <3>1. more[i].data = <<>>
      BY <1>3
    <3>2. 1..Len(<<>>) = {}
      OBVIOUS
    <3> QED
      BY <3>1, <3>2
  <2>2. CargoInv
    BY DEF BytesInv
  <2> QED
    BY <1>1, <1>3, <2>1, <2>2, CargoKept
<1>5. state' = "kDisconnected" => downs' > 0
  BY DEF BytesInv
<1>6. Gone => UNCHANGED <<wire, out>> \/ (downs > 0 /\ state # "kDisconnected")
  BY <1>1, <1>2 DEF WritesInv, Gone
<1>7. Gone => Gone'
  BY <1>1, <1>6 DEF Gone, Broken
<1>8. ASSUME ~Gone', ~(Broken /\ out = <<>> /\ ~Writing) PROVE Piped(wire' \o out', queue', sent')
  <2>1. state # "kDisconnected" /\ ~Gone
    BY <1>7, <1>8 DEF BytesInv, Gone
  <2>2. Piped(wire' \o out', q, sent')
    BY <1>2, <1>8, <2>1
  <2> QED
    BY <1>3, <2>2, PipeLengthened
<1>9. Broken /\ out = <<>> /\ ~Writing => Gone
  BY DEF Gone
<1>10. ASSUME downs' = 0 \/ ClosesOnLoop' PROVE FirstOnes(wire' \o out')
  <2>1. downs = 0 \/ ClosesOnLoop
    BY <1>10 DEF ClosesOnLoop
  <2>2. CASE UNCHANGED <<wire, out>>
    BY <2>1, <2>2 DEF BytesInv
  <2>3. CASE ~Gone /\ wire' \o out' = (wire \o out) \o msg
    <3>1. Piped(wire' \o out', q, sent')
      BY <2>3
    <3>2. wire' \o out' \in Seq(Bytes)
      BY <1>2, ConcatProperties, Zenon
    <3>3. sent' \in [Senders -> Int]
      BY <1>1
    <3> QED
      BY <1>1, <3>1, <3>2, <3>3, PipeFirst
  <2>4. CASE Gone
    BY <1>1, <1>6, <2>1, <2>2, <2>4
  <2>5. CASE ~Gone /\ ~UNCHANGED <<wire, out>>
    <3>1. state # "kDisconnected"
      BY <1>2, <2>5
    <3> QED
      BY <1>2, <2>3, <2>5, <3>1
  <2> QED
    BY <2>2, <2>4, <2>5
<1> QED
  BY <1>4, <1>5, <1>7, <1>8, <1>9, <1>10 DEF BytesInv, Piped, Bytes

LEMMA BytesKept ==
    ASSUME TypeOK, BeforeInv, WritesInv, Orderly => OrderlyInv, BytesInv, [Next]_vars
    PROVE  BytesInv'
<1>a. /\ out \in Seq(Bytes) /\ wire \in Seq(Bytes) /\ queue \in Seq(QueuedFunctors) /\ downs \in Nat
      /\ sent \in [Senders -> 0..app.maxBytes] /\ app.maxBytes \in Nat /\ app.maxMessage \in Nat
      /\ call \in [Threads -> {Idle} \union [op : app.foreignOps, at : {"checked", "set"}]]
  BY AppTypes DEF TypeOK, ControlTypeOK, DataTypeOK
<1>b. downs' \in Nat /\ sent' \in [Senders -> 0..app'.maxBytes]
  BY ControlKept, DataKept DEF ControlTypeOK, DataTypeOK
<1>c. ASSUME app' = app, UNCHANGED <<out, wire, sent>>,
             \/ queue' = queue
             \/ Popping /\ Head(queue).op # "sendInLoop"
             \/ \E op \in Functors \ {"sendInLoop"} : queue' = Append(queue, Functor(op, <<>>)),
             downs' = downs \/ downs' = downs + 1,
             Broken => Broken', state' = "kDisconnected" => state = "kDisconnected" \/ downs' = downs + 1
      PROVE  BytesInv'
  BY <1>a, <1>b, <1>c, QuietKept DEF Quiet, Gone
<1>d. /\ {"connectEstablished", "connectDestroyed", "shutdownInLoop", "forceCloseInLoop", "startReadInLoop",
          "stopReadInLoop", "writeCompleteCallback", "highWaterMarkCallback"} = Functors \ {"sendInLoop"}
  BY DEF Functors
<1>1. ASSUME OnClose PROVE BytesInv'
  BY <1>c, <1>1 DEF OnClose, HandleClose, Dispatch, Step, kernelVars, userVars, Broken
<1>2. ASSUME OnRead PROVE BytesInv'
  BY <1>c, <1>2 DEF OnRead, Dispatch, Step, connVars, userVars, histVars, Broken
<1>3. ASSUME OnWrite PROVE BytesInv'
  <2>1. UNCHANGED <<app, sent, state, fin, peer, downs>>
    BY <1>3 DEF OnWrite, Dispatch, Step, userVars, histVars
  <2>2. CASE ~Writing \/ Broken
    BY <1>c, <1>3, <2>1, <2>2 DEF OnWrite, Broken
  <2>3. CASE ~(~Writing \/ Broken)
    <3>1. PICK k \in 1..Len(out) :
              /\ wire' = wire \o SubSeq(out, 1, k) /\ out' = SubSeq(out, k + 1, Len(out))
              /\ queue' = queue \/ queue' = Append(queue, Functor("writeCompleteCallback", <<>>))
      BY <1>3, <2>3 DEF OnWrite
    <3>2. k \in 0..Len(out)
      BY <1>a
    <3>3. /\ SubSeq(out, 1, k) \in Seq(Bytes) /\ SubSeq(out, k + 1, Len(out)) \in Seq(Bytes)
          /\ SubSeq(out, 1, k) \o SubSeq(out, k + 1, Len(out)) = out
      BY <1>a, <3>2, Rejoined, Zenon
    <3>4. wire' \o out' = wire \o out
      <4>1. (wire \o SubSeq(out, 1, k)) \o SubSeq(out, k + 1, Len(out))
            = wire \o (SubSeq(out, 1, k) \o SubSeq(out, k + 1, Len(out)))
        <5> DEFINE a == SubSeq(out, 1, k)
                   b == SubSeq(out, k + 1, Len(out))
        <5>1. wire \in Seq(Bytes) /\ a \in Seq(Bytes) /\ b \in Seq(Bytes)
          BY <1>a, <3>3
        <5> HIDE DEF a, b
        <5>2. (wire \o a) \o b = wire \o (a \o b)
          BY <5>1, ConcatAssociative
        <5> QED
          BY <5>2 DEF a, b
      <4> QED
        BY <3>1, <3>3, <4>1
    <3>5. Gone => Gone'
      BY <2>1, <2>3 DEF Gone
    <3> QED
      BY <1>b, <1>d, <2>1, <3>1, <3>4, <3>5, QuietKept DEF Quiet
  <2> QED
    BY <2>2, <2>3
<1>4. ASSUME ConnectEstablished PROVE BytesInv'
  BY <1>c, <1>4 DEF ConnectEstablished, Popping, Runs, Step, Pop, kernelVars, userVars, Broken
<1>5. ASSUME ConnectDestroyed PROVE BytesInv'
  BY <1>c, <1>5 DEF ConnectDestroyed, Popping, Runs, Step, Pop, kernelVars, userVars, Broken
<1>6. ASSUME ClosesOnLoop, downs > 0 PROVE state = "kDisconnected"
  <2>1. DownInv
    BY <1>6 DEF Orderly, OrderlyInv
  <2> QED
    BY <1>6, <2>1 DEF DownInv
<1>7. ASSUME RunSend PROVE BytesInv'
  <2>1. /\ UNCHANGED <<app, sent, state, fin, peer, downs>> /\ SendInLoop(Head(queue).data, Tail(queue))
        /\ queue # <<>>
    BY <1>7 DEF RunSend, Runs, Step, userVars, histVars
  <2>2. Head(queue) \in QueuedFunctors /\ Tail(queue) \in Seq(QueuedFunctors)
    BY <1>a, <2>1
  <2>3. Head(queue).data \in Seq(Bytes)
    BY <2>2 DEF QueuedFunctors
  <2>4. wire \o out \in Seq(Bytes)
    BY <1>a, ConcatProperties, Zenon
  <2>5. ~Gone => Piped((wire \o out) \o Head(queue).data, Tail(queue), sent')
    BY <1>a, <2>1, <2>4, PipeTaken DEF BytesInv
  <2> QED
    BY <1>6, <1>b, <2>1, <2>2, <2>3, <2>5, SentOn
<1>8. ASSUME RunShutdown PROVE BytesInv'
  BY <1>c, <1>8 DEF RunShutdown, Popping, Runs, Step, Pop, ShutdownInLoop, connVars, userVars, histVars, Broken
<1>9. ASSUME RunForceClose PROVE BytesInv'
  BY <1>c, <1>9 DEF RunForceClose, Popping, Runs, Step, Pop, HandleClose, kernelVars, userVars, Broken
<1>10. ASSUME RunReadSwitch PROVE BytesInv'
  BY <1>c, <1>10 DEF RunReadSwitch, Popping, Runs, Step, Pop, kernelVars, userVars, histVars, Broken
<1>11. ASSUME RunUserCallback PROVE BytesInv'
  BY <1>c, <1>11 DEF RunUserCallback, Popping, Runs, Step, Pop, connVars, kernelVars, userVars, histVars, Broken
<1>12. ASSUME NEW r \in BOOLEAN, NEW w \in BOOLEAN, Poll(r, w) PROVE BytesInv'
  BY <1>c, <1>12 DEF Poll, Step, connVars, kernelVars, userVars, histVars, Broken
<1>13. ASSUME NEW n \in 1..app.maxMessage, LoopSend(n) PROVE BytesInv'
  <2>1. /\ UNCHANGED <<app, state, fin, peer, downs>> /\ SendInLoop(Message(Loop, n), queue)
        /\ sent' = [sent EXCEPT ![Loop] = @ + n] /\ sent[Loop] + n <= app.maxBytes
    BY <1>13 DEF LoopSend, LoopMay, Step, histVars
  <2>2. Message(Loop, n) \in Seq(Bytes)
    BY <2>1, Messages DEF Senders
  <2>3. wire \o out \in Seq(Bytes)
    BY <1>a, ConcatProperties, Zenon
  <2>4. ~Gone => Piped((wire \o out) \o Message(Loop, n), queue, sent')
    BY <1>a, <2>1, <2>3, PipeSent DEF BytesInv, CargoInv
  <2> QED
    BY <1>6, <1>a, <1>b, <2>1, <2>2, <2>4, SentOn
<1>14. ASSUME LoopShutdown PROVE BytesInv'
  BY <1>c, <1>14 DEF LoopShutdown, LoopMay, Step, ShutdownInLoop, histVars, Broken
<1>15. ASSUME LoopForceClose PROVE BytesInv'
  BY <1>c, <1>d, <1>15 DEF LoopForceClose, LoopMay, Step, ForceClose, kernelVars, histVars, Broken
<1>16. ASSUME LoopForceCloseWithDelay PROVE BytesInv'
  BY <1>c, <1>16 DEF LoopForceCloseWithDelay, LoopMay, Step, kernelVars, histVars, Broken
<1>17. ASSUME LoopReadSwitch PROVE BytesInv'
  BY <1>c, <1>17 DEF LoopReadSwitch, LoopMay, Step, kernelVars, histVars, Broken
<1>18. ASSUME DelayExpires PROVE BytesInv'
  BY <1>c, <1>d, <1>18 DEF DelayExpires, Step, ForceClose, kernelVars, userVars, histVars, Broken
<1>19. ASSUME OwnerLetsGo PROVE BytesInv'
  BY <1>c, <1>d, <1>19 DEF OwnerLetsGo, Step, connVars, kernelVars, userVars, histVars, Broken
<1>20. ASSUME PeerCloses PROVE BytesInv'
  BY <1>c, <1>20 DEF PeerCloses, Step, connVars, userVars, histVars, Broken
<1>21. ASSUME Destroy PROVE BytesInv'
  BY <1>c, <1>21 DEF Destroy, Step, connVars, kernelVars, userVars, Broken
<1>22. ASSUME NEW t \in Threads, NEW op \in Ops, ForeignCheck(t, op) PROVE BytesInv'
  BY <1>c, <1>22 DEF ForeignCheck, Step, connVars, kernelVars, histVars, Broken
<1>23. ASSUME NEW t \in Threads, ForeignSet(t) PROVE BytesInv'
  BY <1>c, <1>23 DEF ForeignSet, Step, kernelVars, histVars, Broken
<1>24. ASSUME NEW t \in Threads, NEW n \in 1..app.maxMessage, ForeignQueue(t, n) PROVE BytesInv'
  <2>1. UNCHANGED <<app, wire, out, state, fin, peer, downs>>
    BY <1>24 DEF ForeignQueue, Step, connVars, kernelVars, histVars
  <2>2. CASE call[t].op = "send"
    <3>1. /\ sent[t] + n <= app.maxBytes /\ sent' = [sent EXCEPT ![t] = @ + n]
          /\ queue' = Append(queue, Functor("sendInLoop", Message(t, n)))
      BY <1>24, <2>2 DEF ForeignQueue
    <3>2. t \in Senders /\ t # Loop
      BY ThreadsAssumption DEF Senders
    <3>3. wire \o out \in Seq(Bytes)
      BY <1>a, ConcatProperties, Zenon
    <3>4. ~Gone => Piped(wire \o out, queue', sent')
      BY <3>1, <3>2, <3>3, PipeQueued DEF BytesInv
    <3>5. CargoInv'
      <4>1. PICK f \in QueuedFunctors : f = Functor("sendInLoop", Message(t, n))
        <5>1. Message(t, n) \in Seq(Bytes)
          BY <3>1, <3>2, Messages
        <5>2. [op |-> "sendInLoop", data |-> Message(t, n)] \in QueuedFunctors
          BY <5>1 DEF QueuedFunctors, Functors
        <5> QED
          BY <5>2 DEF Functor
      <4>2. f.op = "sendInLoop" /\ f.data = Message(t, n)
        BY <4>1 DEF Functor
      <4>3. \A j \in 1..Len(f.data) : f.data[j][1] = t
        BY <1>a, <4>2 DEF Message
      <4>4. <<f>> \in Seq(QueuedFunctors) /\ Len(<<f>>) = 1 /\ <<f>>[1] = f
        OBVIOUS
      <4>5. queue' = queue \o <<f>>
        BY <1>a, <3>1, <4>1, AppendIsConcat, Zenon
      <4>6. \A i \in 1..Len(<<f>>) : /\ <<f>>[i].op # "sendInLoop" => <<f>>[i].data = <<>>
                                     /\ \A j \in 1..Len(<<f>>[i].data) : <<f>>[i].data[j][1] # Loop
        BY <3>2, <4>2, <4>3, <4>4
      <4>7. CargoInv
        BY DEF BytesInv
      <4> QED
        BY <1>a, <4>4, <4>5, <4>6, <4>7, CargoKept
    <3> QED
      BY <2>1, <3>4, <3>5 DEF BytesInv, Gone, Broken, ClosesOnLoop, Piped, Bytes
  <2>3. CASE call[t].op # "send"
    <3>1. sent' = sent /\ queue' = Append(queue, Functor(InLoop[call[t].op], <<>>))
      BY <1>24, <2>3 DEF ForeignQueue
    <3>2. call[t].op \in {"shutdown", "forceClose", "startRead", "stopRead"}
      <4>1. call[t] # Idle
        BY <1>24 DEF ForeignQueue, Idle
      <4>2. call[t].op \in app.foreignOps
        BY <1>a, <4>1
      <4>3. app.foreignOps \subseteq Ops \ {"forceCloseWithDelay"}
        BY AppTypes DEF TypeOK, ControlTypeOK
      <4> QED
        BY <2>3, <4>2, <4>3 DEF Ops
    <3>3. InLoop[call[t].op] \in Functors \ {"sendInLoop"}
      BY <1>d, <3>2 DEF InLoop
    <3> QED
      BY <1>c, <2>1, <3>1, <3>3 DEF Broken
  <2> QED
    BY <2>2, <2>3
<1>25. ASSUME UNCHANGED vars PROVE BytesInv'
  BY <1>c, <1>25 DEF vars, connVars, kernelVars, userVars, histVars, Broken
<1>26. LoopStep => BytesInv'
  BY <1>1, <1>2, <1>3, <1>4, <1>5, <1>7, <1>8, <1>9, <1>10, <1>11 DEF LoopStep
<1>27. PollStep => BytesInv'
  BY <1>12 DEF PollStep
<1>28. LoopUser => BytesInv'
  BY <1>13, <1>14, <1>15, <1>16, <1>17 DEF LoopUser
<1>29. ASSUME NEW t \in Threads, ForeignCall(t) PROVE BytesInv'
  BY <1>29, <1>23, <1>24 DEF ForeignCall
<1>30. Next => BytesInv'
  BY <1>18, <1>19, <1>20, <1>21, <1>22, <1>26, <1>27, <1>28, <1>29 DEF Next
<1> QED
  BY <1>25, <1>30

LEMMA Alive ==
    ASSUME Next
    PROVE  ~destroyed
<1>1. LoopStep \/ PollStep => ~destroyed
  BY DEF LoopStep, OnClose, OnRead, OnWrite, ConnectEstablished, ConnectDestroyed, RunSend, RunShutdown,
         RunForceClose,
         RunReadSwitch, RunUserCallback, PollStep, Poll, Dispatch, Runs, Step, Running
<1>2. LoopUser => ~destroyed
  BY DEF LoopUser, LoopSend, LoopShutdown, LoopForceClose, LoopForceCloseWithDelay, LoopReadSwitch, LoopMay,
         Step, Running
<1>3. DelayExpires \/ OwnerLetsGo \/ PeerCloses \/ Destroy => ~destroyed
  BY DEF DelayExpires, OwnerLetsGo, PeerCloses, Destroy, Step, Running
<1>4. ASSUME NEW t \in Threads, NEW op \in Ops, ForeignCall(t) \/ ForeignCheck(t, op) PROVE ~destroyed
  BY <1>4 DEF ForeignCall, ForeignSet, ForeignQueue, ForeignCheck, Step, Running
<1>5. Ops # {}
  BY DEF Ops
<1> QED
  BY <1>1, <1>2, <1>3, <1>4, <1>5 DEF Next

LEMMA OrderlyKept ==
    ASSUME IInv, Next, Orderly', ups = 1
    PROVE  OrderlyInv'
<1> DEFINE Goal == CallsInv' /\ OwnerInv' /\ UpInv' /\ DownInv'
<1>a. TypeOK /\ ControlTypeOK /\ queue \in Seq(QueuedFunctors) /\ app \in Apps /\ calls \in Nat
      /\ ReventsTypeOK /\ <<>> \in Seq(Bytes) /\ ~destroyed
  BY AppTypes, Alive DEF IInv, TypeOK, ControlTypeOK, DataTypeOK, ReventsTypeOK
<1>b. /\ app' = app /\ ups' = 1 /\ "connectEstablished" \notin QueueOps /\ ~ConnectEstablished
      /\ calls' = calls \/ (calls' = calls + 1 /\ ClosesOnLoop)
  <2>1. "connectEstablished" \notin QueueOps
    BY DEF IInv, BeforeInv
  <2>2. ConnectEstablished => "connectEstablished" \in QueueOps
    BY <1>a, Popped DEF ConnectEstablished, Runs, Pop
  <2>3. app' = app /\ (ups' = ups \/ ConnectEstablished) /\ (calls' = calls \/ calls' = calls + 1)
    BY Forward
  <2>4. calls' = calls + 1 => ClosesOnLoop
    BY <1>a, <2>3 DEF Orderly, ClosesOnLoop
  <2> QED
    BY <2>1, <2>2, <2>3, <2>4
<1>c. Orderly /\ CallsInv /\ OwnerInv /\ UpInv /\ DownInv
  <2>1. Orderly
    BY <1>a, <1>b DEF Orderly, ClosesOnLoop
  <2> QED
    BY <2>1 DEF IInv, OrderlyInv
<1>d. /\ Closing => Closing' /\ ~app.ownerMayDie
      /\ downs = 0 \/ downs = 1
      /\ downs = 1 => state = "kDisconnected" /\ interest = {} /\ index # "kAdded" /\ owner # "has"
      /\ downs = 0 => /\ state = "kConnected" \/ (state = "kDisconnecting" /\ Closing)
                      /\ "read" \in interest /\ index = "kAdded" /\ added
                      /\ owner = "has" \/ (owner = "dead" /\ ~Closing /\ "connectDestroyed" \in QueueOps)
  <2>1. Closing => Closing'
    BY <1>a, <1>b DEF Closing
  <2>2. Closing => ~app.ownerMayDie
    BY <1>a, <1>c DEF Closing, Orderly, ClosesOnLoop
  <2> QED
    BY <1>c, <2>1, <2>2 DEF CallsInv, OwnerInv, UpInv, DownInv
<1>f. ASSUME UNCHANGED chanVars \/ (downs = 0 /\ (Update(interest \ {"write"}) \/ Update(interest \union {"write"})))
      PROVE  /\ downs = 0 => "read" \in interest' /\ index' = "kAdded" /\ added'
             /\ downs = 1 => UNCHANGED chanVars
  <2>1. "read" \in interest \ {"write"} <=> "read" \in interest
    OBVIOUS
  <2> QED
    BY <1>d, <1>f, <2>1 DEF Update, chanVars
<1>g. ASSUME UNCHANGED <<state, owner, downs>>, downs = 1 => UNCHANGED chanVars,
             revents' = revents \/ revents' = <<>> \/ (revents' = <<"write">> /\ revents # <<>>),
             downs = 0 => "read" \in interest' /\ index' = "kAdded" /\ added',
             ~destroyed',
             "connectDestroyed" \in QueueOps => "connectDestroyed" \in QueueOps'
      PROVE  UpInv' /\ DownInv'
  <2>1. UpInv'
    BY <1>b, <1>d, <1>g DEF UpInv
  <2>2. DownInv'
    BY <1>b, <1>c, <1>d, <1>g DEF DownInv, chanVars
  <2> QED
    BY <2>1, <2>2
<1>e. ASSUME UNCHANGED queue PROVE QueueOps' = QueueOps /\ (DestroyOnce => DestroyOnce')
  BY <1>e DEF QueueOps, DestroyOnce
<1>1. ASSUME OnClose PROVE Goal
  <2>1. QueueOps' = QueueOps /\ DestroyOnce'
    BY <1>c, <1>e, <1>1 DEF OwnerInv, OnClose, HandleClose, CloseChecks, Update
  <2>6. (Dispatch("close") \/ Dispatch("read")) /\ HandleClose
    BY <1>1 DEF OnClose
  <2>7. downs = 0 /\ revents' \in {<<>>, <<"write">>}
    BY <1>a, <1>c, <1>d, <2>6, Dispatched DEF DownInv, Dispatch
  <2>2. CallsInv'
    BY <1>a, <1>b, <1>c, <1>d, <1>1, <2>1, <2>7 DEF CallsInv, OnClose, HandleClose, CloseChecks, Update,
                                                    Dispatch, kernelVars, userVars, Closing, UserOps
  <2>3. OwnerInv'
    BY <1>a, <1>b, <1>c, <1>d, <1>1, <2>1, <2>7 DEF OwnerInv, OnClose, HandleClose, CloseChecks, Update,
                                                    Dispatch, kernelVars, userVars, UserOps
  <2>4. UpInv'
    BY <1>a, <1>b, <1>c, <1>d, <1>1, <2>1, <2>7 DEF UpInv, OnClose, HandleClose, CloseChecks, Update, Dispatch,
                                                    kernelVars, userVars, UserOps
  <2>5. DownInv'
    BY <1>a, <1>b, <1>c, <1>d, <1>1, <2>1, <2>7 DEF DownInv, OnClose, HandleClose, CloseChecks, Update,
                                                    Dispatch, kernelVars, userVars, UserOps
  <2> QED
    BY <2>2, <2>3, <2>4, <2>5
<1>2. ASSUME OnRead PROVE Goal
  <2>1. QueueOps' = QueueOps /\ DestroyOnce'
    BY <1>c, <1>e, <1>2 DEF OwnerInv, OnRead
  <2>2. CallsInv'
    BY <1>a, <1>b, <1>c, <1>d, <1>2, <2>1 DEF CallsInv, OnRead, Dispatch, connVars, chanVars, userVars,
                                              histVars, Closing, UserOps
  <2>3. OwnerInv'
    BY <1>a, <1>b, <1>c, <1>d, <1>2, <2>1 DEF OwnerInv, OnRead, Dispatch, connVars, chanVars, userVars,
                                              histVars, UserOps
  <2>4. UpInv'
    BY <1>a, <1>b, <1>c, <1>d, <1>2, <2>1 DEF UpInv, OnRead, Dispatch, connVars, chanVars, userVars, histVars,
                                              UserOps
  <2>5. DownInv'
    BY <1>a, <1>b, <1>c, <1>d, <1>2, <2>1 DEF DownInv, OnRead, Dispatch, connVars, chanVars, userVars,
                                              histVars, UserOps
  <2> QED
    BY <2>2, <2>3, <2>4, <2>5
<1>3. ASSUME OnWrite PROVE Goal
  <2>0. Pushing("writeCompleteCallback") \/ queue' = queue
    BY <1>a, <1>3 DEF Pushing, OnWrite, Update
  <2>1. /\ QueueOps' = QueueOps \union {"writeCompleteCallback"} \/ QueueOps' = QueueOps
        /\ DestroyOnce'
    BY <1>a, <1>c, <1>e, <2>0, Queued DEF OwnerInv, Functors
  <2>6. revents' \in {<<>>, <<"write">>}
    BY <1>a, <1>3, Dispatched DEF OnWrite
  <2>7. UNCHANGED <<state, owner, downs,
                    destroyed>> /\ (UNCHANGED chanVars \/ ("write" \in interest /\ Update(interest \ {"write"})))
    BY <1>3 DEF OnWrite, Writing, histVars
  <2>8. /\ downs = 0 => "read" \in interest' /\ index' = "kAdded" /\ added'
        /\ downs = 1 => UNCHANGED chanVars
    BY <1>d, <1>f, <2>7
  <2>2. CallsInv'
    BY <1>a, <1>b, <1>c, <1>d, <1>3, <2>1, <2>6, <2>7, <2>8 DEF CallsInv, OnWrite, Update, Dispatch, chanVars,
                                                                userVars, histVars, Closing, UserOps
  <2>3. OwnerInv'
    BY <1>a, <1>b, <1>c, <1>d, <1>3, <2>1, <2>6, <2>7, <2>8 DEF OwnerInv, OnWrite, Update, Dispatch, chanVars,
                                                                userVars, histVars, UserOps
  <2>4. UpInv' /\ DownInv'
    <3>1. revents # <<>> /\ ~destroyed
      BY <1>3 DEF OnWrite, Dispatch, Step, Running
    <3> QED
      BY <1>a, <1>d, <1>g, <2>1, <2>8, <2>6, <2>7, <3>1 DEF UserOps
  <2> QED
    BY <2>2, <2>3, <2>4
<1>4. ASSUME ConnectEstablished PROVE Goal
  BY <1>b, <1>4
<1>5. ASSUME ConnectDestroyed PROVE Goal
  <2>1. /\ QueueOps' \subseteq QueueOps /\ \A op \in QueueOps : op \notin {"connectDestroyed"} => op \in QueueOps'
        /\ (DestroyOnce => DestroyOnce') /\ {"connectDestroyed"} \cap QueueOps # {} /\ "connectDestroyed" \notin QueueOps'
    BY <1>a, <1>c, <1>5, Popped DEF ConnectDestroyed, Runs, Pop, OwnerInv
  <2>6. (state = "kConnected" /\ downs = 0) \/ downs = 1
    BY <1>c, <1>d, <2>1 DEF OwnerInv
  <2>7. /\ UNCHANGED <<owner, destroyed>> /\ revents' = <<>> /\ owner # "has" /\ index' = "kNew" /\ added' = FALSE
        /\ downs = 0 => state' = "kDisconnected" /\ interest' = {} /\ downs' = 1
        /\ downs = 1 => UNCHANGED <<state, interest, downs>>
    BY <1>c, <1>d, <2>1, <1>5, <2>6 DEF ConnectDestroyed, Runs, OwnerInv
  <2>2. CallsInv'
    BY <1>a, <1>b, <1>c, <1>d, <1>5, <2>1, <2>6, <2>7 DEF CallsInv, ConnectDestroyed, Runs, Step, Pop,
                                                          kernelVars, userVars, Closing, UserOps
  <2>3. OwnerInv'
    BY <1>a, <1>b, <1>c, <1>d, <1>5, <2>1, <2>6, <2>7 DEF OwnerInv, ConnectDestroyed, Runs, Step, Pop,
                                                          kernelVars, userVars, UserOps
  <2>4. UpInv'
    BY <1>a, <1>b, <1>c, <1>d, <2>1, <2>6, <2>7 DEF UpInv, chanVars, Update, UserOps
  <2>5. DownInv'
    BY <1>a, <1>b, <1>c, <1>d, <2>1, <2>6, <2>7 DEF DownInv, chanVars, Update, UserOps
  <2> QED
    BY <2>2, <2>3, <2>4, <2>5
<1>6. ASSUME RunSend PROVE Goal
  <2>1. /\ QueueOps' \subseteq QueueOps \union UserOps
        /\ \A op \in QueueOps : op # "sendInLoop" => op \in QueueOps'
        /\ DestroyOnce'
        /\ UNCHANGED <<state, reading, revents, delayed, owner, destroyed, call, calls, downs>>
        /\ UNCHANGED chanVars \/ (state # "kDisconnected" /\ Update(interest \union {"write"}))
    BY <1>a, <1>c, <1>6, Sent DEF OwnerInv, histVars
  <2>8. /\ downs = 0 => "read" \in interest' /\ index' = "kAdded" /\ added'
        /\ downs = 1 => UNCHANGED chanVars
    BY <1>d, <1>f, <2>1
  <2>2. CallsInv'
    BY <1>a, <1>b, <1>c, <1>d, <1>6, <2>1 DEF CallsInv, chanVars, Update, Closing, UserOps
  <2>3. OwnerInv'
    BY <1>a, <1>b, <1>c, <1>d, <1>6, <2>1 DEF OwnerInv, chanVars, Update, UserOps
  <2>4. UpInv' /\ DownInv'
    BY <1>a, <1>d, <1>g, <2>1, <2>8 DEF UserOps
  <2> QED
    BY <2>2, <2>3, <2>4
<1>7. ASSUME RunShutdown PROVE Goal
  <2>1. "shutdownInLoop" \in QueueOps
    BY <1>a, <1>7, Popped DEF RunShutdown, Runs, Pop
  <2> QED
    BY <1>c, <2>1 DEF CallsInv
<1>8. ASSUME RunForceClose PROVE Goal
  <2>1. /\ QueueOps' \subseteq QueueOps /\ \A op \in QueueOps : op \notin {"forceCloseInLoop"} => op \in QueueOps'
        /\ (DestroyOnce => DestroyOnce') /\ {"forceCloseInLoop"} \cap QueueOps # {}
    BY <1>a, <1>c, <1>8, Popped DEF RunForceClose, Runs, Pop, OwnerInv
  <2>2. CallsInv'
    BY <1>a, <1>b, <1>c, <1>d, <1>8, <2>1 DEF CallsInv, RunForceClose, Runs, Step, Pop, HandleClose,
                                              CloseChecks, Update, chanVars, kernelVars, userVars, Closing,
                                              UserOps
  <2>3. OwnerInv'
    BY <1>a, <1>b, <1>c, <1>d, <1>8, <2>1 DEF OwnerInv, RunForceClose, Runs, Step, Pop, HandleClose,
                                              CloseChecks, Update, chanVars, kernelVars, userVars, UserOps
  <2>4. UpInv'
    BY <1>a, <1>b, <1>c, <1>d, <1>8, <2>1 DEF UpInv, RunForceClose, Runs, Step, Pop, HandleClose, CloseChecks,
                                              Update, chanVars, kernelVars, userVars, UserOps
  <2>5. DownInv'
    BY <1>a, <1>b, <1>c, <1>d, <1>8, <2>1 DEF DownInv, RunForceClose, Runs, Step, Pop, HandleClose,
                                              CloseChecks, Update, chanVars, kernelVars, userVars, UserOps
  <2> QED
    BY <2>2, <2>3, <2>4, <2>5
<1>9. ASSUME RunReadSwitch PROVE Goal
  <2>1. "startReadInLoop" \in QueueOps \/ "stopReadInLoop" \in QueueOps
    BY <1>a, <1>9, Popped DEF RunReadSwitch, Runs, Pop
  <2> QED
    BY <1>c, <2>1 DEF CallsInv
<1>10. ASSUME RunUserCallback PROVE Goal
  <2>1. /\ QueueOps' \subseteq QueueOps /\ \A op \in QueueOps : op \notin {"writeCompleteCallback", "highWaterMarkCallback"} => op \in QueueOps'
        /\ (DestroyOnce => DestroyOnce') /\ {"writeCompleteCallback", "highWaterMarkCallback"} \cap QueueOps # {}
    BY <1>a, <1>c, <1>10, Popped DEF RunUserCallback, Runs, Pop, OwnerInv
  <2>2. CallsInv'
    BY <1>a, <1>b, <1>c, <1>d, <1>10, <2>1 DEF CallsInv, RunUserCallback, Runs, Step, Pop, connVars, chanVars,
                                               kernelVars, userVars, histVars, Closing, UserOps
  <2>3. OwnerInv'
    BY <1>a, <1>b, <1>c, <1>d, <1>10, <2>1 DEF OwnerInv, RunUserCallback, Runs, Step, Pop, connVars, chanVars,
                                               kernelVars, userVars, histVars, UserOps
  <2>4. UpInv'
    BY <1>a, <1>b, <1>c, <1>d, <1>10, <2>1 DEF UpInv, RunUserCallback, Runs, Step, Pop, connVars, chanVars,
                                               kernelVars, userVars, histVars, UserOps
  <2>5. DownInv'
    BY <1>a, <1>b, <1>c, <1>d, <1>10, <2>1 DEF DownInv, RunUserCallback, Runs, Step, Pop, connVars, chanVars,
                                               kernelVars, userVars, histVars, UserOps
  <2> QED
    BY <2>2, <2>3, <2>4, <2>5
<1>11. ASSUME NEW r \in BOOLEAN, NEW w \in BOOLEAN, Poll(r, w) PROVE Goal
  <2>1. QueueOps' = QueueOps /\ DestroyOnce'
    BY <1>c, <1>e, <1>11 DEF OwnerInv, Poll, Step
  <2>2. CallsInv'
    BY <1>a, <1>b, <1>c, <1>d, <1>11, <2>1 DEF CallsInv, Poll, Step, connVars, chanVars, kernelVars, userVars,
                                               histVars, Closing, UserOps
  <2>3. OwnerInv'
    BY <1>a, <1>b, <1>c, <1>d, <1>11, <2>1 DEF OwnerInv, Poll, Step, connVars, chanVars, kernelVars, userVars,
                                               histVars, UserOps
  <2>4. UpInv'
    BY <1>a, <1>b, <1>c, <1>d, <1>11, <2>1 DEF UpInv, Poll, Step, connVars, chanVars, kernelVars, userVars,
                                               histVars, UserOps
  <2>5. DownInv'
    BY <1>a, <1>b, <1>c, <1>d, <1>11, <2>1 DEF DownInv, Poll, Step, connVars, chanVars, kernelVars, userVars,
                                               histVars, UserOps
  <2> QED
    BY <2>2, <2>3, <2>4, <2>5
<1>12. ASSUME NEW n \in 1..app.maxMessage, LoopSend(n) PROVE Goal
  <2>1. /\ QueueOps' \subseteq QueueOps \union UserOps
        /\ \A op \in QueueOps : op # "sendInLoop" => op \in QueueOps'
        /\ DestroyOnce'
        /\ UNCHANGED <<state, reading, revents, delayed, owner, destroyed, call, calls, downs>>
        /\ UNCHANGED chanVars \/ (state # "kDisconnected" /\ Update(interest \union {"write"}))
    BY <1>a, <1>c, <1>12, Sent DEF OwnerInv, histVars
  <2>8. /\ downs = 0 => "read" \in interest' /\ index' = "kAdded" /\ added'
        /\ downs = 1 => UNCHANGED chanVars
    BY <1>d, <1>f, <2>1
  <2>2. CallsInv'
    BY <1>a, <1>b, <1>c, <1>d, <1>12, <2>1 DEF CallsInv, chanVars, Update, Closing, UserOps
  <2>3. OwnerInv'
    BY <1>a, <1>b, <1>c, <1>d, <1>12, <2>1 DEF OwnerInv, chanVars, Update, UserOps
  <2>4. UpInv' /\ DownInv'
    BY <1>a, <1>d, <1>g, <2>1, <2>8 DEF UserOps
  <2> QED
    BY <2>2, <2>3, <2>4
<1>13. ASSUME LoopShutdown PROVE Goal
  <2>1. QueueOps' = QueueOps /\ DestroyOnce'
    BY <1>c, <1>e, <1>13 DEF OwnerInv, LoopShutdown, LoopMay, Step, Counted, ShutdownInLoop
  <2>2. CallsInv'
    BY <1>a, <1>b, <1>c, <1>d, <1>13, <2>1 DEF CallsInv, LoopShutdown, LoopMay, Step, Counted, ShutdownInLoop,
                                               chanVars, histVars, Closing, UserOps
  <2>3. OwnerInv'
    BY <1>a, <1>b, <1>c, <1>d, <1>13, <2>1 DEF OwnerInv, LoopShutdown, LoopMay, Step, Counted, ShutdownInLoop,
                                               chanVars, histVars, UserOps
  <2>4. UpInv'
    BY <1>a, <1>b, <1>c, <1>d, <1>13, <2>1 DEF UpInv, LoopShutdown, LoopMay, Step, Counted, ShutdownInLoop,
                                               chanVars, histVars, UserOps
  <2>5. DownInv'
    BY <1>a, <1>b, <1>c, <1>d, <1>13, <2>1 DEF DownInv, LoopShutdown, LoopMay, Step, Counted, ShutdownInLoop,
                                               chanVars, histVars, UserOps
  <2> QED
    BY <2>2, <2>3, <2>4, <2>5
<1>14. ASSUME LoopForceClose PROVE Goal
  <2>0. Pushing("forceCloseInLoop") \/ queue' = queue
    BY <1>a, <1>14 DEF Pushing, LoopForceClose, LoopMay, Step, Counted, ForceClose
  <2>1. /\ QueueOps' = QueueOps \union {"forceCloseInLoop"} \/ QueueOps' = QueueOps
        /\ DestroyOnce'
    BY <1>a, <1>c, <1>e, <2>0, Queued DEF OwnerInv, Functors
  <2>2. CallsInv'
    BY <1>a, <1>b, <1>c, <1>d, <1>14, <2>1 DEF CallsInv, LoopForceClose, LoopMay, Step, Counted, ForceClose,
                                               chanVars, kernelVars, histVars, Closing, UserOps
  <2>3. OwnerInv'
    BY <1>a, <1>b, <1>c, <1>d, <1>14, <2>1 DEF OwnerInv, LoopForceClose, LoopMay, Step, Counted, ForceClose,
                                               chanVars, kernelVars, histVars, UserOps
  <2>4. UpInv'
    BY <1>a, <1>b, <1>c, <1>d, <1>14, <2>1 DEF UpInv, LoopForceClose, LoopMay, Step, Counted, ForceClose,
                                               chanVars, kernelVars, histVars, UserOps
  <2>5. DownInv'
    BY <1>a, <1>b, <1>c, <1>d, <1>14, <2>1 DEF DownInv, LoopForceClose, LoopMay, Step, Counted, ForceClose,
                                               chanVars, kernelVars, histVars, UserOps
  <2> QED
    BY <2>2, <2>3, <2>4, <2>5
<1>15. ASSUME LoopForceCloseWithDelay PROVE Goal
  <2>1. QueueOps' = QueueOps /\ DestroyOnce'
    BY <1>c, <1>e, <1>15 DEF OwnerInv, LoopForceCloseWithDelay, LoopMay, Step, Counted
  <2>2. CallsInv'
    BY <1>a, <1>b, <1>c, <1>d, <1>15, <2>1 DEF CallsInv, LoopForceCloseWithDelay, LoopMay, Step, Counted,
                                               chanVars, kernelVars, histVars, Closing, UserOps
  <2>3. OwnerInv'
    BY <1>a, <1>b, <1>c, <1>d, <1>15, <2>1 DEF OwnerInv, LoopForceCloseWithDelay, LoopMay, Step, Counted,
                                               chanVars, kernelVars, histVars, UserOps
  <2>4. UpInv'
    BY <1>a, <1>b, <1>c, <1>d, <1>15, <2>1 DEF UpInv, LoopForceCloseWithDelay, LoopMay, Step, Counted,
                                               chanVars, kernelVars, histVars, UserOps
  <2>5. DownInv'
    BY <1>a, <1>b, <1>c, <1>d, <1>15, <2>1 DEF DownInv, LoopForceCloseWithDelay, LoopMay, Step, Counted,
                                               chanVars, kernelVars, histVars, UserOps
  <2> QED
    BY <2>2, <2>3, <2>4, <2>5
<1>16. ASSUME LoopReadSwitch PROVE Goal
  BY <1>a, <1>b, <1>16 DEF LoopReadSwitch, LoopMay, Counted, ClosesOnLoop
<1>17. ASSUME DelayExpires PROVE Goal
  <2>0. Pushing("forceCloseInLoop") \/ queue' = queue
    BY <1>a, <1>17 DEF Pushing, DelayExpires, Step, ForceClose
  <2>1. /\ QueueOps' = QueueOps \union {"forceCloseInLoop"} \/ QueueOps' = QueueOps
        /\ DestroyOnce'
    BY <1>a, <1>c, <1>e, <2>0, Queued DEF OwnerInv, Functors
  <2>2. CallsInv'
    BY <1>a, <1>b, <1>c, <1>d, <1>17, <2>1 DEF CallsInv, DelayExpires, Step, ForceClose, chanVars, kernelVars,
                                               userVars, histVars, Closing, UserOps
  <2>3. OwnerInv'
    BY <1>a, <1>b, <1>c, <1>d, <1>17, <2>1 DEF OwnerInv, DelayExpires, Step, ForceClose, chanVars, kernelVars,
                                               userVars, histVars, UserOps
  <2>4. UpInv'
    BY <1>a, <1>b, <1>c, <1>d, <1>17, <2>1 DEF UpInv, DelayExpires, Step, ForceClose, chanVars, kernelVars,
                                               userVars, histVars, UserOps
  <2>5. DownInv'
    BY <1>a, <1>b, <1>c, <1>d, <1>17, <2>1 DEF DownInv, DelayExpires, Step, ForceClose, chanVars, kernelVars,
                                               userVars, histVars, UserOps
  <2> QED
    BY <2>2, <2>3, <2>4, <2>5
<1>18. ASSUME OwnerLetsGo PROVE Goal
  <2>0. Pushing("connectDestroyed")
    BY <1>a, <1>18 DEF Pushing, OwnerLetsGo
  <2>1. /\ QueueOps' = QueueOps \union {"connectDestroyed"}
        /\ "connectDestroyed" \notin QueueOps => DestroyOnce'
    BY <1>a, <1>c, <2>0, Queued DEF OwnerInv, Functors
  <2>2. CallsInv'
    BY <1>a, <1>b, <1>c, <1>d, <1>18, <2>1 DEF CallsInv, OwnerLetsGo, Step, connVars, chanVars, kernelVars,
                                               userVars, histVars, Closing, UserOps
  <2>3. OwnerInv'
    BY <1>a, <1>b, <1>c, <1>d, <1>18, <2>1 DEF OwnerInv, OwnerLetsGo, Step, connVars, chanVars, kernelVars,
                                               userVars, histVars, UserOps
  <2>4. UpInv'
    BY <1>a, <1>b, <1>c, <1>d, <1>18, <2>1 DEF UpInv, OwnerLetsGo, Step, connVars, chanVars, kernelVars,
                                               userVars, histVars, UserOps
  <2>5. DownInv'
    BY <1>a, <1>b, <1>c, <1>d, <1>18, <2>1 DEF DownInv, OwnerLetsGo, Step, connVars, chanVars, kernelVars,
                                               userVars, histVars, UserOps
  <2> QED
    BY <2>2, <2>3, <2>4, <2>5
<1>19. ASSUME PeerCloses PROVE Goal
  <2>1. QueueOps' = QueueOps /\ DestroyOnce'
    BY <1>c, <1>e, <1>19 DEF OwnerInv, PeerCloses, Step
  <2>2. CallsInv'
    BY <1>a, <1>b, <1>c, <1>d, <1>19, <2>1 DEF CallsInv, PeerCloses, Step, connVars, chanVars, userVars,
                                               histVars, Closing, UserOps
  <2>3. OwnerInv'
    BY <1>a, <1>b, <1>c, <1>d, <1>19, <2>1 DEF OwnerInv, PeerCloses, Step, connVars, chanVars, userVars,
                                               histVars, UserOps
  <2>4. UpInv'
    BY <1>a, <1>b, <1>c, <1>d, <1>19, <2>1 DEF UpInv, PeerCloses, Step, connVars, chanVars, userVars, histVars,
                                               UserOps
  <2>5. DownInv'
    BY <1>a, <1>b, <1>c, <1>d, <1>19, <2>1 DEF DownInv, PeerCloses, Step, connVars, chanVars, userVars,
                                               histVars, UserOps
  <2> QED
    BY <2>2, <2>3, <2>4, <2>5
<1>20. ASSUME Destroy PROVE Goal
  <2>1. QueueOps' = QueueOps /\ DestroyOnce'
    BY <1>c, <1>e, <1>20 DEF OwnerInv, Destroy, Step
  <2>2. CallsInv'
    BY <1>a, <1>b, <1>c, <1>d, <1>20, <2>1 DEF CallsInv, Destroy, Step, connVars, chanVars, kernelVars,
                                               userVars, Closing, UserOps
  <2>3. OwnerInv'
    BY <1>a, <1>b, <1>c, <1>d, <1>20, <2>1 DEF OwnerInv, Destroy, Step, connVars, chanVars, kernelVars,
                                               userVars, UserOps
  <2>4. UpInv'
    BY <1>a, <1>b, <1>c, <1>d, <1>20, <2>1 DEF UpInv, Destroy, Step, connVars, chanVars, kernelVars, userVars,
                                               UserOps
  <2>6. QueueOps \subseteq {"sendInLoop"}
    BY <1>a, <1>c, <1>20 DEF QueueOps, Destroy, BareThis, CallsInv
  <2>7. downs = 1 /\ ~added
    BY <1>c, <1>d, <1>20, <2>6 DEF Destroy, DownInv
  <2>8. UNCHANGED <<revents, state, interest, index, added, owner, downs>>
    BY <1>20 DEF Destroy, connVars, chanVars
  <2>5. DownInv'
    BY <1>b, <1>c, <2>1, <2>6, <2>7, <2>8 DEF DownInv
  <2> QED
    BY <2>2, <2>3, <2>4, <2>5
<1>21. ASSUME NEW t \in Threads, NEW op \in Ops, ForeignCheck(t, op) PROVE Goal
  <2>1. QueueOps' = QueueOps /\ DestroyOnce'
    BY <1>c, <1>e, <1>21 DEF OwnerInv, ForeignCheck, Step, Counted
  <2>2. CallsInv'
    BY <1>a, <1>b, <1>c, <1>d, <1>21, <2>1 DEF CallsInv, ForeignCheck, Step, Counted, ClosesOnLoop,
                                               ControlTypeOK, connVars, chanVars, kernelVars, histVars,
                                               Closing, UserOps
  <2>3. OwnerInv'
    BY <1>a, <1>b, <1>c, <1>d, <1>21, <2>1 DEF OwnerInv, ForeignCheck, Step, Counted, ClosesOnLoop,
                                               ControlTypeOK, connVars, chanVars, kernelVars, histVars, UserOps
  <2>4. UpInv'
    BY <1>a, <1>b, <1>c, <1>d, <1>21, <2>1 DEF UpInv, ForeignCheck, Step, Counted, ClosesOnLoop, ControlTypeOK,
                                               connVars, chanVars, kernelVars, histVars, UserOps
  <2>5. DownInv'
    BY <1>a, <1>b, <1>c, <1>d, <1>21, <2>1 DEF DownInv, ForeignCheck, Step, Counted, ClosesOnLoop,
                                               ControlTypeOK, connVars, chanVars, kernelVars, histVars, UserOps
  <2> QED
    BY <2>2, <2>3, <2>4, <2>5
<1>22. ASSUME NEW t \in Threads, ForeignSet(t) PROVE Goal
  BY <1>c, <1>22 DEF ForeignSet, CallsInv, Idle
<1>23. ASSUME NEW t \in Threads, NEW n \in 1..app.maxMessage, ForeignQueue(t, n) PROVE Goal
  <2>0. call[t].op = "send"
    BY <1>c, <1>23 DEF ForeignQueue, CallsInv, Idle
  <2>a. Pushing("sendInLoop") /\ call' = [call EXCEPT ![t] = Idle]
    BY <1>a, <1>23, <2>0, Messages DEF ForeignQueue, Pushing, Senders
  <2>1. /\ QueueOps' = QueueOps \union {"sendInLoop"} /\ DestroyOnce'
        /\ UNCHANGED <<state, interest, index, added, reading, revents, delayed, owner, destroyed, calls, downs>>
        /\ \A u \in Threads : call'[u] = Idle \/ call'[u].op = "send"
    <3>1. QueueOps' = QueueOps \union {"sendInLoop"} /\ DestroyOnce'
      BY <1>a, <1>c, <2>a, Queued DEF OwnerInv, Functors
    <3>2. \A u \in Threads : call'[u] = Idle \/ call'[u].op = "send"
      BY <1>a, <1>c, <2>a DEF CallsInv, ControlTypeOK
    <3>3. UNCHANGED <<state, interest, index, added, reading, revents, delayed, owner, destroyed, calls, downs>>
      BY <1>23 DEF ForeignQueue, connVars, chanVars, kernelVars, histVars
    <3> QED
      BY <3>1, <3>2, <3>3
  <2>2. CallsInv'
    BY <1>a, <1>b, <1>c, <1>d, <2>1 DEF CallsInv, Closing, UserOps
  <2>3. OwnerInv'
    BY <1>a, <1>b, <1>c, <1>d, <2>1 DEF OwnerInv, UserOps
  <2>4. UpInv'
    BY <1>a, <1>b, <1>c, <1>d, <2>1 DEF UpInv, UserOps
  <2>5. DownInv'
    BY <1>a, <1>b, <1>c, <1>d, <2>1 DEF DownInv, UserOps
  <2> QED
    BY <2>2, <2>3, <2>4, <2>5
<1> HIDE DEF Goal
<1>24. LoopStep => Goal
  BY <1>1, <1>2, <1>3, <1>4, <1>5, <1>6, <1>7, <1>8, <1>9, <1>10 DEF LoopStep
<1>25. PollStep => Goal
  BY <1>11 DEF PollStep
<1>26. LoopUser => Goal
  BY <1>12, <1>13, <1>14, <1>15, <1>16 DEF LoopUser
<1>27. ASSUME NEW t \in Threads, ForeignCall(t) PROVE Goal
  BY <1>27, <1>22, <1>23 DEF ForeignCall
<1>28. Goal
  BY <1>17, <1>18, <1>19, <1>20, <1>21, <1>24, <1>25, <1>26, <1>27 DEF Next
<1> QED
  BY <1>28 DEF Goal, OrderlyInv

LEMMA OrderlyFirst ==
    ASSUME IInv, Next, Orderly', ups = 0
    PROVE  OrderlyInv'
<1>1. /\ ConnectEstablished \/ OwnerLetsGo \/ PeerCloses
      /\ BeforeInv /\ BeforeInv' /\ TypeOK /\ app' = app
  BY FirstSteps, BeforeKept, Forward DEF IInv
<1>2. CallsInv /\ OwnerInv /\ UpInv /\ DownInv
  BY <1>1 DEF IInv, OrderlyInv, Orderly, ClosesOnLoop, BeforeInv
<1>3. /\ interest = {} /\ calls = 0 /\ downs = 0 /\ ~delayed /\ reading /\ state = "kConnecting" /\ ~destroyed
      /\ revents = <<>> /\ index = "kNew" /\ call = [t \in Threads |-> Idle]
  BY <1>1, Alive DEF BeforeInv
<1>4. ASSUME ConnectEstablished PROVE OrderlyInv'
  <2>1. /\ QueueOps' \subseteq QueueOps /\ "connectEstablished" \notin QueueOps'
        /\ "connectDestroyed" \in QueueOps => "connectDestroyed" \in QueueOps'
        /\ DestroyOnce'
    <3>1. queue \in Seq(QueuedFunctors) /\ queue # <<>> /\ queue' = Tail(queue) /\ Head(queue).op = "connectEstablished"
      BY <1>1, <1>4 DEF ConnectEstablished, Runs, Pop, TypeOK, DataTypeOK
    <3>2. ups' = 1
      BY <1>4 DEF ConnectEstablished
    <3> QED
      BY <1>1, <1>2, <3>1, <3>2, Popped DEF OwnerInv, BeforeInv
  <2>2. owner = "has" \/ (owner = "dead" /\ "connectDestroyed" \in QueueOps)
    <3>1. CASE queue = <<Functor("connectEstablished", <<>>), Functor("connectDestroyed", <<>>)>>
      BY <1>1, <3>1 DEF BeforeInv, QueueOps, Functor
    <3> QED
      BY <1>1, <3>1 DEF BeforeInv
  <2>3. /\ state' = "kConnected" /\ interest' = {"read"} /\ index' = "kAdded" /\ added' /\ ups' = 1
        /\ UNCHANGED <<reading, delayed, owner, destroyed, call, calls, downs>>
    BY <1>3, <1>4 DEF ConnectEstablished, Update, userVars
  <2>4. CallsInv'
    BY <1>2, <1>3, <2>1, <2>3 DEF CallsInv, Closing
  <2>5. OwnerInv'
    BY <1>1, <1>2, <2>1, <2>3 DEF OwnerInv
  <2>6. UpInv'
    BY <2>1, <2>2, <2>3 DEF UpInv
  <2>7. DownInv'
    BY <1>3, <2>3 DEF DownInv
  <2> QED
    BY <2>4, <2>5, <2>6, <2>7 DEF OrderlyInv
<1>5. ASSUME OwnerLetsGo PROVE OrderlyInv'
  <2>1. owner' = "dead" /\ app.ownerMayDie /\ queue' = Append(queue, Functor("connectDestroyed", <<>>))
        /\ queue = <<Functor("connectEstablished", <<>>)>>
    BY <1>1, <1>5 DEF OwnerLetsGo, BeforeInv
  <2>2. QueueOps = {"connectEstablished"}
    BY <2>1 DEF QueueOps, Functor
  <2>3. QueueOps' = QueueOps \union {"connectDestroyed"} /\ DestroyOnce'
    <3>1. Pushing("connectDestroyed") /\ queue \in Seq(QueuedFunctors)
      <4>1. <<>> \in Seq(Bytes)
        OBVIOUS
      <4> QED
        BY <1>1, <2>1, <4>1 DEF Pushing, TypeOK, DataTypeOK
    <3> QED
      BY <1>2, <2>2, <3>1, Queued DEF OwnerInv, Functors
  <2>4. /\ UNCHANGED <<state, interest, index, added, reading, delayed, destroyed, call, calls, ups, downs>>
    BY <1>5 DEF OwnerLetsGo, connVars, chanVars, userVars, histVars
  <2>5. CallsInv'
    BY <1>2, <1>3, <2>2, <2>3, <2>4 DEF CallsInv
  <2>6. OwnerInv'
    BY <1>1, <1>2, <2>1, <2>3, <2>4 DEF OwnerInv
  <2>7. UpInv' /\ DownInv'
    BY <1>3, <2>4 DEF UpInv, DownInv
  <2> QED
    BY <2>5, <2>6, <2>7 DEF OrderlyInv
<1>6. ASSUME PeerCloses PROVE OrderlyInv'
  <2>1. /\ UNCHANGED <<app, queue, state, interest, index, added, reading, revents, delayed, owner, destroyed, call, calls>>
        /\ UNCHANGED <<ups, downs>>
    BY <1>6 DEF PeerCloses, Step, connVars, chanVars, userVars, histVars
  <2>2. QueueOps' = QueueOps /\ DestroyOnce' = DestroyOnce
    BY <2>1 DEF QueueOps, DestroyOnce
  <2> QED
    BY <1>2, <1>3, <2>1, <2>2 DEF OrderlyInv, CallsInv, OwnerInv, UpInv, DownInv, Closing
<1> QED
  BY <1>1, <1>4, <1>5, <1>6

-----------------------------------------------------------------------------
(* Assertions.                                                             *)

LEMMA GoneSteps ==
    ASSUME IInv, Next, ClosesOnLoop, owner = "gone"
    PROVE  \/ UNCHANGED <<queue, call>>
           \/ queue # <<>> /\ queue' = Tail(queue) /\ call' = call
           \/ \E t \in Threads, n \in 1..app.maxMessage :
                  ForeignQueue(t, n) /\ call[t] # Idle /\ call[t].op = "send"
<1> DEFINE Stays == UNCHANGED <<queue, call>>
           Pops == queue # <<>> /\ queue' = Tail(queue) /\ call' = call
           Goal == \/ Stays \/ Pops
                   \/ \E t \in Threads, n \in 1..app.maxMessage :
                         ForeignQueue(t, n) /\ call[t] # Idle /\ call[t].op = "send"
<1>1. CallsInv /\ UpInv /\ DownInv /\ BeforeInv /\ ups \in {0, 1}
  BY DEF IInv, Orderly, OrderlyInv, TypeOK, ControlTypeOK
<1>2. downs = 1 /\ state = "kDisconnected" /\ interest = {}
  BY <1>1 DEF BeforeInv, UpInv, DownInv
<1>3. ASSUME OnClose \/ OnRead \/ OnWrite PROVE Stays
  BY <1>2, <1>3 DEF OnClose, OnRead, OnWrite, Writing, userVars
<1>4. ASSUME ConnectEstablished \/ ConnectDestroyed \/ RunShutdown \/ RunForceClose \/ RunReadSwitch \/ RunUserCallback
      PROVE  Pops
  BY <1>4 DEF ConnectEstablished, ConnectDestroyed, RunShutdown, RunForceClose, RunReadSwitch,
              RunUserCallback, Runs, Pop, userVars
<1>5. ASSUME RunSend PROVE Pops
  BY <1>2, <1>5 DEF RunSend, Runs, SendInLoop, userVars
<1>6. ASSUME LoopUser PROVE Stays
  BY <1>2, <1>6 DEF LoopUser, LoopSend, LoopShutdown, LoopForceClose, LoopForceCloseWithDelay, LoopReadSwitch,
                    ForceClose
<1>7. ASSUME PollStep \/ DelayExpires \/ PeerCloses \/ Destroy PROVE Stays
  BY <1>2, <1>7 DEF PollStep, Poll, DelayExpires, ForceClose, PeerCloses, Destroy, userVars
<1>8. ~OwnerLetsGo
  BY DEF OwnerLetsGo
<1>9. ASSUME NEW t \in Threads, ForeignCall(t)
      PROVE  \E n \in 1..app.maxMessage : ForeignQueue(t, n) /\ call[t] # Idle /\ call[t].op = "send"
  <2>1. call[t] = Idle \/ call[t].op = "send"
    BY <1>1 DEF CallsInv
  <2>2. Idle.at = "none" /\ Idle.op = "none"
    BY DEF Idle
  <2>3. ~ForeignSet(t)
    BY <2>1, <2>2 DEF ForeignSet
  <2>4. \A n \in 1..app.maxMessage : ForeignQueue(t, n) => call[t].at \in {"checked", "set"}
    BY DEF ForeignQueue
  <2> QED
    BY <1>9, <2>1, <2>2, <2>3, <2>4 DEF ForeignCall
<1>10. ASSUME NEW t \in Threads, NEW op \in Ops, ForeignCheck(t, op) PROVE FALSE
  BY <1>2, <1>10 DEF ForeignCheck, ClosesOnLoop
<1>11. LoopStep => Stays \/ Pops
  BY <1>3, <1>4, <1>5 DEF LoopStep
<1> HIDE DEF Stays, Pops
<1> QED
  <2>1. Stays \/ Pops \/ \E t \in Threads, n \in 1..app.maxMessage :
                             ForeignQueue(t, n) /\ call[t] # Idle /\ call[t].op = "send"
    BY <1>6, <1>7, <1>8, <1>9, <1>10, <1>11 DEF Next
  <2> QED
    BY <2>1 DEF Stays, Pops

LEMMA LateKept ==
    ASSUME IInv, [Next]_vars, ClosesOnLoop'
    PROVE  LateInv'
<1> SUFFICES ASSUME owner' = "gone"
             PROVE  /\ \A i \in 1..Len(queue') : Late(i)' => call'[LateSender(i)'] = Idle
                    /\ \A i, j \in 1..Len(queue') :
                          Late(i)' /\ Late(j)' /\ LateSender(i)' = LateSender(j)' => i = j
  BY DEF LateInv
<1>1. /\ ClosesOnLoop /\ LateInv /\ queue \in Seq(QueuedFunctors) /\ Len(queue) \in Nat
      /\ CallTypeOK
  <2>1. ClosesOnLoop
    BY Forward DEF ClosesOnLoop
  <2> QED
    BY <2>1 DEF IInv, TypeOK, DataTypeOK, ControlTypeOK, CallTypeOK
<1>2. CASE UNCHANGED <<queue, call>> /\ owner = "gone"
  BY <1>1, <1>2 DEF LateInv, Late, LateSender
<1>3. CASE queue # <<>> /\ queue' = Tail(queue) /\ call' = call /\ owner = "gone"
  <2>1. /\ Len(queue') = Len(queue) - 1
        /\ \A i \in 1..Len(queue') : i + 1 \in 1..Len(queue) /\ queue'[i] = queue[i + 1]
    BY <1>1, <1>3
  <2>2. ASSUME NEW i \in 1..Len(queue'), Late(i)' PROVE Late(i + 1) /\ LateSender(i)' = LateSender(i + 1)
    <3>1. ASSUME NEW j \in (i + 1)..Len(queue) PROVE queue[j].op # "connectDestroyed"
      <4>1. j - 1 \in i..Len(queue') /\ j - 1 \in 1..Len(queue') /\ (j - 1) + 1 = j
        BY <1>1, <2>1
      <4>2. queue'[j - 1] = queue[j] /\ queue'[j - 1].op # "connectDestroyed"
        BY <2>1, <2>2, <4>1 DEF Late
      <4> QED
        BY <4>2
    <3> QED
      BY <2>1, <2>2, <3>1 DEF Late, LateSender
  <2>3. \A i, j \in 1..Len(queue') : i + 1 = j + 1 => i = j
    BY <1>1, <2>1
  <2> QED
    BY <1>1, <1>3, <2>1, <2>2, <2>3 DEF LateInv
<1>4. ASSUME NEW t \in Threads, NEW n \in 1..app.maxMessage, ForeignQueue(t, n), call[t] # Idle, call[t].op = "send",
             owner = "gone"
      PROVE  /\ \A i \in 1..Len(queue') : Late(i)' => call'[LateSender(i)'] = Idle
             /\ \A i, j \in 1..Len(queue') :
                   Late(i)' /\ Late(j)' /\ LateSender(i)' = LateSender(j)' => i = j
  <2>0. /\ queue' = Append(queue, Functor("sendInLoop", Message(t, n))) /\ call' = [call EXCEPT ![t] = Idle]
    BY <1>4 DEF ForeignQueue
  <2>1. PICK f : f = Functor("sendInLoop", Message(t, n))
    OBVIOUS
  <2>2. f.data[1][1] = t
    <3>1. app.maxMessage \in Nat
      BY AppTypes DEF IInv, TypeOK, ControlTypeOK
    <3>2. 1 \in 1..n
      BY <3>1
    <3> QED
      BY <2>1, <3>2 DEF Functor, Message
  <2>3. /\ Len(queue') = Len(queue) + 1 /\ queue'[Len(queue) + 1] = f
        /\ \A i \in 1..Len(queue) : queue'[i] = queue[i]
    BY <1>1, <2>0, <2>1
  <2>4. ASSUME NEW i \in 1..Len(queue'), Late(i)', i # Len(queue) + 1
        PROVE  i \in 1..Len(queue) /\ Late(i) /\ LateSender(i)' = LateSender(i)
    <3>1. i \in 1..Len(queue)
      BY <1>1, <2>3, <2>4
    <3>2. ASSUME NEW j \in i..Len(queue) PROVE queue[j].op # "connectDestroyed"
      <4>1. j \in i..Len(queue') /\ j \in 1..Len(queue)
        BY <1>1, <2>3, <3>1
      <4> QED
        BY <2>3, <2>4, <4>1 DEF Late
    <3> QED
      BY <2>3, <2>4, <3>1, <3>2 DEF Late, LateSender
  <2>5. \A i \in 1..Len(queue') : i = Len(queue) + 1 => LateSender(i)' = t
    BY <2>2, <2>3 DEF LateSender
  <2>6. ASSUME NEW i \in 1..Len(queue'), Late(i)', i # Len(queue) + 1
        PROVE  LateSender(i)' # t /\ call'[LateSender(i)'] = Idle
    <3>1. call[LateSender(i)'] = Idle
      BY <1>1, <1>4, <2>4, <2>6 DEF LateInv
    <3> QED
      BY <1>1, <1>4, <2>0, <3>1 DEF CallTypeOK
  <2>7. call'[t] = Idle
    BY <1>1, <2>0 DEF CallTypeOK
  <2>8. ASSUME NEW i \in 1..Len(queue'), Late(i)' PROVE call'[LateSender(i)'] = Idle
    BY <2>5, <2>6, <2>7, <2>8
  <2>9. ASSUME NEW i \in 1..Len(queue'), NEW j \in 1..Len(queue'), Late(i)', Late(j)',
               LateSender(i)' = LateSender(j)'
        PROVE  i = j
    <3>1. CASE i # Len(queue) + 1 /\ j # Len(queue) + 1
      BY <1>1, <1>4, <2>4, <2>9, <3>1 DEF LateInv
    <3>2. CASE i = Len(queue) + 1 \/ j = Len(queue) + 1
      BY <2>5, <2>6, <2>9, <3>2
    <3> QED
      BY <3>1, <3>2
  <2> QED
    BY <2>8, <2>9
<1>5. CASE owner # "gone" /\ Next
  <2>1. OwnerLetsGo
    <3>1. ~LoopStep /\ ~PollStep /\ ~LoopUser
      BY <1>5 DEF LoopStep, OnClose, OnRead, OnWrite, ConnectEstablished, ConnectDestroyed, RunSend, RunShutdown,
                  RunForceClose, RunReadSwitch, RunUserCallback, HandleClose, PollStep, Poll, LoopUser, LoopSend,
                  LoopShutdown, LoopForceClose, LoopForceCloseWithDelay, LoopReadSwitch
    <3>2. ~DelayExpires /\ ~PeerCloses /\ ~Destroy
      BY <1>5 DEF DelayExpires, PeerCloses, Destroy
    <3>3. \A t \in Threads : ~ForeignCall(t) /\ \A op \in Ops : ~ForeignCheck(t, op)
      BY <1>5 DEF ForeignCall, ForeignSet, ForeignQueue, ForeignCheck
    <3> QED
      BY <1>5, <3>1, <3>2, <3>3 DEF Next
  <2>2. queue' = Append(queue, Functor("connectDestroyed", <<>>))
    BY <2>1 DEF OwnerLetsGo
  <2>3. Len(queue') = Len(queue) + 1 /\ queue'[Len(queue')].op = "connectDestroyed"
    BY <1>1, <2>2 DEF Functor
  <2>4. \A i \in 1..Len(queue') : Len(queue') \in i..Len(queue')
    BY <1>1, <2>3
  <2>5. \A i \in 1..Len(queue') : ~Late(i)'
    BY <2>3, <2>4 DEF Late
  <2> QED
    BY <2>5
<1>6. CASE UNCHANGED vars
  <2>1. UNCHANGED <<queue, call, owner>>
    BY <1>6 DEF vars, userVars
  <2> QED
    BY <1>2, <2>1
<1>7. CASE owner = "gone" /\ Next
  BY <1>1, <1>2, <1>3, <1>4, <1>7, GoneSteps
<1> QED
  BY <1>5, <1>6, <1>7

LEMMA AssertsMet ==
    ASSUME IInv, [Next]_vars, Orderly
    PROVE  /\ failed' \subseteq failed \union {"deadServer", "handleClose"}
           /\ calls = 0 => failed' \subseteq failed \union {"deadServer"}
<1>1. /\ TypeOK /\ ReventsTypeOK /\ BeforeInv /\ ups \in {0, 1} /\ queue \in Seq(QueuedFunctors)
  BY DEF IInv, TypeOK, ControlTypeOK, DataTypeOK, ReventsTypeOK
<1>2. CallsInv /\ OwnerInv /\ UpInv /\ DownInv /\ (calls = 0 => ~Closing) /\ (Closing => ~app.ownerMayDie)
  <2>1. Closing => ~app.ownerMayDie
    BY DEF Closing, Orderly, ClosesOnLoop
  <2> QED
    BY <2>1 DEF IInv, OrderlyInv, Closing, TypeOK, ControlTypeOK
<1>3. CASE failed' = failed
  BY <1>1, <1>3
<1>4. CASE OnClose
  <2>1. (Dispatch("close") \/ Dispatch("read")) /\ HandleClose /\ ~destroyed
    BY <1>4 DEF OnClose, Dispatch, Step, Running
  <2>2. revents # <<>> /\ revents # <<"write">>
    BY <1>1, <2>1, Dispatched DEF Dispatch
  <2>3. ups = 1 /\ downs = 0
    BY <1>1, <1>2, <2>2 DEF BeforeInv, DownInv
  <2>4. (calls = 0 => state = "kConnected") /\ owner \in {"has", "dead"}
    BY <1>2, <2>3 DEF UpInv, CallsInv
  <2> QED
    BY <1>1, <2>1, <2>4, CloseAsserts
<1>5. CASE RunForceClose
  <2>1. "forceCloseInLoop" \in QueueOps
    BY <1>1, <1>5, Popped DEF RunForceClose, Runs, Pop
  <2>2. calls # 0
    BY <1>2, <2>1 DEF CallsInv
  <2>3. failed' = failed \/ (HandleClose /\ state # "kDisconnected" /\ ups = 1)
    BY <1>1, <1>5, Popped, QueuedFirst DEF RunForceClose, Runs
  <2>4. CASE HandleClose /\ state # "kDisconnected" /\ ups = 1
    <3>1. downs = 0
      BY <1>2, <2>4 DEF DownInv
    <3>2. owner \in {"has", "dead"}
      BY <1>2, <2>4, <3>1 DEF UpInv
    <3> QED
      BY <1>1, <2>2, <2>4, <3>2, CloseAsserts
  <2> QED
    BY <2>2, <2>3, <2>4
<1>6. CASE ConnectEstablished
  <2>1. "connectEstablished" \in QueueOps
    BY <1>1, <1>6, Popped DEF ConnectEstablished, Runs, Pop
  <2>2. state = "kConnecting"
    BY <1>1, <2>1 DEF BeforeInv
  <2> QED
    BY <1>1, <1>6, <2>2, EstablishAsserts
<1>7. CASE ConnectDestroyed
  <2>1. "connectDestroyed" \in QueueOps /\ ups = 1
    BY <1>1, <1>7, Popped, QueuedFirst DEF ConnectDestroyed, Runs, Pop
  <2>2. \/ downs = 0 /\ state = "kConnected"
        \/ downs = 1 /\ state = "kDisconnected" /\ interest = {}
    BY <1>2, <2>1 DEF UpInv, DownInv, CallsInv, OwnerInv
  <2>3. interest' = {}
    BY <1>7, <2>2 DEF ConnectDestroyed
  <2> QED
    BY <1>1, <1>7, <2>3, DestroyedAsserts
<1>8. CASE Destroy
  <2>1. (\A i \in 1..Len(queue) : queue[i].op \in BareThis) /\ owner \in {"gone", "dead"}
    BY <1>8 DEF Destroy
  <2>2. QueueOps \subseteq BareThis /\ "connectDestroyed" \notin QueueOps /\ "connectEstablished" \notin QueueOps
    BY <2>1 DEF QueueOps, BareThis
  <2>3. ups = 1
    <3>1. queue # <<>> => Head(queue).op \in QueueOps
      <4>1. queue # <<>> => 1 \in 1..Len(queue) /\ Head(queue) = queue[1]
        BY <1>1
      <4> QED
        BY <4>1 DEF QueueOps
    <3> QED
      BY <1>1, <2>2, <3>1, QueuedFirst
  <2>4. state = "kDisconnected" /\ ~added
    BY <1>2, <2>1, <2>2, <2>3 DEF UpInv, DownInv
  <2> QED
    BY <1>1, <1>8, <2>4, DestroyAsserts
<1>9. failed' = failed \/ OnClose \/ RunForceClose \/ ConnectEstablished \/ ConnectDestroyed \/ Destroy
  <2> DEFINE Goal == failed' = failed \/ OnClose \/ RunForceClose \/ ConnectEstablished \/ ConnectDestroyed \/ Destroy
  <2>1. ASSUME LoopStep PROVE Goal
    BY <2>1 DEF LoopStep, OnRead, OnWrite, RunSend, RunShutdown, RunReadSwitch, RunUserCallback, histVars
  <2>2. ASSUME LoopUser PROVE Goal
    BY <2>2 DEF LoopUser, LoopSend, LoopShutdown, LoopForceClose, LoopForceCloseWithDelay, LoopReadSwitch,
                histVars
  <2>3. ASSUME PollStep \/ DelayExpires \/ OwnerLetsGo \/ PeerCloses \/ Destroy PROVE Goal
    BY <2>3 DEF PollStep, Poll, DelayExpires, OwnerLetsGo, PeerCloses, histVars
  <2>4. ASSUME NEW t \in Threads, NEW op \in Ops, ForeignCall(t) \/ ForeignCheck(t, op) PROVE Goal
    BY <2>4 DEF ForeignCall, ForeignSet, ForeignQueue, ForeignCheck, histVars
  <2>5. ASSUME UNCHANGED vars PROVE Goal
    BY <2>5 DEF vars, histVars
  <2>6. Ops # {}
    BY DEF Ops
  <2> HIDE DEF Goal
  <2>7. Goal
    BY <2>1, <2>2, <2>3, <2>4, <2>5, <2>6 DEF Next
  <2> QED
    BY <2>7 DEF Goal
<1> QED
  BY <1>3, <1>4, <1>5, <1>6, <1>7, <1>8, <1>9

LEMMA AssertsKept ==
    ASSUME IInv, [Next]_vars
    PROVE  NoAssertionFails'
<1>1. app' = app /\ (calls' = 0 => calls = 0) /\ NoAssertionFails
  BY Forward DEF IInv, TypeOK, ControlTypeOK
<1>2. ASSUME calls' = 0 PROVE failed' \subseteq {"deadServer"}
  BY <1>1, <1>2, AssertsMet DEF NoAssertionFails, Orderly
<1>3. ASSUME ClosesOnLoop' PROVE failed' \subseteq {"deadServer", "handleClose"}
  BY <1>1, <1>3, AssertsMet DEF NoAssertionFails, Orderly, ClosesOnLoop
<1> QED
  BY <1>2, <1>3 DEF NoAssertionFails

-----------------------------------------------------------------------------
(* The invariant.                                                          *)

LEMMA InitIInv ==
    ASSUME Init
    PROVE  IInv
<1>1. app \in Apps /\ app.maxBytes \in Nat /\ app.maxCalls \in Nat
  BY AppTypes DEF Init
<1>2. queue = <<Functor("connectEstablished", <<>>)>> /\ <<>> \in Seq(Bytes)
  BY DEF Init
<1>3. queue \in Seq(QueuedFunctors)
  <2>1. Functor("connectEstablished", <<>>) \in QueuedFunctors
    BY <1>2 DEF QueuedFunctors, Functor, Functors
  <2> QED
    BY <1>2, <2>1
<1>4. QueueOps = {"connectEstablished"} /\ DestroyOnce
  BY <1>2 DEF QueueOps, DestroyOnce, Functor
<1>5. DataTypeOK
  BY <1>1, <1>2, <1>3 DEF Init, DataTypeOK
<1>6. ControlTypeOK
  <2>1. ChannelTypeOK /\ ReventsTypeOK /\ FailedTypeOK /\ FlagsTypeOK
    BY DEF Init, ChannelTypeOK, ReventsTypeOK, FailedTypeOK, FlagsTypeOK, States
  <2>2. CallTypeOK
    BY DEF Init, CallTypeOK
  <2>3. CountsTypeOK
    BY <1>1 DEF Init, CountsTypeOK
  <2> QED
    BY <1>1, <2>1, <2>2, <2>3 DEF ControlTypeOK, ChannelTypeOK, ReventsTypeOK, FailedTypeOK, FlagsTypeOK,
                                  CallTypeOK, CountsTypeOK
<1>7. BeforeInv /\ WritesInv /\ NoAssertionFails
  BY <1>2 DEF Init, BeforeInv, WritesInv, Writing, NoAssertionFails
<1>8. OrderlyInv
  BY <1>4 DEF Init, OrderlyInv, CallsInv, OwnerInv, UpInv, DownInv
<1>10. LateInv
  BY DEF Init, LateInv
<1>9. BytesInv
  <2>1. wire \o out = <<>>
    <3>1. <<>> \in Seq(Bytes)
      OBVIOUS
    <3> QED
      BY <3>1, ConcatEmptySeq, Zenon DEF Init
  <2>2. Len(<<>>) = 0 /\ Len(queue) = 1 /\ queue[1].op = "connectEstablished" /\ queue[1].data = <<>>
    BY <1>2 DEF Init, Functor
  <2>3. 1..Len(<<>>) = {} /\ 1..Len(queue) = {1}
    BY <2>2
  <2>4. CargoInv
    BY <2>2, <2>3 DEF CargoInv
  <2>5. FirstOnes(<<>>)
    BY <2>3 DEF FirstOnes
  <2>6. \A b \in Bytes : ~(b[2] <= sent[b[1]])
    BY <1>1 DEF Bytes, Init
  <2>7. Piped(<<>>, queue, sent)
    BY <2>2, <2>3, <2>6 DEF Piped, Increasing, AllBefore, Has
  <2>8. state # "kDisconnected"
    BY DEF Init
  <2> QED
    BY <2>1, <2>4, <2>5, <2>7, <2>8 DEF BytesInv
<1> QED
  BY <1>5, <1>6, <1>7, <1>8, <1>9, <1>10 DEF IInv, TypeOK

LEMMA StepIInv ==
    ASSUME IInv, [Next]_vars
    PROVE  IInv'
<1>1. TypeOK /\ BeforeInv /\ WritesInv
  BY DEF IInv
<1>2. TypeOK'
  BY <1>1, ControlKept, DataKept DEF TypeOK
<1>3. BeforeInv' /\ WritesInv' /\ NoAssertionFails'
  BY <1>1, BeforeKept, WritesKept, AssertsKept
<1>4. ASSUME Orderly' PROVE OrderlyInv'
  <2>1. CASE Next
    <3>1. ups \in {0, 1}
      BY <1>1 DEF TypeOK, ControlTypeOK
    <3> QED
      BY <1>4, <2>1, <3>1, OrderlyFirst, OrderlyKept
  <2>2. CASE UNCHANGED vars
    <3>1. /\ UNCHANGED <<app, queue, state, interest, index, added, reading, revents, delayed, owner, destroyed>>
          /\ UNCHANGED <<call, calls, ups, downs>>
      BY <2>2 DEF vars, connVars, chanVars, kernelVars, userVars, histVars
    <3>2. QueueOps' = QueueOps /\ DestroyOnce' = DestroyOnce /\ Orderly
      BY <1>4, <3>1 DEF QueueOps, DestroyOnce, Orderly, ClosesOnLoop
    <3>3. OrderlyInv
      BY <3>2 DEF IInv
    <3> QED
      BY <3>1, <3>2, <3>3 DEF OrderlyInv, CallsInv, OwnerInv, UpInv, DownInv, Closing
  <2> QED
    BY <2>1, <2>2
<1>5. BytesInv'
  BY <1>1, BytesKept DEF IInv
<1>6. ClosesOnLoop' => LateInv'
  BY LateKept
<1> QED
  BY <1>2, <1>3, <1>4, <1>5, <1>6 DEF IInv

LEMMA Invariance == Spec => []IInv
<1>1. Init => IInv
  BY InitIInv
<1>2. IInv /\ [Next]_vars => IInv'
  BY StepIInv
<1> QED
  BY <1>1, <1>2, PTL DEF Spec

\* For every application that closes on the loop, or not at all while its server may be
\* destroyed: connectionCallback_ runs once for the connection going up and once, before
\* the destructor, for it going down; after that the channel is in no epoll set, and
\* what is destroyed has no event to come and no functor but the send()s of other
\* threads that are bound to the bare `this', after a close at most one of each thread.
THEOREM ToldOnce == Spec => []UpThenDown
<1>1. IInv => UpThenDown
  <2> SUFFICES ASSUME IInv PROVE UpThenDown
    OBVIOUS
  <2>1. ASSUME ClosesOnLoop PROVE ToldUpAndDownOnce /\ DownIsSilent /\ OnlyLateSendsLeft
    <3>1. DownInv /\ LateInv
      BY <2>1 DEF IInv, Orderly, OrderlyInv
    <3>2. ToldUpAndDownOnce /\ DownIsSilent
      BY <3>1 DEF DownInv, ToldUpAndDownOnce, DownIsSilent
    <3>3. ASSUME destroyed PROVE \A i \in 1..Len(queue) : queue[i].op = "sendInLoop"
      BY <3>1, <3>3 DEF DownInv, QueueOps
    <3>4. ASSUME destroyed, NEW i \in 1..Len(queue) PROVE Late(i)
      <4>1. \A j \in i..Len(queue) : j \in 1..Len(queue)
        BY DEF IInv, TypeOK, DataTypeOK
      <4> QED
        BY <3>3, <3>4, <4>1 DEF Late
    <3>5. OnlyLateSendsLeft
      BY <3>1, <3>3, <3>4 DEF OnlyLateSendsLeft, LateInv, LateSender
    <3> QED
      BY <3>2, <3>5
  <2> QED
    BY <2>1 DEF UpThenDown, IInv
<1> QED
  BY <1>1, Invariance, PTL

\* Whoever only sends, from any thread and whatever the peer and the server do, meets no
\* assertion: not one of handleClose(), removeConnectionInLoop(), connectEstablished(),
\* Channel::remove(), ~Channel() and ~TcpConnection().  Whoever closes on the loop meets
\* that of handleClose() only.
THEOREM SendersMeetNoAssertion == Spec => []NoAssertionFails
<1>1. IInv => NoAssertionFails
  BY DEF IInv
<1> QED
  BY <1>1, Invariance, PTL

\* For every application, on any thread: what the kernel took, followed by what
\* outputBuffer_ holds, are the first bytes that each thread sent, in order; until the
\* connection is down the channel is watched for writability exactly while the buffer
\* holds data, and the write side is shut down only when it holds none.
THEOREM BytesInOrder == Spec => []BytesThenFin
<1>1. IInv => BytesThenFin
  BY DEF IInv, BytesInv, WritesInv, BytesThenFin
<1> QED
  BY <1>1, Invariance, PTL

\* Neither a write event of the dispatch in which the connection went down nor a
\* sendInLoop() that was queued before writes to the socket.
THEOREM SilentAfterDown == Spec => NothingSentAfterDown
<1>1. ASSUME IInv, [Next]_vars PROVE ClosesOnLoop /\ downs > 0 => wire' = wire
  <2> SUFFICES ASSUME ClosesOnLoop, downs > 0 PROVE wire' = wire
    OBVIOUS
  <2>1. TypeOK /\ state = "kDisconnected" /\ interest = {}
    BY <1>1 DEF IInv, Orderly, OrderlyInv, DownInv
  <2>2. CASE OnWrite
    BY <2>1, <2>2 DEF OnWrite, Writing
  <2>3. CASE RunSend \/ \E n \in 1..app.maxMessage : LoopSend(n)
    BY <2>1, <2>3, Sent
  <2>4. ASSUME LoopStep, ~OnWrite, ~RunSend PROVE wire' = wire
    BY <2>4 DEF LoopStep, OnClose, OnRead, ConnectEstablished, ConnectDestroyed, RunShutdown, RunForceClose,
                RunReadSwitch, RunUserCallback, kernelVars
  <2>5. ASSUME LoopShutdown \/ LoopForceClose \/ LoopForceCloseWithDelay \/ LoopReadSwitch PROVE wire' = wire
    BY <2>5 DEF LoopShutdown, LoopForceClose, LoopForceCloseWithDelay, LoopReadSwitch, kernelVars
  <2>6. ASSUME PollStep \/ DelayExpires \/ OwnerLetsGo \/ PeerCloses \/ Destroy PROVE wire' = wire
    BY <2>6 DEF PollStep, Poll, DelayExpires, OwnerLetsGo, PeerCloses, Destroy, kernelVars
  <2>7. ASSUME NEW t \in Threads, NEW op \in Ops, ForeignCall(t) \/ ForeignCheck(t, op) PROVE wire' = wire
    BY <2>7 DEF ForeignCall, ForeignSet, ForeignQueue, ForeignCheck, kernelVars
  <2>8. CASE UNCHANGED vars
    BY <2>8 DEF vars, kernelVars
  <2>9. Ops # {}
    BY DEF Ops
  <2> QED
    BY <1>1, <2>2, <2>3, <2>4, <2>5, <2>6, <2>7, <2>8, <2>9 DEF Next, LoopUser
<1> QED
  BY <1>1, Invariance, PTL DEF Spec, NothingSentAfterDown

-----------------------------------------------------------------------------
(* Buffer.                                                                 *)

\* A buffer over bytes from B: a vector and two indices in order.
Buffers(B) == {b \in [cells : Seq(B), reader : Nat, writer : Nat] :
    /\ b.reader <= b.writer
    /\ b.writer <= Len(b.cells)
    /\ kCheapPrepend <= Len(b.cells)}

\* The parts of a buffer, by name.
BufferFields(B, b) ==
    /\ b = [cells |-> b.cells, reader |-> b.reader, writer |-> b.writer]
    /\ b.cells \in Seq(B) /\ Len(b.cells) \in Nat
    /\ b.reader \in Nat /\ b.writer \in Nat
    /\ b.reader <= b.writer /\ b.writer <= Len(b.cells)
    /\ kCheapPrepend \in Nat /\ kCheapPrepend <= Len(b.cells)

\* A buffer has its parts.
LEMMA BufferParts ==
    ASSUME NEW B, NEW b \in Buffers(B)
    PROVE  BufferFields(B, b)
  BY SizesAssumption DEF Buffers, BufferFields

\* The readable bytes are a sequence.
LEMMA ReadableIsSeq ==
    ASSUME NEW B, NEW b \in Buffers(B)
    PROVE  /\ Readable(b) \in Seq(B)
           /\ Len(Readable(b)) = ReadableBytes(b)
           /\ ReadableBytes(b) \in Nat
           /\ \A i \in 1..ReadableBytes(b) : Readable(b)[i] = b.cells[b.reader + i]
<1>1. BufferFields(B, b) BY BufferParts
<1>2. ReadableBytes(b) \in Nat BY <1>1 DEF BufferFields, ReadableBytes
<1>3. ASSUME NEW i \in 1..ReadableBytes(b) PROVE b.cells[b.reader + i] \in B
  BY <1>1, <1>3 DEF BufferFields, ReadableBytes
<1> QED BY <1>2, <1>3 DEF Readable

\* retrieve() drops as many readable bytes as it is told to.
THEOREM RetrieveDrops ==
    ASSUME NEW B, NEW b \in Buffers(B), NEW len \in 0..ReadableBytes(b)
    PROVE  /\ Retrieve(b, len) \in Buffers(B)
           /\ Readable(Retrieve(b, len)) = [i \in 1..(ReadableBytes(b) - len) |-> Readable(b)[len + i]]
<1>0. BufferFields(B, b) BY BufferParts
<1>1. CASE len < ReadableBytes(b)
  <2> DEFINE c == [cells |-> b.cells, reader |-> b.reader + len, writer |-> b.writer]
  <2>1. Retrieve(b, len) = c
    BY <1>0, <1>1 DEF BufferFields, Retrieve
  <2>2. c \in Buffers(B)
    BY <1>0, <1>1 DEF BufferFields, ReadableBytes, Buffers
  <2>3. Readable(c) = [i \in 1..(ReadableBytes(b) - len) |-> Readable(b)[len + i]]
    BY <1>0, <1>1 DEF BufferFields, Readable, ReadableBytes
  <2> QED BY <2>1, <2>2, <2>3
<1>2. CASE len = ReadableBytes(b)
  <2> DEFINE c == [cells |-> b.cells, reader |-> kCheapPrepend, writer |-> kCheapPrepend]
  <2>1. Retrieve(b, len) = c
    BY <1>0, <1>2 DEF BufferFields, Retrieve, RetrieveAll
  <2>2. c \in Buffers(B)
    BY <1>0 DEF BufferFields, Buffers
  <2>3. Readable(c) = [i \in 1..(ReadableBytes(b) - len) |-> Readable(b)[len + i]]
    BY <1>0, <1>2 DEF BufferFields, Readable, ReadableBytes
  <2> QED BY <2>1, <2>2, <2>3
<1> QED BY <1>0, <1>1, <1>2 DEF BufferFields, ReadableBytes

\* unwrite() drops them at the other end.
THEOREM UnwriteCuts ==
    ASSUME NEW B, NEW b \in Buffers(B), NEW len \in 0..ReadableBytes(b)
    PROVE  /\ Unwrite(b, len) \in Buffers(B)
           /\ Readable(Unwrite(b, len)) = [i \in 1..(ReadableBytes(b) - len) |-> Readable(b)[i]]
<1> DEFINE c == [cells |-> b.cells, reader |-> b.reader, writer |-> b.writer - len]
<1>0. BufferFields(B, b) BY BufferParts
<1>1. Unwrite(b, len) = c
  BY <1>0 DEF BufferFields, Unwrite
<1>2. c \in Buffers(B)
  BY <1>0 DEF BufferFields, Buffers, ReadableBytes
<1>3. Readable(c) = [i \in 1..(ReadableBytes(b) - len) |-> Readable(b)[i]]
  BY <1>0 DEF BufferFields, Readable, ReadableBytes
<1> QED BY <1>1, <1>2, <1>3

\* makeSpace() for more than is writable keeps the readable bytes, makes the room, and
\* moves them to the front only if they are not there: its assertion never fails.
THEOREM MakeSpaceKeeps ==
    ASSUME NEW B, NUL \in B, NEW b \in Buffers(B), NEW len \in Nat, WritableBytes(b) < len
    PROVE  /\ MakeSpace(b, len) \in Buffers(B)
           /\ Readable(MakeSpace(b, len)) = Readable(b)
           /\ WritableBytes(MakeSpace(b, len)) >= len
           /\ MakeSpaceMoves(b, len) => kCheapPrepend < b.reader
<1>0. BufferFields(B, b) BY BufferParts
<1>1. CASE ~MakeSpaceMoves(b, len)
  <2> DEFINE cells == Resized(b.cells, b.writer + len)
             c == [cells |-> cells, reader |-> b.reader, writer |-> b.writer]
  <2>1. MakeSpace(b, len) = c
    BY <1>0, <1>1 DEF BufferFields, MakeSpace
  <2>2. cells \in Seq(B) /\ Len(cells) = b.writer + len
    <3>1. b.writer + len \in Nat BY <1>0 DEF BufferFields
    <3>2. \A i \in 1..(b.writer + len) :
            (IF i <= Len(b.cells) THEN b.cells[i] ELSE NUL) \in B
      BY <1>0 DEF BufferFields
    <3> QED BY <3>1, <3>2 DEF Resized
  <2>3. Len(b.cells) <= Len(cells)
    BY <1>0, <2>2 DEF BufferFields, WritableBytes
  <2>4. c \in Buffers(B)
    BY <1>0, <2>2, <2>3 DEF BufferFields, Buffers
  <2>5. \A i \in 1..Len(b.cells) : cells[i] = b.cells[i]
    BY <1>0, <2>2, <2>3 DEF BufferFields, Resized
  <2>6. Readable(c) = Readable(b)
    BY <1>0, <2>5 DEF BufferFields, Readable, ReadableBytes
  <2>7. WritableBytes(c) >= len
    BY <1>0, <2>2 DEF BufferFields, WritableBytes
  <2> QED BY <1>1, <2>1, <2>4, <2>6, <2>7
<1>2. CASE MakeSpaceMoves(b, len)
  <2> DEFINE r == Readable(b)
             cells == Copied(b.cells, kCheapPrepend, r)
             c == [cells |-> cells, reader |-> kCheapPrepend, writer |-> kCheapPrepend + ReadableBytes(b)]
  <2>1. MakeSpace(b, len) = c
    BY <1>2 DEF MakeSpace
  <2>2. kCheapPrepend < b.reader
    BY <1>0, <1>2 DEF BufferFields, MakeSpaceMoves, WritableBytes, PrependableBytes
  <2>3. r \in Seq(B) /\ Len(r) = ReadableBytes(b) /\ ReadableBytes(b) \in Nat
    BY ReadableIsSeq
  <2>4. kCheapPrepend + ReadableBytes(b) <= Len(b.cells)
    BY <1>0, <2>2 DEF BufferFields, ReadableBytes
  <2>5. cells \in Seq(B) /\ Len(cells) = Len(b.cells)
    BY <1>0, <2>3 DEF BufferFields, Copied
  <2>6. c \in Buffers(B)
    BY <1>0, <2>3, <2>4, <2>5 DEF BufferFields, Buffers
  <2>7. \A i \in 1..ReadableBytes(b) : cells[kCheapPrepend + i] = r[i]
    BY <1>0, <2>3, <2>4 DEF BufferFields, Copied
  <2>8. Readable(c) = r
    BY <1>0, <2>3, <2>7 DEF BufferFields, Readable, ReadableBytes
  <2>9. WritableBytes(c) >= len
    BY <1>0, <1>2, <2>5 DEF BufferFields, MakeSpaceMoves, WritableBytes, PrependableBytes, ReadableBytes
  <2> QED BY <2>1, <2>2, <2>6, <2>8, <2>9
<1> QED BY <1>1, <1>2

LEMMA EnsureWritableKeeps ==
    ASSUME NEW B, NUL \in B, NEW b \in Buffers(B), NEW len \in Nat
    PROVE  /\ EnsureWritableBytes(b, len) \in Buffers(B)
           /\ Readable(EnsureWritableBytes(b, len)) = Readable(b)
           /\ WritableBytes(EnsureWritableBytes(b, len)) >= len
<1>1. BufferFields(B, b) BY BufferParts
<1>2. WritableBytes(b) \in Int BY <1>1 DEF BufferFields, WritableBytes
<1> QED BY <1>2, MakeSpaceKeeps DEF EnsureWritableBytes

\* What std::copy() leaves in the vector.
LEMMA CopiedCells ==
    ASSUME NEW B, NEW cells \in Seq(B), NEW data \in Seq(B), NEW at \in Nat,
           at + Len(data) <= Len(cells)
    PROVE  /\ Copied(cells, at, data) \in Seq(B)
           /\ Len(Copied(cells, at, data)) = Len(cells)
           /\ \A i \in 1..Len(cells) : i <= at => Copied(cells, at, data)[i] = cells[i]
           /\ \A i \in 1..Len(data) : Copied(cells, at, data)[at + i] = data[i]
           /\ \A i \in 1..Len(cells) : i > at + Len(data) => Copied(cells, at, data)[i] = cells[i]
<1>1. Len(cells) \in Nat /\ Len(data) \in Nat OBVIOUS
<1>2. \A i \in 1..Len(cells) :
        (IF at < i /\ i <= at + Len(data) THEN data[i - at] ELSE cells[i]) \in B
  BY <1>1
<1>3. Copied(cells, at, data) \in Seq(B) /\ Len(Copied(cells, at, data)) = Len(cells)
  BY <1>1, <1>2 DEF Copied
<1>4. \A i \in 1..Len(cells) :
        Copied(cells, at, data)[i] = IF at < i /\ i <= at + Len(data) THEN data[i - at] ELSE cells[i]
  BY <1>1 DEF Copied
<1>5. ASSUME NEW i \in 1..Len(data) PROVE Copied(cells, at, data)[at + i] = data[i]
  <2>1. at + i \in 1..Len(cells) /\ at < at + i /\ at + i <= at + Len(data) /\ (at + i) - at = i
    BY <1>1, <1>5
  <2> QED BY <1>4, <2>1
<1>6. ASSUME NEW i \in 1..Len(cells), i <= at PROVE Copied(cells, at, data)[i] = cells[i]
  <2>1. ~(at < i) BY <1>1, <1>6
  <2> QED BY <1>4, <2>1, Zenon
<1>7. ASSUME NEW i \in 1..Len(cells), i > at + Len(data) PROVE Copied(cells, at, data)[i] = cells[i]
  <2>1. ~(i <= at + Len(data)) BY <1>1, <1>7
  <2> QED BY <1>4, <2>1, Zenon
<1> QED BY <1>3, <1>5, <1>6, <1>7, Zenon

\* Two sequences in a row, cell by cell.
LEMMA ConcatCells ==
    ASSUME NEW B, NEW s \in Seq(B), NEW t \in Seq(B), NEW m, NEW n, Len(s) = m, Len(t) = n
    PROVE  /\ s \o t \in Seq(B) /\ Len(s \o t) = m + n
           /\ \A i \in 1..(m + n) : (s \o t)[i] = IF i <= m THEN s[i] ELSE t[i - m]
BY ConcatProperties

\* Bytes copied behind the readable ones, into room that is there.
LEMMA WriteHereAddsBehind ==
    ASSUME NEW B, NEW b \in Buffers(B), NEW data \in Seq(B), Len(data) <= WritableBytes(b)
    PROVE  /\ WriteHere(b, data) \in Buffers(B)
           /\ Readable(WriteHere(b, data)) = Readable(b) \o data
           /\ WritableBytes(WriteHere(b, data)) = WritableBytes(b) - Len(data)
<1> DEFINE n == Len(data)
           cells == Copied(b.cells, b.writer, data)
           c == [cells |-> cells, reader |-> b.reader, writer |-> b.writer + n]
<1>0. BufferFields(B, b) BY BufferParts
<1>1. n \in Nat /\ b.writer + n <= Len(b.cells)
  BY <1>0 DEF BufferFields, WritableBytes
<1>2. WriteHere(b, data) = c
  BY DEF WriteHere
<1>3. /\ cells \in Seq(B) /\ Len(cells) = Len(b.cells)
      /\ \A i \in 1..Len(b.cells) : i <= b.writer => cells[i] = b.cells[i]
      /\ \A i \in 1..n : cells[b.writer + i] = data[i]
  BY <1>0, <1>1, CopiedCells DEF BufferFields
<1>4. c \in Buffers(B)
  BY <1>0, <1>1, <1>3 DEF BufferFields, Buffers
<1>5. /\ Readable(b) \in Seq(B) /\ Len(Readable(b)) = ReadableBytes(b) /\ ReadableBytes(b) \in Nat
      /\ \A i \in 1..ReadableBytes(b) : Readable(b)[i] = b.cells[b.reader + i]
  BY ReadableIsSeq
<1>6. /\ Readable(c) \in Seq(B) /\ Len(Readable(c)) = ReadableBytes(b) + n
      /\ \A i \in 1..(ReadableBytes(b) + n) : Readable(c)[i] = cells[b.reader + i]
  <2>1. ReadableBytes(c) = ReadableBytes(b) + n BY <1>0, <1>1 DEF BufferFields, ReadableBytes
  <2> QED BY <1>4, <2>1, ReadableIsSeq
<1>7. \A i \in 1..(ReadableBytes(b) + n) :
        cells[b.reader + i] = IF i <= ReadableBytes(b) THEN Readable(b)[i] ELSE data[i - ReadableBytes(b)]
  <2> SUFFICES ASSUME NEW i \in 1..(ReadableBytes(b) + n)
               PROVE  cells[b.reader + i] = IF i <= ReadableBytes(b) THEN Readable(b)[i]
                                            ELSE data[i - ReadableBytes(b)]
    OBVIOUS
  <2>1. CASE i <= ReadableBytes(b)
    <3>1. b.reader + i \in 1..Len(b.cells) /\ b.reader + i <= b.writer
      BY <1>0, <1>5, <2>1 DEF BufferFields, ReadableBytes
    <3>2. Readable(b)[i] = b.cells[b.reader + i]
      BY <2>1, ReadableIsSeq
    <3> QED BY <1>3, <2>1, <3>1, <3>2
  <2>2. CASE ~(i <= ReadableBytes(b))
    <3>1. /\ ReadableBytes(b) = b.writer - b.reader /\ ReadableBytes(b) \in Nat
          /\ b.writer \in Nat /\ b.reader \in Nat
      BY <1>0, <1>5 DEF BufferFields, ReadableBytes
    <3>2. i \in Nat /\ i > ReadableBytes(b) /\ i <= ReadableBytes(b) + n
      BY <1>1, <2>2, <3>1
    <3> HIDE DEF n
    <3>3. i - ReadableBytes(b) \in 1..n /\ b.reader + i = b.writer + (i - ReadableBytes(b))
      BY <1>1, <3>1, <3>2
    <3> QED BY <1>3, <2>2, <3>3
  <2> QED BY <2>1, <2>2
<1>8. /\ Readable(b) \o data \in Seq(B) /\ Len(Readable(b) \o data) = ReadableBytes(b) + n
      /\ \A i \in 1..(ReadableBytes(b) + n) :
           (Readable(b) \o data)[i] = IF i <= ReadableBytes(b) THEN Readable(b)[i]
                                      ELSE data[i - ReadableBytes(b)]
  BY <1>5, ConcatCells
<1>9. Readable(c) = Readable(b) \o data
  <2> HIDE DEF c, cells, n
  <2> QED BY <1>6, <1>7, <1>8, SeqEqual, ZenonT(60)
<1>10. WritableBytes(c) = WritableBytes(b) - n
  BY <1>0, <1>1, <1>3 DEF BufferFields, WritableBytes
<1> QED BY <1>2, <1>4, <1>9, <1>10

\* append() adds its data behind the readable bytes, be there room or not.
THEOREM AppendAddsBehind ==
    ASSUME NEW B, NUL \in B, NEW b \in Buffers(B), NEW data \in Seq(B)
    PROVE  /\ AppendBytes(b, data) \in Buffers(B)
           /\ Readable(AppendBytes(b, data)) = Readable(b) \o data
<1>1. Len(data) \in Nat OBVIOUS
<1> DEFINE c == EnsureWritableBytes(b, Len(data))
<1>2. /\ c \in Buffers(B) /\ Readable(c) = Readable(b) /\ WritableBytes(c) >= Len(data)
  BY <1>1, EnsureWritableKeeps
<1>3. WritableBytes(c) \in Int
  BY <1>2, BufferParts DEF BufferFields, WritableBytes
<1> QED BY <1>1, <1>2, <1>3, WriteHereAddsBehind DEF AppendBytes

\* shrink() keeps the readable bytes in a vector with the room that was asked for.
THEOREM ShrinkKeeps ==
    ASSUME NEW B, NUL \in B, NEW b \in Buffers(B), NEW reserve \in Nat
    PROVE  /\ Shrink(b, reserve) \in Buffers(B)
           /\ Readable(Shrink(b, reserve)) = Readable(b)
           /\ WritableBytes(Shrink(b, reserve)) >= reserve
<1> DEFINE r == Readable(b)
           fresh == NewBuffer(kInitialSize)
           c == EnsureWritableBytes(fresh, ReadableBytes(b) + reserve)
<1>1. r \in Seq(B) /\ Len(r) = ReadableBytes(b) /\ ReadableBytes(b) \in Nat
  BY ReadableIsSeq
<1>2. fresh \in Buffers(B) /\ Readable(fresh) = <<>>
  <2>1. kCheapPrepend \in Nat /\ kInitialSize \in Nat
    BY SizesAssumption
  <2>2. /\ fresh.cells \in Seq(B) /\ Len(fresh.cells) = kCheapPrepend + kInitialSize
        /\ fresh.reader = kCheapPrepend /\ fresh.writer = kCheapPrepend
    BY <2>1 DEF NewBuffer
  <2>3. fresh \in [cells : Seq(B), reader : Nat, writer : Nat]
    BY <2>1, <2>2 DEF NewBuffer
  <2>4. fresh \in Buffers(B)
    BY <2>1, <2>2, <2>3 DEF Buffers
  <2>5. ReadableBytes(fresh) = 0
    BY <2>1, <2>2 DEF ReadableBytes
  <2> HIDE DEF fresh
  <2>6. Readable(fresh) \in Seq(B) /\ Len(Readable(fresh)) = 0
    BY <2>4, <2>5, ReadableIsSeq
  <2> QED BY <2>4, <2>6
<1> HIDE DEF fresh
<1>3. ReadableBytes(b) + reserve \in Nat
  BY <1>1
<1>4. /\ c \in Buffers(B) /\ Readable(c) = <<>>
      /\ WritableBytes(c) >= ReadableBytes(b) + reserve /\ WritableBytes(c) \in Int
  <2>1. /\ c \in Buffers(B) /\ Readable(c) = <<>>
        /\ WritableBytes(c) >= ReadableBytes(b) + reserve
    BY <1>2, <1>3, EnsureWritableKeeps
  <2> QED
    BY <2>1, BufferParts DEF BufferFields, WritableBytes
<1> HIDE DEF c
<1>5. Shrink(b, reserve) = WriteHere(c, r)
  <2>1. ~(WritableBytes(c) < Len(r))
    BY <1>1, <1>4
  <2> QED
    BY <2>1 DEF Shrink, AppendBytes, EnsureWritableBytes, c, fresh
<1>6. /\ WriteHere(c, r) \in Buffers(B) /\ Readable(WriteHere(c, r)) = <<>> \o r
      /\ WritableBytes(WriteHere(c, r)) = WritableBytes(c) - Len(r)
  <2>1. Len(r) <= WritableBytes(c)
    BY <1>1, <1>4
  <2> HIDE DEF r
  <2> QED
    BY <1>1, <1>4, <2>1, WriteHereAddsBehind
<1>7. <<>> \o r = r
  BY <1>1
<1> QED
  BY <1>1, <1>4, <1>5, <1>6, <1>7

\* readFd() does, too, whichever part of the data goes through the extra buffer.
THEOREM ReadFdAddsBehind ==
    ASSUME NEW B, NUL \in B, NEW b \in Buffers(B), NEW data \in Seq(B)
    PROVE  /\ ReadFd(b, data) \in Buffers(B)
           /\ Readable(ReadFd(b, data)) = Readable(b) \o data
<1>0. BufferFields(B, b) BY BufferParts
<1> DEFINE w == WritableBytes(b)
<1>1. w \in Nat BY <1>0 DEF BufferFields, WritableBytes
<1>2. CASE Len(data) <= w
  BY <1>2, WriteHereAddsBehind DEF ReadFd
<1>3. CASE ~(Len(data) <= w)
  <2> DEFINE first == SubSeq(data, 1, w)
             second == SubSeq(data, w + 1, Len(data))
             c == WriteHere(b, first)
  <2>1. first \in Seq(B) /\ Len(first) = w /\ second \in Seq(B)
    BY <1>1, <1>3
  <2>2. first \o second = data
    <3>1. w \in 0..Len(data) /\ Len(data) \in Nat BY <1>1, <1>3
    <3> QED BY <3>1, ConcatAdjacentSubSeq, SubSeqFull, SMTT(60)
  <2>3. c \in Buffers(B) /\ Readable(c) = Readable(b) \o first
    <3>1. Len(first) <= WritableBytes(b) BY <1>1, <2>1
    <3> HIDE DEF first
    <3> QED BY <2>1, <3>1, WriteHereAddsBehind
  <2>4. ReadFd(b, data) = AppendBytes(c, second)
    BY <1>3 DEF ReadFd
  <2>5. /\ AppendBytes(c, second) \in Buffers(B)
        /\ Readable(AppendBytes(c, second)) = Readable(c) \o second
    BY <2>1, <2>3, AppendAddsBehind
  <2>6. Readable(b) \in Seq(B) BY ReadableIsSeq
  <2>7. (Readable(b) \o first) \o second = Readable(b) \o (first \o second)
    <3> HIDE DEF first, second
    <3> QED BY <2>1, <2>6, ConcatAssociative, SMTT(60)
  <2> QED BY <2>2, <2>3, <2>4, <2>5, <2>7
<1> QED BY <1>2, <1>3

\* prepend() adds its data before the readable bytes, into room that is there.
THEOREM PrependAddsBefore ==
    ASSUME NEW B, NEW b \in Buffers(B), NEW data \in Seq(B), Len(data) <= PrependableBytes(b)
    PROVE  /\ PrependBytes(b, data) \in Buffers(B)
           /\ Readable(PrependBytes(b, data)) = data \o Readable(b)
<1> DEFINE n == Len(data)
           at == b.reader - n
           cells == Copied(b.cells, at, data)
           c == [cells |-> cells, reader |-> at, writer |-> b.writer]
<1>0. BufferFields(B, b) BY BufferParts
<1>1. n \in Nat /\ at \in Nat
  BY <1>0 DEF BufferFields, PrependableBytes
<1>2. PrependBytes(b, data) = c
  BY DEF PrependBytes
<1>3. /\ cells \in Seq(B) /\ Len(cells) = Len(b.cells)
      /\ \A i \in 1..n : cells[at + i] = data[i]
      /\ \A i \in 1..Len(b.cells) : i > at + n => cells[i] = b.cells[i]
  <2>1. b.cells \in Seq(B) /\ at \in Nat /\ at + Len(data) <= Len(b.cells)
    BY <1>0, <1>1 DEF BufferFields
  <2>2. \A k \in Nat : k + Len(data) <= Len(b.cells) =>
          LET v == Copied(b.cells, k, data) IN
          /\ v \in Seq(B) /\ Len(v) = Len(b.cells)
          /\ \A i \in 1..Len(data) : v[k + i] = data[i]
          /\ \A i \in 1..Len(b.cells) : i > k + Len(data) => v[i] = b.cells[i]
    BY <2>1, CopiedCells
  <2> HIDE DEF at
  <2> QED BY <2>1, <2>2
<1>4. c \in Buffers(B)
  BY <1>0, <1>1, <1>3 DEF BufferFields, Buffers
<1>5. /\ Readable(b) \in Seq(B) /\ Len(Readable(b)) = ReadableBytes(b) /\ ReadableBytes(b) \in Nat
      /\ \A i \in 1..ReadableBytes(b) : Readable(b)[i] = b.cells[b.reader + i]
  BY ReadableIsSeq
<1>6. /\ Readable(c) \in Seq(B) /\ Len(Readable(c)) = n + ReadableBytes(b)
      /\ \A i \in 1..(n + ReadableBytes(b)) : Readable(c)[i] = cells[at + i]
  <2>1. ReadableBytes(c) = n + ReadableBytes(b) BY <1>0, <1>1 DEF BufferFields, ReadableBytes
  <2> QED BY <1>4, <2>1, ReadableIsSeq
<1>7. \A i \in 1..(n + ReadableBytes(b)) :
        cells[at + i] = IF i <= n THEN data[i] ELSE Readable(b)[i - n]
  <2> SUFFICES ASSUME NEW i \in 1..(n + ReadableBytes(b))
               PROVE  cells[at + i] = IF i <= n THEN data[i] ELSE Readable(b)[i - n]
    OBVIOUS
  <2>1. CASE i <= n
    BY <1>1, <1>3, <2>1
  <2>2. CASE ~(i <= n)
    <3>1. i \in Nat /\ n \in Nat /\ i > n /\ i <= n + ReadableBytes(b)
      BY <1>1, <1>5, <2>2
    <3>2. i - n \in 1..ReadableBytes(b) /\ at + i = b.reader + (i - n) /\ at + i > at + n
      <4>1. b.reader \in Nat /\ ReadableBytes(b) \in Nat BY <1>0, <1>5 DEF BufferFields
      <4>2. at = b.reader - n OBVIOUS
      <4> HIDE DEF n, at
      <4> QED BY <3>1, <4>1, <4>2
    <3>3. at + i \in 1..Len(b.cells)
      BY <1>0, <1>1, <3>1 DEF BufferFields, ReadableBytes
    <3>4. Readable(b)[i - n] = b.cells[at + i]
      BY <1>5, <3>2
    <3> QED BY <1>3, <2>2, <3>2, <3>3, <3>4
  <2> QED BY <2>1, <2>2
<1>8. /\ data \o Readable(b) \in Seq(B) /\ Len(data \o Readable(b)) = n + ReadableBytes(b)
      /\ \A i \in 1..(n + ReadableBytes(b)) :
           (data \o Readable(b))[i] = IF i <= n THEN data[i] ELSE Readable(b)[i - n]
  BY <1>5, ConcatCells
<1>9. Readable(c) = data \o Readable(b)
  <2> HIDE DEF c, cells, n, at
  <2> QED BY <1>6, <1>7, <1>8, SeqEqual
<1> QED BY <1>2, <1>4, <1>9

=============================================================================
