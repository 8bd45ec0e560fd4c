---------------------------- MODULE TcpServerProofs ----------------------------
(***************************************************************************)
(* Theorems of TcpServer for every number of threads, of clients and of    *)
(* descriptors, and for a destructor that comes at any time: connections,  *)
(* channels and descriptors go together, and each connection is removed    *)
(* and destroyed once.                                                     *)
(***************************************************************************)
EXTENDS TcpServer, FunctionTheorems, FiniteSetTheorems, WellFoundedInduction,
        SequenceTheorems, TLAPS

Accepted == 1..(nextConnId - 1)

\* What a loop has still to run, in its order, and all that its vectors hold.
Left(p, b, r) == SubSeq(b, r + 1, Len(b)) \o p

ToDo(l) == Left(pending[l], batch[l], ran[l])

Held(l) == {pending[l][i] : i \in 1..Len(pending[l])} \union {batch[l][i] : i \in 1..Len(batch[l])}

Coming(l, op, c) == \E i \in 1..Len(ToDo(l)) : ToDo(l)[i] = Functor(op, c)

\* connectDestroyed() has run.
Done(c) == channel[c] = "kNew" /\ (state[c] = "kDisconnected" \/ c \in unclean)

States == {"none", "kConnecting", "kConnected", "kDisconnecting", "kDisconnected"}

\* Every accepted connection used up a client, and has a loop of the pool, if there is
\* one; the others have not been touched.
CountInv ==
    /\ nextConnId - 1 + waiting <= clients
    /\ server = "new" => nextConnId = 1 /\ next = 0 /\ numThreads = 0
    /\ connections \subseteq Accepted
    /\ \A c \in Accepted : IF numThreads = 0 THEN ioLoop[c] = Base ELSE ioLoop[c] \in Pool
    /\ \A c \in Conns \ Accepted : channel[c] = "kNew"

\* The vector that runs is there while it runs.  Without a pool the base loop queues
\* only while it polls: what it leaves behind when it exits is nothing.
LoopInv ==
    /\ \A l \in Loops : phase[l] # "batch" => batch[l] = <<>> /\ ran[l] = 0
    /\ numThreads = 0 /\ phase[Base] # "poll" => pending[Base] = <<>>
    /\ dropped \subseteq Accepted
    /\ \A c \in dropped : ioLoop[c] # Base /\ phase[ioLoop[c]] = "exited"

\* Functors are of accepted connections, and queued in the right loop.
PlaceInv ==
    \A l \in Loops : \A f \in Held(l) :
        /\ f.conn \in Accepted
        /\ l = IF f.op = "removeConnectionInLoop" THEN Base ELSE ioLoop[f.conn]

\* A connection is in the map until its connectDestroyed() is on its way, ran or was
\* dropped; under a live server it leaves the map only when its channel is disabled.
LifeInv ==
    \A c \in Accepted :
        /\ c \in connections \/ Coming(ioLoop[c], "connectDestroyed", c) \/ Done(c) \/ c \in dropped
        /\ server = "started" /\ c \notin connections =>
            channel[c] # "kAdded" /\ ~Coming(ioLoop[c], "connectEstablished", c)

\* connectEstablished() comes first of all that a connection's loop does for it.
EstablishInv ==
    \A c \in Accepted : \A i \in 1..Len(ToDo(ioLoop[c])) :
        ToDo(ioLoop[c])[i] = Functor("connectEstablished", c) =>
            /\ numThreads > 0
            /\ state[c] = "kConnecting" /\ channel[c] = "kNew"
            /\ ~Coming(Base, "removeConnectionInLoop", c)
            /\ \A j \in 1..(i - 1) : ToDo(ioLoop[c])[j].conn # c

\* One removal of a connection is on its way, and only when its channel is disabled.
RemovalInv ==
    \A c \in Accepted : \A i \in 1..Len(ToDo(Base)) :
        ToDo(Base)[i] = Functor("removeConnectionInLoop", c) =>
            /\ numThreads > 0
            /\ channel[c] # "kAdded"
            /\ server = "started" => c \in connections
            /\ \A j \in 1..Len(ToDo(Base)) : ToDo(Base)[j] = ToDo(Base)[i] => j = i

\* Descriptors are not shared.
FdsInv == \A c, d \in Conns : Referenced(c) /\ Referenced(d) /\ c # d => fd[c] # fd[d]

\* state_ and the channel of a connection go together.
StateInv ==
    \A c \in Accepted :
        \/ /\ state[c] = "kConnecting" /\ channel[c] = "kNew"
           /\ Coming(ioLoop[c], "connectEstablished", c) \/ c \in dropped
        \/ state[c] \in {"kConnected", "kDisconnecting"} /\ channel[c] = "kAdded"
        \/ state[c] = "kDisconnected" /\ channel[c] # "kAdded"
        \/ state[c] = "kDisconnecting" /\ channel[c] = "kNew" /\ c \in unclean

\* A channel that is removed enabled was shut down before the server died.
UncleanInv ==
    \A c \in unclean : /\ c \in Accepted /\ server = "dead"
                       /\ state[c] = "kDisconnecting" /\ channel[c] = "kNew"

\* A live server's connections are out of the map when connectDestroyed() is queued.
LeavingInv ==
    server = "started" =>
        \A c \in Accepted : Coming(ioLoop[c], "connectDestroyed", c) => c \notin connections

EndInv == StateInv /\ UncleanInv /\ LeavingInv

IInv ==
    /\ TypeOK /\ CountInv /\ LoopInv /\ PlaceInv /\ LifeInv /\ EstablishInv /\ RemovalInv
    /\ FdsInv /\ EndInv

-----------------------------------------------------------------------------
(* Queues and descriptors.                                                 *)

\* The queue of a loop, by positions.
LEMMA LeftIs ==
    ASSUME NEW p \in Seq(Functors), NEW b \in Seq(Functors), NEW r \in 0..Len(b)
    PROVE  /\ Left(p, b, r) \in Seq(Functors)
           /\ Len(Left(p, b, r)) = (Len(b) - r) + Len(p)
           /\ \A i \in 1..(Len(b) - r) : Left(p, b, r)[i] = b[i + r]
           /\ \A i \in 1..Len(p) : Left(p, b, r)[(Len(b) - r) + i] = p[i]
           /\ \A i \in 1..Len(Left(p, b, r)) :
                \/ i \in 1..(Len(b) - r)
                \/ i - (Len(b) - r) \in 1..Len(p)
<1> DEFINE t == SubSeq(b, r + 1, Len(b))
<1>1. t \in Seq(Functors) /\ Len(t) = Len(b) - r /\ \A i \in 1..(Len(b) - r) : t[i] = b[i + r]
  <2>1. r + 1 \in 1..(Len(b) + 1) /\ Len(b) \in 0..Len(b) /\ Len(b) \in Nat /\ r \in Nat
    OBVIOUS
  <2>2. t \in Seq(Functors)
    BY <2>1, SubSeqProperties
  <2>3. Len(t) = Len(b) - r
    BY <2>1, SubSeqProperties
  <2>4. \A i \in 1..(Len(b) - r) : t[i] = b[i + r]
    BY <2>1, SubSeqProperties
  <2> QED
    BY <2>2, <2>3, <2>4
<1> HIDE DEF t
<1>2. t \o p \in Seq(Functors) /\ Len(t \o p) = Len(t) + Len(p)
  BY <1>1, ConcatProperties
<1>3. \A i \in 1..Len(t) : (t \o p)[i] = t[i]
  BY <1>1
<1>4. \A i \in 1..Len(p) : (t \o p)[Len(t) + i] = p[i]
  BY <1>1
<1>5. Left(p, b, r) = t \o p
  BY DEF Left, t
<1>6. \A i \in 1..Len(t \o p) : i \in 1..(Len(b) - r) \/ i - (Len(b) - r) \in 1..Len(p)
  BY <1>1, <1>2
<1> QED
  BY <1>1, <1>2, <1>3, <1>4, <1>5, <1>6

\* Nothing has run, everything has run, the vectors are swapped.
LEMMA LeftEnds ==
    ASSUME NEW p \in Seq(Functors)
    PROVE  /\ Left(p, <<>>, 0) = p
           /\ Left(<<>>, p, 0) = p
           /\ \A b \in Seq(Functors) : Left(p, b, Len(b)) = p
<1>1. ASSUME NEW b \in Seq(Functors) PROVE Left(p, b, Len(b)) = p
  <2>1. SubSeq(b, Len(b) + 1, Len(b)) = <<>>
    OBVIOUS
  <2> QED
    BY <2>1 DEF Left
<1>2. <<>> \in Seq(Functors) /\ Len(<<>>) = 0
  OBVIOUS
<1>3. Left(p, <<>>, 0) = p
  BY <1>1, <1>2
<1>4. Left(<<>>, p, 0) = p
  <2>1. SubSeq(p, 0 + 1, Len(p)) = p
    OBVIOUS
  <2> QED
    BY <2>1 DEF Left
<1> QED
  BY <1>1, <1>3, <1>4

\* Functors are added at the end.
LEMMA LeftGrows ==
    ASSUME NEW p \in Seq(Functors), NEW b \in Seq(Functors), NEW r \in 0..Len(b),
           NEW x \in Seq(Functors)
    PROVE  /\ Len(Left(p \o x, b, r)) = Len(Left(p, b, r)) + Len(x)
           /\ \A i \in 1..Len(Left(p, b, r)) : Left(p \o x, b, r)[i] = Left(p, b, r)[i]
           /\ \A i \in 1..Len(x) : Left(p \o x, b, r)[Len(Left(p, b, r)) + i] = x[i]
<1> DEFINE px == p \o x
           k == Len(b) - r
<1>1. /\ px \in Seq(Functors) /\ Len(px) = Len(p) + Len(x)
      /\ \A i \in 1..Len(p) : px[i] = p[i]
      /\ \A i \in 1..Len(x) : px[Len(p) + i] = x[i]
  OBVIOUS
<1>2. k \in Nat /\ Len(p) \in Nat /\ Len(x) \in Nat
  OBVIOUS
<1> HIDE DEF px
<1>3. /\ Len(Left(px, b, r)) = k + Len(px)
      /\ \A i \in 1..k : Left(px, b, r)[i] = b[i + r]
      /\ \A i \in 1..Len(px) : Left(px, b, r)[k + i] = px[i]
  BY <1>1, LeftIs
<1>4. /\ Len(Left(p, b, r)) = k + Len(p)
      /\ \A i \in 1..k : Left(p, b, r)[i] = b[i + r]
      /\ \A i \in 1..Len(p) : Left(p, b, r)[k + i] = p[i]
  BY LeftIs
<1> HIDE DEF k
<1>5. Len(Left(px, b, r)) = Len(Left(p, b, r)) + Len(x)
  BY <1>1, <1>2, <1>3, <1>4
<1>6. ASSUME NEW i \in 1..Len(Left(p, b, r)) PROVE Left(px, b, r)[i] = Left(p, b, r)[i]
  <2>1. CASE i \in 1..k
    BY <1>3, <1>4, <2>1
  <2>2. CASE i \notin 1..k
    <3>1. PICK j \in 1..Len(p) : i = k + j
      <4>1. i - k \in 1..Len(p) /\ i = k + (i - k)
        BY <1>2, <1>4, <2>2
      <4> QED
        BY <4>1
    <3>2. j \in 1..Len(px)
      BY <1>1, <1>2
    <3> QED
      BY <1>1, <1>3, <1>4, <3>1, <3>2
  <2> QED
    BY <2>1, <2>2
<1>7. ASSUME NEW i \in 1..Len(x) PROVE Left(px, b, r)[Len(Left(p, b, r)) + i] = x[i]
  <2>1. Len(p) + i \in 1..Len(px) /\ Len(Left(p, b, r)) + i = k + (Len(p) + i)
    BY <1>1, <1>2, <1>4
  <2> QED
    BY <1>1, <1>3, <2>1
<1> QED
  BY <1>5, <1>6, <1>7 DEF px

\* The first is run.
LEMMA LeftRuns ==
    ASSUME NEW p \in Seq(Functors), NEW b \in Seq(Functors), NEW r \in 0..Len(b), r < Len(b)
    PROVE  /\ Len(Left(p, b, r)) >= 1 /\ Left(p, b, r)[1] = b[r + 1]
           /\ Len(Left(p, b, r + 1)) = Len(Left(p, b, r)) - 1
           /\ \A i \in 1..Len(Left(p, b, r + 1)) : Left(p, b, r + 1)[i] = Left(p, b, r)[i + 1]
<1> DEFINE k == Len(b) - r
<1>1. /\ Len(Left(p, b, r)) = k + Len(p)
      /\ \A i \in 1..k : Left(p, b, r)[i] = b[i + r]
      /\ \A i \in 1..Len(p) : Left(p, b, r)[k + i] = p[i]
  BY LeftIs
<1>2. r + 1 \in 0..Len(b) /\ Len(b) - (r + 1) = k - 1 /\ k \in Nat /\ k >= 1 /\ Len(p) \in Nat
  OBVIOUS
<1>3. /\ Len(Left(p, b, r + 1)) = (k - 1) + Len(p)
      /\ \A i \in 1..(k - 1) : Left(p, b, r + 1)[i] = b[i + (r + 1)]
      /\ \A i \in 1..Len(p) : Left(p, b, r + 1)[(k - 1) + i] = p[i]
  <2>1. PICK r1 \in 0..Len(b) : r1 = r + 1
    BY <1>2
  <2>2. Len(b) - r1 = k - 1
    BY <1>2, <2>1
  <2>3. /\ Len(Left(p, b, r1)) = (Len(b) - r1) + Len(p)
        /\ \A i \in 1..(Len(b) - r1) : Left(p, b, r1)[i] = b[i + r1]
        /\ \A i \in 1..Len(p) : Left(p, b, r1)[(Len(b) - r1) + i] = p[i]
    BY LeftIs
  <2> HIDE DEF k
  <2> QED
    BY <2>1, <2>2, <2>3
<1> HIDE DEF k
<1>4. ASSUME NEW i \in 1..Len(Left(p, b, r + 1)) PROVE Left(p, b, r + 1)[i] = Left(p, b, r)[i + 1]
  <2>1. CASE i \in 1..(k - 1)
    <3>1. i + 1 \in 1..k /\ i + (r + 1) = (i + 1) + r
      BY <1>2, <2>1
    <3> QED
      BY <1>1, <1>3, <2>1, <3>1
  <2>2. CASE i \notin 1..(k - 1)
    <3>1. PICK j \in 1..Len(p) : i = (k - 1) + j /\ i + 1 = k + j
      <4>1. i \in Nat /\ i >= 1 /\ i <= (k - 1) + Len(p) /\ k \in Nat /\ k >= 1 /\ Len(p) \in Nat
        BY <1>2, <1>3
      <4>2. i > k - 1
        BY <2>2, <4>1
      <4>3. i - (k - 1) \in 1..Len(p)
        BY <4>1, <4>2
      <4>4. i = (k - 1) + (i - (k - 1)) /\ i + 1 = k + (i - (k - 1))
        BY <4>1
      <4> QED
        BY <4>3, <4>4
    <3> QED
      BY <1>1, <1>3, <3>1
  <2> QED
    BY <2>1, <2>2
<1> QED
  BY <1>1, <1>2, <1>3, <1>4

\* There is a lowest descriptor.
LEMMA LowestFd ==
    ASSUME NEW S \in SUBSET Nat, S # {}
    PROVE  \E f \in S : \A g \in S : f <= g
<1>1. PICK f \in S : \A g \in S : ~(<<g, f>> \in OpToRel(<, Nat))
  BY NatLessThanWellFounded, WFMin
<1>2. \A g \in S : ~(g < f)
  BY <1>1 DEF OpToRel
<1> QED
  BY <1>2

\* SetToSeq() lists all of a finite set.
LEMMA Listed ==
    ASSUME NEW S \in SUBSET Functors, IsFiniteSet(S)
    PROVE  /\ SetToSeq(S) \in Seq(Functors)
           /\ \A i \in 1..Len(SetToSeq(S)) : SetToSeq(S)[i] \in S
           /\ \A f \in S : \E i \in 1..Len(SetToSeq(S)) : SetToSeq(S)[i] = f
<1> DEFINE n == Cardinality(S)
<1>1. n \in Nat /\ ExistsBijection(1..n, S)
  BY FS_CardinalityType
<1>2. PICK g : g \in Bijection(1..n, S)
  BY <1>1 DEF ExistsBijection
<1>3. g \in [1..n -> S] /\ IsInjective(g)
  BY <1>2 DEF Bijection, Injection, IsInjective
<1>4. SetToSeq(S) \in [1..n -> S] /\ IsInjective(SetToSeq(S))
  BY <1>3 DEF SetToSeq
<1> DEFINE q == SetToSeq(S)
<1>5. IsFiniteSet(1..n) /\ Cardinality(1..n) = n
  BY <1>1, FS_Interval
<1> HIDE DEF q, n
<1>6. q \in Injection(1..n, S)
  BY <1>4 DEF Injection, IsInjective, q
<1>7. q \in Surjection(1..n, S)
  BY <1>5, <1>6, FS_Injection DEF n
<1>8. q \in Seq(S) /\ Len(q) = n
  BY <1>1, <1>4 DEF q
<1>9. \A f \in S : \E i \in 1..n : q[i] = f
  BY <1>7 DEF Surjection
<1>10. q \in Seq(Functors)
  BY <1>8
<1> QED
  BY <1>8, <1>9, <1>10, <1>4 DEF q

\* The parts of a functor.
LEMMA FunctorParts ==
    /\ \A f \in Functors :
        /\ f.op \in {"connectEstablished", "removeConnectionInLoop", "connectDestroyed"}
        /\ f.conn \in Conns
        /\ f = Functor(f.op, f.conn)
    /\ \A op, c : Functor(op, c).op = op /\ Functor(op, c).conn = c
    /\ \A op \in {"connectEstablished", "removeConnectionInLoop", "connectDestroyed"}, c \in Conns :
        Functor(op, c) \in Functors
<1>1. ASSUME NEW f \in Functors
      PROVE  /\ f.op \in {"connectEstablished", "removeConnectionInLoop", "connectDestroyed"}
             /\ f.conn \in Conns
             /\ f = Functor(f.op, f.conn)
  BY DEF Functors, Functor
<1>2. \A op, c : Functor(op, c).op = op /\ Functor(op, c).conn = c
  BY DEF Functor
<1>3. \A op \in {"connectEstablished", "removeConnectionInLoop", "connectDestroyed"}, c \in Conns :
        Functor(op, c) \in Functors
  BY DEF Functors, Functor
<1> QED
  BY <1>1, <1>2, <1>3

-----------------------------------------------------------------------------
(* A loop's queue in a step.                                               *)

LEMMA Queues ==
    ASSUME IInv, NEW l \in Loops
    PROVE  /\ pending[l] \in Seq(Functors) /\ batch[l] \in Seq(Functors)
           /\ ran[l] \in 0..Len(batch[l])
           /\ ToDo(l) \in Seq(Functors)
           /\ Held(l) \subseteq Functors
           /\ \A i \in 1..Len(ToDo(l)) : ToDo(l)[i] \in Held(l)
<1>1. pending[l] \in Seq(Functors) /\ batch[l] \in Seq(Functors)
  BY DEF IInv, TypeOK, States
<1>2. ran[l] \in 0..Len(batch[l])
  <2>1. ran[l] \in Nat /\ ran[l] <= Len(batch[l])
    BY DEF IInv, TypeOK, States
  <2> QED
    BY <1>1, <2>1
<1>0. PICK p, b \in Seq(Functors) : p = pending[l] /\ b = batch[l]
  BY <1>1, <1>2
<1>3. PICK r \in 0..Len(b) : p = pending[l] /\ b = batch[l] /\ r = ran[l]
  BY <1>0, <1>1, <1>2
<1>4. /\ ToDo(l) \in Seq(Functors)
      /\ \A i \in 1..(Len(b) - r) : ToDo(l)[i] = b[i + r]
      /\ \A i \in 1..Len(p) : ToDo(l)[(Len(b) - r) + i] = p[i]
      /\ \A i \in 1..Len(ToDo(l)) :
            \/ i \in 1..(Len(b) - r)
            \/ i - (Len(b) - r) \in 1..Len(p)
  <2>1. ToDo(l) = Left(p, b, r)
    BY <1>3 DEF ToDo
  <2>2. /\ Left(p, b, r) \in Seq(Functors)
        /\ \A i \in 1..(Len(b) - r) : Left(p, b, r)[i] = b[i + r]
        /\ \A i \in 1..Len(p) : Left(p, b, r)[(Len(b) - r) + i] = p[i]
        /\ \A i \in 1..Len(Left(p, b, r)) :
            \/ i \in 1..(Len(b) - r)
            \/ i - (Len(b) - r) \in 1..Len(p)
    BY LeftIs
  <2> QED
    BY <2>1, <2>2, Zenon
<1>5. Held(l) = {p[i] : i \in 1..Len(p)} \union {b[i] : i \in 1..Len(b)}
  BY <1>3 DEF Held
<1>6. Held(l) \subseteq Functors
  BY <1>5, ElementOfSeq
<1>7. ASSUME NEW i \in 1..Len(ToDo(l)) PROVE ToDo(l)[i] \in Held(l)
  <2>0. Len(b) \in Nat /\ Len(p) \in Nat /\ r \in Nat /\ r <= Len(b) /\ i \in Nat
    OBVIOUS
  <2>1. CASE i \in 1..(Len(b) - r)
    <3>1. i + r \in 1..Len(b)
      BY <2>0, <2>1
    <3>2. ToDo(l)[i] = b[i + r]
      BY <1>4, <2>1
    <3> QED
      BY <1>5, <3>1, <3>2
  <2>2. CASE i - (Len(b) - r) \in 1..Len(p)
    <3>1. PICK j \in 1..Len(p) : i = (Len(b) - r) + j
      <4>1. i = (Len(b) - r) + (i - (Len(b) - r))
        BY <2>0
      <4> QED
        BY <2>2, <4>1
    <3>2. ToDo(l)[i] = p[j]
      BY <1>4, <3>1
    <3> QED
      BY <1>5, <3>2
  <2> QED
    BY <1>4, <2>1, <2>2
<1>8. ToDo(l) \in Seq(Functors)
  BY <1>4
<1> QED
  BY <1>1, <1>2, <1>6, <1>7, <1>8

\* A loop that nobody touches.
LEMMA QueueStays ==
    ASSUME NEW l \in Loops, pending'[l] = pending[l], batch'[l] = batch[l], ran'[l] = ran[l]
    PROVE  ToDo(l)' = ToDo(l) /\ Held(l)' = Held(l)
<1> QED
  BY DEF ToDo, Held

\* queueInLoop()
LEMMA QueueGrows ==
    ASSUME IInv, NEW l \in Loops, NEW x \in Seq(Functors), pending'[l] = pending[l] \o x,
           batch'[l] = batch[l], ran'[l] = ran[l]
    PROVE  /\ pending'[l] \in Seq(Functors)
           /\ Len(ToDo(l)') = Len(ToDo(l)) + Len(x)
           /\ \A i \in 1..Len(ToDo(l)) : ToDo(l)'[i] = ToDo(l)[i]
           /\ \A i \in 1..Len(x) : ToDo(l)'[Len(ToDo(l)) + i] = x[i]
           /\ \A g \in Held(l)' : g \in Held(l) \/ \E i \in 1..Len(x) : g = x[i]
<1>0. PICK p, b \in Seq(Functors) : p = pending[l] /\ b = batch[l]
  BY Queues
<1>1. PICK r \in 0..Len(b) : p = pending[l] /\ b = batch[l] /\ r = ran[l]
  BY <1>0, Queues
<1>2. ToDo(l) = Left(p, b, r) /\ ToDo(l)' = Left(p \o x, b, r)
  BY <1>1 DEF ToDo
<1>3. /\ p \o x \in Seq(Functors)
      /\ \A i \in 1..Len(p \o x) : i \in 1..Len(p) \/ i - Len(p) \in 1..Len(x)
      /\ \A i \in 1..Len(p) : (p \o x)[i] = p[i]
      /\ \A i \in 1..Len(x) : (p \o x)[Len(p) + i] = x[i]
  <2>1. p \o x \in Seq(Functors) /\ Len(p \o x) = Len(p) + Len(x)
    BY ConcatProperties
  <2> QED
    BY <2>1
<1>4. ASSUME NEW g \in Held(l)' PROVE g \in Held(l) \/ \E i \in 1..Len(x) : g = x[i]
  <2>1. CASE \E i \in 1..Len(p \o x) : g = (p \o x)[i]
    <3>1. PICK i \in 1..Len(p \o x) : g = (p \o x)[i]
      BY <2>1
    <3>2. CASE i \in 1..Len(p)
      BY <1>1, <1>3, <3>1, <3>2 DEF Held
    <3>3. CASE i - Len(p) \in 1..Len(x)
      <4>1. PICK j \in 1..Len(x) : i = Len(p) + j
        <5>1. i = Len(p) + (i - Len(p))
          OBVIOUS
        <5> QED
          BY <3>3, <5>1
      <4> QED
        BY <1>3, <3>1, <4>1
    <3> QED
      BY <1>3, <3>2, <3>3
  <2>2. CASE \E i \in 1..Len(b) : g = b[i]
    BY <1>1, <2>2 DEF Held
  <2> QED
    BY <1>1, <1>4, <2>1, <2>2 DEF Held
<1>5. /\ Len(ToDo(l)') = Len(ToDo(l)) + Len(x)
      /\ \A i \in 1..Len(ToDo(l)) : ToDo(l)'[i] = ToDo(l)[i]
      /\ \A i \in 1..Len(x) : ToDo(l)'[Len(ToDo(l)) + i] = x[i]
  <2>1. /\ Len(Left(p \o x, b, r)) = Len(Left(p, b, r)) + Len(x)
        /\ \A i \in 1..Len(Left(p, b, r)) : Left(p \o x, b, r)[i] = Left(p, b, r)[i]
        /\ \A i \in 1..Len(x) : Left(p \o x, b, r)[Len(Left(p, b, r)) + i] = x[i]
    BY LeftGrows
  <2> QED
    BY <1>2, <2>1, Zenon
<1> QED
  BY <1>1, <1>3, <1>4, <1>5

\* The next functor of the vector.
LEMMA QueueRuns ==
    ASSUME IInv, NEW l \in Loops, ran[l] < Len(batch[l]), ran'[l] = ran[l] + 1,
           pending'[l] = pending[l], batch'[l] = batch[l]
    PROVE  /\ Len(ToDo(l)) >= 1 /\ ToDo(l)[1] = batch[l][ran[l] + 1]
           /\ Len(ToDo(l)') = Len(ToDo(l)) - 1
           /\ \A i \in 1..Len(ToDo(l)') : ToDo(l)'[i] = ToDo(l)[i + 1]
           /\ Held(l)' = Held(l)
<1>0. PICK p, b \in Seq(Functors) : p = pending[l] /\ b = batch[l]
  BY Queues
<1>1. PICK r \in 0..Len(b) : p = pending[l] /\ b = batch[l] /\ r = ran[l]
  BY <1>0, Queues
<1>2. ToDo(l) = Left(p, b, r) /\ ToDo(l)' = Left(p, b, r + 1)
  BY <1>1 DEF ToDo
<1>3. Held(l)' = Held(l)
  BY DEF Held
<1> QED
  BY <1>1, <1>2, <1>3, LeftRuns

\* The end of the vector, with or without what was queued meanwhile, and the swap.
LEMMA QueueTurns ==
    ASSUME IInv, NEW l \in Loops
    PROVE  /\ (ran[l] = Len(batch[l]) /\ batch'[l] = <<>> /\ ran'[l] = 0 /\ pending'[l] = pending[l])
                => ToDo(l)' = ToDo(l) /\ Held(l)' \subseteq Held(l)
           /\ (batch'[l] = <<>> /\ ran'[l] = 0 /\ pending'[l] = <<>>)
                => Len(ToDo(l)') = 0 /\ Held(l)' = {}
           /\ (batch[l] = <<>> /\ ran[l] = 0 /\ batch'[l] = pending[l] /\ pending'[l] = <<>>
                    /\ ran'[l] = ran[l])
                => ToDo(l)' = ToDo(l) /\ Held(l)' \subseteq Held(l)
<1>0. PICK p, b \in Seq(Functors) : p = pending[l] /\ b = batch[l]
  BY Queues
<1>1. PICK r \in 0..Len(b) : p = pending[l] /\ b = batch[l] /\ r = ran[l]
  BY <1>0, Queues
<1>2. <<>> \in Seq(Functors) /\ Len(<<>>) = 0
  OBVIOUS
<1>3. ASSUME ran[l] = Len(batch[l]), batch'[l] = <<>>, ran'[l] = 0, pending'[l] = pending[l]
      PROVE  ToDo(l)' = ToDo(l) /\ Held(l)' \subseteq Held(l)
  <2>1. ToDo(l) = Left(p, b, Len(b)) /\ ToDo(l)' = Left(p, <<>>, 0)
    BY <1>1, <1>3 DEF ToDo
  <2>2. Held(l)' \subseteq Held(l)
    BY <1>2, <1>3 DEF Held
  <2> QED
    BY <2>1, <2>2, LeftEnds
<1>4. ASSUME batch'[l] = <<>>, ran'[l] = 0, pending'[l] = <<>>
      PROVE  Len(ToDo(l)') = 0 /\ Held(l)' = {}
  <2>1. ToDo(l)' = Left(<<>>, <<>>, 0)
    BY <1>4 DEF ToDo
  <2>2. Held(l)' = {}
    BY <1>2, <1>4 DEF Held
  <2> QED
    BY <1>2, <2>1, <2>2, LeftEnds
<1>5. ASSUME batch[l] = <<>>, ran[l] = 0, batch'[l] = pending[l], pending'[l] = <<>>, ran'[l] = ran[l]
      PROVE  ToDo(l)' = ToDo(l) /\ Held(l)' \subseteq Held(l)
  <2>1. ToDo(l) = Left(p, <<>>, 0) /\ ToDo(l)' = Left(<<>>, p, 0)
    BY <1>1, <1>5 DEF ToDo
  <2>2. Held(l)' \subseteq Held(l)
    BY <1>2, <1>5 DEF Held
  <2> QED
    BY <2>1, <2>2, LeftEnds
<1> QED
  BY <1>3, <1>4, <1>5

-----------------------------------------------------------------------------
(* What keeps each part of the invariant.                                  *)

LEMMA AcceptedConns ==
    ASSUME IInv
    PROVE  /\ Accepted \subseteq Conns /\ Base \in Loops /\ nextConnId \in Nat /\ nextConnId >= 1
           /\ \A c \in Accepted : ioLoop[c] \in Loops
<1>1. nextConnId \in 1..(MaxClients + 1) /\ MaxClients \in Nat /\ MaxThreads \in Nat
  BY BoundsAssumption DEF IInv, TypeOK, States
<1>2. Accepted \subseteq Conns
  BY <1>1 DEF Accepted, Conns
<1>3. Base \in Loops
  BY <1>1 DEF Base, Loops
<1>4. \A c \in Accepted : ioLoop[c] \in Loops
  BY <1>2 DEF IInv, TypeOK, States
<1> QED
  BY <1>1, <1>2, <1>3, <1>4

\* The functors of an operation that a loop has to run are those it had, in their
\* order: some at the front are gone, and functors of other operations may follow.
Passes(l, op) ==
    \E s \in Nat : \A i \in 1..Len(ToDo(l)') :
        \/ i + s \in 1..Len(ToDo(l)) /\ ToDo(l)'[i] = ToDo(l)[i + s]
        \/ i + s > Len(ToDo(l)) /\ ToDo(l)'[i].op # op

LEMMA PassesBack ==
    ASSUME NEW l \in Loops, NEW op, Passes(l, op), NEW c, Coming(l, op, c)'
    PROVE  Coming(l, op, c)
<1>1. PICK i \in 1..Len(ToDo(l)') : ToDo(l)'[i] = Functor(op, c)
  BY DEF Coming
<1> QED
  BY <1>1, FunctorParts DEF Passes, Coming

\* The two invariants of the queues, without positions.
LEMMA EstablishComes ==
    ASSUME IInv, NEW c \in Accepted, Coming(ioLoop[c], "connectEstablished", c)
    PROVE  /\ numThreads > 0 /\ state[c] = "kConnecting" /\ channel[c] = "kNew"
           /\ ~Coming(Base, "removeConnectionInLoop", c)
           /\ ToDo(ioLoop[c])[1].conn = c =>
                /\ ToDo(ioLoop[c])[1] = Functor("connectEstablished", c)
                /\ \A i \in 2..Len(ToDo(ioLoop[c])) :
                        ToDo(ioLoop[c])[i] # Functor("connectEstablished", c)
<1>1. PICK i \in 1..Len(ToDo(ioLoop[c])) :
        ToDo(ioLoop[c])[i] = Functor("connectEstablished", c)
  BY DEF Coming
<1>2. /\ numThreads > 0 /\ state[c] = "kConnecting" /\ channel[c] = "kNew"
      /\ ~Coming(Base, "removeConnectionInLoop", c)
      /\ \A j \in 1..(i - 1) : ToDo(ioLoop[c])[j].conn # c
  BY <1>1 DEF IInv, EstablishInv
<1>3. i = 1 \/ 1 \in 1..(i - 1)
  OBVIOUS
<1>4. ASSUME NEW j \in 2..Len(ToDo(ioLoop[c])), ToDo(ioLoop[c])[1].conn = c,
             ToDo(ioLoop[c])[j] = Functor("connectEstablished", c)
      PROVE  FALSE
  <2>1. j \in 1..Len(ToDo(ioLoop[c])) /\ 1 \in 1..(j - 1)
    OBVIOUS
  <2> QED
    BY <1>4, <2>1 DEF IInv, EstablishInv
<1> QED
  BY <1>1, <1>2, <1>3, <1>4

LEMMA RemovalComes ==
    ASSUME IInv, NEW c \in Accepted, Coming(Base, "removeConnectionInLoop", c)
    PROVE  /\ numThreads > 0 /\ channel[c] # "kAdded"
           /\ server = "started" => c \in connections
           /\ ToDo(Base)[1] = Functor("removeConnectionInLoop", c) =>
                \A i \in 2..Len(ToDo(Base)) : ToDo(Base)[i] # Functor("removeConnectionInLoop", c)
<1>1. PICK i \in 1..Len(ToDo(Base)) : ToDo(Base)[i] = Functor("removeConnectionInLoop", c)
  BY DEF Coming
<1>2. /\ numThreads > 0 /\ channel[c] # "kAdded"
      /\ server = "started" => c \in connections
      /\ \A j \in 1..Len(ToDo(Base)) : ToDo(Base)[j] = ToDo(Base)[i] => j = i
  BY <1>1 DEF IInv, RemovalInv
<1>3. \A j \in 2..Len(ToDo(Base)) : j \in 1..Len(ToDo(Base)) /\ j # 1
  OBVIOUS
<1>4. 1 \in 1..Len(ToDo(Base))
  BY <1>1
<1> QED
  BY <1>1, <1>2, <1>3, <1>4

LEMMA EstablishKept ==
    ASSUME IInv, UNCHANGED <<nextConnId, numThreads, ioLoop>>,
           \A l \in Loops : Passes(l, "connectEstablished"),
           \A c \in Accepted : \A l \in Loops :
                l = ioLoop[c] /\ Coming(l, "connectEstablished", c)' =>
                    /\ state'[c] = state[c] /\ channel'[c] = channel[c]
                    /\ ~Coming(Base, "removeConnectionInLoop", c)'
    PROVE  EstablishInv'
<1> SUFFICES ASSUME NEW c \in Accepted, NEW l \in Loops, l = ioLoop[c], NEW i \in 1..Len(ToDo(l)'),
                    ToDo(l)'[i] = Functor("connectEstablished", c)
             PROVE  /\ numThreads > 0
                    /\ state'[c] = "kConnecting" /\ channel'[c] = "kNew"
                    /\ ~Coming(Base, "removeConnectionInLoop", c)'
                    /\ \A j \in 1..(i - 1) : ToDo(l)'[j].conn # c
  <2>1. \A c \in Accepted : ioLoop[c] \in Loops
    BY AcceptedConns
  <2>2. Accepted' = Accepted
    BY DEF Accepted
  <2> QED
    BY <2>1, <2>2 DEF EstablishInv
<1>1. Coming(l, "connectEstablished", c)'
  BY DEF Coming
<1>2. PICK s \in Nat : \A k \in 1..Len(ToDo(l)') :
        \/ k + s \in 1..Len(ToDo(l)) /\ ToDo(l)'[k] = ToDo(l)[k + s]
        \/ k + s > Len(ToDo(l)) /\ ToDo(l)'[k].op # "connectEstablished"
  BY DEF Passes
<1>3. i + s \in 1..Len(ToDo(l)) /\ ToDo(l)'[i] = ToDo(l)[i + s]
  BY <1>2, FunctorParts
<1>4. /\ numThreads > 0
      /\ state[c] = "kConnecting" /\ channel[c] = "kNew"
      /\ \A j \in 1..((i + s) - 1) : ToDo(l)[j].conn # c
  <2>1. \A k \in 1..Len(ToDo(l)) : ToDo(l)[k] = Functor("connectEstablished", c) =>
            /\ numThreads > 0
            /\ state[c] = "kConnecting" /\ channel[c] = "kNew"
            /\ \A j \in 1..(k - 1) : ToDo(l)[j].conn # c
    BY DEF IInv, EstablishInv
  <2>2. ToDo(l)[i + s] = Functor("connectEstablished", c)
    BY <1>3
  <2> QED
    BY <1>3, <2>1, <2>2
<1>5. ASSUME NEW j \in 1..(i - 1) PROVE ToDo(l)'[j].conn # c
  <2>1. Len(ToDo(l)) \in Nat
    BY Queues
  <2>2. j \in 1..Len(ToDo(l)') /\ j + s \in 1..((i + s) - 1) /\ j + s <= Len(ToDo(l))
    BY <1>3, <2>1
  <2>3. ToDo(l)'[j] = ToDo(l)[j + s]
    BY <1>2, <2>1, <2>2
  <2> QED
    BY <1>4, <2>2, <2>3
<1> QED
  BY <1>1, <1>4, <1>5

LEMMA LifeKept ==
    ASSUME IInv, UNCHANGED <<nextConnId, ioLoop>>,
           \A c \in Accepted : \A l \in Loops : l = ioLoop[c] =>
                /\ \/ c \in connections' \/ Coming(l, "connectDestroyed", c)'
                   \/ Done(c)' \/ c \in dropped'
                /\ server' = "started" /\ c \notin connections' =>
                        channel'[c] # "kAdded" /\ ~Coming(l, "connectEstablished", c)'
    PROVE  LifeInv'
<1>1. \A c \in Accepted : ioLoop[c] \in Loops
  BY AcceptedConns
<1>2. Accepted' = Accepted
  BY DEF Accepted
<1> QED
  BY <1>1, <1>2 DEF LifeInv

LEMMA RemovalKept ==
    ASSUME IInv, UNCHANGED <<nextConnId, numThreads>>, Passes(Base, "removeConnectionInLoop"),
           \A c \in Accepted : Coming(Base, "removeConnectionInLoop", c)' =>
                    channel'[c] # "kAdded" /\ (server' = "started" => c \in connections')
    PROVE  RemovalInv'
<1> SUFFICES ASSUME NEW c \in Accepted, NEW i \in 1..Len(ToDo(Base)'),
                    ToDo(Base)'[i] = Functor("removeConnectionInLoop", c)
             PROVE  /\ numThreads > 0
                    /\ channel'[c] # "kAdded"
                    /\ server' = "started" => c \in connections'
                    /\ \A j \in 1..Len(ToDo(Base)') : ToDo(Base)'[j] = ToDo(Base)'[i] => j = i
  <2>1. Accepted' = Accepted
    BY DEF Accepted
  <2> QED
    BY <2>1 DEF RemovalInv
<1>1. Coming(Base, "removeConnectionInLoop", c)'
  BY DEF Coming
<1>2. PICK s \in Nat : \A k \in 1..Len(ToDo(Base)') :
        \/ k + s \in 1..Len(ToDo(Base)) /\ ToDo(Base)'[k] = ToDo(Base)[k + s]
        \/ k + s > Len(ToDo(Base)) /\ ToDo(Base)'[k].op # "removeConnectionInLoop"
  BY DEF Passes
<1>3. i + s \in 1..Len(ToDo(Base)) /\ ToDo(Base)'[i] = ToDo(Base)[i + s]
  BY <1>2, FunctorParts
<1>4. /\ numThreads > 0
      /\ \A j \in 1..Len(ToDo(Base)) : ToDo(Base)[j] = ToDo(Base)[i + s] => j = i + s
  BY <1>3 DEF IInv, RemovalInv
<1>5. ASSUME NEW j \in 1..Len(ToDo(Base)'), ToDo(Base)'[j] = ToDo(Base)'[i] PROVE j = i
  <2>1. j + s \in 1..Len(ToDo(Base)) /\ ToDo(Base)'[j] = ToDo(Base)[j + s]
    BY <1>2, <1>5, FunctorParts
  <2>2. j + s = i + s
    BY <1>3, <1>4, <1>5, <2>1
  <2> QED
    BY <2>2
<1> QED
  BY <1>1, <1>4, <1>5

LEMMA PlacesKept ==
    ASSUME IInv, UNCHANGED <<nextConnId, ioLoop>>,
           \A l \in Loops : \A f \in Held(l)' :
                \/ f \in Held(l)
                \/ /\ f.conn \in Accepted
                   /\ l = IF f.op = "removeConnectionInLoop" THEN Base ELSE ioLoop[f.conn]
    PROVE  PlaceInv'
<1>1. Accepted' = Accepted
  BY DEF Accepted
<1> QED
  BY <1>1 DEF IInv, PlaceInv

\* Whoever is referenced is in the map or in a functor that a loop holds.
LEMMA References ==
    ASSUME IInv, NEW c
    PROVE  Referenced(c) <=> c \in connections \/ \E l \in Loops : \E f \in Held(l) : f.conn = c
<1>1. ASSUME NEW l \in Loops
      PROVE  Holds(pending[l], c) \/ Holds(batch[l], c) <=> \E f \in Held(l) : f.conn = c
  <2>1. pending[l] \in Seq(Functors) /\ batch[l] \in Seq(Functors)
    BY Queues
  <2>2. DOMAIN pending[l] = 1..Len(pending[l]) /\ DOMAIN batch[l] = 1..Len(batch[l])
    BY <2>1
  <2> QED
    BY <2>2 DEF Holds, Held
<1> QED
  BY <1>1 DEF Referenced

LEMMA FdsKept ==
    ASSUME IInv, TypeOK', fd' = fd, connections' \subseteq connections,
           \A l \in Loops : \A f \in Held(l)' : f \in Held(l) \/ Referenced(f.conn)
    PROVE  FdsInv'
<1>1. ASSUME NEW c, Referenced(c)' PROVE Referenced(c)
  <2>1. CASE c \in connections'
    BY <2>1 DEF Referenced
  <2>2. CASE \E l \in Loops : (Holds(pending[l], c) \/ Holds(batch[l], c))'
    <3>1. PICK l \in Loops : (Holds(pending[l], c) \/ Holds(batch[l], c))'
      BY <2>2
    <3>2. pending'[l] \in Seq(Functors) /\ batch'[l] \in Seq(Functors)
      BY DEF TypeOK, States
    <3>3. DOMAIN pending'[l] = 1..Len(pending'[l]) /\ DOMAIN batch'[l] = 1..Len(batch'[l])
      BY <3>2
    <3>4. \E f \in Held(l)' : f.conn = c
      BY <3>1, <3>3 DEF Holds, Held
    <3> QED
      BY <3>4, References
  <2> QED
    BY <1>1, <2>1, <2>2 DEF Referenced
<1> QED
  BY <1>1 DEF IInv, FdsInv

\* What may become of a connection: nothing, or a state and a channel that go together.
LEMMA EndKept ==
    ASSUME IInv, server' \in {server, "dead"}, dropped \subseteq dropped', unclean' \subseteq Accepted',
           \A c \in Accepted' : ioLoop'[c] \in Loops,
           \A c \in Accepted' : \A l \in Loops : l = ioLoop'[c] =>
                /\ \/ /\ c \in Accepted /\ l = ioLoop[c] /\ state'[c] = state[c] /\ channel'[c] = channel[c]
                      /\ c \in unclean' <=> c \in unclean
                      /\ Coming(l, "connectEstablished", c) =>
                            Coming(l, "connectEstablished", c)' \/ c \in dropped'
                   \/ /\ c \notin unclean'
                      /\ \/ /\ state'[c] = "kConnecting" /\ channel'[c] = "kNew"
                            /\ Coming(l, "connectEstablished", c)'
                         \/ state'[c] \in {"kConnected", "kDisconnecting"} /\ channel'[c] = "kAdded"
                         \/ state'[c] = "kDisconnected" /\ channel'[c] # "kAdded"
                   \/ /\ c \in unclean' /\ server' = "dead"
                      /\ state'[c] = "kDisconnecting" /\ channel'[c] = "kNew"
                /\ server' = "started" /\ Coming(l, "connectDestroyed", c)' => c \notin connections'
    PROVE  EndInv'
<1>1. StateInv'
  <2> SUFFICES ASSUME NEW c \in Accepted', NEW l \in Loops, l = ioLoop'[c]
               PROVE  \/ /\ state'[c] = "kConnecting" /\ channel'[c] = "kNew"
                         /\ Coming(l, "connectEstablished", c)' \/ c \in dropped'
                      \/ state'[c] \in {"kConnected", "kDisconnecting"} /\ channel'[c] = "kAdded"
                      \/ state'[c] = "kDisconnected" /\ channel'[c] # "kAdded"
                      \/ state'[c] = "kDisconnecting" /\ channel'[c] = "kNew" /\ c \in unclean'
    BY DEF StateInv
  <2>1. CASE /\ c \in Accepted /\ l = ioLoop[c] /\ state'[c] = state[c] /\ channel'[c] = channel[c]
             /\ c \in unclean' <=> c \in unclean
             /\ Coming(l, "connectEstablished", c) => Coming(l, "connectEstablished", c)' \/ c \in dropped'
    BY <2>1 DEF IInv, EndInv, StateInv
  <2> QED
    BY <2>1
<1>2. UncleanInv'
  <2> SUFFICES ASSUME NEW c \in unclean', NEW l \in Loops, l = ioLoop'[c]
               PROVE  server' = "dead" /\ state'[c] = "kDisconnecting" /\ channel'[c] = "kNew"
    BY DEF UncleanInv
  <2> QED
    BY DEF IInv, EndInv, UncleanInv
<1>3. LeavingInv'
  BY DEF LeavingInv
<1> QED
  BY <1>1, <1>2, <1>3 DEF EndInv

\* What a step does to the queue of a loop: nothing.
LEMMA StayEffect ==
    ASSUME IInv, NEW l \in Loops, ToDo(l)' = ToDo(l)
    PROVE  \A op : /\ Passes(l, op)
                   /\ \A c : Coming(l, op, c)' <=> Coming(l, op, c)
<1>1. Len(ToDo(l)) \in Nat
  BY Queues
<1>2. \A op : Passes(l, op)
  <2>1. 0 \in Nat /\ \A i \in 1..Len(ToDo(l)) : i + 0 \in 1..Len(ToDo(l)) /\ i + 0 = i
    BY <1>1
  <2> QED
    BY <2>1 DEF Passes
<1> QED
  BY <1>2 DEF Coming

\* A step that neither runs nor queues anything; the one that touches a connection is
\* shutdown().
LEMMA Quiet ==
    ASSUME IInv, TypeOK', CountInv', LoopInv',
           UNCHANGED <<server, numThreads, nextConnId, connections, channel, ioLoop, fd, dropped, unclean>>,
           \A c \in Accepted : \/ state'[c] = state[c]
                             \/ (state[c] = "kConnected" /\ state'[c] = "kDisconnecting"),
           \A l \in Loops : ToDo(l)' = ToDo(l) /\ Held(l)' \subseteq Held(l)
    PROVE  IInv'
<1>1. \A c \in Accepted : ioLoop[c] \in Loops
  BY AcceptedConns
<1>2. Accepted' = Accepted /\ Base \in Loops
  BY AcceptedConns DEF Accepted
<1>3. \A l \in Loops : \A op, c : Coming(l, op, c)' <=> Coming(l, op, c)
  BY DEF Coming
<1>4. LifeInv'
  <2>1. \A c \in Accepted : Done(c)' <=> Done(c)
    BY DEF Done, IInv, EndInv, StateInv, UncleanInv
  <2>2. ASSUME NEW c \in Accepted, NEW l \in Loops, l = ioLoop[c]
        PROVE  /\ \/ c \in connections \/ Coming(l, "connectDestroyed", c)
                  \/ Done(c) \/ c \in dropped
               /\ server = "started" /\ c \notin connections =>
                        channel[c] # "kAdded" /\ ~Coming(l, "connectEstablished", c)
    BY <2>2 DEF IInv, LifeInv
  <2> QED
    BY <1>3, <2>1, <2>2, LifeKept
<1>5. EstablishInv'
  <2>1. ASSUME NEW c \in Accepted, NEW l \in Loops, l = ioLoop[c], Coming(l, "connectEstablished", c)'
        PROVE  state'[c] = state[c] /\ ~Coming(Base, "removeConnectionInLoop", c)'
    <3>1. Coming(l, "connectEstablished", c)
      BY <1>3, <2>1
    <3>2. state[c] = "kConnecting" /\ ~Coming(Base, "removeConnectionInLoop", c)
      BY <2>1, <3>1, EstablishComes
    <3> QED
      BY <1>2, <1>3, <3>2
  <2> QED
    BY <2>1, StayEffect, EstablishKept
<1>6. RemovalInv'
  BY <1>2 DEF IInv, RemovalInv
<1>7. PlaceInv'
  BY PlacesKept
<1>8. FdsInv'
  BY FdsKept
<1>9. EndInv'
  <2>1. unclean' \subseteq Accepted' /\ \A c \in Accepted' : ioLoop'[c] \in Loops
    BY <1>1, <1>2 DEF IInv, EndInv, UncleanInv
  <2>2. \A c \in Accepted : \A l \in Loops : l = ioLoop[c] =>
            /\ Coming(l, "connectEstablished", c) => Coming(l, "connectEstablished", c)'
            /\ server = "started" /\ Coming(l, "connectDestroyed", c)' => c \notin connections
    BY <1>3 DEF IInv, EndInv, LeavingInv
  <2>3. \A c \in Accepted : state[c] = "kConnected" => channel[c] = "kAdded" /\ c \notin unclean
    BY DEF IInv, EndInv, StateInv, UncleanInv
  <2> QED
    BY <1>2, <2>1, <2>2, <2>3, EndKept
<1> QED
  BY <1>4, <1>5, <1>6, <1>7, <1>8, <1>9 DEF IInv

\* What else a step does to the queue of a loop: it queues a functor, ...
LEMMA PushEffect ==
    ASSUME IInv, NEW l \in Loops, NEW f \in Functors, pending' = [pending EXCEPT ![l] = Append(@, f)],
           batch'[l] = batch[l], ran'[l] = ran[l]
    PROVE  /\ pending' \in [Loops -> Seq(Functors)]
           /\ \A k \in Loops \ {l} : pending'[k] = pending[k]
           /\ Len(ToDo(l)') = Len(ToDo(l)) + 1 /\ Len(ToDo(l)) \in Nat
           /\ \A i \in 1..Len(ToDo(l)) : ToDo(l)'[i] = ToDo(l)[i]
           /\ ToDo(l)'[Len(ToDo(l)) + 1] = f
           /\ \A op : op # f.op => Passes(l, op)
           /\ \A op, c : Coming(l, op, c)' <=> Coming(l, op, c) \/ f = Functor(op, c)
           /\ \A g \in Held(l)' : g \in Held(l) \/ g = f
<1>1. /\ pending[l] \in Seq(Functors) /\ Len(ToDo(l)) \in Nat
  BY Queues
<1>2. pending'[l] = Append(pending[l], f) /\ \A k \in Loops \ {l} : pending'[k] = pending[k]
  BY DEF IInv, TypeOK, States
<1>3. PICK x \in Seq(Functors) : x = <<f>> /\ Len(x) = 1 /\ x[1] = f
  <2>1. <<f>> \in Seq(Functors) /\ Len(<<f>>) = 1 /\ <<f>>[1] = f
    OBVIOUS
  <2> QED
    BY <2>1
<1>4. pending'[l] = pending[l] \o x
  BY <1>1, <1>2, <1>3, AppendIsConcat
<1>5. /\ pending'[l] \in Seq(Functors)
      /\ Len(ToDo(l)') = Len(ToDo(l)) + 1
      /\ \A i \in 1..Len(ToDo(l)) : ToDo(l)'[i] = ToDo(l)[i]
      /\ ToDo(l)'[Len(ToDo(l)) + 1] = f
      /\ \A g \in Held(l)' : g \in Held(l) \/ g = f
  <2>1. /\ pending'[l] \in Seq(Functors)
        /\ Len(ToDo(l)') = Len(ToDo(l)) + Len(x)
        /\ \A i \in 1..Len(ToDo(l)) : ToDo(l)'[i] = ToDo(l)[i]
        /\ \A i \in 1..Len(x) : ToDo(l)'[Len(ToDo(l)) + i] = x[i]
        /\ \A g \in Held(l)' : g \in Held(l) \/ \E i \in 1..Len(x) : g = x[i]
    BY <1>4, QueueGrows
  <2>2. 1 \in 1..Len(x) /\ \A i \in 1..Len(x) : x[i] = f
    BY <1>3
  <2>3. \A g \in Held(l)' : g \in Held(l) \/ g = f
    BY <2>1, <2>2
  <2>4. ToDo(l)'[Len(ToDo(l)) + 1] = f
    BY <1>3, <2>1, <2>2
  <2> QED
    BY <1>3, <2>1, <2>3, <2>4
<1>6. pending' \in [Loops -> Seq(Functors)]
  BY <1>2, <1>5 DEF IInv, TypeOK, States
<1>7. \A i \in 1..Len(ToDo(l)') : i \in 1..Len(ToDo(l)) \/ i = Len(ToDo(l)) + 1
  BY <1>1, <1>5
<1>8. ASSUME NEW op, op # f.op PROVE Passes(l, op)
  <2>1. \A i \in 1..Len(ToDo(l)') :
            \/ i + 0 \in 1..Len(ToDo(l)) /\ ToDo(l)'[i] = ToDo(l)[i + 0]
            \/ i + 0 > Len(ToDo(l)) /\ ToDo(l)'[i].op # op
    BY <1>1, <1>5, <1>7, <1>8
  <2> QED
    BY <2>1 DEF Passes
<1>9. ASSUME NEW op, NEW c PROVE Coming(l, op, c)' <=> Coming(l, op, c) \/ f = Functor(op, c)
  <2>1. Len(ToDo(l)) + 1 \in 1..Len(ToDo(l)') /\ \A i \in 1..Len(ToDo(l)) : i \in 1..Len(ToDo(l)')
    BY <1>1, <1>5
  <2> QED
    BY <1>5, <1>7, <2>1 DEF Coming
<1> QED
  BY <1>1, <1>2, <1>5, <1>6, <1>8, <1>9

\* ... runs one, ...
LEMMA RunEffect ==
    ASSUME IInv, NEW l \in Loops, ran[l] < Len(batch[l]), ran'[l] = ran[l] + 1,
           pending'[l] = pending[l], batch'[l] = batch[l],
           NEW f, f = batch[l][ran[l] + 1]
    PROVE  /\ \A op : Passes(l, op)
           /\ \A op, c : Coming(l, op, c)' => Coming(l, op, c)
           /\ \A op, c : Coming(l, op, c) => Coming(l, op, c)' \/ f = Functor(op, c)
           /\ Len(ToDo(l)) >= 1 /\ ToDo(l)[1] = f /\ f \in Held(l) /\ f \in Functors
           /\ \A op, c : Coming(l, op, c)' =>
                \E i \in 2..Len(ToDo(l)) : ToDo(l)[i] = Functor(op, c)
           /\ Held(l)' = Held(l)
<1>1. /\ Len(ToDo(l)) >= 1 /\ ToDo(l)[1] = f
      /\ Len(ToDo(l)') = Len(ToDo(l)) - 1 /\ Len(ToDo(l)) \in Nat
      /\ \A i \in 1..Len(ToDo(l)') : ToDo(l)'[i] = ToDo(l)[i + 1]
      /\ Held(l)' = Held(l)
  <2>1. Len(ToDo(l)) \in Nat
    <3>1. ToDo(l) \in Seq(Functors)
      BY Queues
    <3> QED
      BY <3>1
  <2>2. /\ Len(ToDo(l)) >= 1 /\ ToDo(l)[1] = batch[l][ran[l] + 1]
        /\ Len(ToDo(l)') = Len(ToDo(l)) - 1
        /\ \A i \in 1..Len(ToDo(l)') : ToDo(l)'[i] = ToDo(l)[i + 1]
        /\ Held(l)' = Held(l)
    BY QueueRuns
  <2> QED
    BY <2>1, <2>2
<1>2. f \in Held(l) /\ f \in Functors
  <2>1. 1 \in 1..Len(ToDo(l))
    BY <1>1
  <2> QED
    BY <1>1, <2>1, Queues
<1>3. \A i \in 1..Len(ToDo(l)') : i + 1 \in 2..Len(ToDo(l)) /\ i + 1 \in 1..Len(ToDo(l))
  BY <1>1
<1>4. \A op : Passes(l, op)
  BY <1>1, <1>3 DEF Passes
<1>5. ASSUME NEW op, NEW c, Coming(l, op, c)'
      PROVE  Coming(l, op, c) /\ \E i \in 2..Len(ToDo(l)) : ToDo(l)[i] = Functor(op, c)
  BY <1>1, <1>3, <1>5 DEF Coming
<1>6. ASSUME NEW op, NEW c, Coming(l, op, c) PROVE Coming(l, op, c)' \/ f = Functor(op, c)
  <2>1. PICK i \in 1..Len(ToDo(l)) : ToDo(l)[i] = Functor(op, c)
    BY <1>6 DEF Coming
  <2>2. CASE i = 1
    BY <1>1, <2>1, <2>2
  <2>3. CASE i # 1
    <3>1. i - 1 \in 1..Len(ToDo(l)') /\ (i - 1) + 1 = i
      BY <1>1, <2>3
    <3> QED
      BY <1>1, <2>1, <3>1 DEF Coming
  <2> QED
    BY <2>2, <2>3
<1> QED
  BY <1>1, <1>2, <1>4, <1>5, <1>6

\* ... or drops what it had.
LEMMA DropEffect ==
    ASSUME IInv, NEW l \in Loops, ran[l] = Len(batch[l]),
           batch'[l] = <<>>, ran'[l] = 0, pending'[l] = <<>>
    PROVE  /\ \A op : Passes(l, op)
           /\ \A op, c : ~Coming(l, op, c)'
           /\ \A op, c : Coming(l, op, c) => Holds(pending[l], c)
           /\ Held(l)' = {}
<1>1. Len(ToDo(l)') = 0 /\ Held(l)' = {}
  BY QueueTurns
<1>2. \A op : Passes(l, op)
  BY <1>1 DEF Passes
<1>3. \A op, c : ~Coming(l, op, c)'
  BY <1>1 DEF Coming
<1>4. ToDo(l) = pending[l]
  <2>1. pending[l] \in Seq(Functors) /\ batch[l] \in Seq(Functors)
    BY Queues
  <2>2. Left(pending[l], batch[l], Len(batch[l])) = pending[l]
    BY <2>1, LeftEnds
  <2> QED
    BY <2>2 DEF ToDo
<1>5. ASSUME NEW op, NEW c, Coming(l, op, c) PROVE Holds(pending[l], c)
  <2>1. pending[l] \in Seq(Functors)
    BY Queues
  <2>2. DOMAIN pending[l] = 1..Len(pending[l])
    BY <2>1
  <2> QED
    BY <1>4, <1>5, <2>2, FunctorParts DEF Coming, Holds
<1> QED
  BY <1>1, <1>2, <1>3, <1>5

-----------------------------------------------------------------------------
(* The steps.                                                              *)

LEMMA StartKeeps ==
    ASSUME IInv, Start
    PROVE  IInv'
<1>1. /\ server = "new" /\ server' = "started" /\ numThreads' \in 0..MaxThreads
      /\ UNCHANGED <<next, nextConnId, connections, waiting, clients, idleFd, state, channel, ioLoop, fd,
                     peerGone, phase, quit, pending, batch, ran, joining, dropped, unclean>>
  BY DEF Start, acceptVars, connVars, loopVars, histVars
<1>2. nextConnId = 1 /\ next = 0 /\ numThreads = 0
  BY <1>1 DEF IInv, CountInv
<1>3. Accepted = {} /\ Accepted' = {}
  BY <1>1, <1>2 DEF Accepted
<1>4. TypeOK'
  BY <1>1, <1>2, BoundsAssumption DEF IInv, TypeOK, States
<1>5. CountInv'
  BY <1>1, <1>2, <1>3 DEF IInv, CountInv
<1>6. \A l \in Loops : ToDo(l)' = ToDo(l) /\ Held(l)' = Held(l)
  BY <1>1, QueueStays
<1>7. \A l \in Loops : Held(l) = {}
  BY <1>3 DEF IInv, PlaceInv
<1>8. PlaceInv'
  BY <1>6, <1>7 DEF PlaceInv
<1>9. LoopInv'
  <2>1. pending[Base] = <<>>
    <3>1. Base \in Loops /\ pending[Base] \in Seq(Functors)
      BY AcceptedConns, Queues
    <3>2. Len(pending[Base]) = 0
      <4>1. \A i \in 1..Len(pending[Base]) : pending[Base][i] \in Held(Base)
        BY DEF Held
      <4>2. ~(1 \in 1..Len(pending[Base]))
        BY <1>7, <3>1, <4>1
      <4>3. Len(pending[Base]) \in Nat
        BY <3>1
      <4> QED
        BY <4>2, <4>3
    <3> QED
      BY <3>1, <3>2
  <2> QED
    BY <1>1, <1>3, <2>1 DEF IInv, LoopInv
<1>10. LifeInv' /\ EstablishInv' /\ RemovalInv'
  BY <1>3 DEF LifeInv, EstablishInv, RemovalInv
<1>11. FdsInv'
  BY <1>1, <1>4, <1>6, FdsKept
<1>12. EndInv'
  <2>1. unclean' = {}
    BY <1>1, <1>3 DEF IInv, EndInv, UncleanInv
  <2> QED
    BY <1>3, <2>1 DEF EndInv, StateInv, UncleanInv, LeavingInv
<1> QED
  BY <1>4, <1>5, <1>8, <1>9, <1>10, <1>11, <1>12 DEF IInv

LEMMA QuitKeeps ==
    ASSUME IInv, NEW l \in Loops, quit' = [quit EXCEPT ![l] = TRUE], joining' \in Loops,
           UNCHANGED <<serverVars, acceptVars, connVars, phase, pending, batch, ran, histVars>>
    PROVE  IInv'
<1>1. UNCHANGED <<server, numThreads, next, nextConnId, connections, waiting, clients, idleFd, state,
                  channel, ioLoop, fd, peerGone, phase, pending, batch, ran, dropped, unclean>>
  BY DEF serverVars, acceptVars, connVars, histVars
<1>2. TypeOK'
  BY <1>1 DEF IInv, TypeOK, States
<1>3. CountInv' /\ LoopInv'
  BY <1>1 DEF IInv, CountInv, LoopInv, Accepted, Pool
<1>4. \A k \in Loops : ToDo(k)' = ToDo(k) /\ Held(k)' = Held(k)
  BY <1>1, QueueStays
<1> QED
  BY <1>1, <1>2, <1>3, <1>4, Quiet

LEMMA BeginKeeps ==
    ASSUME IInv, NEW l \in Loops, LoopBegins(l)
    PROVE  IInv'
<1>1. /\ phase[l] = "starting" /\ phase' = [phase EXCEPT ![l] = "poll"]
      /\ quit' = [quit EXCEPT ![l] = FALSE] /\ l # Base
      /\ UNCHANGED <<server, numThreads, next, nextConnId, connections, waiting, clients, idleFd, state,
                     channel, ioLoop, fd, peerGone, joining, pending, batch, ran, dropped, unclean>>
  BY DEF LoopBegins, Pool, Base, serverVars, acceptVars, connVars, histVars
<1>2. phase'[l] = "poll" /\ \A k \in Loops \ {l} : phase'[k] = phase[k]
  BY <1>1 DEF IInv, TypeOK, States
<1>3. TypeOK'
  BY <1>1 DEF IInv, TypeOK, States
<1>4. CountInv'
  BY <1>1 DEF IInv, CountInv, Accepted, Pool
<1>5. LoopInv'
  <2>1. \A c \in dropped : ioLoop[c] \in Loops /\ ioLoop[c] # l
    BY <1>1, AcceptedConns DEF IInv, LoopInv
  <2> QED
    BY <1>1, <1>2, <2>1, AcceptedConns DEF IInv, LoopInv, Accepted
<1>6. \A k \in Loops : ToDo(k)' = ToDo(k) /\ Held(k)' = Held(k)
  BY <1>1, QueueStays
<1> QED
  BY <1>1, <1>3, <1>4, <1>5, <1>6, Quiet

LEMMA ShutdownKeeps ==
    ASSUME IInv, NEW c \in Conns, Shutdown(c)
    PROVE  IInv'
<1>1. /\ state[c] = "kConnected" /\ state' = [state EXCEPT ![c] = "kDisconnecting"]
      /\ UNCHANGED <<server, numThreads, next, nextConnId, connections, waiting, clients, idleFd,
                     channel, ioLoop, fd, peerGone, phase, quit, joining, pending, batch, ran, dropped, unclean>>
  BY DEF Shutdown, serverVars, acceptVars, loopVars, histVars
<1>2. \A d \in Accepted : state'[d] = state[d] \/ (state[d] = "kConnected" /\ state'[d] = "kDisconnecting")
  BY <1>1, AcceptedConns DEF IInv, TypeOK
<1>3. TypeOK'
  BY <1>1 DEF IInv, TypeOK, States
<1>4. CountInv' /\ LoopInv'
  BY <1>1 DEF IInv, CountInv, LoopInv, Accepted, Pool
<1>5. \A k \in Loops : ToDo(k)' = ToDo(k) /\ Held(k)' = Held(k)
  BY <1>1, QueueStays
<1> QED
  BY <1>1, <1>2, <1>3, <1>4, <1>5, Quiet

LEMMA ClientKeeps ==
    ASSUME IInv, Connect \/ TurnAway \/ \E c \in Conns : PeerCloses(c)
    PROVE  IInv'
<1>1. /\ UNCHANGED <<server, numThreads, next, nextConnId, connections, idleFd, state,
                     channel, ioLoop, fd, phase, quit, pending, batch, ran, joining, dropped, unclean>>
      /\ \/ clients < MaxClients /\ clients' = clients + 1 /\ waiting' = waiting + 1
         \/ waiting > 0 /\ waiting' = waiting - 1 /\ clients' = clients
         \/ waiting' = waiting /\ clients' = clients
      /\ peerGone' = peerGone \/ \E c \in Conns : peerGone' = peerGone \union {c}
  BY DEF Connect, TurnAway, PeerCloses, Listening, serverVars, connVars, loopVars, acceptVars, histVars
<1>2. waiting \in Nat /\ clients \in Nat /\ nextConnId \in Nat /\ clients <= MaxClients /\ MaxClients \in Nat
      /\ nextConnId >= 1 /\ nextConnId - 1 + waiting <= clients /\ waiting <= MaxClients
  BY AcceptedConns, BoundsAssumption DEF IInv, TypeOK, States, CountInv
<1>3. waiting' \in 0..MaxClients /\ clients' \in 0..MaxClients /\ nextConnId - 1 + waiting' <= clients'
  BY <1>1, <1>2
<1>4. TypeOK'
  BY <1>1, <1>3 DEF IInv, TypeOK, States
<1>5. CountInv' /\ LoopInv'
  BY <1>1, <1>3 DEF IInv, CountInv, LoopInv, Accepted, Pool
<1>6. \A k \in Loops : ToDo(k)' = ToDo(k) /\ Held(k)' = Held(k)
  BY <1>1, QueueStays
<1> QED
  BY <1>1, <1>4, <1>5, <1>6, Quiet

LEMMA SwapKeeps ==
    ASSUME IInv, NEW l \in Loops, SwapFunctors(l)
    PROVE  IInv'
<1>1. /\ phase[l] = "poll" /\ phase' = [phase EXCEPT ![l] = "batch"]
      /\ batch' = [batch EXCEPT ![l] = pending[l]]
      /\ pending' = [pending EXCEPT ![l] = <<>>]
      /\ UNCHANGED <<server, numThreads, next, nextConnId, connections, waiting, clients, idleFd, state,
                     channel, ioLoop, fd, peerGone, quit, ran, joining, dropped, unclean>>
  BY DEF SwapFunctors, serverVars, acceptVars, connVars, histVars
<1>2. batch[l] = <<>> /\ ran[l] = 0
  BY <1>1 DEF IInv, LoopInv
<1>3. /\ batch'[l] = pending[l] /\ pending'[l] = <<>> /\ phase'[l] = "batch"
      /\ \A k \in Loops \ {l} : batch'[k] = batch[k] /\ pending'[k] = pending[k] /\ phase'[k] = phase[k]
  BY <1>1 DEF IInv, TypeOK, States
<1>4. TypeOK'
  <2>1. <<>> \in Seq(Functors)
    OBVIOUS
  <2>2. batch' \in [Loops -> Seq(Functors)] /\ pending' \in [Loops -> Seq(Functors)]
    BY <1>1, <2>1 DEF IInv, TypeOK, States
  <2>3. \A k \in Loops : ran[k] <= Len(batch'[k])
    <3>1. pending[l] \in Seq(Functors)
      BY Queues
    <3>2. 0 <= Len(pending[l])
      BY <3>1
    <3> QED
      BY <1>2, <1>3, <3>2 DEF IInv, TypeOK, States
  <2>4. phase' \in [Loops -> {"starting", "poll", "batch", "exited"}]
    BY <1>1 DEF IInv, TypeOK, States
  <2> QED
    BY <1>1, <2>2, <2>3, <2>4 DEF IInv, TypeOK, States
<1>5. CountInv'
  BY <1>1 DEF IInv, CountInv, Accepted, Pool
<1>6. LoopInv'
  <2>1. \A c \in dropped : ioLoop[c] \in Loops /\ ioLoop[c] # l
    BY <1>1, AcceptedConns DEF IInv, LoopInv
  <2> QED
    BY <1>1, <1>3, <2>1, AcceptedConns DEF IInv, LoopInv, Accepted
<1>7. \A k \in Loops : ToDo(k)' = ToDo(k) /\ Held(k)' \subseteq Held(k)
  BY <1>1, <1>2, <1>3, QueueStays, QueueTurns
<1> QED
  BY <1>1, <1>4, <1>5, <1>6, <1>7, Quiet

\* The end of the vector when nothing is dropped.
LEMMA EndKeeps ==
    ASSUME IInv, NEW l \in Loops, EndFunctors(l), ~quit[l] \/ l = Base
    PROVE  IInv'
<1>1. /\ phase[l] = "batch" /\ ran[l] = Len(batch[l])
      /\ phase' = [phase EXCEPT ![l] = IF quit[l] THEN "exited" ELSE "poll"]
      /\ batch' = [batch EXCEPT ![l] = <<>>]
      /\ ran' = [ran EXCEPT ![l] = 0]
      /\ UNCHANGED <<server, numThreads, next, nextConnId, connections, waiting, clients, idleFd, state,
                     channel, ioLoop, fd, peerGone, quit, pending, joining, dropped, unclean>>
  BY DEF EndFunctors, serverVars, acceptVars, connVars, histVars
<1>2. /\ batch'[l] = <<>> /\ ran'[l] = 0 /\ phase'[l] \in {"poll", "exited"}
      /\ \A k \in Loops \ {l} : batch'[k] = batch[k] /\ ran'[k] = ran[k] /\ phase'[k] = phase[k]
  BY <1>1 DEF IInv, TypeOK, States
<1>3. TypeOK'
  <2>1. <<>> \in Seq(Functors) /\ Len(<<>>) = 0
    OBVIOUS
  <2>2. batch' \in [Loops -> Seq(Functors)] /\ ran' \in [Loops -> Nat]
    BY <1>1, <2>1 DEF IInv, TypeOK, States
  <2>3. \A k \in Loops : ran'[k] <= Len(batch'[k])
    <3>1. \A k \in Loops : ran[k] <= Len(batch[k])
      BY DEF IInv, TypeOK, States
    <3>2. ran'[l] <= Len(batch'[l])
      BY <1>2, <2>1
    <3> QED
      BY <1>2, <3>1, <3>2
  <2>4. phase' \in [Loops -> {"starting", "poll", "batch", "exited"}]
    BY <1>1 DEF IInv, TypeOK, States
  <2> QED
    BY <1>1, <2>2, <2>3, <2>4 DEF IInv, TypeOK, States
<1>4. CountInv'
  BY <1>1 DEF IInv, CountInv, Accepted, Pool
<1>5. LoopInv'
  <2>1. \A c \in dropped : ioLoop[c] \in Loops /\ ioLoop[c] # l
    BY <1>1, AcceptedConns DEF IInv, LoopInv
  <2> QED
    BY <1>1, <1>2, <2>1, AcceptedConns DEF IInv, LoopInv, Accepted
<1>6. \A k \in Loops : ToDo(k)' = ToDo(k) /\ Held(k)' \subseteq Held(k)
  BY <1>1, <1>2, QueueStays, QueueTurns
<1> QED
  BY <1>1, <1>3, <1>4, <1>5, <1>6, Quiet

\* A loop of the pool that was told to quit drops what was queued while it ran.
LEMMA EndDropKeeps ==
    ASSUME IInv, NEW l \in Loops, EndFunctors(l), quit[l], l # Base
    PROVE  IInv'
<1>1. /\ phase[l] = "batch" /\ ran[l] = Len(batch[l])
      /\ phase' = [phase EXCEPT ![l] = "exited"]
      /\ batch' = [batch EXCEPT ![l] = <<>>]
      /\ ran' = [ran EXCEPT ![l] = 0]
      /\ dropped' = dropped \union {c \in Conns : Holds(pending[l], c)}
      /\ pending' = [pending EXCEPT ![l] = <<>>]
      /\ UNCHANGED <<server, numThreads, next, nextConnId, connections, waiting, clients, idleFd, state,
                     channel, ioLoop, fd, peerGone, quit, joining, unclean>>
  BY DEF EndFunctors, serverVars, acceptVars, connVars, histVars
<1>2. /\ batch'[l] = <<>> /\ ran'[l] = 0 /\ phase'[l] = "exited" /\ pending'[l] = <<>>
      /\ \A k \in Loops \ {l} : /\ batch'[k] = batch[k] /\ ran'[k] = ran[k] /\ phase'[k] = phase[k]
                                /\ pending'[k] = pending[k]
  BY <1>1 DEF IInv, TypeOK, States
<1>3. TypeOK'
  <2>1. <<>> \in Seq(Functors) /\ Len(<<>>) = 0
    OBVIOUS
  <2>2. /\ batch' \in [Loops -> Seq(Functors)] /\ ran' \in [Loops -> Nat]
        /\ pending' \in [Loops -> Seq(Functors)]
    BY <1>1, <2>1 DEF IInv, TypeOK, States
  <2>3. \A k \in Loops : ran'[k] <= Len(batch'[k])
    <3>1. \A k \in Loops : ran[k] <= Len(batch[k])
      BY DEF IInv, TypeOK, States
    <3>2. ran'[l] <= Len(batch'[l])
      BY <1>2, <2>1
    <3> QED
      BY <1>2, <3>1, <3>2
  <2>4. phase' \in [Loops -> {"starting", "poll", "batch", "exited"}]
    BY <1>1 DEF IInv, TypeOK, States
  <2> QED
    BY <1>1, <2>2, <2>3, <2>4 DEF IInv, TypeOK, States
<1>4. CountInv'
  BY <1>1 DEF IInv, CountInv, Accepted, Pool
<1>5. \A c : Holds(pending[l], c) => c \in Accepted /\ ioLoop[c] = l
  <2> SUFFICES ASSUME NEW c, Holds(pending[l], c) PROVE c \in Accepted /\ ioLoop[c] = l
    OBVIOUS
  <2>1. pending[l] \in Seq(Functors)
    BY Queues
  <2>2. PICK i \in 1..Len(pending[l]) : pending[l][i].conn = c
    BY <2>1 DEF Holds
  <2>3. pending[l][i] \in Held(l)
    BY DEF Held
  <2> QED
    BY <2>2, <2>3 DEF IInv, PlaceInv
<1>6. LoopInv'
  <2>1. \A c \in dropped : ioLoop[c] \in Loops /\ ioLoop[c] # l
    BY <1>1, AcceptedConns DEF IInv, LoopInv
  <2>2. Accepted' = Accepted /\ Base \in Loops
    BY <1>1, AcceptedConns DEF Accepted
  <2>3. dropped' \subseteq Accepted /\ \A c \in dropped' : ioLoop[c] # Base /\ phase'[ioLoop[c]] = "exited"
    BY <1>1, <1>2, <1>5, <2>1 DEF IInv, LoopInv
  <2> QED
    BY <1>1, <1>2, <2>2, <2>3 DEF IInv, LoopInv
<1>7. /\ \A k \in Loops \ {l} : ToDo(k)' = ToDo(k) /\ Held(k)' = Held(k)
      /\ Held(l)' = {}
      /\ \A k \in Loops : \A op : Passes(k, op) /\ \A c : Coming(k, op, c)' => Coming(k, op, c)
      /\ \A k \in Loops \ {l} : \A op, c : Coming(k, op, c) => Coming(k, op, c)'
      /\ \A op, c : Coming(l, op, c) => Holds(pending[l], c)
  <2>1. ASSUME NEW k \in Loops, k # l
        PROVE  /\ ToDo(k)' = ToDo(k) /\ Held(k)' = Held(k)
               /\ \A op : Passes(k, op) /\ \A c : Coming(k, op, c)' <=> Coming(k, op, c)
    <3>1. ToDo(k)' = ToDo(k) /\ Held(k)' = Held(k)
      BY <1>2, <2>1, QueueStays
    <3> QED
      BY <3>1, StayEffect
  <2>2. /\ \A op : Passes(l, op) /\ \A c : ~Coming(l, op, c)'
        /\ \A op, c : Coming(l, op, c) => Holds(pending[l], c)
        /\ Held(l)' = {}
    BY <1>1, <1>2, DropEffect
  <2>3. \A k \in Loops : \A op : Passes(k, op) /\ \A c : Coming(k, op, c)' => Coming(k, op, c)
    BY <2>1, <2>2
  <2> QED
    BY <2>1, <2>2, <2>3
<1>8. PlaceInv'
  BY <1>1, <1>7, PlacesKept
<1>9. LifeInv'
  <2>1. ASSUME NEW c \in Accepted, NEW k \in Loops, k = ioLoop[c]
        PROVE  /\ \/ c \in connections \/ Coming(k, "connectDestroyed", c)'
                  \/ Done(c) \/ c \in dropped'
               /\ server = "started" /\ c \notin connections =>
                    channel[c] # "kAdded" /\ ~Coming(k, "connectEstablished", c)'
    <3>1. /\ c \in connections \/ Coming(k, "connectDestroyed", c) \/ Done(c) \/ c \in dropped
          /\ server = "started" /\ c \notin connections =>
                channel[c] # "kAdded" /\ ~Coming(k, "connectEstablished", c)
      BY <2>1 DEF IInv, LifeInv
    <3>2. Coming(k, "connectDestroyed", c)' \/ c \in dropped' \/ ~Coming(k, "connectDestroyed", c)
      <4>1. CASE k = l
        BY <1>1, <1>7, <4>1, AcceptedConns
      <4>2. CASE k # l
        BY <1>7, <4>2
      <4> QED
        BY <4>1, <4>2
    <3>3. dropped \subseteq dropped'
      BY <1>1
    <3> QED
      BY <1>7, <3>1, <3>2, <3>3
  <2>2. \A c : Done(c)' <=> Done(c)
    BY <1>1 DEF Done
  <2> QED
    BY <1>1, <2>1, <2>2, LifeKept
<1>10. EstablishInv'
  <2>2. ASSUME NEW c \in Accepted, NEW k \in Loops, k = ioLoop[c], Coming(k, "connectEstablished", c)'
        PROVE  ~Coming(Base, "removeConnectionInLoop", c)'
    <3>1. Coming(k, "connectEstablished", c) /\ Base \in Loops
      BY <1>7, <2>2, AcceptedConns
    <3>2. ~Coming(Base, "removeConnectionInLoop", c)
      BY <2>2, <3>1, EstablishComes
    <3> QED
      BY <1>7, <3>1, <3>2
  <2> QED
    BY <1>1, <1>7, <2>2, EstablishKept
<1>11. RemovalInv'
  <2>1. \A c \in Accepted : Coming(Base, "removeConnectionInLoop", c)' =>
            channel[c] # "kAdded" /\ (server = "started" => c \in connections)
    BY <1>7, AcceptedConns, RemovalComes
  <2> QED
    BY <1>1, <1>7, <2>1, RemovalKept, AcceptedConns
<1>12. FdsInv'
  BY <1>1, <1>3, <1>7, FdsKept
<1>13. EndInv'
  <2>1. /\ Accepted' = Accepted /\ unclean \subseteq Accepted
        /\ \A c \in Accepted : ioLoop[c] \in Loops /\ c \in Conns
    BY <1>1, AcceptedConns DEF Accepted, IInv, EndInv, UncleanInv
  <2>2. \A c \in Accepted : \A k \in Loops :
            /\ Coming(k, "connectEstablished", c) => Coming(k, "connectEstablished", c)' \/ c \in dropped'
            /\ Coming(k, "connectDestroyed", c)' => Coming(k, "connectDestroyed", c)
    <3>1. \A c \in Accepted : Coming(l, "connectEstablished", c) => c \in dropped'
      BY <1>1, <1>7, <2>1
    <3> QED
      BY <1>7, <3>1
  <2>3. \A c \in Accepted : \A k \in Loops : k = ioLoop[c] =>
            (server = "started" /\ Coming(k, "connectDestroyed", c) => c \notin connections)
    BY DEF IInv, EndInv, LeavingInv
  <2> QED
    BY <1>1, <2>1, <2>2, <2>3, EndKept
<1> QED
  BY <1>3, <1>4, <1>6, <1>8, <1>9, <1>10, <1>11, <1>12, <1>13 DEF IInv

\* The functor that is next.
LEMMA NextFunctor ==
    ASSUME IInv, NEW l \in Loops, ran[l] < Len(batch[l]), NEW f, f = batch[l][ran[l] + 1]
    PROVE  f \in Held(l) /\ f \in Functors /\ f = ToDo(l)[1] /\ Len(ToDo(l)) >= 1
<1>0. PICK p, b \in Seq(Functors) : p = pending[l] /\ b = batch[l]
  BY Queues
<1>1. PICK r \in 0..Len(b) : p = pending[l] /\ b = batch[l] /\ r = ran[l]
  BY <1>0, Queues
<1>2. Len(Left(p, b, r)) >= 1 /\ Left(p, b, r)[1] = b[r + 1]
  BY <1>1, LeftRuns
<1>3. r + 1 \in 1..Len(b)
  BY <1>1
<1>4. f \in Held(l)
  BY <1>1, <1>3 DEF Held
<1>5. f \in Functors
  BY <1>4, Queues
<1> QED
  BY <1>1, <1>2, <1>4, <1>5 DEF ToDo

\* The functors of the vector, one lemma for each kind.  First what they have in common.
LEMMA RunTypes ==
    ASSUME IInv, NEW l \in Loops, ran[l] < Len(batch[l]), ran' = [ran EXCEPT ![l] = @ + 1],
           UNCHANGED <<batch, phase>>, phase[l] = "batch"
    PROVE  /\ ran' \in [Loops -> Nat] /\ \A k \in Loops : ran'[k] <= Len(batch'[k])
           /\ ran'[l] = ran[l] + 1 /\ \A k \in Loops \ {l} : ran'[k] = ran[k]
           /\ \A k \in Loops : phase'[k] # "batch" => batch'[k] = <<>> /\ ran'[k] = 0
<1>1. /\ ran \in [Loops -> Nat] /\ batch[l] \in Seq(Functors)
      /\ \A k \in Loops : ran[k] <= Len(batch[k])
  BY DEF IInv, TypeOK, States
<1>2. ran'[l] = ran[l] + 1 /\ (\A k \in Loops \ {l} : ran'[k] = ran[k]) /\ ran' \in [Loops -> Nat]
  BY <1>1
<1>3. ran'[l] <= Len(batch[l])
  BY <1>1, <1>2
<1>4. \A k \in Loops : ran'[k] <= Len(batch'[k])
  BY <1>1, <1>2, <1>3
<1>5. \A k \in Loops : phase'[k] # "batch" => batch'[k] = <<>> /\ ran'[k] = 0
  BY <1>2 DEF IInv, LoopInv
<1> QED
  BY <1>2, <1>4, <1>5

LEMMA RunEstablishedKeeps ==
    ASSUME IInv, NEW l \in Loops, RunFunctor(l),
           batch[l][ran[l] + 1].op = "connectEstablished"
    PROVE  IInv'
<1> DEFINE E == "connectEstablished"
           R == "removeConnectionInLoop"
           D == "connectDestroyed"
<1>0. PICK f : f = batch[l][ran[l] + 1]
  OBVIOUS
<1>a. PICK c : c = f.conn
  OBVIOUS
<1>1. /\ phase[l] = "batch" /\ ran[l] < Len(batch[l])
      /\ ran' = [ran EXCEPT ![l] = @ + 1]
      /\ state' = [state EXCEPT ![c] = "kConnected"]
      /\ channel' = [channel EXCEPT ![c] = "kAdded"]
      /\ UNCHANGED <<server, numThreads, next, nextConnId, connections, waiting, clients, idleFd,
                     ioLoop, fd, peerGone, phase, quit, pending, batch, joining, dropped, unclean>>
  BY <1>0, <1>a DEF RunFunctor, Connected, acceptVars
<1>2. /\ ran' \in [Loops -> Nat] /\ \A k \in Loops : ran'[k] <= Len(batch'[k])
      /\ ran'[l] = ran[l] + 1 /\ \A k \in Loops \ {l} : ran'[k] = ran[k]
      /\ \A k \in Loops : phase'[k] # "batch" => batch'[k] = <<>> /\ ran'[k] = 0
  BY <1>1, RunTypes
<1>3. /\ \A op : Passes(l, op)
      /\ \A op, d : Coming(l, op, d)' => Coming(l, op, d)
      /\ \A op, d : Coming(l, op, d) => Coming(l, op, d)' \/ f = Functor(op, d)
      /\ Len(ToDo(l)) >= 1 /\ ToDo(l)[1] = f /\ f \in Held(l) /\ f \in Functors
      /\ \A op, d : Coming(l, op, d)' =>
                \E i \in 2..Len(ToDo(l)) : ToDo(l)[i] = Functor(op, d)
      /\ Held(l)' = Held(l)
  BY <1>0, <1>1, <1>2, RunEffect
<1>4. \A k \in Loops \ {l} :
        /\ Held(k)' = Held(k)
        /\ \A op : Passes(k, op) /\ \A d : Coming(k, op, d)' <=> Coming(k, op, d)
  <2> SUFFICES ASSUME NEW k \in Loops \ {l}
               PROVE  /\ Held(k)' = Held(k)
                      /\ \A op : Passes(k, op) /\ \A d : Coming(k, op, d)' <=> Coming(k, op, d)
    OBVIOUS
  <2>1. ToDo(k)' = ToDo(k) /\ Held(k)' = Held(k)
    BY <1>1, <1>2, QueueStays
  <2> QED
    BY <2>1, StayEffect
<1>5. f = Functor(E, c) /\ c \in Accepted /\ c \in Conns /\ l = ioLoop[c] /\ Base \in Loops
  <2>1. f = Functor(E, c) /\ c \in Conns
    BY <1>0, <1>a, <1>3, FunctorParts
  <2>2. c \in Accepted /\ l = ioLoop[c]
    BY <1>a, <1>3, <2>1, FunctorParts DEF IInv, PlaceInv
  <2> QED
    BY <2>1, <2>2, AcceptedConns
<1>6. /\ state[c] = "kConnecting" /\ ~Coming(Base, R, c) /\ ~Coming(l, E, c)'
  <2>1. Coming(l, E, c)
    <3>1. 1 \in 1..Len(ToDo(l)) /\ ToDo(l)[1] = Functor(E, c)
      BY <1>3, <1>5
    <3> QED
      BY <3>1 DEF Coming
  <2>2. ToDo(l)[1].conn = c
    BY <1>3, <1>5, FunctorParts
  <2> QED
    BY <1>3, <1>5, <2>1, <2>2, EstablishComes
<1>7. /\ state' \in [Conns -> States]
      /\ channel' \in [Conns -> {"kNew", "kAdded", "kDeleted"}]
      /\ \A d \in Conns \ {c} : state'[d] = state[d] /\ channel'[d] = channel[d]
  BY <1>1 DEF IInv, TypeOK, States
<1>8. TypeOK'
  BY <1>1, <1>2, <1>7 DEF IInv, TypeOK, States
<1>9. CountInv'
  <2>1. \A d \in Conns \ Accepted : channel'[d] = "kNew"
    BY <1>5, <1>7 DEF IInv, CountInv
  <2> QED
    BY <1>1, <2>1 DEF IInv, CountInv, Accepted, Pool
<1>10. LoopInv'
  BY <1>1, <1>2 DEF IInv, LoopInv, Accepted
<1>11. PlaceInv'
  BY <1>1, <1>3, <1>4, PlacesKept
<1>12. LifeInv'
  <2>1. ASSUME NEW d \in Accepted, NEW k \in Loops, k = ioLoop[d]
        PROVE  /\ \/ d \in connections' \/ Coming(k, D, d)'
                  \/ Done(d)' \/ d \in dropped'
               /\ server' = "started" /\ d \notin connections' =>
                    channel'[d] # "kAdded" /\ ~Coming(k, E, d)'
    <3>1. /\ d \in connections \/ Coming(k, D, d) \/ Done(d) \/ d \in dropped
          /\ server = "started" /\ d \notin connections =>
                channel[d] # "kAdded" /\ ~Coming(k, E, d)
      BY <2>1 DEF IInv, LifeInv
    <3>2. Coming(k, D, d) => Coming(k, D, d)'
      <4>1. f # Functor(D, d)
        BY <1>5 DEF Functor
      <4> QED
        BY <1>3, <1>4, <4>1
    <3>3. Coming(k, E, d)' => Coming(k, E, d)
      BY <1>3, <1>4
    <3>4. d \in Conns
      BY AcceptedConns
    <3>5. CASE d = c
      <4>1. ~Done(d)
        BY <1>5, <1>6, <3>5 DEF Done, IInv, EndInv, UncleanInv
      <4>2. Coming(k, E, d)
        <5>1. 1 \in 1..Len(ToDo(l)) /\ ToDo(l)[1] = Functor(E, c)
          BY <1>3, <1>5
        <5> QED
          BY <1>5, <2>1, <3>5, <5>1 DEF Coming
      <4> QED
        BY <1>1, <3>1, <3>2, <4>1, <4>2
    <3>6. CASE d # c
      <4>1. Done(d)' <=> Done(d)
        BY <1>1, <1>7, <3>4, <3>6 DEF Done
      <4> QED
        BY <1>1, <1>7, <3>1, <3>2, <3>3, <3>4, <3>6, <4>1
    <3> QED
      BY <3>5, <3>6
  <2> QED
    BY <1>1, <2>1, LifeKept
<1>13. EstablishInv'
  <2>1. ASSUME NEW d \in Accepted, NEW k \in Loops, k = ioLoop[d], Coming(k, E, d)'
        PROVE  state'[d] = state[d] /\ channel'[d] = channel[d] /\ ~Coming(Base, R, d)'
    <3>1. Coming(k, E, d) /\ d # c /\ d \in Conns
      BY <1>3, <1>4, <1>5, <1>6, <2>1, AcceptedConns
    <3>2. ~Coming(Base, R, d)
      BY <2>1, <3>1, EstablishComes
    <3> QED
      BY <1>3, <1>4, <1>5, <1>7, <3>1, <3>2
  <2>2. \A k \in Loops : Passes(k, E)
    BY <1>3, <1>4
  <2> QED
    BY <1>1, <2>1, <2>2, EstablishKept
<1>14. RemovalInv'
  <2>1. ASSUME NEW d \in Accepted, Coming(Base, R, d)'
        PROVE  channel'[d] # "kAdded" /\ (server' = "started" => d \in connections')
    <3>1. Coming(Base, R, d) /\ d \in Conns
      BY <1>3, <1>4, <1>5, <2>1, AcceptedConns
    <3>2. d # c
      BY <1>6, <3>1
    <3> QED
      BY <1>1, <1>7, <3>1, <3>2, RemovalComes
  <2>2. Passes(Base, R)
    BY <1>3, <1>4, <1>5
  <2> QED
    BY <1>1, <2>1, <2>2, RemovalKept
<1>15. FdsInv'
  BY <1>1, <1>3, <1>4, <1>8, FdsKept
<1>16. EndInv'
  <2>1. /\ Accepted' = Accepted /\ unclean \subseteq Accepted /\ c \notin unclean
        /\ \A d \in Accepted : ioLoop[d] \in Loops /\ d \in Conns
    BY <1>1, <1>6, AcceptedConns DEF Accepted, IInv, EndInv, UncleanInv
  <2>2. state'[c] = "kConnected" /\ channel'[c] = "kAdded"
    BY <1>1, <1>5 DEF IInv, TypeOK
  <2>3. ASSUME NEW d \in Accepted, d # c, NEW k \in Loops
        PROVE  Coming(k, E, d) => Coming(k, E, d)'
    <3>1. f # Functor(E, d)
      BY <1>5, <2>3, FunctorParts
    <3> QED
      BY <1>3, <1>4, <3>1
  <2>4. \A d \in Accepted : \A k \in Loops : Coming(k, D, d)' => Coming(k, D, d)
    BY <1>3, <1>4
  <2>5. \A d \in Accepted : \A k \in Loops : k = ioLoop[d] =>
            (server = "started" /\ Coming(k, D, d) => d \notin connections)
    BY DEF IInv, EndInv, LeavingInv
  <2> QED
    BY <1>1, <1>7, <2>1, <2>2, <2>3, <2>4, <2>5, EndKept
<1> QED
  BY <1>8, <1>9, <1>10, <1>11, <1>12, <1>13, <1>14, <1>15, <1>16 DEF IInv

LEMMA RunRemovalKeeps ==
    ASSUME IInv, NEW l \in Loops, RunFunctor(l),
           batch[l][ran[l] + 1].op = "removeConnectionInLoop"
    PROVE  IInv'
<1> DEFINE E == "connectEstablished"
           R == "removeConnectionInLoop"
           D == "connectDestroyed"
<1>0. PICK f : f = batch[l][ran[l] + 1]
  OBVIOUS
<1>a. PICK c : c = f.conn
  OBVIOUS
<1>1. /\ phase[l] = "batch" /\ ran[l] < Len(batch[l])
      /\ ran' = [ran EXCEPT ![l] = @ + 1]
      /\ connections' = connections \ {c}
      /\ pending' = [pending EXCEPT ![ioLoop[c]] = Append(@, Functor(D, c))]
      /\ UNCHANGED <<server, numThreads, next, nextConnId, waiting, clients, idleFd, state, channel,
                     ioLoop, fd, peerGone, phase, quit, batch, joining, dropped, unclean>>
  BY <1>0, <1>a DEF RunFunctor, RemoveConnectionInLoop, Queue, acceptVars
<1>2. /\ ran' \in [Loops -> Nat] /\ \A k \in Loops : ran'[k] <= Len(batch'[k])
      /\ ran'[l] = ran[l] + 1 /\ \A k \in Loops \ {l} : ran'[k] = ran[k]
      /\ \A k \in Loops : phase'[k] # "batch" => batch'[k] = <<>> /\ ran'[k] = 0
  BY <1>1, RunTypes
<1>3. f \in Held(l) /\ f \in Functors /\ f = ToDo(l)[1] /\ Len(ToDo(l)) >= 1
  BY <1>0, <1>1, NextFunctor
<1>4. f = Functor(R, c) /\ c \in Accepted /\ c \in Conns /\ l = Base /\ Base \in Loops
  <2>1. f = Functor(R, c) /\ c \in Conns
    BY <1>0, <1>a, <1>3, FunctorParts
  <2>2. c \in Accepted /\ l = Base
    BY <1>a, <1>3, <2>1, FunctorParts DEF IInv, PlaceInv
  <2> QED
    BY <2>1, <2>2, AcceptedConns
<1>5. /\ Coming(Base, R, c) /\ numThreads > 0 /\ channel[c] # "kAdded"
      /\ server = "started" => c \in connections
      /\ \A i \in 2..Len(ToDo(l)) : ToDo(l)[i] # Functor(R, c)
  <2>1. Coming(Base, R, c)
    <3>1. 1 \in 1..Len(ToDo(l)) /\ ToDo(l)[1] = Functor(R, c)
      BY <1>3, <1>4
    <3> QED
      BY <1>4, <3>1 DEF Coming
  <2> QED
    BY <1>3, <1>4, <2>1, RemovalComes
<1>6. PICK m \in Loops : m = ioLoop[c] /\ m # l
  <2>1. numThreads \in Nat
    BY DEF IInv, TypeOK, States
  <2>2. ioLoop[c] \in Pool
    BY <1>4, <1>5, <2>1 DEF IInv, CountInv
  <2> QED
    BY <1>4, <2>2, AcceptedConns DEF Pool, Base
<1>7. Functor(D, c) \in Functors
  BY <1>4, FunctorParts
<1>8. /\ pending' \in [Loops -> Seq(Functors)]
      /\ \A k \in Loops \ {m} : pending'[k] = pending[k]
      /\ \A op : op # D => Passes(m, op)
      /\ \A op, d : Coming(m, op, d)' <=> Coming(m, op, d) \/ Functor(D, c) = Functor(op, d)
      /\ \A g \in Held(m)' : g \in Held(m) \/ g = Functor(D, c)
  <2>1. PICK g \in Functors : g = Functor(D, c)
    BY <1>7
  <2>2. pending' = [pending EXCEPT ![m] = Append(@, g)] /\ batch'[m] = batch[m] /\ ran'[m] = ran[m]
    BY <1>1, <1>2, <1>6, <2>1
  <2>3. g.op = D
    BY <2>1 DEF Functor
  <2>4. /\ pending' \in [Loops -> Seq(Functors)]
        /\ \A k \in Loops \ {m} : pending'[k] = pending[k]
        /\ \A op : op # g.op => Passes(m, op)
        /\ \A op, d : Coming(m, op, d)' <=> Coming(m, op, d) \/ g = Functor(op, d)
        /\ \A h \in Held(m)' : h \in Held(m) \/ h = g
    BY <2>2, PushEffect
  <2> QED
    BY <2>1, <2>3, <2>4, Zenon
<1>9. /\ \A op : Passes(l, op)
      /\ \A op, d : Coming(l, op, d)' => Coming(l, op, d)
      /\ \A op, d : Coming(l, op, d) => Coming(l, op, d)' \/ f = Functor(op, d)
      /\ \A op, d : Coming(l, op, d)' =>
                \E i \in 2..Len(ToDo(l)) : ToDo(l)[i] = Functor(op, d)
      /\ Held(l)' = Held(l)
  <2>1. pending'[l] = pending[l]
    BY <1>6, <1>8
  <2> QED
    BY <1>0, <1>1, <1>2, <2>1, RunEffect
<1>10. \A k \in Loops : k # l /\ k # m =>
        /\ Held(k)' = Held(k)
        /\ \A op : Passes(k, op) /\ \A d : Coming(k, op, d)' <=> Coming(k, op, d)
  <2> SUFFICES ASSUME NEW k \in Loops, k # l, k # m
               PROVE  /\ Held(k)' = Held(k)
                      /\ \A op : Passes(k, op) /\ \A d : Coming(k, op, d)' <=> Coming(k, op, d)
    OBVIOUS
  <2>1. ToDo(k)' = ToDo(k) /\ Held(k)' = Held(k)
    BY <1>1, <1>2, <1>8, QueueStays
  <2> QED
    BY <2>1, StayEffect
<1>11. TypeOK'
  BY <1>1, <1>2, <1>8 DEF IInv, TypeOK, States
<1>12. CountInv'
  BY <1>1 DEF IInv, CountInv, Accepted, Pool
<1>13. LoopInv'
  BY <1>1, <1>2, <1>5 DEF IInv, LoopInv, Accepted
<1>14. PlaceInv'
  <2>1. \A k \in Loops : \A g \in Held(k)' : g \in Held(k) \/ (k = m /\ g = Functor(D, c))
    BY <1>8, <1>9, <1>10
  <2> QED
    BY <1>1, <1>4, <1>6, <2>1, FunctorParts, PlacesKept
<1>15. LifeInv'
  <2>1. ASSUME NEW d \in Accepted, NEW k \in Loops, k = ioLoop[d]
        PROVE  /\ \/ d \in connections' \/ Coming(k, D, d)'
                  \/ Done(d)' \/ d \in dropped'
               /\ server' = "started" /\ d \notin connections' =>
                    channel'[d] # "kAdded" /\ ~Coming(k, E, d)'
    <3>1. /\ d \in connections \/ Coming(k, D, d) \/ Done(d) \/ d \in dropped
          /\ server = "started" /\ d \notin connections =>
                channel[d] # "kAdded" /\ ~Coming(k, E, d)
      BY <2>1 DEF IInv, LifeInv
    <3>2. Coming(k, D, d) => Coming(k, D, d)'
      <4>1. f # Functor(D, d)
        BY <1>4 DEF Functor
      <4> QED
        BY <1>8, <1>9, <1>10, <4>1
    <3>3. Coming(k, E, d)' => Coming(k, E, d)
      <4>1. Functor(D, c) # Functor(E, d)
        BY DEF Functor
      <4> QED
        BY <1>8, <1>9, <1>10, <4>1
    <3>4. Done(d)' <=> Done(d)
      BY <1>1 DEF Done
    <3>5. CASE d = c
      <4>1. Coming(k, D, d)'
        BY <1>6, <1>8, <2>1, <3>5
      <4>2. ~Coming(k, E, d)
        BY <1>5, <2>1, <3>5, EstablishComes
      <4> QED
        BY <1>1, <1>5, <3>3, <3>5, <4>1, <4>2
    <3>6. CASE d # c
      BY <1>1, <3>1, <3>2, <3>3, <3>4, <3>6
    <3> QED
      BY <3>5, <3>6
  <2> QED
    BY <1>1, <2>1, LifeKept
<1>16. EstablishInv'
  <2>1. ASSUME NEW d \in Accepted, NEW k \in Loops, k = ioLoop[d], Coming(k, E, d)'
        PROVE  ~Coming(Base, R, d)'
    <3>1. Coming(k, E, d)
      <4>1. Functor(D, c) # Functor(E, d)
        BY DEF Functor
      <4> QED
        BY <1>8, <1>9, <1>10, <2>1, <4>1
    <3>2. ~Coming(Base, R, d)
      BY <2>1, <3>1, EstablishComes
    <3> QED
      BY <1>4, <1>9, <3>2
  <2>2. \A k \in Loops : Passes(k, E)
    BY <1>8, <1>9, <1>10
  <2> QED
    BY <1>1, <2>1, <2>2, EstablishKept
<1>17. RemovalInv'
  <2>1. ASSUME NEW d \in Accepted, Coming(Base, R, d)'
        PROVE  channel'[d] # "kAdded" /\ (server' = "started" => d \in connections')
    <3>1. Coming(Base, R, d) /\ d # c
      BY <1>4, <1>5, <1>9, <2>1
    <3> QED
      BY <1>1, <3>1, RemovalComes
  <2>2. Passes(Base, R)
    BY <1>4, <1>9
  <2> QED
    BY <1>1, <2>1, <2>2, RemovalKept
<1>18. FdsInv'
  <2>1. Referenced(c)
    BY <1>a, <1>3, References
  <2>2. \A k \in Loops : \A g \in Held(k)' : g \in Held(k) \/ Referenced(g.conn)
    BY <1>8, <1>9, <1>10, <2>1, FunctorParts
  <2> QED
    BY <1>1, <1>11, <2>2, FdsKept
<1>19. EndInv'
  <2>1. /\ Accepted' = Accepted /\ unclean \subseteq Accepted
        /\ \A d \in Accepted : ioLoop[d] \in Loops
    BY <1>1, AcceptedConns DEF Accepted, IInv, EndInv, UncleanInv
  <2>2. ASSUME NEW d \in Accepted, NEW k \in Loops
        PROVE  /\ Coming(k, E, d) => Coming(k, E, d)'
               /\ Coming(k, D, d)' => Coming(k, D, d) \/ d = c
    <3>1. f # Functor(E, d) /\ (Functor(D, c) = Functor(D, d) => d = c)
      BY <1>4, FunctorParts
    <3> QED
      BY <1>8, <1>9, <1>10, <3>1
  <2>3. \A d \in Accepted : \A k \in Loops : k = ioLoop[d] =>
            (server = "started" /\ Coming(k, D, d) => d \notin connections)
    BY DEF IInv, EndInv, LeavingInv
  <2> QED
    BY <1>1, <2>1, <2>2, <2>3, EndKept
<1> QED
  BY <1>11, <1>12, <1>13, <1>14, <1>15, <1>16, <1>17, <1>18, <1>19 DEF IInv

LEMMA RunDestroyedKeeps ==
    ASSUME IInv, NEW l \in Loops, RunFunctor(l),
           batch[l][ran[l] + 1].op = "connectDestroyed"
    PROVE  IInv'
<1> DEFINE E == "connectEstablished"
           R == "removeConnectionInLoop"
           D == "connectDestroyed"
<1>0. PICK f : f = batch[l][ran[l] + 1]
  OBVIOUS
<1>a. PICK c : c = f.conn
  OBVIOUS
<1>1. /\ phase[l] = "batch" /\ ran[l] < Len(batch[l])
      /\ ran' = [ran EXCEPT ![l] = @ + 1]
      /\ state' = [state EXCEPT ![c] = StateAfter(c)]
      /\ channel' = [channel EXCEPT ![c] = "kNew"]
      /\ unclean' = IF StillEnabled(c) THEN unclean \union {c} ELSE unclean
      /\ UNCHANGED <<server, numThreads, next, nextConnId, connections, waiting, clients, idleFd,
                     ioLoop, fd, peerGone, phase, quit, pending, batch, joining, dropped>>
  BY <1>0, <1>a DEF RunFunctor, ConnectDestroyed, acceptVars
<1>2. /\ ran' \in [Loops -> Nat] /\ \A k \in Loops : ran'[k] <= Len(batch'[k])
      /\ ran'[l] = ran[l] + 1 /\ \A k \in Loops \ {l} : ran'[k] = ran[k]
      /\ \A k \in Loops : phase'[k] # "batch" => batch'[k] = <<>> /\ ran'[k] = 0
  BY <1>1, RunTypes
<1>3. /\ \A op : Passes(l, op)
      /\ \A op, d : Coming(l, op, d)' => Coming(l, op, d)
      /\ \A op, d : Coming(l, op, d) => Coming(l, op, d)' \/ f = Functor(op, d)
      /\ Len(ToDo(l)) >= 1 /\ ToDo(l)[1] = f /\ f \in Held(l) /\ f \in Functors
      /\ \A op, d : Coming(l, op, d)' =>
                \E i \in 2..Len(ToDo(l)) : ToDo(l)[i] = Functor(op, d)
      /\ Held(l)' = Held(l)
  BY <1>0, <1>1, <1>2, RunEffect
<1>4. \A k \in Loops \ {l} :
        /\ Held(k)' = Held(k)
        /\ \A op : Passes(k, op) /\ \A d : Coming(k, op, d)' <=> Coming(k, op, d)
  <2> SUFFICES ASSUME NEW k \in Loops \ {l}
               PROVE  /\ Held(k)' = Held(k)
                      /\ \A op : Passes(k, op) /\ \A d : Coming(k, op, d)' <=> Coming(k, op, d)
    OBVIOUS
  <2>1. ToDo(k)' = ToDo(k) /\ Held(k)' = Held(k)
    BY <1>1, <1>2, QueueStays
  <2> QED
    BY <2>1, StayEffect
<1>5. f = Functor(D, c) /\ c \in Accepted /\ c \in Conns /\ l = ioLoop[c] /\ Base \in Loops
  <2>1. f = Functor(D, c) /\ c \in Conns
    BY <1>0, <1>a, <1>3, FunctorParts
  <2>2. c \in Accepted /\ l = ioLoop[c]
    BY <1>a, <1>3, <2>1, FunctorParts DEF IInv, PlaceInv
  <2> QED
    BY <2>1, <2>2, AcceptedConns
<1>6. ~Coming(l, E, c)
  <2>1. ToDo(l)[1].conn = c /\ ToDo(l)[1] # Functor(E, c)
    BY <1>3, <1>5 DEF Functor
  <2> QED
    BY <1>5, <2>1, EstablishComes
<1>b. /\ channel'[c] = "kNew"
      /\ \/ state'[c] = "kDisconnected" /\ c \notin unclean'
         \/ state'[c] = "kDisconnecting" /\ c \in unclean' /\ server = "dead"
  <2>1. c \notin dropped
    BY <1>1, <1>5 DEF IInv, LoopInv
  <2>2. \/ state[c] \in {"kConnected", "kDisconnecting"} /\ channel[c] = "kAdded"
        \/ state[c] = "kDisconnected" /\ channel[c] # "kAdded"
        \/ state[c] = "kDisconnecting" /\ channel[c] = "kNew" /\ c \in unclean
    BY <1>5, <1>6, <2>1 DEF IInv, EndInv, StateInv
  <2>3. channel[c] = "kAdded" => server = "dead" /\ c \notin unclean
    <3>1. Coming(l, D, c)
      BY <1>3, <1>5 DEF Coming
    <3>2. server # "new"
      BY <1>5 DEF IInv, CountInv, Accepted
    <3>3. server = "started" => channel[c] # "kAdded"
      BY <1>5, <3>1 DEF IInv, EndInv, LeavingInv, LifeInv
    <3> QED
      BY <3>2, <3>3 DEF IInv, TypeOK, EndInv, UncleanInv
  <2>4. c \in unclean => server = "dead" /\ state[c] = "kDisconnecting"
    BY DEF IInv, EndInv, UncleanInv
  <2>5. state'[c] = StateAfter(c) /\ channel'[c] = "kNew"
    BY <1>1, <1>5 DEF IInv, TypeOK
  <2> QED
    BY <1>1, <2>2, <2>3, <2>4, <2>5 DEF StateAfter, StillEnabled
<1>7. /\ state' \in [Conns -> States]
      /\ channel' \in [Conns -> {"kNew", "kAdded", "kDeleted"}]
      /\ \A d \in Conns \ {c} : state'[d] = state[d] /\ channel'[d] = channel[d]
  <2>1. state \in [Conns -> States] /\ channel \in [Conns -> {"kNew", "kAdded", "kDeleted"}]
    BY DEF IInv, TypeOK, States
  <2>2. StateAfter(c) \in States
    BY <1>5, <2>1 DEF StateAfter, States
  <2> QED
    BY <1>1, <2>1, <2>2
<1>8. TypeOK'
  <2>1. unclean' \subseteq Conns
    BY <1>1, <1>5 DEF IInv, TypeOK
  <2> QED
    BY <1>1, <1>2, <1>7, <2>1 DEF IInv, TypeOK, States
<1>9. CountInv'
  <2>1. \A d \in Conns \ Accepted : channel'[d] = "kNew"
    BY <1>5, <1>7 DEF IInv, CountInv
  <2> QED
    BY <1>1, <2>1 DEF IInv, CountInv, Accepted, Pool
<1>10. LoopInv'
  BY <1>1, <1>2 DEF IInv, LoopInv, Accepted
<1>11. PlaceInv'
  BY <1>1, <1>3, <1>4, PlacesKept
<1>12. LifeInv'
  <2>1. ASSUME NEW d \in Accepted, NEW k \in Loops, k = ioLoop[d]
        PROVE  /\ \/ d \in connections' \/ Coming(k, D, d)'
                  \/ Done(d)' \/ d \in dropped'
               /\ server' = "started" /\ d \notin connections' =>
                    channel'[d] # "kAdded" /\ ~Coming(k, E, d)'
    <3>1. /\ d \in connections \/ Coming(k, D, d) \/ Done(d) \/ d \in dropped
          /\ server = "started" /\ d \notin connections =>
                channel[d] # "kAdded" /\ ~Coming(k, E, d)
      BY <2>1 DEF IInv, LifeInv
    <3>2. d # c => (Coming(k, D, d) => Coming(k, D, d)')
      <4>1. d # c => f # Functor(D, d)
        BY <1>5 DEF Functor
      <4> QED
        BY <1>3, <1>4, <4>1
    <3>3. Coming(k, E, d)' => Coming(k, E, d)
      BY <1>3, <1>4
    <3>4. d \in Conns
      BY AcceptedConns
    <3>5. CASE d = c
      <4>1. channel'[c] = "kNew"
        BY <1>b
      <4>2. Done(d)'
        BY <1>b, <3>5 DEF Done
      <4> QED
        BY <1>1, <1>5, <1>6, <2>1, <3>3, <3>5, <4>1, <4>2
    <3>6. CASE d # c
      <4>1. Done(d)' <=> Done(d)
        BY <1>1, <1>7, <3>4, <3>6 DEF Done
      <4> QED
        BY <1>1, <1>7, <3>1, <3>2, <3>3, <3>4, <3>6, <4>1
    <3> QED
      BY <3>5, <3>6
  <2> QED
    BY <1>1, <2>1, LifeKept
<1>13. EstablishInv'
  <2>1. ASSUME NEW d \in Accepted, NEW k \in Loops, k = ioLoop[d], Coming(k, E, d)'
        PROVE  state'[d] = state[d] /\ channel'[d] = channel[d] /\ ~Coming(Base, R, d)'
    <3>1. Coming(k, E, d) /\ d # c /\ d \in Conns
      BY <1>3, <1>4, <1>5, <1>6, <2>1, AcceptedConns
    <3>2. ~Coming(Base, R, d)
      BY <2>1, <3>1, EstablishComes
    <3> QED
      BY <1>3, <1>4, <1>5, <1>7, <3>1, <3>2
  <2>2. \A k \in Loops : Passes(k, E)
    BY <1>3, <1>4
  <2> QED
    BY <1>1, <2>1, <2>2, EstablishKept
<1>14. RemovalInv'
  <2>1. ASSUME NEW d \in Accepted, Coming(Base, R, d)'
        PROVE  channel'[d] # "kAdded" /\ (server' = "started" => d \in connections')
    <3>1. Coming(Base, R, d) /\ d \in Conns
      BY <1>3, <1>4, <1>5, <2>1, AcceptedConns
    <3>2. channel'[c] = "kNew"
      BY <1>1, <1>5 DEF IInv, TypeOK, States
    <3> QED
      BY <1>1, <1>7, <3>1, <3>2, RemovalComes
  <2>2. Passes(Base, R)
    BY <1>3, <1>4, <1>5
  <2> QED
    BY <1>1, <2>1, <2>2, RemovalKept
<1>15. FdsInv'
  BY <1>1, <1>3, <1>4, <1>8, FdsKept
<1>16. EndInv'
  <2>1. /\ Accepted' = Accepted /\ unclean' \subseteq Accepted
        /\ \A d \in Accepted : ioLoop[d] \in Loops /\ d \in Conns
        /\ \A d \in Accepted : d # c => (d \in unclean' <=> d \in unclean)
    BY <1>1, <1>5, <1>b, AcceptedConns DEF Accepted, IInv, EndInv, UncleanInv
  <2>2. \A d \in Accepted : \A k \in Loops : d # c => (Coming(k, E, d) => Coming(k, E, d)')
    <3> SUFFICES ASSUME NEW d \in Accepted, NEW k \in Loops, d # c
                 PROVE  Coming(k, E, d) => Coming(k, E, d)'
      OBVIOUS
    <3>1. f # Functor(E, d)
      BY <1>5, FunctorParts
    <3> QED
      BY <1>3, <1>4, <3>1
  <2>3. \A d \in Accepted : \A k \in Loops : Coming(k, D, d)' => Coming(k, D, d)
    BY <1>3, <1>4
  <2>4. \A d \in Accepted : \A k \in Loops : k = ioLoop[d] =>
            (server = "started" /\ Coming(k, D, d) => d \notin connections)
    BY DEF IInv, EndInv, LeavingInv
  <2> QED
    BY <1>1, <1>7, <1>b, <2>1, <2>2, <2>3, <2>4, EndKept
<1> QED
  BY <1>8, <1>9, <1>10, <1>11, <1>12, <1>13, <1>14, <1>15, <1>16 DEF IInv

-----------------------------------------------------------------------------
(* The poller reports that the peer has closed.                            *)

\* A channel that a running loop's poller knows is of a connection that is referenced.
LEMMA KnownIsReferenced ==
    ASSUME IInv, NEW c \in Conns, channel[c] # "kNew", phase[ioLoop[c]] # "exited"
    PROVE  c \in Accepted /\ Referenced(c)
<1>1. c \in Accepted
  BY DEF IInv, CountInv
<1>2. c \in connections \/ Coming(ioLoop[c], "connectDestroyed", c)
  BY <1>1 DEF IInv, LifeInv, LoopInv, Done
<1>3. CASE Coming(ioLoop[c], "connectDestroyed", c)
  <2>1. PICK l \in Loops : l = ioLoop[c]
    BY <1>1, AcceptedConns
  <2>2. PICK i \in 1..Len(ToDo(l)) : ToDo(l)[i] = Functor("connectDestroyed", c)
    BY <1>3, <2>1 DEF Coming
  <2>3. ToDo(l)[i] \in Held(l) /\ ToDo(l)[i].conn = c
    BY <2>2, Queues, FunctorParts
  <2> QED
    BY <1>1, <2>3, References
<1> QED
  BY <1>1, <1>2, <1>3 DEF Referenced

\* Without a pool: the connection is removed by a call.
LEMMA CloseHereKeeps ==
    ASSUME IInv, NEW c \in Conns, HandleClose(c), ioLoop[c] = Base
    PROVE  IInv'
<1> DEFINE E == "connectEstablished"
           R == "removeConnectionInLoop"
           D == "connectDestroyed"
<1>1. /\ channel[c] = "kAdded" /\ phase[Base] = "poll"
      /\ state' = [state EXCEPT ![c] = "kDisconnected"]
      /\ channel' = [channel EXCEPT ![c] = "kDeleted"]
      /\ connections' = connections \ {c}
      /\ pending' = [pending EXCEPT ![Base] = Append(@, Functor(D, c))]
      /\ UNCHANGED <<server, numThreads, next, nextConnId, waiting, clients, idleFd,
                     ioLoop, fd, peerGone, phase, quit, batch, ran, joining, dropped, unclean>>
  BY DEF HandleClose, RemoveConnectionInLoop, Queue, acceptVars, histVars
<1>2. c \in Accepted /\ Referenced(c) /\ Base \in Loops
  BY <1>1, KnownIsReferenced, AcceptedConns
<1>3. numThreads = 0
  BY <1>2 DEF IInv, CountInv, Pool, Base
<1>4. /\ state' \in [Conns -> States]
      /\ channel' \in [Conns -> {"kNew", "kAdded", "kDeleted"}]
      /\ \A d \in Conns \ {c} : state'[d] = state[d] /\ channel'[d] = channel[d]
      /\ channel'[c] = "kDeleted"
  BY <1>1 DEF IInv, TypeOK, States
<1>5. /\ pending' \in [Loops -> Seq(Functors)]
      /\ \A k \in Loops \ {Base} : pending'[k] = pending[k]
      /\ \A op : op # D => Passes(Base, op)
      /\ \A op, d : Coming(Base, op, d)' <=> Coming(Base, op, d) \/ Functor(D, c) = Functor(op, d)
      /\ \A g \in Held(Base)' : g \in Held(Base) \/ g = Functor(D, c)
  <2>1. PICK g \in Functors : g = Functor(D, c)
    BY FunctorParts
  <2>2. pending' = [pending EXCEPT ![Base] = Append(@, g)] /\ batch'[Base] = batch[Base]
        /\ ran'[Base] = ran[Base]
    BY <1>1, <2>1
  <2>3. g.op = D
    BY <2>1 DEF Functor
  <2>4. /\ pending' \in [Loops -> Seq(Functors)]
        /\ \A k \in Loops \ {Base} : pending'[k] = pending[k]
        /\ Len(ToDo(Base)') = Len(ToDo(Base)) + 1 /\ Len(ToDo(Base)) \in Nat
        /\ \A i \in 1..Len(ToDo(Base)) : ToDo(Base)'[i] = ToDo(Base)[i]
        /\ ToDo(Base)'[Len(ToDo(Base)) + 1] = g
        /\ \A op : op # g.op => Passes(Base, op)
        /\ \A op, d : Coming(Base, op, d)' <=> Coming(Base, op, d) \/ g = Functor(op, d)
        /\ \A h \in Held(Base)' : h \in Held(Base) \/ h = g
    BY <1>2, <2>2, PushEffect
  <2> QED
    BY <2>1, <2>3, <2>4, Zenon
<1>6. \A k \in Loops \ {Base} :
        /\ Held(k)' = Held(k)
        /\ \A op : Passes(k, op) /\ \A d : Coming(k, op, d)' <=> Coming(k, op, d)
  <2> SUFFICES ASSUME NEW k \in Loops \ {Base}
               PROVE  /\ Held(k)' = Held(k)
                      /\ \A op : Passes(k, op) /\ \A d : Coming(k, op, d)' <=> Coming(k, op, d)
    OBVIOUS
  <2>1. ToDo(k)' = ToDo(k) /\ Held(k)' = Held(k)
    BY <1>1, <1>5, QueueStays
  <2> QED
    BY <2>1, StayEffect
<1>7. TypeOK'
  BY <1>1, <1>4, <1>5 DEF IInv, TypeOK, States
<1>8. CountInv'
  <2>1. \A d \in Conns \ Accepted : channel'[d] = "kNew"
    BY <1>2, <1>4 DEF IInv, CountInv
  <2> QED
    BY <1>1, <2>1 DEF IInv, CountInv, Accepted, Pool
<1>9. LoopInv'
  BY <1>1 DEF IInv, LoopInv, Accepted
<1>10. PlaceInv'
  <2>1. \A k \in Loops : \A g \in Held(k)' : g \in Held(k) \/ (k = Base /\ g = Functor(D, c))
    BY <1>5, <1>6
  <2> QED
    BY <1>1, <1>2, <2>1, FunctorParts, PlacesKept
<1>11. ASSUME NEW k \in Loops, NEW d
       PROVE  /\ Coming(k, D, d) => Coming(k, D, d)'
              /\ Coming(k, E, d)' => Coming(k, E, d)
              /\ Coming(k, R, d)' => Coming(k, R, d)
  <2>1. Functor(D, c) # Functor(E, d) /\ Functor(D, c) # Functor(R, d)
    BY DEF Functor
  <2> QED
    BY <1>5, <1>6, <2>1
<1>12. LifeInv'
  <2>1. ASSUME NEW d \in Accepted, NEW k \in Loops, k = ioLoop[d]
        PROVE  /\ \/ d \in connections' \/ Coming(k, D, d)'
                  \/ Done(d)' \/ d \in dropped'
               /\ server' = "started" /\ d \notin connections' =>
                    channel'[d] # "kAdded" /\ ~Coming(k, E, d)'
    <3>1. /\ d \in connections \/ Coming(k, D, d) \/ Done(d) \/ d \in dropped
          /\ server = "started" /\ d \notin connections =>
                channel[d] # "kAdded" /\ ~Coming(k, E, d)
      BY <2>1 DEF IInv, LifeInv
    <3>2. d \in Conns
      BY AcceptedConns
    <3>3. CASE d = c
      <4>1. Coming(k, D, d)'
        BY <1>5, <2>1, <3>3
      <4>2. ~Coming(k, E, d)
        BY <1>1, <2>1, <3>3, EstablishComes
      <4> QED
        BY <1>4, <1>11, <3>3, <4>1, <4>2
    <3>4. CASE d # c
      <4>1. Done(d)' <=> Done(d)
        BY <1>1, <1>4, <3>2, <3>4 DEF Done
      <4> QED
        BY <1>1, <1>4, <1>11, <3>1, <3>2, <3>4, <4>1
    <3> QED
      BY <3>3, <3>4
  <2> QED
    BY <1>1, <2>1, LifeKept
<1>13. EstablishInv'
  <2>1. ASSUME NEW d \in Accepted, NEW k \in Loops, k = ioLoop[d], Coming(k, E, d)'
        PROVE  FALSE
    <3>1. Coming(k, E, d)
      BY <1>11, <2>1
    <3> QED
      BY <1>3, <2>1, <3>1, EstablishComes
  <2>2. \A k \in Loops : Passes(k, E)
    BY <1>5, <1>6
  <2> QED
    BY <1>1, <2>1, <2>2, EstablishKept
<1>14. RemovalInv'
  <2>1. ASSUME NEW d \in Accepted, Coming(Base, R, d)'
        PROVE  FALSE
    <3>1. Coming(Base, R, d)
      BY <1>2, <1>11, <2>1
    <3> QED
      BY <1>3, <3>1, RemovalComes
  <2>2. Passes(Base, R)
    BY <1>5
  <2> QED
    BY <1>1, <2>1, <2>2, RemovalKept
<1>15. FdsInv'
  <2>1. \A k \in Loops : \A g \in Held(k)' : g \in Held(k) \/ Referenced(g.conn)
    BY <1>2, <1>5, <1>6, FunctorParts
  <2> QED
    BY <1>1, <1>7, <2>1, FdsKept
<1>16. EndInv'
  <2>1. /\ Accepted' = Accepted /\ unclean \subseteq Accepted /\ c \notin unclean
        /\ \A d \in Accepted : ioLoop[d] \in Loops /\ d \in Conns
    BY <1>1, AcceptedConns DEF Accepted, IInv, EndInv, UncleanInv
  <2>2. state'[c] = "kDisconnected"
    BY <1>1 DEF IInv, TypeOK
  <2>3. ASSUME NEW d \in Accepted, NEW k \in Loops
        PROVE  /\ Coming(k, E, d) => Coming(k, E, d)'
               /\ Coming(k, D, d)' => Coming(k, D, d) \/ d = c
    <3>1. Functor(D, c) = Functor(D, d) => d = c
      BY FunctorParts
    <3> QED
      BY <1>5, <1>6, <3>1
  <2>4. \A d \in Accepted : \A k \in Loops : k = ioLoop[d] =>
            (server = "started" /\ Coming(k, D, d) => d \notin connections)
    BY DEF IInv, EndInv, LeavingInv
  <2> QED
    BY <1>1, <1>4, <2>1, <2>2, <2>3, <2>4, EndKept
<1> QED
  BY <1>7, <1>8, <1>9, <1>10, <1>12, <1>13, <1>14, <1>15, <1>16 DEF IInv

\* With a pool: the removal goes to the base loop.
LEMMA CloseThereKeeps ==
    ASSUME IInv, NEW c \in Conns, HandleClose(c), ioLoop[c] # Base
    PROVE  IInv'
<1> DEFINE E == "connectEstablished"
           R == "removeConnectionInLoop"
           D == "connectDestroyed"
<1>1. /\ channel[c] = "kAdded" /\ phase[ioLoop[c]] = "poll"
      /\ state' = [state EXCEPT ![c] = "kDisconnected"]
      /\ channel' = [channel EXCEPT ![c] = "kDeleted"]
      /\ pending' = [pending EXCEPT ![Base] = Append(@, Functor(R, c))]
      /\ UNCHANGED <<server, numThreads, next, nextConnId, connections, waiting, clients, idleFd,
                     ioLoop, fd, peerGone, phase, quit, batch, ran, joining, dropped, unclean>>
  BY DEF HandleClose, Queue, acceptVars, histVars
<1>2. c \in Accepted /\ Referenced(c) /\ Base \in Loops
  BY <1>1, KnownIsReferenced, AcceptedConns
<1>3. numThreads > 0 /\ numThreads # 0
  <2>1. numThreads \in Nat
    BY DEF IInv, TypeOK, States
  <2> QED
    BY <1>2, <2>1 DEF IInv, CountInv
<1>4. /\ state' \in [Conns -> States]
      /\ channel' \in [Conns -> {"kNew", "kAdded", "kDeleted"}]
      /\ \A d \in Conns \ {c} : state'[d] = state[d] /\ channel'[d] = channel[d]
      /\ channel'[c] = "kDeleted"
  BY <1>1 DEF IInv, TypeOK, States
<1>5. /\ pending' \in [Loops -> Seq(Functors)]
      /\ \A k \in Loops \ {Base} : pending'[k] = pending[k]
      /\ Len(ToDo(Base)') = Len(ToDo(Base)) + 1 /\ Len(ToDo(Base)) \in Nat
      /\ \A i \in 1..Len(ToDo(Base)) : ToDo(Base)'[i] = ToDo(Base)[i]
      /\ ToDo(Base)'[Len(ToDo(Base)) + 1] = Functor(R, c)
      /\ \A op : op # R => Passes(Base, op)
      /\ \A op, d : Coming(Base, op, d)' <=> Coming(Base, op, d) \/ Functor(R, c) = Functor(op, d)
      /\ \A g \in Held(Base)' : g \in Held(Base) \/ g = Functor(R, c)
  <2>1. PICK g \in Functors : g = Functor(R, c)
    BY FunctorParts
  <2>2. pending' = [pending EXCEPT ![Base] = Append(@, g)] /\ batch'[Base] = batch[Base]
        /\ ran'[Base] = ran[Base]
    BY <1>1, <2>1
  <2>3. g.op = R
    BY <2>1 DEF Functor
  <2>4. /\ pending' \in [Loops -> Seq(Functors)]
        /\ \A k \in Loops \ {Base} : pending'[k] = pending[k]
        /\ Len(ToDo(Base)') = Len(ToDo(Base)) + 1 /\ Len(ToDo(Base)) \in Nat
        /\ \A i \in 1..Len(ToDo(Base)) : ToDo(Base)'[i] = ToDo(Base)[i]
        /\ ToDo(Base)'[Len(ToDo(Base)) + 1] = g
        /\ \A op : op # g.op => Passes(Base, op)
        /\ \A op, d : Coming(Base, op, d)' <=> Coming(Base, op, d) \/ g = Functor(op, d)
        /\ \A h \in Held(Base)' : h \in Held(Base) \/ h = g
    BY <1>2, <2>2, PushEffect
  <2> QED
    BY <2>1, <2>3, <2>4, Zenon
<1>6. \A k \in Loops \ {Base} :
        /\ Held(k)' = Held(k)
        /\ \A op : Passes(k, op) /\ \A d : Coming(k, op, d)' <=> Coming(k, op, d)
  <2> SUFFICES ASSUME NEW k \in Loops \ {Base}
               PROVE  /\ Held(k)' = Held(k)
                      /\ \A op : Passes(k, op) /\ \A d : Coming(k, op, d)' <=> Coming(k, op, d)
    OBVIOUS
  <2>1. ToDo(k)' = ToDo(k) /\ Held(k)' = Held(k)
    BY <1>1, <1>5, QueueStays
  <2> QED
    BY <2>1, StayEffect
<1>7. TypeOK'
  BY <1>1, <1>4, <1>5 DEF IInv, TypeOK, States
<1>8. CountInv'
  <2>1. \A d \in Conns \ Accepted : channel'[d] = "kNew"
    BY <1>2, <1>4 DEF IInv, CountInv
  <2> QED
    BY <1>1, <2>1 DEF IInv, CountInv, Accepted, Pool
<1>9. LoopInv'
  <2>1. \A k \in Loops : phase'[k] # "batch" => batch'[k] = <<>> /\ ran'[k] = 0
    BY <1>1 DEF IInv, LoopInv
  <2> QED
    BY <1>1, <1>3, <2>1 DEF IInv, LoopInv, Accepted
<1>10. PlaceInv'
  <2>1. \A k \in Loops : \A g \in Held(k)' : g \in Held(k) \/ (k = Base /\ g = Functor(R, c))
    BY <1>5, <1>6
  <2> QED
    BY <1>1, <1>2, <2>1, FunctorParts, PlacesKept
<1>11. ASSUME NEW k \in Loops, NEW d
       PROVE  /\ Coming(k, D, d) <=> Coming(k, D, d)'
              /\ Coming(k, E, d)' <=> Coming(k, E, d)
              /\ Coming(k, R, d)' => Coming(k, R, d) \/ d = c
  <2>1. Functor(R, c) # Functor(E, d) /\ Functor(R, c) # Functor(D, d)
    BY DEF Functor
  <2>2. Functor(R, c) = Functor(R, d) => d = c
    BY FunctorParts
  <2> QED
    BY <1>5, <1>6, <2>1, <2>2
<1>12. server = "started" => c \in connections
  BY <1>1, <1>2 DEF IInv, LifeInv
<1>13. LifeInv'
  <2>1. ASSUME NEW d \in Accepted, NEW k \in Loops, k = ioLoop[d]
        PROVE  /\ \/ d \in connections' \/ Coming(k, D, d)'
                  \/ Done(d)' \/ d \in dropped'
               /\ server' = "started" /\ d \notin connections' =>
                    channel'[d] # "kAdded" /\ ~Coming(k, E, d)'
    <3>1. /\ d \in connections \/ Coming(k, D, d) \/ Done(d) \/ d \in dropped
          /\ server = "started" /\ d \notin connections =>
                channel[d] # "kAdded" /\ ~Coming(k, E, d)
      BY <2>1 DEF IInv, LifeInv
    <3>2. d \in Conns
      BY AcceptedConns
    <3>3. CASE d = c
      <4>1. ~Done(d)
        BY <1>1, <3>3 DEF Done
      <4> QED
        BY <1>1, <1>11, <1>12, <3>1, <3>3, <4>1
    <3>4. CASE d # c
      <4>1. Done(d)' <=> Done(d)
        BY <1>1, <1>4, <3>2, <3>4 DEF Done
      <4> QED
        BY <1>1, <1>4, <1>11, <3>1, <3>2, <3>4, <4>1
    <3> QED
      BY <3>3, <3>4
  <2> QED
    BY <1>1, <2>1, LifeKept
<1>14. EstablishInv'
  <2>1. ASSUME NEW d \in Accepted, NEW k \in Loops, k = ioLoop[d], Coming(k, E, d)'
        PROVE  state'[d] = state[d] /\ channel'[d] = channel[d] /\ ~Coming(Base, R, d)'
    <3>1. Coming(k, E, d) /\ d \in Conns
      BY <1>11, <2>1, AcceptedConns
    <3>2. channel[d] = "kNew" /\ ~Coming(Base, R, d)
      BY <2>1, <3>1, EstablishComes
    <3>3. d # c
      BY <1>1, <3>2
    <3> QED
      BY <1>2, <1>4, <1>11, <3>1, <3>2, <3>3
  <2>2. \A k \in Loops : Passes(k, E)
    BY <1>5, <1>6
  <2> QED
    BY <1>1, <2>1, <2>2, EstablishKept
<1>15. RemovalInv'
  <2>1. ~Coming(Base, R, c)
    BY <1>1, <1>2, RemovalComes
  <2>2. ASSUME NEW d \in Accepted, NEW i \in 1..Len(ToDo(Base)'), ToDo(Base)'[i] = Functor(R, d)
        PROVE  /\ numThreads > 0
               /\ channel'[d] # "kAdded"
               /\ server = "started" => d \in connections
               /\ \A j \in 1..Len(ToDo(Base)') : ToDo(Base)'[j] = ToDo(Base)'[i] => j = i
    <3>1. i \in 1..Len(ToDo(Base)) \/ i = Len(ToDo(Base)) + 1
      BY <1>5
    <3>2. \A j \in 1..Len(ToDo(Base)') : j \in 1..Len(ToDo(Base)) \/ j = Len(ToDo(Base)) + 1
      BY <1>5
    <3>3. CASE i \in 1..Len(ToDo(Base))
      <4>1. ToDo(Base)[i] = Functor(R, d)
        BY <1>5, <2>2, <3>3
      <4>2. Coming(Base, R, d)
        BY <3>3, <4>1 DEF Coming
      <4>3. d # c /\ d \in Conns
        BY <2>1, <4>2, AcceptedConns
      <4>4. /\ channel[d] # "kAdded" /\ (server = "started" => d \in connections)
        BY <4>2, RemovalComes
      <4>5. \A j \in 1..Len(ToDo(Base)) : ToDo(Base)[j] = ToDo(Base)[i] => j = i
        BY <3>3, <4>1 DEF IInv, RemovalInv
      <4>6. Functor(R, c) # Functor(R, d)
        BY <4>3, FunctorParts
      <4>7. \A j \in 1..Len(ToDo(Base)') : ToDo(Base)'[j] = ToDo(Base)'[i] => j = i
        BY <1>5, <2>2, <3>2, <3>3, <4>5, <4>6
      <4> QED
        BY <1>3, <1>4, <4>3, <4>4, <4>7
    <3>4. CASE i = Len(ToDo(Base)) + 1
      <4>1. d = c
        BY <1>5, <2>2, <3>4, FunctorParts
      <4>2. \A j \in 1..Len(ToDo(Base)) : ToDo(Base)[j] # Functor(R, c)
        BY <2>1 DEF Coming
      <4>3. \A j \in 1..Len(ToDo(Base)') : ToDo(Base)'[j] = ToDo(Base)'[i] => j = i
        BY <1>5, <3>2, <3>4, <4>2
      <4> QED
        BY <1>3, <1>4, <1>12, <4>1, <4>3
    <3> QED
      BY <3>1, <3>3, <3>4
  <2>3. Accepted' = Accepted
    BY <1>1 DEF Accepted
  <2> QED
    BY <1>1, <2>2, <2>3 DEF RemovalInv
<1>16. FdsInv'
  <2>1. \A k \in Loops : \A g \in Held(k)' : g \in Held(k) \/ Referenced(g.conn)
    BY <1>2, <1>5, <1>6, FunctorParts
  <2> QED
    BY <1>1, <1>7, <2>1, FdsKept
<1>17. EndInv'
  <2>1. /\ Accepted' = Accepted /\ unclean \subseteq Accepted /\ c \notin unclean
        /\ \A d \in Accepted : ioLoop[d] \in Loops /\ d \in Conns
    BY <1>1, AcceptedConns DEF Accepted, IInv, EndInv, UncleanInv
  <2>2. state'[c] = "kDisconnected"
    BY <1>1 DEF IInv, TypeOK
  <2>3. ASSUME NEW d \in Accepted, NEW k \in Loops
        PROVE  /\ Coming(k, E, d) => Coming(k, E, d)'
               /\ Coming(k, D, d)' => Coming(k, D, d)
    BY <1>11
  <2>4. \A d \in Accepted : \A k \in Loops : k = ioLoop[d] =>
            (server = "started" /\ Coming(k, D, d) => d \notin connections)
    BY DEF IInv, EndInv, LeavingInv
  <2> QED
    BY <1>1, <1>4, <2>1, <2>2, <2>3, <2>4, EndKept
<1> QED
  BY <1>7, <1>8, <1>9, <1>10, <1>13, <1>14, <1>15, <1>16, <1>17 DEF IInv

-----------------------------------------------------------------------------
(* Accepting.                                                              *)

\* Nobody knows the number of the next connection, and its descriptor is nobody's.
LEMMA NextIsFresh ==
    ASSUME IInv, Accept
    PROVE  /\ nextConnId \in Conns /\ nextConnId \notin Accepted
           /\ Accepted' = Accepted \union {nextConnId}
           /\ \A l \in Loops : \A f \in Held(l) : f.conn # nextConnId
           /\ ~Referenced(nextConnId)
           /\ channel[nextConnId] = "kNew"
           /\ fd' \in [Conns -> Fds]
           /\ \A d \in Conns \ {nextConnId} :
                fd'[d] = fd[d] /\ (Referenced(d) => fd[d] # fd'[nextConnId])
<1>1. /\ nextConnId \in Nat /\ nextConnId >= 1 /\ waiting \in Nat /\ clients \in Nat
      /\ clients <= MaxClients /\ MaxClients \in Nat /\ nextConnId - 1 + waiting <= clients
      /\ waiting > 0 /\ nextConnId' = nextConnId + 1
  BY BoundsAssumption, AcceptedConns DEF IInv, TypeOK, States, CountInv, Accept, Listening
<1>2. nextConnId \in Conns /\ nextConnId \notin Accepted /\ Accepted' = Accepted \union {nextConnId}
  BY <1>1 DEF Conns, Accepted
<1>3. \A l \in Loops : \A f \in Held(l) : f.conn # nextConnId
  BY <1>2 DEF IInv, PlaceInv
<1>4. ~Referenced(nextConnId)
  BY <1>2, <1>3, References DEF IInv, CountInv
<1>5. channel[nextConnId] = "kNew"
  BY <1>2 DEF IInv, CountInv
<1>6. PICK f \in FreeFds : f = CHOOSE h \in FreeFds : \A g \in FreeFds : h <= g
  <2>1. FreeFds \in SUBSET Nat /\ FreeFds # {}
    BY FdsAssumption DEF FreeFds, Accept
  <2>2. \E h \in FreeFds : \A g \in FreeFds : h <= g
    BY <2>1, LowestFd
  <2> QED
    BY <2>2
<1>7. fd' = [fd EXCEPT ![nextConnId] = f]
  BY <1>6 DEF Accept
<1>8. f \in Fds /\ \A d \in Conns : Referenced(d) => fd[d] # f
  BY DEF FreeFds
<1>9. fd \in [Conns -> Fds]
  BY DEF IInv, TypeOK, States
<1> QED
  BY <1>2, <1>3, <1>4, <1>5, <1>7, <1>8, <1>9

\* What accepting does whichever loop is chosen.
LEMMA AcceptCounts ==
    ASSUME IInv, Accept,
           channel' \in [Conns -> {"kNew", "kAdded", "kDeleted"}],
           state' \in [Conns -> States],
           pending' \in [Loops -> Seq(Functors)],
           \A d \in Conns \ {nextConnId} : channel'[d] = channel[d],
           ChosenLoop # Base => numThreads > 0
    PROVE  TypeOK' /\ CountInv' /\ LoopInv'
<1>1. /\ server = "started" /\ phase[Base] = "poll" /\ waiting > 0
      /\ waiting' = waiting - 1
      /\ nextConnId' = nextConnId + 1
      /\ connections' = connections \union {nextConnId}
      /\ ioLoop' = [ioLoop EXCEPT ![nextConnId] = ChosenLoop]
      /\ next' = NextAfter
      /\ UNCHANGED <<server, numThreads, clients, idleFd, peerGone, phase, quit, batch, ran, joining, dropped, unclean>>
  BY DEF Accept, Listening, histVars
<1>2. /\ nextConnId \in Conns /\ nextConnId \notin Accepted
      /\ Accepted' = Accepted \union {nextConnId} /\ fd' \in [Conns -> Fds]
  BY NextIsFresh
<1>3. /\ numThreads \in 0..MaxThreads /\ MaxThreads \in Nat /\ next \in 0..MaxThreads
      /\ (numThreads > 0 => next < numThreads)
  BY BoundsAssumption DEF IInv, TypeOK, States, Loops
<1>4. next' \in 0..MaxThreads /\ (numThreads > 0 => next' < numThreads)
  <2>1. CASE numThreads = 0
    BY <1>1, <1>3, <2>1 DEF NextAfter
  <2>2. CASE numThreads # 0
    <3>1. numThreads \in Nat /\ numThreads > 0 /\ next + 1 \in Nat
      BY <1>3, <2>2
    <3>2. (next + 1) % numThreads \in 0..(numThreads - 1)
      BY <3>1
    <3> QED
      BY <1>1, <1>3, <2>2, <3>1, <3>2 DEF NextAfter
  <2> QED
    BY <2>1, <2>2
<1>5. /\ ChosenLoop \in Loops
      /\ IF numThreads = 0 THEN ChosenLoop = Base ELSE ChosenLoop \in Pool
  BY <1>3 DEF ChosenLoop, Loops, Base, Pool
<1>6. waiting' \in 0..MaxClients /\ nextConnId' \in 1..(MaxClients + 1)
      /\ nextConnId' - 1 + waiting' <= clients
  <2>1. /\ waiting \in 0..MaxClients /\ MaxClients \in Nat /\ nextConnId \in 1..MaxClients
        /\ clients \in Nat /\ nextConnId - 1 + waiting <= clients
    BY <1>2, BoundsAssumption DEF IInv, TypeOK, States, CountInv, Conns
  <2> QED
    BY <1>1, <2>1
<1>7. ioLoop' \in [Conns -> Loops] /\ connections' \subseteq Conns
  BY <1>1, <1>2, <1>5 DEF IInv, TypeOK, States
<1>8. TypeOK'
  BY <1>1, <1>2, <1>4, <1>6, <1>7 DEF IInv, TypeOK, States, Loops
<1>9. \A d \in Accepted : d \in Conns /\ d # nextConnId /\ ioLoop'[d] = ioLoop[d]
  BY <1>1, <1>2, AcceptedConns DEF IInv, TypeOK, States
<1>10. ioLoop'[nextConnId] = ChosenLoop
  BY <1>1, <1>2 DEF IInv, TypeOK, States
<1>11. CountInv'
  <2>1. \A d \in Accepted' : IF numThreads = 0 THEN ioLoop'[d] = Base ELSE ioLoop'[d] \in Pool
    BY <1>2, <1>5, <1>9, <1>10 DEF IInv, CountInv
  <2>2. \A d \in Conns \ Accepted' : channel'[d] = "kNew"
    BY <1>2 DEF IInv, CountInv
  <2>3. connections' \subseteq Accepted'
    BY <1>1, <1>2 DEF IInv, CountInv
  <2> QED
    BY <1>1, <1>6, <2>1, <2>2, <2>3 DEF CountInv, Pool
<1>12. LoopInv'
  <2>1. \A k \in Loops : phase'[k] # "batch" => batch'[k] = <<>> /\ ran'[k] = 0
    BY <1>1 DEF IInv, LoopInv
  <2>2. dropped' \subseteq Accepted' /\ \A d \in dropped' : ioLoop'[d] # Base /\ phase'[ioLoop'[d]] = "exited"
    BY <1>1, <1>2, <1>9 DEF IInv, LoopInv
  <2> QED
    BY <1>1, <2>1, <2>2 DEF LoopInv
<1> QED
  BY <1>8, <1>11, <1>12

\* Without a pool the connection is established at once.
LEMMA AcceptHereKeeps ==
    ASSUME IInv, Accept, ChosenLoop = Base
    PROVE  IInv'
<1> DEFINE E == "connectEstablished"
           R == "removeConnectionInLoop"
           D == "connectDestroyed"
<1>0. PICK c : c = nextConnId
  OBVIOUS
<1>1. /\ server = "started"
      /\ connections' = connections \union {c}
      /\ ioLoop' = [ioLoop EXCEPT ![c] = Base]
      /\ state' = [state EXCEPT ![c] = "kConnected"]
      /\ channel' = [channel EXCEPT ![c] = "kAdded"]
      /\ UNCHANGED <<server, numThreads, batch, ran, pending, joining, dropped, unclean>>
  BY <1>0 DEF Accept, Listening, Connected, histVars
<1>2. numThreads = 0
  <2>1. numThreads \in Nat /\ next \in Nat
    BY BoundsAssumption DEF IInv, TypeOK, States, Loops
  <2> QED
    BY <2>1 DEF ChosenLoop, Base
<1>3. /\ c \in Conns /\ c \notin Accepted /\ Accepted' = Accepted \union {c}
      /\ \A l \in Loops : \A f \in Held(l) : f.conn # c
      /\ \A d \in Conns \ {c} : fd'[d] = fd[d] /\ (Referenced(d) => fd[d] # fd'[c])
  BY <1>0, NextIsFresh
<1>4. /\ state' \in [Conns -> States]
      /\ channel' \in [Conns -> {"kNew", "kAdded", "kDeleted"}]
      /\ pending' \in [Loops -> Seq(Functors)]
      /\ ioLoop'[c] = Base
      /\ \A d \in Conns \ {c} : state'[d] = state[d] /\ channel'[d] = channel[d] /\ ioLoop'[d] = ioLoop[d]
  BY <1>1, <1>3 DEF IInv, TypeOK, States
<1>5. TypeOK' /\ CountInv' /\ LoopInv'
  BY <1>0, <1>4, AcceptCounts
<1>6. \A l \in Loops : ToDo(l)' = ToDo(l) /\ Held(l)' = Held(l)
  BY <1>1, QueueStays
<1>7. \A l \in Loops : \A op, d : Coming(l, op, d)' <=> Coming(l, op, d)
  BY <1>6 DEF Coming
<1>8. \A d \in Accepted : d \in Conns /\ d # c /\ ioLoop[d] \in Loops /\ Base \in Loops
  BY <1>3, AcceptedConns
<1>9. \A d \in Accepted' : \A l \in Loops : ~Coming(l, E, d)
  <2> SUFFICES ASSUME NEW d \in Accepted', NEW l \in Loops, Coming(l, E, d) PROVE FALSE
    OBVIOUS
  <2>1. PICK i \in 1..Len(ToDo(l)) : ToDo(l)[i] = Functor(E, d)
    BY DEF Coming
  <2>2. Functor(E, d) \in Held(l)
    BY <2>1, Queues
  <2>3. d \in Accepted /\ l = ioLoop[d]
    BY <2>2, FunctorParts DEF IInv, PlaceInv
  <2> QED
    BY <1>2, <2>3, EstablishComes
<1>10. \A d \in Accepted' : ~Coming(Base, R, d)
  <2> SUFFICES ASSUME NEW d \in Accepted', Coming(Base, R, d) PROVE FALSE
    OBVIOUS
  <2>1. PICK i \in 1..Len(ToDo(Base)) : ToDo(Base)[i] = Functor(R, d)
    BY DEF Coming
  <2>2. Functor(R, d) \in Held(Base)
    BY <2>1, Queues, AcceptedConns
  <2>3. d \in Accepted
    BY <2>2, AcceptedConns, FunctorParts DEF IInv, PlaceInv
  <2> QED
    BY <1>2, <2>3, RemovalComes
<1>11. PlaceInv'
  BY <1>3, <1>4, <1>6, <1>8 DEF IInv, PlaceInv
<1>12. LifeInv'
  <2>1. ASSUME NEW d \in Accepted', NEW k \in Loops, k = ioLoop'[d]
        PROVE  /\ \/ d \in connections' \/ Coming(k, D, d)'
                  \/ Done(d)' \/ d \in dropped'
               /\ server' = "started" /\ d \notin connections' =>
                    channel'[d] # "kAdded" /\ ~Coming(k, E, d)'
    <3>1. CASE d = c
      BY <1>1, <3>1
    <3>2. CASE d # c
      <4>1. d \in Accepted /\ k = ioLoop[d] /\ d \in Conns
        BY <1>3, <1>4, <1>8, <2>1, <3>2
      <4>2. /\ d \in connections \/ Coming(k, D, d) \/ Done(d) \/ d \in dropped
            /\ server = "started" /\ d \notin connections =>
                channel[d] # "kAdded" /\ ~Coming(k, E, d)
        BY <4>1 DEF IInv, LifeInv
      <4>3. Done(d)' <=> Done(d)
        BY <1>1, <1>4, <3>2, <4>1 DEF Done
      <4> QED
        BY <1>1, <1>4, <1>7, <3>2, <4>1, <4>2, <4>3
    <3> QED
      BY <3>1, <3>2
  <2>2. \A d \in Accepted' : ioLoop'[d] \in Loops
    BY <1>3, <1>4, <1>8, AcceptedConns
  <2> QED
    BY <2>1, <2>2 DEF LifeInv
<1>13. EstablishInv'
  <2>1. \A d \in Accepted' : ioLoop'[d] \in Loops
    BY <1>3, <1>4, <1>8, AcceptedConns
  <2> QED
    BY <1>6, <1>9, <2>1 DEF EstablishInv, Coming
<1>14. RemovalInv'
  BY <1>6, <1>10, AcceptedConns DEF RemovalInv, Coming
<1>15. FdsInv'
  <2>1. \A d : Referenced(d)' => Referenced(d) \/ d = c
    BY <1>1 DEF Referenced
  <2> QED
    BY <1>3, <2>1 DEF IInv, FdsInv
<1>16. EndInv'
  <2>1. unclean' \subseteq Accepted' /\ c \notin unclean' /\ \A d \in Accepted' : ioLoop'[d] \in Loops
    BY <1>1, <1>3, <1>4, <1>8, AcceptedConns DEF IInv, EndInv, UncleanInv
  <2>2. state'[c] = "kConnected" /\ channel'[c] = "kAdded"
    BY <1>1, <1>3 DEF IInv, TypeOK
  <2>3. \A l \in Loops : ~Coming(l, D, c)
    BY <1>3, Queues, FunctorParts DEF Coming
  <2>4. \A d \in Accepted : \A k \in Loops : k = ioLoop[d] =>
            (server = "started" /\ Coming(k, D, d) => d \notin connections)
    BY DEF IInv, EndInv, LeavingInv
  <2> QED
    BY <1>1, <1>3, <1>4, <1>7, <1>8, <2>1, <2>2, <2>3, <2>4, EndKept
<1> QED
  BY <1>5, <1>11, <1>12, <1>13, <1>14, <1>15, <1>16 DEF IInv

\* With a pool it is established by the loop that is chosen.
LEMMA AcceptThereKeeps ==
    ASSUME IInv, Accept, ChosenLoop # Base
    PROVE  IInv'
<1> DEFINE E == "connectEstablished"
           R == "removeConnectionInLoop"
           D == "connectDestroyed"
<1>0. PICK c, m : c = nextConnId /\ m = ChosenLoop
  OBVIOUS
<1>1. /\ server = "started"
      /\ connections' = connections \union {c}
      /\ ioLoop' = [ioLoop EXCEPT ![c] = m]
      /\ state' = [state EXCEPT ![c] = "kConnecting"]
      /\ channel' = channel
      /\ pending' = [pending EXCEPT ![m] = Append(@, Functor(E, c))]
      /\ UNCHANGED <<server, numThreads, batch, ran, joining, dropped, unclean>>
  BY <1>0 DEF Accept, Listening, Queue, histVars
<1>2. numThreads > 0 /\ m \in Loops /\ m # Base /\ Base \in Loops
  <2>1. numThreads \in 0..MaxThreads /\ MaxThreads \in Nat /\ next \in Nat
        /\ (numThreads > 0 => next < numThreads)
    BY BoundsAssumption DEF IInv, TypeOK, States, Loops
  <2>2. numThreads # 0
    BY DEF ChosenLoop
  <2> QED
    BY <1>0, <2>1, <2>2, AcceptedConns DEF ChosenLoop, Loops
<1>3. /\ c \in Conns /\ c \notin Accepted /\ Accepted' = Accepted \union {c}
      /\ \A l \in Loops : \A f \in Held(l) : f.conn # c
      /\ ~Referenced(c) /\ channel[c] = "kNew"
      /\ \A d \in Conns \ {c} : fd'[d] = fd[d] /\ (Referenced(d) => fd[d] # fd'[c])
  BY <1>0, NextIsFresh
<1>4. /\ state' \in [Conns -> States]
      /\ ioLoop'[c] = m /\ state'[c] = "kConnecting"
      /\ \A d \in Conns \ {c} : state'[d] = state[d] /\ ioLoop'[d] = ioLoop[d]
  BY <1>1, <1>3 DEF IInv, TypeOK, States
<1>5. /\ pending' \in [Loops -> Seq(Functors)]
      /\ \A k \in Loops \ {m} : pending'[k] = pending[k]
      /\ Len(ToDo(m)') = Len(ToDo(m)) + 1 /\ Len(ToDo(m)) \in Nat
      /\ \A i \in 1..Len(ToDo(m)) : ToDo(m)'[i] = ToDo(m)[i]
      /\ ToDo(m)'[Len(ToDo(m)) + 1] = Functor(E, c)
      /\ \A op, d : Coming(m, op, d)' <=> Coming(m, op, d) \/ Functor(E, c) = Functor(op, d)
      /\ \A g \in Held(m)' : g \in Held(m) \/ g = Functor(E, c)
  <2>1. PICK g \in Functors : g = Functor(E, c)
    BY <1>3, FunctorParts
  <2>2. pending' = [pending EXCEPT ![m] = Append(@, g)] /\ batch'[m] = batch[m] /\ ran'[m] = ran[m]
    BY <1>1, <2>1
  <2>4. /\ pending' \in [Loops -> Seq(Functors)]
        /\ \A k \in Loops \ {m} : pending'[k] = pending[k]
        /\ Len(ToDo(m)') = Len(ToDo(m)) + 1 /\ Len(ToDo(m)) \in Nat
        /\ \A i \in 1..Len(ToDo(m)) : ToDo(m)'[i] = ToDo(m)[i]
        /\ ToDo(m)'[Len(ToDo(m)) + 1] = g
        /\ \A op, d : Coming(m, op, d)' <=> Coming(m, op, d) \/ g = Functor(op, d)
        /\ \A h \in Held(m)' : h \in Held(m) \/ h = g
    BY <1>2, <2>2, PushEffect
  <2> QED
    BY <2>1, <2>4, Zenon
<1>6. \A k \in Loops \ {m} : ToDo(k)' = ToDo(k) /\ Held(k)' = Held(k)
  BY <1>1, <1>5, QueueStays
<1>7. TypeOK' /\ CountInv' /\ LoopInv'
  BY <1>0, <1>1, <1>2, <1>4, <1>5, AcceptCounts DEF IInv, TypeOK, States
<1>8. \A d \in Accepted : d \in Conns /\ d # c /\ ioLoop[d] \in Loops /\ ioLoop'[d] = ioLoop[d]
  BY <1>3, <1>4, AcceptedConns
<1>9. ASSUME NEW k \in Loops, NEW d, d # c, NEW op PROVE Coming(k, op, d)' <=> Coming(k, op, d)
  <2>1. Functor(E, c) # Functor(op, d)
    BY <1>9, FunctorParts
  <2>2. CASE k = m
    BY <1>5, <2>1, <2>2
  <2>3. CASE k # m
    <3>1. ToDo(k)' = ToDo(k)
      BY <1>6, <2>3
    <3> QED
      BY <3>1 DEF Coming
  <2> QED
    BY <2>2, <2>3
<1>10. \A k \in Loops : \A i \in 1..Len(ToDo(k)) : ToDo(k)[i].conn # c
  BY <1>3, Queues
<1>11. PlaceInv'
  <2>1. \A k \in Loops : \A g \in Held(k)' : g \in Held(k) \/ (k = m /\ g = Functor(E, c))
    BY <1>5, <1>6
  <2>2. ASSUME NEW k \in Loops, NEW g \in Held(k)
        PROVE  /\ g.conn \in Accepted'
               /\ k = IF g.op = R THEN Base ELSE ioLoop'[g.conn]
    <3>1. /\ g.conn \in Accepted
          /\ k = IF g.op = R THEN Base ELSE ioLoop[g.conn]
      BY DEF IInv, PlaceInv
    <3> QED
      BY <1>3, <1>8, <3>1
  <2> QED
    BY <1>3, <1>4, <2>1, <2>2, FunctorParts DEF PlaceInv
<1>12. LifeInv'
  <2>1. ASSUME NEW d \in Accepted', NEW k \in Loops, k = ioLoop'[d]
        PROVE  /\ \/ d \in connections' \/ Coming(k, D, d)'
                  \/ Done(d)' \/ d \in dropped'
               /\ server' = "started" /\ d \notin connections' =>
                    channel'[d] # "kAdded" /\ ~Coming(k, E, d)'
    <3>1. CASE d = c
      BY <1>1, <3>1
    <3>2. CASE d # c
      <4>1. d \in Accepted /\ k = ioLoop[d] /\ d \in Conns
        BY <1>3, <1>8, <2>1, <3>2
      <4>2. /\ d \in connections \/ Coming(k, D, d) \/ Done(d) \/ d \in dropped
            /\ server = "started" /\ d \notin connections =>
                channel[d] # "kAdded" /\ ~Coming(k, E, d)
        BY <4>1 DEF IInv, LifeInv
      <4>3. Done(d)' <=> Done(d)
        BY <1>1, <1>4, <3>2, <4>1 DEF Done
      <4> QED
        BY <1>1, <1>9, <3>2, <4>1, <4>2, <4>3
    <3> QED
      BY <3>1, <3>2
  <2>2. \A d \in Accepted' : ioLoop'[d] \in Loops
    BY <1>2, <1>3, <1>4, <1>8
  <2> QED
    BY <2>1, <2>2 DEF LifeInv
<1>13. EstablishInv'
  <2> SUFFICES ASSUME NEW d \in Accepted', NEW k \in Loops, k = ioLoop'[d], NEW i \in 1..Len(ToDo(k)'),
                      ToDo(k)'[i] = Functor(E, d)
               PROVE  /\ numThreads > 0
                      /\ state'[d] = "kConnecting" /\ channel'[d] = "kNew"
                      /\ ~Coming(Base, R, d)'
                      /\ \A j \in 1..(i - 1) : ToDo(k)'[j].conn # d
    <3>1. \A d \in Accepted' : ioLoop'[d] \in Loops
      BY <1>2, <1>3, <1>4, <1>8
    <3> QED
      BY <1>1, <3>1 DEF EstablishInv
  <2>1. CASE d = c
    <3>1. k = m
      BY <1>4, <2>1
    <3>2. \A j \in 1..Len(ToDo(m)) : ToDo(m)'[j].conn # c
      BY <1>2, <1>5, <1>10
    <3>3. Functor(E, c).conn = c
      BY FunctorParts
    <3>4. i = Len(ToDo(m)) + 1
      BY <1>5, <2>1, <3>1, <3>2, <3>3
    <3>5. \A j \in 1..(i - 1) : ToDo(k)'[j].conn # d
      BY <1>5, <2>1, <3>1, <3>2, <3>4
    <3>6. ~Coming(Base, R, d)'
      <4>1. ToDo(Base)' = ToDo(Base)
        BY <1>2, <1>6
      <4> QED
        BY <1>2, <1>10, <2>1, <4>1, FunctorParts DEF Coming
    <3> QED
      BY <1>1, <1>2, <1>3, <1>4, <2>1, <3>5, <3>6
  <2>2. CASE d # c
    <3>1. d \in Accepted /\ k = ioLoop[d] /\ d \in Conns
      BY <1>3, <1>8, <2>2
    <3>2. i \in 1..Len(ToDo(k)) /\ \A j \in 1..i : ToDo(k)'[j] = ToDo(k)[j]
      <4>1. CASE k = m
        <5>1. Functor(E, c) # Functor(E, d)
          BY <2>2, FunctorParts
        <5>2. i # Len(ToDo(m)) + 1
          BY <1>5, <4>1, <5>1
        <5> QED
          BY <1>5, <4>1, <5>2
      <4>2. CASE k # m
        <5>1. ToDo(k)' = ToDo(k)
          BY <1>6, <4>2
        <5>2. Len(ToDo(k)) \in Nat
          <6>1. ToDo(k) \in Seq(Functors)
            BY Queues
          <6> QED
            BY <6>1
        <5> QED
          BY <5>1, <5>2
      <4> QED
        BY <4>1, <4>2
    <3>3. i \in 1..i
      OBVIOUS
    <3>4. /\ state[d] = "kConnecting" /\ channel[d] = "kNew"
          /\ ~Coming(Base, R, d)
          /\ \A j \in 1..(i - 1) : ToDo(k)[j].conn # d
      BY <3>1, <3>2, <3>3 DEF IInv, EstablishInv
    <3>5. \A j \in 1..(i - 1) : j \in 1..i
      OBVIOUS
    <3> QED
      BY <1>1, <1>2, <1>4, <1>9, <2>2, <3>1, <3>2, <3>4, <3>5
  <2> QED
    BY <2>1, <2>2
<1>14. RemovalInv'
  <2>1. ToDo(Base)' = ToDo(Base)
    BY <1>2, <1>6
  <2>2. \A i \in 1..Len(ToDo(Base)) : ToDo(Base)[i] # Functor(R, c)
    BY <1>2, <1>10, FunctorParts
  <2>3. ASSUME NEW d \in Accepted, NEW i \in 1..Len(ToDo(Base)), ToDo(Base)[i] = Functor(R, d)
        PROVE  /\ numThreads > 0
               /\ channel[d] # "kAdded"
               /\ server = "started" => d \in connections
               /\ \A j \in 1..Len(ToDo(Base)) : ToDo(Base)[j] = ToDo(Base)[i] => j = i
    BY <2>3 DEF IInv, RemovalInv
  <2> QED
    BY <1>1, <1>3, <2>1, <2>2, <2>3 DEF RemovalInv
<1>15. FdsInv'
  <2>1. ASSUME NEW d, Referenced(d)' PROVE Referenced(d) \/ d = c
    <3>1. CASE d \in connections'
      BY <1>1, <3>1 DEF Referenced
    <3>2. CASE \E k \in Loops : (Holds(pending[k], d) \/ Holds(batch[k], d))'
      <4>1. PICK k \in Loops : (Holds(pending[k], d) \/ Holds(batch[k], d))'
        BY <3>2
      <4>2. CASE k # m
        BY <1>1, <1>5, <4>1, <4>2 DEF Referenced, Holds
      <4>3. CASE k = m
        <5>1. pending'[k] \in Seq(Functors) /\ batch'[k] \in Seq(Functors)
          BY <1>7 DEF TypeOK, States
        <5>2. DOMAIN pending'[k] = 1..Len(pending'[k]) /\ DOMAIN batch'[k] = 1..Len(batch'[k])
          BY <5>1
        <5>3. PICK g \in Held(k)' : g.conn = d
          BY <4>1, <5>2 DEF Holds, Held
        <5>4. g \in Held(k) \/ g = Functor(E, c)
          BY <1>5, <4>3
        <5> QED
          BY <5>3, <5>4, References, FunctorParts
      <4> QED
        BY <4>2, <4>3
    <3> QED
      BY <2>1, <3>1, <3>2 DEF Referenced
  <2> QED
    BY <1>3, <2>1 DEF IInv, FdsInv
<1>16. EndInv'
  <2>1. unclean' \subseteq Accepted' /\ c \notin unclean' /\ \A d \in Accepted' : ioLoop'[d] \in Loops
    BY <1>1, <1>2, <1>3, <1>4, <1>8, AcceptedConns DEF IInv, EndInv, UncleanInv
  <2>2. channel'[c] = "kNew" /\ Coming(m, E, c)'
    BY <1>1, <1>3, <1>5
  <2>3. \A l \in Loops : ~Coming(l, D, c)'
    <3> SUFFICES ASSUME NEW l \in Loops, Coming(l, D, c)' PROVE FALSE
      OBVIOUS
    <3>1. Functor(E, c) # Functor(D, c)
      BY DEF Functor
    <3>2. Coming(l, D, c)
      <4>1. CASE l = m
        BY <1>5, <3>1, <4>1
      <4>2. CASE l # m
        BY <1>6, <4>2 DEF Coming
      <4> QED
        BY <4>1, <4>2
    <3> QED
      BY <1>10, <3>2, FunctorParts DEF Coming
  <2>4. \A d \in Accepted : \A k \in Loops : k = ioLoop[d] =>
            (server = "started" /\ Coming(k, D, d) => d \notin connections)
    BY DEF IInv, EndInv, LeavingInv
  <2> QED
    BY <1>1, <1>3, <1>4, <1>8, <1>9, <2>1, <2>2, <2>3, <2>4, EndKept
<1> QED
  BY <1>7, <1>11, <1>12, <1>13, <1>14, <1>15, <1>16 DEF IInv

-----------------------------------------------------------------------------
(* The end of the server.                                                  *)

\* Without a pool every connection is destroyed at once.
LEMMA DestroyHereKeeps ==
    ASSUME IInv, Destroy, numThreads = 0
    PROVE  IInv'
<1> DEFINE E == "connectEstablished"
           R == "removeConnectionInLoop"
           D == "connectDestroyed"
<1>1. /\ server' = "dead" /\ connections' = {}
      /\ state' = [c \in Conns |-> IF c \in connections THEN StateAfter(c) ELSE state[c]]
      /\ channel' = [c \in Conns |-> IF c \in connections THEN "kNew" ELSE channel[c]]
      /\ unclean' = unclean \union {c \in connections : StillEnabled(c)}
      /\ UNCHANGED <<numThreads, next, nextConnId, waiting, clients, idleFd, ioLoop, fd, peerGone,
                     phase, quit, pending, batch, ran, joining, dropped>>
  BY DEF Destroy, acceptVars
<1>2. TypeOK'
  <2>1. state \in [Conns -> States] /\ channel \in [Conns -> {"kNew", "kAdded", "kDeleted"}]
        /\ connections \subseteq Conns /\ unclean \subseteq Conns
    BY DEF IInv, TypeOK, States
  <2>2. \A c \in Conns : StateAfter(c) \in States
    BY <2>1 DEF StateAfter, States
  <2>3. state' \in [Conns -> States] /\ channel' \in [Conns -> {"kNew", "kAdded", "kDeleted"}]
        /\ unclean' \subseteq Conns
    BY <1>1, <2>1, <2>2
  <2> QED
    BY <1>1, <2>3 DEF IInv, TypeOK, States
<1>3. CountInv'
  <2>1. Accepted' = Accepted
    BY <1>1 DEF Accepted
  <2> QED
    BY <1>1, <2>1 DEF IInv, CountInv, Pool
<1>4. LoopInv'
  BY <1>1 DEF IInv, LoopInv, Accepted
<1>5. \A k \in Loops :
        /\ Held(k)' = Held(k)
        /\ \A op : Passes(k, op) /\ \A d : Coming(k, op, d)' <=> Coming(k, op, d)
  <2> SUFFICES ASSUME NEW k \in Loops
               PROVE  /\ Held(k)' = Held(k)
                      /\ \A op : Passes(k, op) /\ \A d : Coming(k, op, d)' <=> Coming(k, op, d)
    OBVIOUS
  <2>1. ToDo(k)' = ToDo(k) /\ Held(k)' = Held(k)
    BY <1>1, QueueStays
  <2> QED
    BY <2>1, StayEffect
<1>6. PlaceInv'
  BY <1>1, <1>5, PlacesKept
<1>b. ASSUME NEW d \in connections
      PROVE  /\ channel'[d] = "kNew"
             /\ \/ d \notin unclean' /\ state'[d] = "kDisconnected"
                \/ d \in unclean' /\ state'[d] = "kDisconnecting"
  <2>1. d \in Accepted /\ d \in Conns /\ ioLoop[d] = Base
    BY AcceptedConns DEF IInv, CountInv
  <2>2. ~Coming(ioLoop[d], E, d)
    BY <2>1, EstablishComes
  <2>3. d \notin dropped /\ d \notin unclean
    BY <2>1 DEF IInv, EndInv, UncleanInv, LoopInv, Destroy
  <2>4. \/ state[d] \in {"kConnected", "kDisconnecting"} /\ channel[d] = "kAdded"
        \/ state[d] = "kDisconnected" /\ channel[d] # "kAdded"
    BY <2>1, <2>2, <2>3 DEF IInv, EndInv, StateInv
  <2> QED
    BY <1>1, <2>1, <2>3, <2>4 DEF StateAfter, StillEnabled
<1>7. LifeInv'
  <2>1. ASSUME NEW d \in Accepted, NEW k \in Loops, k = ioLoop[d]
        PROVE  d \in connections' \/ Coming(k, D, d)' \/ Done(d)' \/ d \in dropped'
    <3>1. d \in connections \/ Coming(k, D, d) \/ Done(d) \/ d \in dropped
      BY <2>1 DEF IInv, LifeInv
    <3>2. d \in Conns
      BY AcceptedConns
    <3>3. d \in connections \/ Done(d) => Done(d)'
      BY <1>1, <1>b, <3>2 DEF Done
    <3> QED
      BY <1>1, <1>5, <3>1, <3>3
  <2> QED
    BY <1>1, <2>1, LifeKept
<1>8. EstablishInv'
  <2>1. ASSUME NEW d \in Accepted, NEW k \in Loops, k = ioLoop[d], Coming(k, E, d)'
        PROVE  FALSE
    <3>1. Coming(k, E, d)
      BY <1>5, <2>1
    <3> QED
      BY <2>1, <3>1, EstablishComes
  <2> QED
    BY <1>1, <1>5, <2>1, EstablishKept
<1>9. RemovalInv'
  <2>1. ASSUME NEW d \in Accepted, Coming(Base, R, d)'
        PROVE  FALSE
    <3>1. Coming(Base, R, d)
      BY <1>5, <2>1, AcceptedConns
    <3> QED
      BY <3>1, RemovalComes
  <2> QED
    BY <1>1, <1>5, <2>1, RemovalKept, AcceptedConns
<1>10. FdsInv'
  BY <1>1, <1>2, <1>5, FdsKept
<1>11. EndInv'
  <2>1. /\ Accepted' = Accepted /\ connections \subseteq Accepted /\ unclean' \subseteq Accepted
        /\ \A d \in Accepted : ioLoop[d] \in Loops /\ d \in Conns
    BY <1>1, AcceptedConns DEF Accepted, IInv, CountInv, EndInv, UncleanInv
  <2>2. \A d \in Accepted : \A k \in Loops : Coming(k, E, d)' <=> Coming(k, E, d)
    BY <1>5
  <2>3. \A d \in Accepted :
            \/ state'[d] = state[d] /\ channel'[d] = channel[d] /\ (d \in unclean' <=> d \in unclean)
            \/ d \notin unclean' /\ state'[d] = "kDisconnected" /\ channel'[d] = "kNew"
            \/ d \in unclean' /\ state'[d] = "kDisconnecting" /\ channel'[d] = "kNew"
    BY <1>1, <1>b, <2>1
  <2> QED
    BY <1>1, <2>1, <2>2, <2>3, EndKept
<1> QED
  BY <1>2, <1>3, <1>4, <1>6, <1>7, <1>8, <1>9, <1>10, <1>11 DEF IInv

\* The functors that the destructor gives to a loop are finitely many.
LEMMA DestroyedOf ==
    ASSUME IInv, NEW l \in Loops
    PROVE  LET S == {Functor("connectDestroyed", c) : c \in {d \in connections : ioLoop[d] = l}}
           IN  /\ SetToSeq(S) \in Seq(Functors)
               /\ \A i \in 1..Len(SetToSeq(S)) : \E c \in connections :
                    ioLoop[c] = l /\ SetToSeq(S)[i] = Functor("connectDestroyed", c)
               /\ \A c \in connections : ioLoop[c] = l =>
                    \E i \in 1..Len(SetToSeq(S)) : SetToSeq(S)[i] = Functor("connectDestroyed", c)
<1> DEFINE C == {d \in connections : ioLoop[d] = l}
           S == {Functor("connectDestroyed", c) : c \in C}
           f == [c \in C |-> Functor("connectDestroyed", c)]
<1>1. connections \subseteq Conns /\ C \subseteq Conns
  BY DEF IInv, TypeOK, States
<1>2. IsFiniteSet(C)
  <2>1. IsFiniteSet(Conns)
    BY BoundsAssumption, FS_Interval DEF Conns
  <2> QED
    BY <1>1, <2>1, FS_Subset
<1>3. S \subseteq Functors
  BY <1>1, FunctorParts
<1>4. IsFiniteSet(S)
  <2>1. f \in Surjection(C, S)
    BY DEF Surjection
  <2> QED
    BY <1>2, <2>1, FS_Surjection
<1>5. /\ SetToSeq(S) \in Seq(Functors)
      /\ \A i \in 1..Len(SetToSeq(S)) : SetToSeq(S)[i] \in S
      /\ \A g \in S : \E i \in 1..Len(SetToSeq(S)) : SetToSeq(S)[i] = g
  BY <1>3, <1>4, Listed
<1> QED
  BY <1>5

\* With a pool every connection's loop is told to.
LEMMA DestroyThereKeeps ==
    ASSUME IInv, Destroy, numThreads # 0
    PROVE  IInv'
<1> DEFINE E == "connectEstablished"
           R == "removeConnectionInLoop"
           D == "connectDestroyed"
           S(l) == {Functor("connectDestroyed", c) : c \in {d \in connections : ioLoop[d] = l}}
<1>1. /\ server' = "dead" /\ connections' = {}
      /\ pending' = [l \in Loops |-> pending[l] \o SetToSeq(S(l))]
      /\ UNCHANGED <<numThreads, next, nextConnId, waiting, clients, idleFd, state, channel, ioLoop, fd,
                     peerGone, phase, quit, batch, ran, joining, dropped, unclean>>
  BY DEF Destroy, acceptVars
<1>2. \A l \in Loops :
        /\ pending'[l] = pending[l] \o SetToSeq(S(l))
        /\ SetToSeq(S(l)) \in Seq(Functors)
        /\ \A i \in 1..Len(SetToSeq(S(l))) : \E c \in connections :
                ioLoop[c] = l /\ SetToSeq(S(l))[i] = Functor("connectDestroyed", c)
        /\ \A c \in connections : ioLoop[c] = l =>
                \E i \in 1..Len(SetToSeq(S(l))) : SetToSeq(S(l))[i] = Functor("connectDestroyed", c)
  <2> SUFFICES ASSUME NEW l \in Loops
               PROVE  /\ pending'[l] = pending[l] \o SetToSeq(S(l))
                      /\ SetToSeq(S(l)) \in Seq(Functors)
                      /\ \A i \in 1..Len(SetToSeq(S(l))) : \E c \in connections :
                            ioLoop[c] = l /\ SetToSeq(S(l))[i] = Functor("connectDestroyed", c)
                      /\ \A c \in connections : ioLoop[c] = l =>
                            \E i \in 1..Len(SetToSeq(S(l))) :
                                SetToSeq(S(l))[i] = Functor("connectDestroyed", c)
    OBVIOUS
  <2> QED
    BY <1>1, DestroyedOf
<1> HIDE DEF S
<1>3. ASSUME NEW l \in Loops
      PROVE  /\ pending'[l] \in Seq(Functors)
             /\ Passes(l, E) /\ Passes(l, R)
             /\ \A d : Coming(l, E, d)' => Coming(l, E, d)
             /\ \A d : Coming(l, R, d)' => Coming(l, R, d)
             /\ \A op, d : Coming(l, op, d) => Coming(l, op, d)'
             /\ \A d \in connections : ioLoop[d] = l => Coming(l, D, d)'
             /\ \A g \in Held(l)' : g \in Held(l) \/ \E c \in connections :
                    ioLoop[c] = l /\ g = Functor(D, c)
  <2>1. PICK x \in Seq(Functors) : x = SetToSeq(S(l))
    BY <1>2
  <2>2. /\ pending'[l] = pending[l] \o x /\ batch'[l] = batch[l] /\ ran'[l] = ran[l]
        /\ \A i \in 1..Len(x) : \E c \in connections : ioLoop[c] = l /\ x[i] = Functor(D, c)
        /\ \A c \in connections : ioLoop[c] = l => \E i \in 1..Len(x) : x[i] = Functor(D, c)
    BY <1>1, <1>2, <2>1
  <2>3. /\ pending'[l] \in Seq(Functors)
        /\ Len(ToDo(l)') = Len(ToDo(l)) + Len(x)
        /\ \A i \in 1..Len(ToDo(l)) : ToDo(l)'[i] = ToDo(l)[i]
        /\ \A i \in 1..Len(x) : ToDo(l)'[Len(ToDo(l)) + i] = x[i]
        /\ \A g \in Held(l)' : g \in Held(l) \/ \E i \in 1..Len(x) : g = x[i]
    BY <2>2, QueueGrows
  <2>4. Len(ToDo(l)) \in Nat /\ Len(x) \in Nat
    <3>1. ToDo(l) \in Seq(Functors)
      BY Queues
    <3> QED
      BY <3>1
  <2>5. \A i \in 1..Len(x) : x[i].op = D
    BY <2>2, FunctorParts
  <2>6. ASSUME NEW i \in 1..Len(ToDo(l)')
        PROVE  \/ i \in 1..Len(ToDo(l)) /\ ToDo(l)'[i] = ToDo(l)[i]
               \/ i > Len(ToDo(l)) /\ ToDo(l)'[i].op = D
    <3>1. CASE i \in 1..Len(ToDo(l))
      BY <2>3, <3>1
    <3>2. CASE i \notin 1..Len(ToDo(l))
      <4>1. i - Len(ToDo(l)) \in 1..Len(x) /\ i = Len(ToDo(l)) + (i - Len(ToDo(l))) /\ i > Len(ToDo(l))
        BY <2>3, <2>4, <3>2
      <4> QED
        BY <2>3, <2>5, <4>1
    <3> QED
      BY <3>1, <3>2
  <2>7. ASSUME NEW op, op # D PROVE Passes(l, op)
    <3>1. \A i \in 1..Len(ToDo(l)') : i + 0 = i
      BY <2>3, <2>4
    <3>2. \A i \in 1..Len(ToDo(l)') :
            \/ i + 0 \in 1..Len(ToDo(l)) /\ ToDo(l)'[i] = ToDo(l)[i + 0]
            \/ i + 0 > Len(ToDo(l)) /\ ToDo(l)'[i].op # op
      BY <2>6, <2>7, <3>1
    <3> QED
      BY <3>2 DEF Passes
  <2>8. Passes(l, E) /\ Passes(l, R)
    BY <2>7
  <2>9. /\ \A d : Coming(l, E, d)' => Coming(l, E, d)
        /\ \A d : Coming(l, R, d)' => Coming(l, R, d)
    BY <2>8, PassesBack
  <2>10. \A op, d : Coming(l, op, d) => Coming(l, op, d)'
    <3>1. \A i \in 1..Len(ToDo(l)) : i \in 1..Len(ToDo(l)')
      BY <2>3, <2>4
    <3> QED
      BY <2>3, <3>1 DEF Coming
  <2>11. ASSUME NEW d \in connections, ioLoop[d] = l PROVE Coming(l, D, d)'
    <3>1. PICK i \in 1..Len(x) : x[i] = Functor(D, d)
      BY <2>2, <2>11
    <3>2. Len(ToDo(l)) + i \in 1..Len(ToDo(l)')
      BY <2>3, <2>4
    <3>3. ToDo(l)'[Len(ToDo(l)) + i] = Functor(D, d)
      BY <2>3, <3>1
    <3> QED
      BY <3>2, <3>3 DEF Coming
  <2>12. \A g \in Held(l)' : g \in Held(l) \/ \E c \in connections : ioLoop[c] = l /\ g = Functor(D, c)
    <3> SUFFICES ASSUME NEW g \in Held(l)', g \notin Held(l)
                 PROVE  \E c \in connections : ioLoop[c] = l /\ g = Functor(D, c)
      OBVIOUS
    <3>1. PICK i \in 1..Len(x) : g = x[i]
      BY <2>3
    <3>2. PICK c \in connections : ioLoop[c] = l /\ x[i] = Functor(D, c)
      BY <2>2
    <3> QED
      BY <3>1, <3>2
  <2> QED
    BY <2>3, <2>8, <2>9, <2>10, <2>11, <2>12
<1>4. TypeOK'
  <2>1. pending' \in [Loops -> Seq(Functors)]
    BY <1>1, <1>3
  <2> QED
    BY <1>1, <2>1 DEF IInv, TypeOK, States
<1>5. CountInv'
  <2>1. Accepted' = Accepted
    BY <1>1 DEF Accepted
  <2> QED
    BY <1>1, <2>1 DEF IInv, CountInv, Pool
<1>6. LoopInv'
  <2>1. \A k \in Loops : phase'[k] # "batch" => batch'[k] = <<>> /\ ran'[k] = 0
    BY <1>1 DEF IInv, LoopInv
  <2> QED
    BY <1>1, <2>1 DEF IInv, LoopInv, Accepted
<1>7. connections \subseteq Accepted
  BY DEF IInv, CountInv
<1>8. PlaceInv'
  <2>1. \A l \in Loops : \A g \in Held(l)' :
            \/ g \in Held(l)
            \/ g.conn \in Accepted /\ l = IF g.op = R THEN Base ELSE ioLoop[g.conn]
    BY <1>3, <1>7, FunctorParts
  <2> QED
    BY <1>1, <2>1, PlacesKept
<1>9. LifeInv'
  <2>1. ASSUME NEW d \in Accepted, NEW k \in Loops, k = ioLoop[d]
        PROVE  d \in connections' \/ Coming(k, D, d)' \/ Done(d)' \/ d \in dropped'
    <3>1. d \in connections \/ Coming(k, D, d) \/ Done(d) \/ d \in dropped
      BY <2>1 DEF IInv, LifeInv
    <3>2. Done(d)' <=> Done(d)
      BY <1>1 DEF Done
    <3> QED
      BY <1>1, <1>3, <2>1, <3>1, <3>2
  <2> QED
    BY <1>1, <2>1, LifeKept
<1>10. EstablishInv'
  <2>1. ASSUME NEW d \in Accepted, NEW k \in Loops, k = ioLoop[d], Coming(k, E, d)'
        PROVE  ~Coming(Base, R, d)'
    <3>1. Coming(k, E, d)
      BY <1>3, <2>1
    <3>2. ~Coming(Base, R, d)
      BY <2>1, <3>1, EstablishComes
    <3> QED
      BY <1>3, <3>2, AcceptedConns
  <2> QED
    BY <1>1, <1>3, <2>1, EstablishKept
<1>11. RemovalInv'
  <2>1. ASSUME NEW d \in Accepted, Coming(Base, R, d)'
        PROVE  channel'[d] # "kAdded" /\ (server' = "started" => d \in connections')
    <3>1. Coming(Base, R, d)
      BY <1>3, <2>1, AcceptedConns
    <3> QED
      BY <1>1, <3>1, RemovalComes
  <2> QED
    BY <1>1, <1>3, <2>1, RemovalKept, AcceptedConns
<1>12. FdsInv'
  <2>1. \A l \in Loops : \A g \in Held(l)' : g \in Held(l) \/ Referenced(g.conn)
    BY <1>3, FunctorParts DEF Referenced
  <2> QED
    BY <1>1, <1>4, <2>1, FdsKept
<1>13. EndInv'
  <2>1. /\ Accepted' = Accepted /\ unclean \subseteq Accepted /\ \A d \in Accepted : ioLoop[d] \in Loops
    BY <1>1, AcceptedConns DEF Accepted, IInv, EndInv, UncleanInv
  <2>2. \A d \in Accepted : \A k \in Loops : Coming(k, E, d) => Coming(k, E, d)'
    BY <1>3
  <2> QED
    BY <1>1, <2>1, <2>2, EndKept
<1> QED
  BY <1>4, <1>5, <1>6, <1>8, <1>9, <1>10, <1>11, <1>12, <1>13 DEF IInv

\* The base loop's destructor: what it drops are removals.
LEMMA DestroyBaseKeeps ==
    ASSUME IInv, DestroyBase
    PROVE  IInv'
<1> DEFINE E == "connectEstablished"
           R == "removeConnectionInLoop"
           D == "connectDestroyed"
<1>1. /\ server = "dead" /\ phase[Base] = "exited" /\ pending[Base] # <<>>
      /\ pending' = [pending EXCEPT ![Base] = <<>>]
      /\ UNCHANGED <<server, numThreads, next, nextConnId, connections, waiting, clients, idleFd, state,
                     channel, ioLoop, fd, peerGone, phase, quit, batch, ran, joining, dropped, unclean>>
  BY DEF DestroyBase, serverVars, acceptVars, connVars, histVars
<1>2. numThreads # 0 /\ batch[Base] = <<>> /\ ran[Base] = 0 /\ Base \in Loops
  BY <1>1, AcceptedConns DEF IInv, LoopInv
<1>3. pending'[Base] = <<>> /\ \A k \in Loops \ {Base} : pending'[k] = pending[k]
  BY <1>1, <1>2 DEF IInv, TypeOK, States
<1>4. TypeOK'
  <2>1. <<>> \in Seq(Functors)
    OBVIOUS
  <2>2. pending' \in [Loops -> Seq(Functors)]
    BY <1>1, <2>1 DEF IInv, TypeOK, States
  <2> QED
    BY <1>1, <2>2 DEF IInv, TypeOK, States
<1>5. CountInv' /\ LoopInv'
  BY <1>1, <1>2 DEF IInv, CountInv, LoopInv, Accepted, Pool
<1>6. /\ \A op : Passes(Base, op) /\ \A d : ~Coming(Base, op, d)'
      /\ Held(Base)' = {}
  <2>1. Len(<<>>) = 0
    OBVIOUS
  <2>2. ran[Base] = Len(batch[Base]) /\ batch'[Base] = <<>> /\ ran'[Base] = 0 /\ pending'[Base] = <<>>
    BY <1>1, <1>2, <1>3, <2>1
  <2> QED
    BY <1>2, <2>2, DropEffect
<1>7. \A k \in Loops \ {Base} :
        /\ Held(k)' = Held(k)
        /\ \A op : Passes(k, op) /\ \A d : Coming(k, op, d)' <=> Coming(k, op, d)
  <2> SUFFICES ASSUME NEW k \in Loops \ {Base}
               PROVE  /\ Held(k)' = Held(k)
                      /\ \A op : Passes(k, op) /\ \A d : Coming(k, op, d)' <=> Coming(k, op, d)
    OBVIOUS
  <2>1. ToDo(k)' = ToDo(k) /\ Held(k)' = Held(k)
    BY <1>1, <1>3, QueueStays
  <2> QED
    BY <2>1, StayEffect
<1>8. \A d \in Accepted : ioLoop[d] \in Loops \ {Base}
  BY <1>2, AcceptedConns DEF IInv, CountInv, Pool, Base
<1>9. PlaceInv'
  BY <1>1, <1>6, <1>7, PlacesKept
<1>10. LifeInv'
  <2>1. ASSUME NEW d \in Accepted, NEW k \in Loops, k = ioLoop[d]
        PROVE  d \in connections' \/ Coming(k, D, d)' \/ Done(d)' \/ d \in dropped'
    <3>1. d \in connections \/ Coming(k, D, d) \/ Done(d) \/ d \in dropped
      BY <2>1 DEF IInv, LifeInv
    <3>2. Done(d)' <=> Done(d)
      BY <1>1 DEF Done
    <3> QED
      BY <1>1, <1>7, <1>8, <2>1, <3>1, <3>2
  <2> QED
    BY <1>1, <2>1, LifeKept
<1>11. EstablishInv'
  <2>1. \A k \in Loops : Passes(k, E)
    BY <1>6, <1>7
  <2> QED
    BY <1>1, <1>6, <2>1, EstablishKept
<1>12. RemovalInv'
  BY <1>1, <1>6, RemovalKept
<1>13. FdsInv'
  BY <1>1, <1>4, <1>6, <1>7, FdsKept
<1>14. EndInv'
  <2>1. /\ Accepted' = Accepted /\ unclean \subseteq Accepted
    BY <1>1 DEF Accepted, IInv, EndInv, UncleanInv
  <2> QED
    BY <1>1, <1>7, <1>8, <2>1, EndKept
<1> QED
  BY <1>4, <1>5, <1>9, <1>10, <1>11, <1>12, <1>13, <1>14 DEF IInv

-----------------------------------------------------------------------------
(* The theorems.                                                           *)

LEMMA InitIInv ==
    Init => IInv
<1> SUFFICES ASSUME Init PROVE IInv
  OBVIOUS
<1>1. /\ server = "new" /\ numThreads = 0 /\ next = 0 /\ nextConnId = 1
      /\ connections = {} /\ waiting = 0 /\ clients = 0
      /\ idleFd = CHOOSE f \in Fds : \A g \in Fds : f <= g
      /\ state = [c \in Conns |-> "none"] /\ channel = [c \in Conns |-> "kNew"]
      /\ ioLoop = [c \in Conns |-> Base] /\ fd = [c \in Conns |-> idleFd]
      /\ peerGone = {} /\ dropped = {} /\ unclean = {} /\ joining = 0
      /\ phase = [l \in Loops |-> IF l = Base THEN "poll" ELSE "starting"]
      /\ quit = [l \in Loops |-> FALSE]
      /\ pending = [l \in Loops |-> <<>>] /\ batch = [l \in Loops |-> <<>>]
      /\ ran = [l \in Loops |-> 0]
  BY DEF Init
<1>2. Accepted = {}
  BY <1>1 DEF Accepted
<1>3. idleFd \in Fds
  <2>1. \E f \in Fds : \A g \in Fds : f <= g
    BY FdsAssumption, LowestFd
  <2> QED
    BY <1>1, <2>1
<1>4. MaxThreads \in Nat /\ MaxClients \in Nat
  BY BoundsAssumption
<1>5. Base \in Loops /\ 0 \in Loops
  BY <1>4 DEF Base, Loops
<1>6. <<>> \in Seq(Functors) /\ Len(<<>>) = 0
  OBVIOUS
<1>7. TypeOK
  <2>1. /\ numThreads \in 0..MaxThreads /\ next \in Loops /\ nextConnId \in 1..(MaxClients + 1)
        /\ waiting \in 0..MaxClients /\ clients \in 0..MaxClients
    BY <1>1, <1>4, <1>5
  <2>2. /\ pending \in [Loops -> Seq(Functors)] /\ batch \in [Loops -> Seq(Functors)]
        /\ ran \in [Loops -> Nat] /\ \A l \in Loops : ran[l] <= Len(batch[l])
    BY <1>1, <1>6
  <2> QED
    BY <1>1, <1>3, <1>5, <2>1, <2>2 DEF TypeOK, States
<1>8. CountInv
  BY <1>1, <1>2 DEF CountInv
<1>9. LoopInv
  BY <1>1, <1>2, <1>5 DEF LoopInv
<1>10. \A l \in Loops : Held(l) = {}
  <2> SUFFICES ASSUME NEW l \in Loops PROVE Held(l) = {}
    OBVIOUS
  <2>1. Len(pending[l]) = 0 /\ Len(batch[l]) = 0
    BY <1>1, <1>6
  <2> QED
    BY <2>1 DEF Held
<1>11. PlaceInv /\ LifeInv /\ EstablishInv /\ RemovalInv
  BY <1>2, <1>10 DEF PlaceInv, LifeInv, EstablishInv, RemovalInv
<1>12. FdsInv
  <2>1. \A c : ~Referenced(c)
    BY <1>1 DEF Referenced, Holds
  <2> QED
    BY <2>1 DEF FdsInv
<1>13. EndInv
  BY <1>1, <1>2 DEF EndInv, StateInv, UncleanInv, LeavingInv
<1> QED
  BY <1>7, <1>8, <1>9, <1>11, <1>12, <1>13 DEF IInv

LEMMA StepIInv ==
    IInv /\ [Next]_vars => IInv'
<1> SUFFICES ASSUME IInv, [Next]_vars PROVE IInv'
  OBVIOUS
<1>1. CASE OwnerStep
  <2>1. CASE DestroyBase
    BY <2>1, DestroyBaseKeeps
  <2>2. CASE \E l \in Pool : QuitLoop(l)
    <3>1. PICK l \in Pool : QuitLoop(l)
      BY <2>2
    <3>2. l \in Loops
      BY BoundsAssumption DEF Pool, Loops, IInv, TypeOK
    <3> QED
      BY <3>1, <3>2, QuitKeeps DEF QuitLoop, loopVars
  <2> QED
    BY <1>1, <2>1, <2>2 DEF OwnerStep
<1>2. CASE Start
  BY <1>2, StartKeeps
<1>3. CASE QuitBase
  <2>1. joining \in Loops
    BY DEF IInv, TypeOK
  <2> QED
    BY <1>3, <2>1, QuitKeeps, AcceptedConns DEF QuitBase
<1>4. CASE Destroy
  BY <1>4, DestroyHereKeeps, DestroyThereKeeps
<1>5. CASE Connect \/ TurnAway \/ \E c \in Conns : PeerCloses(c)
  BY <1>5, ClientKeeps
<1>6. CASE Accept
  BY <1>6, AcceptHereKeeps, AcceptThereKeeps
<1>7. ASSUME NEW l \in Loops, LoopStep(l) PROVE IInv'
  <2>1. CASE SwapFunctors(l)
    BY <2>1, SwapKeeps
  <2>2. CASE RunFunctor(l)
    <3>1. \/ batch[l][ran[l] + 1].op = "connectEstablished"
          \/ batch[l][ran[l] + 1].op = "removeConnectionInLoop"
          \/ batch[l][ran[l] + 1].op = "connectDestroyed"
      BY <2>2 DEF RunFunctor
    <3> QED
      BY <2>2, <3>1, RunEstablishedKeeps, RunRemovalKeeps, RunDestroyedKeeps
  <2>3. CASE EndFunctors(l)
    <3>1. quit[l] \in BOOLEAN
      BY DEF IInv, TypeOK, States
    <3> QED
      BY <2>3, <3>1, EndKeeps, EndDropKeeps
  <2>4. CASE \E c \in Conns : ioLoop[c] = l /\ HandleClose(c)
    BY <2>4, CloseHereKeeps, CloseThereKeeps
  <2>5. CASE LoopBegins(l)
    BY <2>5, BeginKeeps
  <2> QED
    BY <1>7, <2>1, <2>2, <2>3, <2>4, <2>5 DEF LoopStep
<1>8. CASE UNCHANGED vars
  <2>1. /\ UNCHANGED <<server, numThreads, next, nextConnId, connections, waiting, clients, idleFd, state>>
        /\ UNCHANGED <<channel, ioLoop, fd, peerGone, phase, quit, pending, batch, ran, joining, dropped, unclean>>
    BY <1>8 DEF vars, serverVars, acceptVars, connVars, loopVars, histVars
  <2>2. TypeOK'
    BY <2>1 DEF IInv, TypeOK, States
  <2>3. CountInv' /\ LoopInv'
    BY <2>1 DEF IInv, CountInv, LoopInv, Accepted, Pool
  <2>4. \A l \in Loops : ToDo(l)' = ToDo(l) /\ Held(l)' = Held(l)
    BY <2>1, QueueStays
  <2> QED
    BY <2>1, <2>2, <2>3, <2>4, Quiet
<1>9. CASE \E c \in Conns : Shutdown(c)
  BY <1>9, ShutdownKeeps
<1> QED
  BY <1>1, <1>2, <1>3, <1>4, <1>5, <1>6, <1>7, <1>8, <1>9 DEF Next, BaseAccepts

\* The inductive invariant: what every functor in a queue says about its connection.
THEOREM Invariance ==
    Spec => []IInv
<1> QED
  BY InitIInv, StepIInv, PTL DEF Spec

\* A removal that is on its way is on its way once, and its connection is in the map.
LEMMA RemovalsFound ==
    IInv => RemoveFindsConnection
<1> DEFINE R == "removeConnectionInLoop"
           coming == pending[Base] \o batch[Base]
           removals(c) == {i \in DOMAIN coming :
                /\ coming[i] = Functor(R, c)
                /\ i <= Len(pending[Base]) \/ i > Len(pending[Base]) + ran[Base]}
<1> SUFFICES ASSUME IInv, server = "started", NEW c \in Conns
             PROVE  Cardinality(removals(c)) <= 1 /\ (removals(c) # {} => c \in connections)
  BY Zenon DEF RemoveFindsConnection
<1>0. PICK p, b \in Seq(Functors) : p = pending[Base] /\ b = batch[Base]
  BY AcceptedConns, Queues
<1>1. PICK r \in 0..Len(b) : r = ran[Base]
  BY <1>0, AcceptedConns, Queues
<1>2. /\ p \o b \in Seq(Functors) /\ Len(p \o b) = Len(p) + Len(b)
      /\ \A i \in 1..Len(p) : (p \o b)[i] = p[i]
      /\ \A i \in 1..Len(b) : (p \o b)[Len(p) + i] = b[i]
  <2>1. p \o b \in Seq(Functors) /\ Len(p \o b) = Len(p) + Len(b)
    BY ConcatProperties
  <2> QED
    BY <2>1
<1>3. ToDo(Base) = Left(p, b, r)
  BY <1>0, <1>1 DEF ToDo
<1>4. /\ Len(ToDo(Base)) = (Len(b) - r) + Len(p)
      /\ \A i \in 1..(Len(b) - r) : ToDo(Base)[i] = b[i + r]
      /\ \A i \in 1..Len(p) : ToDo(Base)[(Len(b) - r) + i] = p[i]
  <2>1. /\ Len(Left(p, b, r)) = (Len(b) - r) + Len(p)
        /\ \A i \in 1..(Len(b) - r) : Left(p, b, r)[i] = b[i + r]
        /\ \A i \in 1..Len(p) : Left(p, b, r)[(Len(b) - r) + i] = p[i]
    BY LeftIs
  <2> QED
    BY <1>3, <2>1, Zenon
\* The position in the loop's queue of what is at position i of the two vectors.
<1> DEFINE place(i) == IF i <= Len(p) THEN (Len(b) - r) + i ELSE i - Len(p) - r
<1>5. ASSUME NEW i \in removals(c)
      PROVE  /\ i \in Nat
             /\ place(i) \in 1..Len(ToDo(Base)) /\ ToDo(Base)[place(i)] = Functor(R, c)
             /\ i <= Len(p) \/ i > Len(p) + r
             /\ i <= Len(p) + Len(b)
  <2>1. i \in 1..(Len(p) + Len(b)) /\ (p \o b)[i] = Functor(R, c)
        /\ (i <= Len(p) \/ i > Len(p) + r)
    <3>1. DOMAIN (p \o b) = 1..(Len(p) + Len(b))
      BY <1>2
    <3>2. coming = p \o b /\ pending[Base] = p /\ ran[Base] = r
      BY <1>0, <1>1
    <3>3. i \in DOMAIN coming /\ coming[i] = Functor(R, c)
          /\ (i <= Len(pending[Base]) \/ i > Len(pending[Base]) + ran[Base])
      OBVIOUS
    <3> HIDE DEF coming
    <3> QED
      BY <3>1, <3>2, <3>3
  <2>2. Len(p) \in Nat /\ Len(b) \in Nat /\ r \in Nat /\ r <= Len(b)
    OBVIOUS
  <2>3. CASE i <= Len(p)
    <3>1. i \in 1..Len(p) /\ (Len(b) - r) + i \in 1..((Len(b) - r) + Len(p))
      BY <2>1, <2>2, <2>3
    <3> QED
      BY <1>2, <1>4, <2>1, <2>3, <3>1
  <2>4. CASE i > Len(p) + r
    <3>1. /\ i - Len(p) \in 1..Len(b) /\ i = Len(p) + (i - Len(p))
          /\ i - Len(p) - r \in 1..(Len(b) - r) /\ (i - Len(p) - r) + r = i - Len(p)
          /\ ~(i <= Len(p)) /\ i - Len(p) - r \in 1..((Len(b) - r) + Len(p))
      BY <2>1, <2>2, <2>4
    <3>2. (p \o b)[i] = b[i - Len(p)]
      BY <1>2, <3>1
    <3>3. ToDo(Base)[i - Len(p) - r] = b[i - Len(p)]
      BY <1>4, <3>1
    <3>4. place(i) = i - Len(p) - r
      BY <3>1
    <3>5. place(i) \in 1..Len(ToDo(Base)) /\ ToDo(Base)[place(i)] = Functor(R, c)
      BY <1>4, <2>1, <3>1, <3>2, <3>3, <3>4
    <3> HIDE DEF place
    <3> QED
      BY <2>1, <2>2, <3>5
  <2> QED
    BY <2>1, <2>3, <2>4
<1> HIDE DEF removals
<1>6. ASSUME NEW i \in removals(c) PROVE c \in Accepted /\ Coming(Base, R, c)
  <2>1. ToDo(Base)[place(i)] \in Held(Base) /\ ToDo(Base)[place(i)] = Functor(R, c)
    BY <1>5, Queues, AcceptedConns
  <2>2. Functor(R, c) \in Held(Base)
    BY <2>1
  <2>3. c \in Accepted
    BY <2>2, AcceptedConns, FunctorParts DEF IInv, PlaceInv
  <2> QED
    BY <1>5, <2>3 DEF Coming
<1>7. removals(c) # {} => c \in connections
  BY <1>6, RemovalComes
<1>8. ASSUME NEW i \in removals(c), NEW j \in removals(c) PROVE i = j
  <2>1. place(i) = place(j)
    <3>1. c \in Accepted
      BY <1>6
    <3>2. /\ place(i) \in 1..Len(ToDo(Base)) /\ ToDo(Base)[place(i)] = Functor(R, c)
          /\ place(j) \in 1..Len(ToDo(Base)) /\ ToDo(Base)[place(j)] = Functor(R, c)
      BY <1>5
    <3> HIDE DEF place
    <3> QED
      BY <3>1, <3>2 DEF IInv, RemovalInv
  <2>2. /\ i \in Nat /\ j \in Nat /\ i <= Len(p) + Len(b) /\ j <= Len(p) + Len(b)
        /\ i <= Len(p) \/ i > Len(p) + r
        /\ j <= Len(p) \/ j > Len(p) + r
    BY <1>5
  <2>3. i >= 1 /\ j >= 1
    BY <1>2 DEF removals
  <2>4. Len(p) \in Nat /\ Len(b) \in Nat /\ r \in Nat /\ r <= Len(b)
    OBVIOUS
  <2> QED
    BY <2>1, <2>2, <2>3, <2>4
<1>9. Cardinality(removals(c)) <= 1
  <2>1. CASE removals(c) = {}
    BY <2>1, FS_EmptySet
  <2>2. CASE removals(c) # {}
    <3>1. PICK i : removals(c) = {i}
      BY <1>8, <2>2
    <3>2. Cardinality({i}) = 1
      BY FS_Singleton
    <3> QED
      BY <3>1, <3>2
  <2> QED
    BY <2>1, <2>2
<1> QED
  BY <1>7, <1>9

\* Each connection is removed once and found; a running poller knows only descriptors
\* that are open and one connection's; and ~TcpConnection() finds its state as it asserts.
THEOREM ConnectionsStaySafe ==
    Spec => []ConnectionsSafe
<1>1. IInv => NoDanglingChannel
  BY KnownIsReferenced DEF IInv, FdsInv, NoDanglingChannel
<1>2. IInv => FreedAfterDestroyed
  <2> SUFFICES ASSUME IInv, NEW c \in Accepted, ~Referenced(c)
               PROVE  Done(c) \/ c \in dropped
    BY Zenon DEF FreedAfterDestroyed, Accepted, Done
  <2>1. ~Coming(ioLoop[c], "connectDestroyed", c)
    <3> SUFFICES ASSUME Coming(ioLoop[c], "connectDestroyed", c) PROVE FALSE
      OBVIOUS
    <3>1. PICK l \in Loops : l = ioLoop[c]
      BY AcceptedConns
    <3>2. PICK i \in 1..Len(ToDo(l)) : ToDo(l)[i] = Functor("connectDestroyed", c)
      BY <3>1 DEF Coming
    <3>3. ToDo(l)[i] \in Held(l) /\ ToDo(l)[i].conn = c
      BY <3>2, Queues, FunctorParts
    <3> QED
      BY <3>3, References
  <2>2. c \notin connections
    BY DEF Referenced
  <2> QED
    BY <2>1, <2>2 DEF IInv, LifeInv
<1>3. IInv => RemovedDisabled
  BY DEF IInv, EndInv, UncleanInv, RemovedDisabled
<1>4. IInv => ConnectionsSafe
  BY <1>1, <1>2, <1>3, RemovalsFound DEF IInv, ConnectionsSafe
<1> QED
  BY <1>4, Invariance, PTL

=============================================================================
