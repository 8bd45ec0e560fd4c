-------------------------- MODULE EventSourcesProofs --------------------------
(***************************************************************************)
(* Theorems of what an EventLoop waits for, its timers and its channels.   *)
(* TimerQueue, for every set of addresses and threads, every delay and     *)
(* every bound: the two sets, the heap and what points into it agree,      *)
(* timerfd_ is armed for the earliest timer, a cancelled timer does not    *)
(* run and no other timer is lost.  DefaultPoller, for every set of        *)
(* channels, descriptors and events: the books of either poller agree with *)
(* what the channels ask for, and either keeps the promise of Poller.      *)
(***************************************************************************)
EXTENDS TimerQueue, DefaultPoller, FunctionTheorems, FiniteSetTheorems, WellFoundedInduction,
        SequenceTheorems, TLAPS

-----------------------------------------------------------------------------
(* The timer queue.                                                        *)

\* Addresses in a set of entries.
At(S) == {e[2] : e \in S}

\* The batch of handleRead() is apart from the timers, is not deleted before reset(),
\* and what of it is not to run any more ran, or is to be restarted.
BatchInv ==
    /\ ~calling => expired = {}
    /\ \A e \in expired : heap[e[2]] # Free /\ e[1] = heap[e[2]].expiration
    /\ At(expired) \cap At(timers) = {}
    /\ \A e \in expired : \/ e \in toRun
                          \/ heap[e[2]].interval > 0
                          \/ heap[e[2]].seq \in ran
    /\ IsFiniteSet(timers) /\ IsFiniteSet(expired)

\* Each queued addTimerInLoop() has a timer of its own, in no set and not cancelled.
PendingInv ==
    \A i \in 1..Len(functors) : functors[i].op = "add" =>
        /\ heap[functors[i].id[1]].seq = functors[i].id[2]
        /\ functors[i].id[1] \notin At(timers) \union At(expired)
        /\ functors[i].id \notin cancelled
        /\ \A j \in 1..Len(functors) : functors[j] = functors[i] => j = i

\* No sequence number is used before its time.
SeqsInv ==
    /\ \A a \in Addrs : heap[a].seq <= numCreated
    /\ \A id \in issued \union cancelled : id[2] <= numCreated
    /\ \A i \in 1..Len(functors) : functors[i].id[2] <= numCreated
    /\ \A t \in Threads : call[t][2] <= numCreated

\* A cancelled timer is not active, and it is those that reset() will not restart.
CancelInv ==
    /\ activeTimers \cap cancelled = {}
    /\ \A e \in expired : Sequenced(e) \in cancelled <=> Sequenced(e) \in cancelingTimers

IInv ==
    /\ TypeOK /\ SetsAgree /\ BatchInv /\ PendingInv /\ SeqsInv /\ CancelInv
    /\ NoTimerLost /\ AlarmCoversEarliest

-----------------------------------------------------------------------------
(* The order of the entries.                                               *)

\* The entries of the timers that reset() restarts are finitely many.
LEMMA RestartedFinite ==
    ASSUME NEW S, IsFiniteSet(S), NEW when
    PROVE  IsFiniteSet({<<when, e[2]>> : e \in S})
<1> DEFINE T == {<<when, e[2]>> : e \in S}
           f == [e \in S |-> <<when, e[2]>>]
<1>1. f \in Surjection(S, T)
  BY DEF Surjection
<1> QED
  BY <1>1, FS_Surjection

\* begin() of a std::set that is not empty: an entry, and no other is before it.
LEMMA EarliestIsFirst ==
    ASSUME NEW S \in SUBSET (Times \X Addrs), IsFiniteSet(S), S # {}
    PROVE  Earliest(S) \in S /\ \A f \in S : Earliest(S)[1] <= f[1]
<1> DEFINE Preds(e) == {f \in S : Before(f, e)}
           T == {Preds(e) : e \in S}
           R == StrictSubsetOrdering(S)
<1>1. \A e \in S : e[1] \in Int /\ e[2] \in Int /\ e = <<e[1], e[2]>>
  <2> SUFFICES ASSUME NEW e \in S PROVE e[1] \in Int /\ e[2] \in Int /\ e = <<e[1], e[2]>>
    OBVIOUS
  <2>1. e \in Int \X Addrs
    BY DEF Times
  <2>2. e[1] \in Int /\ e[2] \in Addrs /\ e = <<e[1], e[2]>>
    BY <2>1
  <2>3. \A a \in Addrs : a \in Int
    BY AddrsAssumption
  <2> QED
    BY <2>2, <2>3
<1>2. PICK m \in T : \A y \in T : <<y, m>> \notin R
  <2>1. IsWellFoundedOn(R, SUBSET S)
    <3>1. IsWellFoundedOn(StrictSubsetOrdering(S), FiniteSubsetsOf(S))
      BY FS_StrictSubsetOrderingWellFounded
    <3>2. FiniteSubsetsOf(S) = SUBSET S
      BY FS_FiniteSubsetsOfFinite
    <3> QED
      BY <3>1, <3>2
  <2>2. T \subseteq SUBSET S /\ T # {}
    OBVIOUS
  <2> HIDE DEF T, R
  <2> QED
    BY <2>1, <2>2, WFMin
<1>3. PICK e \in S : m = Preds(e)
  BY <1>2
<1>4. \A f \in S : ~Before(f, e)
  <2> SUFFICES ASSUME NEW f \in S, Before(f, e) PROVE FALSE
    OBVIOUS
  <2>1. Preds(f) \subseteq Preds(e)
    BY <1>1 DEF Before
  <2>2. f \in Preds(e) /\ f \notin Preds(f)
    BY <1>1 DEF Before
  <2>3. <<Preds(f), Preds(e)>> \in R
    BY <2>1, <2>2 DEF StrictSubsetOrdering
  <2> QED
    BY <1>2, <1>3, <2>3
<1>5. \A f \in S \ {e} : Before(e, f)
  BY <1>1, <1>4 DEF Before
<1>6. Earliest(S) \in S /\ \A f \in S \ {Earliest(S)} : Before(Earliest(S), f)
  BY <1>5 DEF Earliest
<1> QED
  BY <1>1, <1>6 DEF Before

-----------------------------------------------------------------------------
(* What the invariant says of one state, in the form the steps use.        *)

\* The object at an address is free or a timer with a sequence number that was given.
LEMMA Objects ==
    ASSUME IInv
    PROVE  /\ numCreated \in Nat /\ MaxTimers \in Nat /\ numCreated <= MaxTimers
           /\ \A a \in Addrs : /\ heap[a] \in TimerObjects \union {Free}
                               /\ heap[a].seq \in Nat /\ heap[a].seq <= numCreated
                               /\ heap[a] # Free => heap[a] \in TimerObjects /\ heap[a].seq \in Seqs
                               /\ heap[a] = Free => heap[a].seq = 0
<1>1. numCreated \in Nat /\ MaxTimers \in Nat /\ numCreated <= MaxTimers
  BY BoundsAssumption DEF IInv, TypeOK
<1>2. ASSUME NEW a \in Addrs
      PROVE  /\ heap[a] \in TimerObjects \union {Free}
             /\ heap[a].seq \in Nat /\ heap[a].seq <= numCreated
             /\ heap[a] # Free => heap[a] \in TimerObjects /\ heap[a].seq \in Seqs
             /\ heap[a] = Free => heap[a].seq = 0
  <2>1. heap[a] \in TimerObjects \union {Free}
    BY DEF IInv, TypeOK
  <2>2. heap[a] = Free => heap[a].seq = 0
    BY DEF Free
  <2>3. heap[a] # Free => heap[a] \in TimerObjects /\ heap[a].seq \in Seqs
    BY <2>1 DEF TimerObjects
  <2>4. heap[a].seq <= numCreated
    BY DEF IInv, SeqsInv
  <2> QED
    BY <1>1, <2>1, <2>2, <2>3, <2>4 DEF Seqs
<1> QED
  BY <1>1, <1>2

\* An entry of the timers or of the batch is that of a timer; activeTimers_ holds the
\* timers under their addresses and sequence numbers.
LEMMA Entries ==
    ASSUME IInv
    PROVE  /\ \A e \in timers \union expired :
                /\ e[1] \in Int /\ e[2] \in Addrs /\ e = <<e[1], e[2]>>
                /\ heap[e[2]] \in TimerObjects /\ heap[e[2]] # Free
                /\ e[1] = heap[e[2]].expiration
                /\ Sequenced(e) \in Pairs
           /\ \A id \in Pairs : id \in activeTimers <=> /\ <<heap[id[1]].expiration, id[1]>> \in timers
                                                        /\ heap[id[1]].seq = id[2]
<1>1. ASSUME NEW e \in timers \union expired
      PROVE  /\ e[1] \in Int /\ e[2] \in Addrs /\ e = <<e[1], e[2]>>
             /\ heap[e[2]] \in TimerObjects /\ heap[e[2]] # Free
             /\ e[1] = heap[e[2]].expiration
             /\ Sequenced(e) \in Pairs
  <2>1. e \in Times \X Addrs
    BY DEF IInv, TypeOK
  <2>2. e[1] \in Int /\ e[2] \in Addrs /\ e = <<e[1], e[2]>>
    BY <2>1 DEF Times
  <2>3. heap[e[2]] # Free /\ e[1] = heap[e[2]].expiration
    BY DEF IInv, SetsAgree, BatchInv
  <2> QED
    BY <2>2, <2>3, Objects DEF Sequenced, Pairs
<1>2. ASSUME NEW id \in Pairs
      PROVE  id \in activeTimers <=> /\ <<heap[id[1]].expiration, id[1]>> \in timers
                                     /\ heap[id[1]].seq = id[2]
  <2>1. id[1] \in Addrs /\ id = <<id[1], id[2]>>
    BY DEF Pairs
  <2>2. activeTimers = {Sequenced(e) : e \in timers}
    BY DEF IInv, SetsAgree
  <2>3. ASSUME id \in activeTimers
        PROVE  <<heap[id[1]].expiration, id[1]>> \in timers /\ heap[id[1]].seq = id[2]
    <3>1. PICK e \in timers : id = <<e[2], heap[e[2]].seq>>
      BY <2>2, <2>3 DEF Sequenced
    <3> QED
      BY <1>1, <3>1
  <2>4. ASSUME <<heap[id[1]].expiration, id[1]>> \in timers, heap[id[1]].seq = id[2]
        PROVE  id \in activeTimers
    <3>1. Sequenced(<<heap[id[1]].expiration, id[1]>>) = id
      BY <2>1, <2>4 DEF Sequenced
    <3> QED
      BY <2>2, <2>4, <3>1
  <2> QED
    BY <2>3, <2>4
<1> QED
  BY <1>1, <1>2

\* A queued functor is an add or a cancel of an address and a sequence number.
LEMMA Queued ==
    ASSUME IInv
    PROVE  /\ Len(functors) \in Nat /\ DOMAIN functors = 1..Len(functors)
           /\ \A i \in 1..Len(functors) :
                /\ functors[i] = [op |-> functors[i].op, id |-> functors[i].id]
                /\ functors[i].op \in {"add", "cancel"} /\ functors[i].id \in Pairs
                /\ functors[i].id[1] \in Addrs /\ functors[i].id[2] \in Seqs
                /\ functors[i].id = <<functors[i].id[1], functors[i].id[2]>>
<1>1. functors \in Seq([op : {"add", "cancel"}, id : Pairs])
  BY DEF IInv, TypeOK
<1>2. ASSUME NEW i \in 1..Len(functors)
      PROVE  /\ functors[i] = [op |-> functors[i].op, id |-> functors[i].id]
             /\ functors[i].op \in {"add", "cancel"} /\ functors[i].id \in Pairs
             /\ functors[i].id[1] \in Addrs /\ functors[i].id[2] \in Seqs
             /\ functors[i].id = <<functors[i].id[1], functors[i].id[2]>>
  <2>1. functors[i] \in [op : {"add", "cancel"}, id : Pairs]
    <3> DEFINE F == [op : {"add", "cancel"}, id : Pairs]
    <3>1. functors \in Seq(F)
      BY <1>1
    <3> HIDE DEF F
    <3>2. functors[i] \in F
      BY <3>1, ElementOfSeq
    <3> QED
      BY <3>2 DEF F
  <2> QED
    BY <2>1 DEF Pairs
<1> QED
  BY <1>1, <1>2

\* A queued addTimerInLoop() points to its timer, which is nobody else's.
LEMMA Pending ==
    ASSUME IInv, NEW i \in 1..Len(functors), functors[i].op = "add"
    PROVE  /\ heap[functors[i].id[1]].seq = functors[i].id[2]
           /\ heap[functors[i].id[1]] # Free
           /\ functors[i].id[1] \notin At(timers) \union At(expired)
           /\ functors[i].id \notin activeTimers \union cancelled
           /\ \A j \in 1..Len(functors) :
                functors[j].op = "add" /\ functors[j].id[1] = functors[i].id[1] => j = i
<1>1. /\ heap[functors[i].id[1]].seq = functors[i].id[2]
      /\ functors[i].id[1] \notin At(timers) \union At(expired)
      /\ functors[i].id \notin cancelled
  BY DEF IInv, PendingInv
<1>2. heap[functors[i].id[1]] # Free
  BY <1>1, Queued, Objects DEF Seqs
<1>3. functors[i].id \notin activeTimers
  <2> SUFFICES ASSUME functors[i].id \in activeTimers PROVE FALSE
    OBVIOUS
  <2>1. functors[i].id \in Pairs
    BY Queued
  <2>2. PICK e \in timers : e = <<heap[functors[i].id[1]].expiration, functors[i].id[1]>>
    BY <2>1, Entries
  <2> QED
    BY <1>1, <2>2 DEF At
<1>4. ASSUME NEW j \in 1..Len(functors), functors[j].op = "add", functors[j].id[1] = functors[i].id[1]
      PROVE  j = i
  <2>1. heap[functors[j].id[1]].seq = functors[j].id[2]
    BY <1>4 DEF IInv, PendingInv
  <2>2. functors[j] = functors[i]
    <3>1. functors[j].id = functors[i].id
      <4>1. functors[i].id = <<functors[i].id[1], functors[i].id[2]>>
        BY Queued, Zenon
      <4>2. functors[j].id = <<functors[j].id[1], functors[j].id[2]>>
        BY <1>4, Queued, Zenon
      <4>3. functors[j].id[2] = functors[i].id[2]
        BY <1>1, <1>4, <2>1
      <4> QED
        BY <1>4, <4>1, <4>2, <4>3, Zenon
    <3>2. functors[i] = [op |-> functors[i].op, id |-> functors[i].id]
      BY Queued, Zenon
    <3>3. functors[j] = [op |-> functors[j].op, id |-> functors[j].id]
      BY <1>4, Queued, Zenon
    <3> QED
      BY <1>4, <3>1, <3>2, <3>3, Zenon
  <2> QED
    BY <2>2 DEF IInv, PendingInv
<1> QED
  BY <1>1, <1>2, <1>3, <1>4

-----------------------------------------------------------------------------
(* The steps.                                                              *)

Functors == Seq([op : {"add", "cancel"}, id : Pairs])

\* The loop takes the functor at the head of the queue, or none.
Shrinks == functors' = functors \/ (functors # <<>> /\ functors' = Tail(functors))

LEMMA QueueShrinks ==
    ASSUME IInv, Shrinks
    PROVE  /\ functors' \in Functors
           /\ \E k \in {0, 1} : \A i \in 1..Len(functors') :
                /\ i + k \in 1..Len(functors) /\ functors'[i] = functors[i + k]
                /\ k = 0 <=> functors' = functors
<1> DEFINE F == [op : {"add", "cancel"}, id : Pairs]
<1>1. functors \in Seq(F)
  BY DEF IInv, TypeOK
<1> HIDE DEF F
<1>2. CASE functors' = functors
  <2>1. \A i \in 1..Len(functors') : i + 0 \in 1..Len(functors) /\ functors'[i] = functors[i + 0]
    BY <1>1, <1>2
  <2> QED
    BY <1>1, <1>2, <2>1 DEF F, Functors
<1>3. CASE functors # <<>> /\ functors' = Tail(functors)
  <2>1. functors' \in Seq(F) /\ Len(functors') = Len(functors) - 1
    BY <1>1, <1>3
  <2>2. functors' # functors
    BY <1>1, <2>1
  <2>3. \A i \in 1..Len(functors') : i + 1 \in 1..Len(functors) /\ functors'[i] = functors[i + 1]
    BY <1>1, <1>3, <2>1
  <2> QED
    BY <2>1, <2>2, <2>3 DEF F, Functors
<1> QED
  BY <1>2, <1>3 DEF Shrinks

\* The queued adds and all functors' sequence numbers after a step that queues none.
LEMMA PendingKept ==
    ASSUME IInv, Shrinks,
           \A i \in 1..Len(functors) :
                functors[i].op = "add" /\ (functors' = functors \/ i # 1) =>
                    /\ heap'[functors[i].id[1]].seq = functors[i].id[2]
                    /\ functors[i].id[1] \notin At(timers') \union At(expired')
                    /\ functors[i].id \notin cancelled',
           numCreated' \in Nat, numCreated <= numCreated'
    PROVE  /\ PendingInv' /\ \A i \in 1..Len(functors') : functors'[i].id[2] <= numCreated'
<1>1. PICK k \in {0, 1} : \A i \in 1..Len(functors') :
                /\ i + k \in 1..Len(functors) /\ functors'[i] = functors[i + k]
                /\ k = 0 <=> functors' = functors
  BY QueueShrinks
<1>2. ASSUME NEW i \in 1..Len(functors'), functors'[i].op = "add"
      PROVE  /\ heap'[functors'[i].id[1]].seq = functors'[i].id[2]
             /\ functors'[i].id[1] \notin At(timers') \union At(expired')
             /\ functors'[i].id \notin cancelled'
             /\ \A j \in 1..Len(functors') : functors'[j] = functors'[i] => j = i
  <2>1. i + k \in 1..Len(functors) /\ functors[i + k].op = "add"
    BY <1>1, <1>2
  <2>2. functors' = functors \/ i + k # 1
    BY <1>1
  <2>3. \A j \in 1..Len(functors) : functors[j] = functors[i + k] => j = i + k
    BY <2>1 DEF IInv, PendingInv
  <2>4. \A j \in 1..Len(functors') : functors'[j] = functors'[i] => j = i
    BY <1>1, <2>3
  <2> QED
    BY <1>1, <2>1, <2>2, <2>4
<1>3. ASSUME NEW i \in 1..Len(functors')
      PROVE  functors'[i].id[2] <= numCreated'
  <2>1. functors[i + k].id[2] <= numCreated /\ functors[i + k].id[2] \in Seqs
    BY <1>1, Queued DEF IInv, SeqsInv
  <2> QED
    BY <1>1, <2>1, Objects DEF Seqs
<1> QED
  BY <1>2, <1>3 DEF PendingInv

\* Timers wait on when none of their entries goes, nor a queued add but that of a timer
\* which is then in timers_.
LEMMA StillWaits ==
    ASSUME IInv, NEW s \in 1..numCreated, Waits(s), Shrinks,
           \A e \in timers \union expired : heap[e[2]].seq = s =>
                e \in timers' \union expired' /\ heap'[e[2]].seq = s,
           \/ functors' = functors
           \/ functors[1].op = "cancel"
           \/ \A e \in {functors[1].id} : e[2] = s => \E x \in timers' : heap'[x[2]].seq = s
    PROVE  Waits(s)'
<1>1. CASE \E e \in timers \union expired : heap[e[2]].seq = s
  BY <1>1 DEF Waits
<1>2. CASE \E i \in 1..Len(functors) : functors[i].op = "add" /\ functors[i].id[2] = s
  <2>1. PICK i \in 1..Len(functors) : functors[i].op = "add" /\ functors[i].id[2] = s
    BY <1>2
  <2>2. CASE functors' = functors
    BY <2>1, <2>2 DEF Waits
  <2>3. CASE functors # <<>> /\ functors' = Tail(functors) /\ i # 1
    <3> DEFINE F == [op : {"add", "cancel"}, id : Pairs]
    <3>1. functors \in Seq(F)
      BY DEF IInv, TypeOK
    <3> HIDE DEF F
    <3>2. i - 1 \in 1..Len(functors') /\ functors'[i - 1] = functors[i]
      BY <2>3, <3>1
    <3> QED
      BY <2>1, <3>2 DEF Waits
  <2>4. CASE functors' # functors /\ i = 1
    <3>1. \E x \in timers' : heap'[x[2]].seq = s
      BY <2>1, <2>4
    <3> QED
      BY <3>1 DEF Waits
  <2> QED
    BY <2>2, <2>3, <2>4 DEF Shrinks
<1> QED
  BY <1>1, <1>2 DEF Waits

\* cancelInLoop(), whoever calls it.
LEMMA CancelKeeps ==
    ASSUME IInv, NEW id \in Pairs, id[2] <= numCreated, CancelInLoop(id), Shrinks,
           functors' = functors \/ functors[1].op = "cancel",
           UNCHANGED <<numCreated, calling, expired, toRun, readAt, now, alarm, call, issued, ran>>
    PROVE  IInv'
<1> DEFINE a == id[1]
           e0 == <<heap[a].expiration, a>>
<1>1. a \in Addrs /\ id[2] \in Seqs /\ id = <<a, id[2]>>
  BY DEF Pairs
<1>2. cancelled' \in {cancelled, cancelled \union {id}}
  BY DEF CancelInLoop, Cancelled
<1>3. \A i \in 1..Len(functors) : functors[i].op = "add" => functors[i].id \notin cancelled'
  <2> SUFFICES ASSUME NEW i \in 1..Len(functors), functors[i].op = "add"
               PROVE  functors[i].id \notin cancelled'
    OBVIOUS
  <2>1. CASE functors[i].id = id
    <3>1. functors[i] = [op |-> "add", id |-> id]
      BY <2>1, Queued, Zenon
    <3> QED
      BY <2>1, <3>1, Queued, Pending DEF CancelInLoop, Cancelled
  <2> QED
    BY <1>2, <2>1, Pending
<1>4. TypeOK'
  <2>1. functors' \in Functors
    BY QueueShrinks
  <2>2. /\ heap' \in [Addrs -> TimerObjects \union {Free}]
        /\ timers' \subseteq timers /\ activeTimers' \subseteq activeTimers
        /\ cancelingTimers' \subseteq Pairs
    BY <1>1 DEF IInv, TypeOK, CancelInLoop, setVars
  <2> QED
    BY <1>2, <2>1, <2>2 DEF IInv, TypeOK, Functors
<1>5. CASE id \in activeTimers
  <2>1. /\ timers' = timers \ {e0} /\ activeTimers' = activeTimers \ {id}
        /\ heap' = [heap EXCEPT ![a] = Free] /\ cancelingTimers' = cancelingTimers
    BY <1>5 DEF CancelInLoop
  <2>2. e0 \in timers /\ heap[a].seq = id[2] /\ a \in At(timers)
    BY <1>1, <1>5, Entries DEF At
  <2>3. /\ \A e \in timers' \union expired : e[2] # a /\ heap'[e[2]] = heap[e[2]] /\ e[2] \in Addrs
        /\ \A b \in Addrs \ {a} : heap'[b] = heap[b]
        /\ heap'[a] = Free
    <3>1. \A e \in timers' \union expired : e[2] # a /\ e[2] \in Addrs
      BY <2>1, <2>2, Entries DEF IInv, SetsAgree, BatchInv, At
    <3> QED
      BY <1>1, <2>1, <3>1 DEF IInv, TypeOK
  <2>4. cancelled' = cancelled \union {id}
    <3>1. \A i \in 1..Len(functors) : functors[i] # [op |-> "add", id |-> id]
      BY <1>5, Pending
    <3> QED
      BY <3>1, Queued DEF CancelInLoop, Cancelled
  <2>5. \A e \in timers' \union expired : Sequenced(e)' = Sequenced(e)
    BY <2>3 DEF Sequenced
  <2>6. SetsAgree'
    <3>1. \A x : x \in activeTimers' <=> \E e \in timers' : x = Sequenced(e)
      BY <1>1, <2>1, <2>2, <2>3, Entries DEF IInv, SetsAgree, Sequenced
    <3> QED
      BY <2>1, <2>3, <2>5, <3>1 DEF IInv, SetsAgree
  <2>7. BatchInv'
    <3>1. IsFiniteSet(timers')
      BY <2>1, FS_Subset DEF IInv, BatchInv
    <3> QED
      BY <2>1, <2>3, <3>1 DEF IInv, BatchInv, At
  <2>8. PendingInv' /\ \A i \in 1..Len(functors') : functors'[i].id[2] <= numCreated'
    <3>1. ASSUME NEW i \in 1..Len(functors), functors[i].op = "add"
          PROVE  /\ heap'[functors[i].id[1]].seq = functors[i].id[2]
                 /\ functors[i].id[1] \notin At(timers') \union At(expired')
      BY <2>1, <2>2, <2>3, <3>1, Pending, Queued DEF At
    <3> QED
      BY <1>3, <3>1, PendingKept, Objects
  <2>9. SeqsInv'
    BY <1>1, <2>3, <2>4, <2>8, Objects DEF IInv, SeqsInv, Free
  <2>10. CancelInv'
    BY <1>1, <2>1, <2>3, <2>4, <2>5 DEF IInv, CancelInv, Sequenced
  <2>11. NoTimerLost'
    <3> SUFFICES ASSUME NEW s \in 1..numCreated, s # id[2], Waits(s)
                 PROVE  Waits(s)'
      BY <2>4 DEF IInv, NoTimerLost
    <3>1. \A e \in timers \union expired : heap[e[2]].seq = s =>
            e \in timers' \union expired' /\ heap'[e[2]].seq = s
      BY <2>1, <2>2, <2>3
    <3> QED
      BY <3>1, StillWaits
  <2>12. AlarmCoversEarliest'
    BY <2>1 DEF IInv, AlarmCoversEarliest
  <2> QED
    BY <1>4, <2>6, <2>7, <2>8, <2>9, <2>10, <2>11, <2>12 DEF IInv
<1>6. CASE id \notin activeTimers
  <2>1. /\ UNCHANGED <<heap, timers, activeTimers>>
        /\ cancelingTimers' = IF calling THEN cancelingTimers \union {id} ELSE cancelingTimers
    BY <1>6 DEF CancelInLoop, setVars
  <2>2. SetsAgree' /\ BatchInv' /\ AlarmCoversEarliest'
    BY <2>1 DEF IInv, SetsAgree, BatchInv, AlarmCoversEarliest, Sequenced, At
  <2>3. PendingInv' /\ \A i \in 1..Len(functors') : functors'[i].id[2] <= numCreated'
    BY <1>3, <2>1, Pending, PendingKept, Objects
  <2>4. SeqsInv'
    BY <1>2, <2>1, <2>3 DEF IInv, SeqsInv
  <2>5. CancelInv'
    <3>1. activeTimers' \cap cancelled' = {}
      BY <1>2, <1>6, <2>1 DEF IInv, CancelInv
    <3>2. ASSUME NEW e \in expired
          PROVE  Sequenced(e) \in cancelled' <=> Sequenced(e) \in cancelingTimers'
      <4>1. calling
        BY DEF IInv, BatchInv
      <4>2. Sequenced(e) = id => cancelled' = cancelled \union {id}
        <5> SUFFICES ASSUME Sequenced(e) = id, NEW i \in 1..Len(functors),
                            functors[i] = [op |-> "add", id |-> id]
                     PROVE  FALSE
          BY Queued DEF CancelInLoop, Cancelled
        <5>1. functors[i].op = "add" /\ functors[i].id[1] = e[2]
          BY DEF Sequenced
        <5> QED
          BY <5>1, Pending DEF At
      <4>3. cancelingTimers' = cancelingTimers \union {id}
        BY <2>1, <4>1
      <4>4. Sequenced(e) \in cancelled <=> Sequenced(e) \in cancelingTimers
        BY DEF IInv, CancelInv
      <4> QED
        BY <1>2, <4>2, <4>3, <4>4
    <3> QED
      BY <2>1, <3>1, <3>2 DEF CancelInv, Sequenced
  <2>6. NoTimerLost'
    <3> SUFFICES ASSUME NEW s \in 1..numCreated, Waits(s)
                 PROVE  Waits(s)'
      BY <1>2 DEF IInv, NoTimerLost
    <3> QED
      BY <2>1, StillWaits
  <2> QED
    BY <1>4, <2>2, <2>3, <2>4, <2>5, <2>6 DEF IInv
<1> QED
  BY <1>5, <1>6

\* addTimerInLoop() of a timer that is in no set and not cancelled, whoever made it.
LEMMA AddKeeps ==
    ASSUME IInv, NEW a \in Addrs, NEW timer \in TimerObjects, AddTimerInLoop(a, timer), Shrinks,
           heap[a] \in {Free, timer},
           heap' = [heap EXCEPT ![a] = timer],
           a \notin At(timers) \union At(expired), <<a, timer.seq>> \notin cancelled,
           \A i \in 1..Len(functors) :
                functors[i].op = "add" /\ (functors' = functors \/ i # 1) => functors[i].id[1] # a,
           functors' = functors \/ functors[1].id[2] = timer.seq,
           numCreated' \in 0..MaxTimers, numCreated <= numCreated', timer.seq <= numCreated',
           \A s \in 1..numCreated' : s \in 1..numCreated \/ s = timer.seq,
           issued' \in {issued, issued \union {<<a, timer.seq>>}},
           UNCHANGED <<fireVars, now, call, cancelled, ran>>
    PROVE  IInv'
<1>1. /\ timer.seq \in Seqs /\ timer.expiration \in Int /\ timer # Free /\ timer.seq \in Nat
      /\ <<a, timer.seq>> \in Pairs
  BY DEF TimerObjects, Times, Free, Seqs, Pairs
<1>2. /\ timers' = timers \union {<<timer.expiration, a>>}
      /\ activeTimers' = activeTimers \union {<<a, timer.seq>>}
      /\ alarm' = IF \A e \in timers : timer.expiration < e[1]
                  THEN ArmedFor(timer.expiration) ELSE alarm
  BY DEF AddTimerInLoop
<1>3. /\ heap'[a] = timer
      /\ \A b \in Addrs \ {a} : heap'[b] = heap[b]
      /\ \A e \in timers \union expired : e[2] # a /\ heap'[e[2]] = heap[e[2]]
  <2>1. \A e \in timers \union expired : e[2] # a /\ e[2] \in Addrs
    BY Entries DEF At
  <2> QED
    BY <2>1 DEF IInv, TypeOK
<1>4. \A e \in timers \union expired : Sequenced(e)' = Sequenced(e)
  BY <1>3 DEF Sequenced
<1>5. /\ cancelingTimers' = cancelingTimers /\ calling' = calling /\ expired' = expired
      /\ toRun' = toRun /\ readAt' = readAt
  BY DEF fireVars
<1>6. now \in Nat /\ ArmedFor(timer.expiration) \in Nat
  BY <1>1, BoundsAssumption DEF IInv, TypeOK, ArmedFor
<1>7. TypeOK'
  <2>1. functors' \in Functors
    BY QueueShrinks
  <2>2. heap' \in [Addrs -> TimerObjects \union {Free}]
    BY DEF IInv, TypeOK
  <2>3. timers' \subseteq Times \X Addrs
    BY <1>1, <1>2 DEF IInv, TypeOK, Times
  <2>4. alarm' \in {Off} \union Nat
    BY <1>2, <1>6 DEF IInv, TypeOK
  <2>5. activeTimers' \subseteq Pairs /\ issued' \subseteq Pairs
    BY <1>1, <1>2 DEF IInv, TypeOK
  <2> QED
    BY <1>5, <2>1, <2>2, <2>3, <2>4, <2>5 DEF IInv, TypeOK, Functors
<1>8. SetsAgree'
  <2>1. Sequenced(<<timer.expiration, a>>)' = <<a, timer.seq>>
    BY <1>3 DEF Sequenced
  <2>2. activeTimers' = {Sequenced(e)' : e \in timers'}
    BY <1>2, <1>4, <2>1 DEF IInv, SetsAgree
  <2>3. \A e \in timers' : heap'[e[2]] # Free /\ e[1] = heap'[e[2]].expiration
    BY <1>1, <1>2, <1>3 DEF IInv, SetsAgree
  <2>4. \A e, f \in timers' : e[2] = f[2] => e = f
    BY <1>2, <1>3 DEF IInv, SetsAgree
  <2> QED
    BY <2>2, <2>3, <2>4 DEF SetsAgree
<1>9. BatchInv'
  <2>1. IsFiniteSet(timers')
    BY <1>2, FS_AddElement DEF IInv, BatchInv
  <2>2. At(expired') \cap At(timers') = {}
    <3>1. \A x \in timers' : x[2] \in At(timers) \union {a}
      BY <1>2 DEF At
    <3>2. At(expired) \cap (At(timers) \union {a}) = {}
      BY DEF IInv, BatchInv
    <3>3. At(timers') \subseteq At(timers) \union {a}
      BY <3>1 DEF At
    <3> QED
      BY <1>5, <3>2, <3>3
  <2> QED
    BY <1>3, <1>5, <2>1, <2>2 DEF IInv, BatchInv, At
<1>10. PendingInv' /\ \A i \in 1..Len(functors') : functors'[i].id[2] <= numCreated'
  <2>1. ASSUME NEW i \in 1..Len(functors), functors[i].op = "add", functors' = functors \/ i # 1
        PROVE  /\ heap'[functors[i].id[1]].seq = functors[i].id[2]
               /\ functors[i].id[1] \notin At(timers') \union At(expired')
               /\ functors[i].id \notin cancelled'
    BY <1>2, <1>3, <1>5, <2>1, Pending, Queued DEF At
  <2> QED
    BY <2>1, PendingKept, Objects, BoundsAssumption
<1>11. SeqsInv'
  <2>1. numCreated' \in Nat /\ numCreated \in Nat
    BY Objects, BoundsAssumption
  <2>2. \A b \in Addrs : heap'[b].seq <= numCreated'
    BY <1>1, <1>3, <2>1, Objects
  <2>3. \A id \in issued' \union cancelled' : id[2] <= numCreated'
    <3> SUFFICES ASSUME NEW id \in issued \union cancelled PROVE id[2] <= numCreated'
      OBVIOUS
    <3>1. id[2] \in Nat /\ id[2] <= numCreated
      BY DEF IInv, TypeOK, SeqsInv, Pairs, Seqs
    <3> QED
      BY <2>1, <3>1
  <2>4. \A t \in Threads : call'[t][2] <= numCreated'
    <3> SUFFICES ASSUME NEW t \in Threads PROVE call[t][2] <= numCreated'
      OBVIOUS
    <3>1. call[t][2] <= numCreated /\ call[t] \in Pairs \union {NoCall}
      BY DEF IInv, TypeOK, SeqsInv
    <3>2. call[t][2] \in Nat
      BY <3>1 DEF Pairs, Seqs, NoCall
    <3> QED
      BY <2>1, <3>1, <3>2
  <2> QED
    BY <1>10, <2>2, <2>3, <2>4 DEF SeqsInv
<1>12. CancelInv'
  BY <1>2, <1>4, <1>5 DEF IInv, CancelInv
<1>13. NoTimerLost'
  <2>1. <<timer.expiration, a>> \in timers' /\ heap'[a].seq = timer.seq
    BY <1>2, <1>3
  <2>2. ASSUME NEW s \in 1..numCreated, Waits(s)
        PROVE  Waits(s)'
    <3>1. \A e \in timers \union expired : heap[e[2]].seq = s =>
            e \in timers' \union expired' /\ heap'[e[2]].seq = s
      BY <1>2, <1>3, <1>5
    <3>2. timer.seq = s => \E x \in timers' : heap'[x[2]].seq = s
      BY <2>1
    <3> QED
      BY <2>2, <3>1, <3>2, StillWaits
  <2>3. Waits(timer.seq)'
    BY <2>1 DEF Waits
  <2>4. ASSUME NEW s \in 1..numCreated'
        PROVE  Waits(s)' \/ s \in ran \/ \E x \in cancelled : x[2] = s
    <3>1. CASE s = timer.seq
      BY <2>3, <3>1
    <3>2. CASE s \in 1..numCreated
      BY <2>2, <3>2 DEF IInv, NoTimerLost
    <3> QED
      BY <3>1, <3>2
  <2> QED
    BY <2>4 DEF NoTimerLost
<1>14. AlarmCoversEarliest'
  <2> SUFFICES ASSUME ~calling
               PROVE  /\ alarm' # Off
                      /\ \A e \in timers' : alarm' <= e[1] \/ alarm' <= now + 1
    BY <1>5 DEF AlarmCoversEarliest
  <2>0. \A e \in timers : e[1] \in Int
    BY Entries
  <2>1. CASE \A e \in timers : timer.expiration < e[1]
    <3>1. alarm' = ArmedFor(timer.expiration)
      BY <1>2, <2>1
    <3>2. alarm' # Off /\ (alarm' <= timer.expiration \/ alarm' <= now + 1)
      BY <1>1, <1>6, <3>1 DEF ArmedFor, Off
    <3>3. \A e \in timers : alarm' <= e[1] \/ alarm' <= now + 1
      BY <1>1, <1>6, <2>0, <2>1, <3>1, <3>2
    <3> QED
      BY <1>2, <3>2, <3>3
  <2>2. CASE \E e \in timers : ~(timer.expiration < e[1])
    <3>1. PICK e \in timers : ~(timer.expiration < e[1])
      BY <2>2
    <3>2. alarm' = alarm /\ alarm # Off /\ alarm \in Nat
      BY <1>2, <3>1 DEF IInv, AlarmCoversEarliest, TypeOK
    <3>3. \A f \in timers : alarm <= f[1] \/ alarm <= now + 1
      BY <3>1 DEF IInv, AlarmCoversEarliest
    <3>4. alarm <= timer.expiration \/ alarm <= now + 1
      BY <1>1, <1>6, <2>0, <3>1, <3>2, <3>3
    <3> QED
      BY <1>2, <3>2, <3>3, <3>4
  <2> QED
    BY <2>1, <2>2
<1> QED
  BY <1>7, <1>8, <1>9, <1>10, <1>11, <1>12, <1>13, <1>14 DEF IInv

\* A timer from new is at an address that nothing points to.
LEMMA NewIsApart ==
    ASSUME IInv, NEW a \in Addrs, NEW when \in Times, NEW interval \in {0, Interval},
           New(a, when, interval)
    PROVE  /\ a \notin At(timers) \union At(expired)
           /\ \A i \in 1..Len(functors) : functors[i].op = "add" => functors[i].id[1] # a
           /\ numCreated + 1 \in Seqs /\ numCreated' \in 0..MaxTimers
           /\ numCreated' = numCreated + 1 /\ numCreated \in Nat
           /\ \A id \in issued \union cancelled : id[2] # numCreated + 1
           /\ \E timer \in TimerObjects : /\ timer.seq = numCreated + 1
                                          /\ heap' = [heap EXCEPT ![a] = timer]
<1>1. a \notin At(timers) \union At(expired)
  BY Entries DEF New, At
<1>2. \A i \in 1..Len(functors) : functors[i].op = "add" => functors[i].id[1] # a
  BY Pending DEF New
<1>3. /\ numCreated + 1 \in Seqs /\ numCreated' \in 0..MaxTimers
      /\ numCreated' = numCreated + 1 /\ numCreated \in Nat
  BY Objects DEF New, Seqs
<1>4. \A id \in issued \union cancelled : id[2] # numCreated + 1
  <2> SUFFICES ASSUME NEW id \in issued \union cancelled PROVE id[2] # numCreated + 1
    OBVIOUS
  <2>1. id[2] \in Nat /\ id[2] <= numCreated
    BY DEF IInv, TypeOK, SeqsInv, Pairs, Seqs
  <2> QED
    BY <1>3, <2>1
<1>5. \E timer \in TimerObjects : timer.seq = numCreated + 1 /\ heap' = [heap EXCEPT ![a] = timer]
  <2> DEFINE timer == [seq |-> numCreated + 1, expiration |-> when, interval |-> interval]
  <2>1. timer \in TimerObjects
    BY <1>3 DEF TimerObjects
  <2>2. heap' = [heap EXCEPT ![a] = timer]
    BY DEF New
  <2> QED
    BY <2>1, <2>2
<1> QED
  BY <1>1, <1>2, <1>3, <1>4, <1>5

LEMMA LoopAddKeeps ==
    ASSUME IInv, NEW a \in Addrs, NEW d \in Whens, NEW i \in {0, Interval}, LoopAddTimer(a, d, i)
    PROVE  IInv'
<1>1. PICK when \in Times : when = now + d
  BY BoundsAssumption, DelaysAssumption DEF IInv, TypeOK, Times
<1>2. New(a, when, i)
  BY <1>1 DEF LoopAddTimer
<1>3. PICK timer \in TimerObjects : timer.seq = numCreated + 1 /\ heap' = [heap EXCEPT ![a] = timer]
  BY <1>2, NewIsApart
<1>4. heap'[a] = timer /\ heap[a] = Free
  BY <1>2, <1>3 DEF IInv, TypeOK, New
<1>5. /\ AddTimerInLoop(a, timer) /\ issued' = issued \union {<<a, timer.seq>>}
      /\ functors' = functors
      /\ UNCHANGED <<fireVars, now, call, cancelled, ran>>
  BY <1>4 DEF LoopAddTimer, AddTimerInLoop
<1>6. /\ a \notin At(timers) \union At(expired)
      /\ \A k \in 1..Len(functors) : functors[k].op = "add" => functors[k].id[1] # a
      /\ numCreated' \in 0..MaxTimers /\ numCreated' = numCreated + 1 /\ numCreated \in Nat
      /\ \A id \in issued \union cancelled : id[2] # numCreated + 1
  BY <1>2, NewIsApart
<1>7. <<a, timer.seq>> \notin cancelled
  BY <1>3, <1>6
<1>8. /\ numCreated <= numCreated' /\ timer.seq <= numCreated'
      /\ \A s \in 1..numCreated' : s \in 1..numCreated \/ s = timer.seq
  BY <1>3, <1>6
<1>9. Shrinks
  BY <1>5 DEF Shrinks
<1> QED
  BY <1>3, <1>4, <1>5, <1>6, <1>7, <1>8, <1>9, AddKeeps

LEMMA LoopCancelKeeps ==
    ASSUME IInv, NEW id \in issued, LoopCancel(id)
    PROVE  IInv'
<1>1. id \in Pairs /\ id[2] <= numCreated
  BY DEF IInv, TypeOK, SeqsInv
<1>2. /\ CancelInLoop(id) /\ functors' = functors
      /\ UNCHANGED <<numCreated, calling, expired, toRun, readAt, now, alarm, call, issued, ran>>
  BY DEF LoopCancel, apiVars
<1> QED
  BY <1>1, <1>2, CancelKeeps DEF Shrinks

LEMMA RunFunctorKeeps ==
    ASSUME IInv, RunFunctor
    PROVE  IInv'
<1>1. /\ functors # <<>> /\ functors' = Tail(functors) /\ Shrinks
      /\ UNCHANGED <<numCreated, calling, expired, toRun, readAt, now, call, issued, ran>>
  BY DEF RunFunctor, Shrinks
<1>2. 1 \in 1..Len(functors) /\ Head(functors) = functors[1] /\ functors' # functors
  BY <1>1, QueueShrinks DEF IInv, TypeOK
<1>3. PICK id \in Pairs : id = functors[1].id
  BY <1>2, Queued
<1>4. id[1] \in Addrs /\ id[2] \in Seqs /\ id = <<id[1], id[2]>> /\ id[2] <= numCreated
  BY <1>2, <1>3 DEF IInv, SeqsInv, Pairs
<1>5. ASSUME functors[1].op = "add", AddTimerInLoop(id[1], heap[id[1]]),
             UNCHANGED <<heap, cancelingTimers, cancelled>>
      PROVE  IInv'
  <2>1. /\ heap[id[1]].seq = id[2] /\ heap[id[1]] # Free
        /\ id[1] \notin At(timers) \union At(expired) /\ id \notin cancelled
        /\ \A j \in 1..Len(functors) : functors[j].op = "add" /\ functors[j].id[1] = id[1] => j = 1
    BY <1>2, <1>3, <1>5, Pending
  <2>2. PICK timer \in TimerObjects : timer = heap[id[1]]
    BY <1>4, <2>1, Objects
  <2>3. AddTimerInLoop(id[1], timer) /\ heap' = [heap EXCEPT ![id[1]] = timer]
    BY <1>5, <2>2 DEF AddTimerInLoop, IInv, TypeOK
  <2>4. <<id[1], timer.seq>> \notin cancelled /\ timer.seq <= numCreated
    BY <1>4, <2>1, <2>2
  <2>5. PICK a \in Addrs : a = id[1]
    BY <1>4
  <2>6. /\ numCreated' \in 0..MaxTimers /\ numCreated' = numCreated /\ numCreated <= numCreated'
        /\ \A s \in 1..numCreated' : s \in 1..numCreated
    BY <1>1, Objects
  <2>7. issued' = issued /\ UNCHANGED <<fireVars, now, call, cancelled, ran>>
    BY <1>1, <1>5 DEF fireVars
  <2>8. /\ AddTimerInLoop(a, timer) /\ heap[a] \in {Free, timer} /\ heap' = [heap EXCEPT ![a] = timer]
        /\ a \notin At(timers) \union At(expired) /\ <<a, timer.seq>> \notin cancelled
        /\ timer.seq <= numCreated'
        /\ \A i \in 1..Len(functors) : functors[i].op = "add" /\ i # 1 => functors[i].id[1] # a
    BY <2>1, <2>2, <2>3, <2>4, <2>5, <2>6
  <2>9. functors[1].id[2] = timer.seq
    BY <1>3, <2>1, <2>2
  <2> QED
    BY <1>1, <1>2, <2>6, <2>7, <2>8, <2>9, AddKeeps
<1>6. ASSUME functors[1].op = "cancel", CancelInLoop(id), UNCHANGED alarm
      PROVE  IInv'
  BY <1>1, <1>4, <1>6, CancelKeeps
<1>7. \/ functors[1].op = "add" /\ AddTimerInLoop(id[1], heap[id[1]])
         /\ UNCHANGED <<heap, cancelingTimers, cancelled>>
      \/ functors[1].op = "cancel" /\ CancelInLoop(id) /\ UNCHANGED alarm
  BY <1>2, <1>3 DEF RunFunctor
<1> QED
  BY <1>5, <1>6, <1>7

\* A functor at the end of the queue.
LEMMA Appended ==
    ASSUME IInv, NEW f \in [op : {"add", "cancel"}, id : Pairs], functors' = Append(functors, f)
    PROVE  /\ functors' \in Functors
           /\ Len(functors') = Len(functors) + 1 /\ Len(functors) \in Nat
           /\ \A i \in 1..Len(functors) : functors'[i] = functors[i]
           /\ functors'[Len(functors) + 1] = f
           /\ \A i \in 1..Len(functors') : i \in 1..Len(functors) \/ i = Len(functors) + 1
<1> DEFINE F == [op : {"add", "cancel"}, id : Pairs]
<1>1. functors \in Seq(F) /\ f \in F
  BY DEF IInv, TypeOK
<1> HIDE DEF F
<1>2. functors' \in Seq(F) /\ Len(functors') = Len(functors) + 1 /\ Len(functors) \in Nat
  BY <1>1
<1>3. /\ \A i \in 1..Len(functors) : functors'[i] = functors[i]
      /\ functors'[Len(functors) + 1] = f
      /\ \A i \in 1..Len(functors') : i \in 1..Len(functors) \/ i = Len(functors) + 1
  BY <1>1, <1>2
<1> QED
  BY <1>2, <1>3 DEF F, Functors

LEMMA ForeignAddKeeps ==
    ASSUME IInv, NEW t \in Threads, NEW a \in Addrs, NEW d \in Whens, NEW i \in {0, Interval},
           ForeignAddTimer(t, a, d, i)
    PROVE  IInv'
<1>1. PICK when \in Times : when = now + d
  BY BoundsAssumption, DelaysAssumption DEF IInv, TypeOK, Times
<1>2. New(a, when, i)
  BY <1>1 DEF ForeignAddTimer
<1>3. PICK timer \in TimerObjects : timer.seq = numCreated + 1 /\ heap' = [heap EXCEPT ![a] = timer]
  BY <1>2, NewIsApart
<1>4. PICK id \in Pairs : id = <<a, numCreated + 1>>
  BY <1>2, NewIsApart DEF Pairs
<1>5. /\ functors' = Append(functors, [op |-> "add", id |-> id])
      /\ call' = [call EXCEPT ![t] = id]
      /\ UNCHANGED <<timers, activeTimers, fireVars, now, alarm, issued, cancelled, ran>>
  BY <1>4 DEF ForeignAddTimer
<1>6. /\ a \notin At(timers) \union At(expired)
      /\ \A k \in 1..Len(functors) : functors[k].op = "add" => functors[k].id[1] # a
      /\ numCreated' \in 0..MaxTimers /\ numCreated' = numCreated + 1 /\ numCreated \in Nat
      /\ \A x \in issued \union cancelled : x[2] # numCreated + 1
  BY <1>2, NewIsApart
<1>7. /\ heap'[a] = timer /\ heap[a] = Free
      /\ \A b \in Addrs \ {a} : heap'[b] = heap[b]
      /\ \A e \in timers \union expired : e[2] # a /\ e[2] \in Addrs /\ heap'[e[2]] = heap[e[2]]
  <2>1. \A e \in timers \union expired : e[2] # a /\ e[2] \in Addrs
    BY <1>6, Entries DEF At
  <2> QED
    BY <1>2, <1>3, <2>1 DEF IInv, TypeOK, New
<1>8. \A e \in timers \union expired : Sequenced(e)' = Sequenced(e)
  BY <1>7 DEF Sequenced
<1>9. /\ cancelingTimers' = cancelingTimers /\ calling' = calling /\ expired' = expired
      /\ toRun' = toRun /\ readAt' = readAt
  BY <1>5 DEF fireVars
<1>10. PICK f \in [op : {"add", "cancel"}, id : Pairs] : f = [op |-> "add", id |-> id]
  OBVIOUS
<1>11. /\ functors' \in Functors
       /\ Len(functors') = Len(functors) + 1 /\ Len(functors) \in Nat
       /\ \A k \in 1..Len(functors) : functors'[k] = functors[k]
       /\ functors'[Len(functors) + 1] = f
       /\ \A k \in 1..Len(functors') : k \in 1..Len(functors) \/ k = Len(functors) + 1
  BY <1>5, <1>10, Appended
<1>12. TypeOK'
  <2>1. heap' \in [Addrs -> TimerObjects \union {Free}]
    BY <1>3 DEF IInv, TypeOK
  <2>2. call' \in [Threads -> Pairs \union {NoCall}]
    BY <1>5 DEF IInv, TypeOK
  <2> QED
    BY <1>5, <1>6, <1>9, <1>11, <2>1, <2>2 DEF IInv, TypeOK, Functors
<1>13. SetsAgree'
  BY <1>5, <1>7, <1>8 DEF IInv, SetsAgree
<1>14. BatchInv'
  BY <1>5, <1>7, <1>9 DEF IInv, BatchInv, At
<1>15. PendingInv'
  <2> SUFFICES ASSUME NEW k \in 1..Len(functors'), functors'[k].op = "add"
               PROVE  /\ heap'[functors'[k].id[1]].seq = functors'[k].id[2]
                      /\ functors'[k].id[1] \notin At(timers') \union At(expired')
                      /\ functors'[k].id \notin cancelled'
                      /\ \A j \in 1..Len(functors') : functors'[j] = functors'[k] => j = k
    BY DEF PendingInv
  <2>1. CASE k \in 1..Len(functors)
    <3>1. functors'[k] = functors[k] /\ functors[k].op = "add" /\ functors[k].id[1] # a
      BY <1>6, <1>11, <2>1
    <3>2. heap'[functors[k].id[1]] = heap[functors[k].id[1]]
      BY <1>7, <2>1, <3>1, Queued
    <3>3. \A j \in 1..Len(functors) : functors[j] = functors[k] => j = k
      BY <2>1, <3>1 DEF IInv, PendingInv
    <3>4. f # functors[k]
      BY <1>4, <1>10, <3>1
    <3>5. \A j \in 1..Len(functors') : functors'[j] = functors'[k] => j = k
      BY <1>11, <2>1, <3>1, <3>3, <3>4
    <3>6. At(timers') = At(timers) /\ At(expired') = At(expired) /\ cancelled' = cancelled
      BY <1>5, <1>9
    <3> QED
      BY <2>1, <3>1, <3>2, <3>5, <3>6, Pending
  <2>2. CASE k = Len(functors) + 1
    <3>1. functors'[k] = f /\ f.id = id /\ id[1] = a /\ id[2] = numCreated + 1
      BY <1>4, <1>10, <1>11, <2>2
    <3>2. \A j \in 1..Len(functors) : functors[j] # f
      <4> SUFFICES ASSUME NEW j \in 1..Len(functors), functors[j] = f PROVE FALSE
        OBVIOUS
      <4>1. functors[j].op = "add"
        BY <1>10
      <4> QED
        BY <1>6, <3>1, <4>1
    <3>3. \A j \in 1..Len(functors') : functors'[j] = functors'[k] => j = k
      BY <1>11, <2>2, <3>1, <3>2
    <3>4. heap'[id[1]].seq = id[2]
      BY <1>3, <1>7, <3>1
    <3>5. id \notin cancelled
      BY <1>6, <3>1
    <3> QED
      BY <1>5, <1>6, <1>9, <3>1, <3>3, <3>4, <3>5
  <2> QED
    BY <1>11, <2>1, <2>2
<1>16. SeqsInv'
  <2>1. \A b \in Addrs : heap'[b].seq <= numCreated'
    BY <1>3, <1>6, <1>7, Objects
  <2>2. \A x \in issued' \union cancelled' : x[2] <= numCreated'
    <3> SUFFICES ASSUME NEW x \in issued \union cancelled PROVE x[2] <= numCreated'
      BY <1>5
    <3>1. x[2] \in Nat /\ x[2] <= numCreated
      BY DEF IInv, TypeOK, SeqsInv, Pairs, Seqs
    <3> QED
      BY <1>6, <3>1
  <2>3. ASSUME NEW k \in 1..Len(functors') PROVE functors'[k].id[2] <= numCreated'
    <3>1. CASE k \in 1..Len(functors)
      <4>1. functors[k].id[2] <= numCreated
        BY <3>1 DEF IInv, SeqsInv
      <4>2. functors[k].id[2] \in Nat
        <5>1. functors[k].id[2] \in Seqs
          BY <3>1, Queued
        <5> QED
          BY <5>1 DEF Seqs
      <4> QED
        BY <1>6, <1>11, <3>1, <4>1, <4>2
    <3>2. CASE k = Len(functors) + 1
      BY <1>4, <1>6, <1>10, <1>11, <3>2
    <3> QED
      BY <1>11, <3>1, <3>2
  <2>4. ASSUME NEW u \in Threads PROVE call'[u][2] <= numCreated'
    <3>1. call[u][2] <= numCreated /\ call[u] \in Pairs \union {NoCall}
      BY DEF IInv, TypeOK, SeqsInv
    <3>2. call[u][2] \in Nat
      BY <3>1 DEF Pairs, Seqs, NoCall
    <3>3. call'[u] = call[u] \/ call'[u] = id
      BY <1>5 DEF IInv, TypeOK
    <3>4. id[2] <= numCreated' /\ call[u][2] <= numCreated'
      BY <1>4, <1>6, <3>1, <3>2
    <3> QED
      BY <3>3, <3>4
  <2> QED
    BY <2>1, <2>2, <2>3, <2>4 DEF SeqsInv
<1>17. CancelInv'
  BY <1>5, <1>8, <1>9 DEF IInv, CancelInv
<1>18. NoTimerLost'
  <2>1. ASSUME NEW s \in 1..numCreated, Waits(s)
        PROVE  Waits(s)'
    <3>1. CASE \E e \in timers \union expired : heap[e[2]].seq = s
      BY <1>5, <1>7, <1>9, <3>1 DEF Waits
    <3>2. CASE \E k \in 1..Len(functors) : functors[k].op = "add" /\ functors[k].id[2] = s
      BY <1>11, <3>2 DEF Waits
    <3> QED
      BY <2>1, <3>1, <3>2 DEF Waits
  <2>0. PICK n \in Seqs : n = numCreated + 1
    BY <1>2, NewIsApart
  <2>2. Waits(n)'
    <3>1. /\ Len(functors) + 1 \in 1..Len(functors')
          /\ functors'[Len(functors) + 1].op = "add"
          /\ functors'[Len(functors) + 1].id[2] = n
      BY <1>4, <1>10, <1>11, <2>0
    <3> QED
      BY <3>1 DEF Waits
  <2>3. ASSUME NEW s \in 1..numCreated'
        PROVE  Waits(s)' \/ s \in ran \/ \E x \in cancelled : x[2] = s
    <3>1. CASE s = n
      BY <2>2, <3>1
    <3>2. CASE s \in 1..numCreated
      BY <2>1, <3>2 DEF IInv, NoTimerLost
    <3> QED
      BY <1>6, <2>0, <3>1, <3>2
  <2> QED
    BY <1>5, <2>3 DEF NoTimerLost
<1>19. AlarmCoversEarliest'
  BY <1>5, <1>9 DEF IInv, AlarmCoversEarliest
<1> QED
  BY <1>12, <1>13, <1>14, <1>15, <1>16, <1>17, <1>18, <1>19 DEF IInv

\* A step that leaves the sets, the batch and the heap alone.
LEMMA Unmoved ==
    ASSUME IInv, UNCHANGED <<heap, timers, activeTimers, numCreated, cancelingTimers, calling,
                             expired, toRun, cancelled, ran>>
    PROVE  /\ SetsAgree' /\ BatchInv' /\ CancelInv'
           /\ functors' = functors => PendingInv' /\ NoTimerLost'
           /\ (\A i \in 1..Len(functors) : i \in 1..Len(functors') /\ functors'[i] = functors[i])
                => NoTimerLost'
<1>1. SetsAgree'
  BY DEF IInv, SetsAgree, Sequenced
<1>2. BatchInv'
  BY DEF IInv, BatchInv, At
<1>3. CancelInv'
  BY DEF IInv, CancelInv, Sequenced
<1>4. (\A i \in 1..Len(functors) : i \in 1..Len(functors') /\ functors'[i] = functors[i])
        => NoTimerLost'
  <2> SUFFICES ASSUME \A i \in 1..Len(functors) : /\ i \in 1..Len(functors')
                                                 /\ functors'[i] = functors[i],
                      NEW s \in 1..numCreated, Waits(s)
               PROVE  Waits(s)'
    BY DEF IInv, NoTimerLost
  <2> QED
    BY DEF Waits
<1>5. functors' = functors => PendingInv'
  BY DEF IInv, PendingInv, At
<1> QED
  BY <1>1, <1>2, <1>3, <1>4, <1>5

LEMMA ForeignCancelKeeps ==
    ASSUME IInv, NEW t \in Threads, NEW id \in issued, ForeignCancel(t, id)
    PROVE  IInv'
<1>1. id \in Pairs /\ id[2] <= numCreated
  BY DEF IInv, TypeOK, SeqsInv
<1>2. PICK f \in [op : {"add", "cancel"}, id : Pairs] : f = [op |-> "cancel", id |-> id]
  BY <1>1
<1>3. /\ functors' = Append(functors, f)
      /\ UNCHANGED <<heap, timers, activeTimers, numCreated, cancelingTimers, calling, expired,
                     toRun, readAt, now, alarm, call, issued, cancelled, ran>>
  BY <1>2 DEF ForeignCancel, setVars, fireVars
<1>4. /\ functors' \in Functors
      /\ Len(functors') = Len(functors) + 1 /\ Len(functors) \in Nat
      /\ \A k \in 1..Len(functors) : functors'[k] = functors[k]
      /\ functors'[Len(functors) + 1] = f
      /\ \A k \in 1..Len(functors') : k \in 1..Len(functors) \/ k = Len(functors) + 1
  BY <1>3, Appended
<1>5. TypeOK'
  BY <1>3, <1>4 DEF IInv, TypeOK, Functors
<1>6. SetsAgree' /\ BatchInv' /\ CancelInv' /\ NoTimerLost' /\ AlarmCoversEarliest'
  <2>1. \A k \in 1..Len(functors) : k \in 1..Len(functors') /\ functors'[k] = functors[k]
    BY <1>4
  <2> QED
    BY <1>3, <2>1, Unmoved DEF IInv, AlarmCoversEarliest
<1>7. PendingInv'
  <2> SUFFICES ASSUME NEW k \in 1..Len(functors'), functors'[k].op = "add"
               PROVE  /\ heap'[functors'[k].id[1]].seq = functors'[k].id[2]
                      /\ functors'[k].id[1] \notin At(timers') \union At(expired')
                      /\ functors'[k].id \notin cancelled'
                      /\ \A j \in 1..Len(functors') : functors'[j] = functors'[k] => j = k
    BY DEF PendingInv
  <2>1. f.op = "cancel"
    BY <1>2
  <2>2. k \in 1..Len(functors) /\ functors'[k] = functors[k] /\ f # functors[k]
    BY <1>4, <2>1
  <2>3. \A j \in 1..Len(functors) : functors[j] = functors[k] => j = k
    BY <2>2 DEF IInv, PendingInv
  <2>4. \A j \in 1..Len(functors') : functors'[j] = functors'[k] => j = k
    BY <1>4, <2>2, <2>3
  <2>5. At(timers') = At(timers) /\ At(expired') = At(expired)
    BY <1>3
  <2> QED
    BY <1>3, <2>2, <2>4, <2>5, Pending
<1>8. SeqsInv'
  BY <1>1, <1>2, <1>3, <1>4 DEF IInv, SeqsInv
<1> QED
  BY <1>5, <1>6, <1>7, <1>8 DEF IInv

LEMMA ForeignReturnsKeeps ==
    ASSUME IInv, NEW t \in Threads, ForeignReturns(t)
    PROVE  IInv'
<1>1. /\ call[t] \in Pairs /\ call[t][2] <= numCreated
      /\ call' = [call EXCEPT ![t] = NoCall]
      /\ issued' \in {issued, issued \union {call[t]}}
      /\ UNCHANGED <<heap, timers, activeTimers, numCreated, cancelingTimers, calling, expired,
                     toRun, readAt, now, alarm, functors, cancelled, ran>>
  BY DEF ForeignReturns, IInv, TypeOK, SeqsInv, setVars, fireVars
<1>2. TypeOK'
  BY <1>1 DEF IInv, TypeOK
<1>3. /\ SetsAgree' /\ BatchInv' /\ CancelInv' /\ NoTimerLost' /\ AlarmCoversEarliest'
      /\ PendingInv'
  BY <1>1, Unmoved DEF IInv, AlarmCoversEarliest
<1>4. SeqsInv'
  BY <1>1, Objects DEF IInv, TypeOK, SeqsInv, NoCall
<1> QED
  BY <1>2, <1>3, <1>4 DEF IInv

LEMMA TickKeeps ==
    ASSUME IInv, Tick
    PROVE  IInv'
<1>1. /\ now' = now + 1 /\ now' \in 0..MaxTime /\ now \in Nat
      /\ UNCHANGED <<heap, timers, activeTimers, numCreated, cancelingTimers, calling, expired,
                     toRun, readAt, alarm, functors, call, issued, cancelled, ran>>
  BY BoundsAssumption DEF Tick, IInv, TypeOK, setVars, fireVars, apiVars
<1>2. TypeOK'
  BY <1>1 DEF IInv, TypeOK
<1>3. SetsAgree' /\ BatchInv' /\ CancelInv' /\ NoTimerLost' /\ PendingInv' /\ SeqsInv'
  BY <1>1, Unmoved DEF IInv, SeqsInv
<1>4. AlarmCoversEarliest'
  <2>1. alarm \in {Off} \union Nat
    BY DEF IInv, TypeOK
  <2> QED
    BY <1>1, <2>1 DEF IInv, AlarmCoversEarliest
<1> QED
  BY <1>2, <1>3, <1>4 DEF IInv

LEMMA BeginExpiredKeeps ==
    ASSUME IInv, BeginExpired
    PROVE  IInv'
<1>1. /\ timers' = timers \ expired'
      /\ \A e : e \in expired' <=> e \in timers /\ e[1] <= now
      /\ toRun' = expired' /\ cancelingTimers' = {} /\ calling' /\ calling' = TRUE
      /\ alarm' = Off /\ readAt' = now /\ expired = {}
      /\ activeTimers' = activeTimers \ {Sequenced(e) : e \in expired'}
      /\ UNCHANGED <<heap, numCreated, now, functors, call, issued, cancelled, ran>>
  BY DEF BeginExpired, apiVars, IInv, BatchInv
<1>2. expired' \subseteq timers /\ timers' \subseteq timers
  BY <1>1
<1>3. \A e, f \in timers : e[2] = f[2] => e = f
  BY DEF IInv, SetsAgree
<1>4. TypeOK'
  BY <1>1, <1>2 DEF IInv, TypeOK
<1>5. \A e \in timers : Sequenced(e)' = Sequenced(e)
  BY <1>1 DEF Sequenced
<1>6. SetsAgree'
  <2>1. \A e, f \in timers : Sequenced(e) = Sequenced(f) => e = f
    BY <1>3 DEF Sequenced
  <2>2. activeTimers = {Sequenced(e) : e \in timers}
    BY DEF IInv, SetsAgree
  <2>3. activeTimers' = {Sequenced(e) : e \in timers'}
    BY <1>1, <1>2, <2>1, <2>2
  <2>4. activeTimers' = {Sequenced(e)' : e \in timers'}
    BY <1>2, <1>5, <2>3
  <2> QED
    BY <1>1, <1>2, <2>4 DEF IInv, SetsAgree
<1>7. BatchInv'
  <2>1. IsFiniteSet(timers') /\ IsFiniteSet(expired')
    BY <1>2, FS_Subset DEF IInv, BatchInv
  <2>2. At(expired') \cap At(timers') = {}
    BY <1>1, <1>2, <1>3 DEF At
  <2>3. \A e \in expired' : heap[e[2]] # Free /\ e[1] = heap[e[2]].expiration
    BY <1>2 DEF IInv, SetsAgree
  <2> QED
    BY <1>1, <2>1, <2>2, <2>3 DEF BatchInv, At
<1>8. PendingInv'
  <2>1. At(timers') \union At(expired') \subseteq At(timers)
    BY <1>2 DEF At
  <2>2. functors' = functors /\ heap' = heap /\ cancelled' = cancelled
    BY <1>1
  <2> QED
    BY <2>1, <2>2 DEF IInv, PendingInv
<1>9. SeqsInv'
  BY <1>1 DEF IInv, SeqsInv
<1>10. CancelInv'
  <2>1. \A e \in expired' : Sequenced(e) \in activeTimers
    BY <1>2 DEF IInv, SetsAgree
  <2> QED
    BY <1>1, <1>2, <1>5, <2>1 DEF IInv, CancelInv
<1>11. NoTimerLost'
  <2> SUFFICES ASSUME NEW s \in 1..numCreated, Waits(s)
               PROVE  Waits(s)'
    BY <1>1 DEF IInv, NoTimerLost
  <2> QED
    BY <1>1, <1>2 DEF Waits
<1>12. AlarmCoversEarliest'
  BY <1>1 DEF AlarmCoversEarliest
<1> QED
  BY <1>4, <1>6, <1>7, <1>8, <1>9, <1>10, <1>11, <1>12 DEF IInv

LEMMA RunTimerKeeps ==
    ASSUME IInv, RunTimer
    PROVE  IInv'
<1>1. /\ toRun # {} /\ toRun' = toRun \ {Earliest(toRun)}
      /\ ran' = IF heap[Earliest(toRun)[2]].interval > 0
                THEN ran ELSE ran \union {heap[Earliest(toRun)[2]].seq}
      /\ UNCHANGED <<heap, timers, activeTimers, numCreated, cancelingTimers, calling, expired,
                     readAt, now, alarm, functors, call, issued, cancelled>>
  BY DEF RunTimer, setVars, apiVars
<1>2. toRun \subseteq expired /\ toRun \in SUBSET (Times \X Addrs) /\ IsFiniteSet(toRun)
  BY FS_Subset DEF IInv, TypeOK, BatchInv
<1>3. PICK first \in expired : first = Earliest(toRun)
  <2>1. \A S \in SUBSET (Times \X Addrs) : IsFiniteSet(S) /\ S # {} => Earliest(S) \in S
    BY EarliestIsFirst
  <2> QED
    BY <1>1, <1>2, <2>1
<1>4. heap[first[2]].seq \in Seqs
  BY Entries DEF TimerObjects
<1>5. TypeOK'
  BY <1>1, <1>3, <1>4 DEF IInv, TypeOK
<1>6. SetsAgree'
  BY <1>1 DEF IInv, SetsAgree, Sequenced
<1>7. BatchInv'
  BY <1>1, <1>3 DEF IInv, BatchInv, At
<1>8. PendingInv'
  BY <1>1 DEF IInv, PendingInv, At
<1>9. SeqsInv'
  BY <1>1 DEF IInv, SeqsInv
<1>10. CancelInv'
  BY <1>1 DEF IInv, CancelInv, Sequenced
<1>11. NoTimerLost'
  BY <1>1 DEF IInv, NoTimerLost, Waits
<1>12. AlarmCoversEarliest'
  BY <1>1 DEF IInv, AlarmCoversEarliest
<1> QED
  BY <1>5, <1>6, <1>7, <1>8, <1>9, <1>10, <1>11, <1>12 DEF IInv

\* What reset() does to the timer at an address.
LEMMA ResetHeap ==
    ASSUME IInv, Reset
    PROVE  /\ \A e \in Restarted : /\ e \in expired /\ e[2] \in Addrs
                                   /\ heap'[e[2]] \in TimerObjects /\ heap'[e[2]] # Free
                                   /\ heap'[e[2]].seq = heap[e[2]].seq
                                   /\ heap'[e[2]].expiration = readAt + Interval
           /\ \A e \in expired \ Restarted : heap'[e[2]] = Free
           /\ \A a \in Addrs : a \notin At(expired) => heap'[a] = heap[a]
           /\ heap' \in [Addrs -> TimerObjects \union {Free}]
           /\ readAt + Interval \in Int
           /\ \A e, f \in expired : e[2] = f[2] => e = f
<1>1. \A e, f \in expired : e[2] = f[2] => e = f
  BY Entries
<1>2. heap' = [a \in Addrs |->
                  IF \E e \in Restarted : e[2] = a
                  THEN [heap[a] EXCEPT !.expiration = readAt + Interval]
                  ELSE IF \E e \in expired : e[2] = a THEN Free ELSE heap[a]]
  BY DEF Reset
<1>3. readAt + Interval \in Int
  BY BoundsAssumption, DelaysAssumption DEF IInv, TypeOK
<1>4. Restarted \subseteq expired
  BY DEF Restarted
<1>5. ASSUME NEW e \in Restarted
      PROVE  /\ e \in expired /\ e[2] \in Addrs
             /\ heap'[e[2]] \in TimerObjects /\ heap'[e[2]] # Free
             /\ heap'[e[2]].seq = heap[e[2]].seq
             /\ heap'[e[2]].expiration = readAt + Interval
  <2>1. e \in expired /\ e[2] \in Addrs /\ heap[e[2]] \in TimerObjects
    BY <1>4, Entries
  <2>2. heap'[e[2]] = [heap[e[2]] EXCEPT !.expiration = readAt + Interval]
    BY <1>2, <2>1
  <2>3. PICK x \in Int : x = readAt + Interval
    BY <1>3
  <2>4. PICK timer \in TimerObjects : timer = heap[e[2]]
    BY <2>1
  <2>5. /\ [timer EXCEPT !.expiration = x] \in TimerObjects
        /\ [timer EXCEPT !.expiration = x].seq = timer.seq
        /\ [timer EXCEPT !.expiration = x].expiration = x
    BY DEF TimerObjects, Times
  <2>6. Free \notin TimerObjects
    BY BoundsAssumption DEF Free, TimerObjects, Seqs
  <2> QED
    BY <2>1, <2>2, <2>3, <2>4, <2>5, <2>6
<1>6. ASSUME NEW e \in expired \ Restarted
      PROVE  heap'[e[2]] = Free
  <2>1. e[2] \in Addrs
    BY Entries
  <2>2. ~\E f \in Restarted : f[2] = e[2]
    BY <1>1, <1>4
  <2> QED
    BY <1>2, <2>1, <2>2
<1>7. ASSUME NEW a \in Addrs, a \notin At(expired)
      PROVE  heap'[a] = heap[a]
  BY <1>2, <1>4, <1>7 DEF At
<1>8. heap' \in [Addrs -> TimerObjects \union {Free}]
  <2>1. ASSUME NEW a \in Addrs PROVE heap'[a] \in TimerObjects \union {Free}
    <3>1. CASE a \in At(expired)
      BY <1>5, <1>6, <3>1 DEF At
    <3>2. CASE a \notin At(expired)
      BY <1>7, <3>2, Objects
    <3> QED
      BY <3>1, <3>2
  <2>2. heap' = [a \in Addrs |-> heap'[a]]
    BY <1>2
  <2> QED
    BY <2>1, <2>2
<1> QED
  BY <1>1, <1>3, <1>5, <1>6, <1>7, <1>8

LEMMA ResetKeeps ==
    ASSUME IInv, Reset
    PROVE  IInv'
<1> DEFINE next == readAt + Interval
<1>1. /\ toRun = {} /\ calling' = FALSE /\ ~calling' /\ expired' = {}
      /\ timers' = timers \union {<<next, e[2]>> : e \in Restarted}
      /\ activeTimers' = activeTimers \union {Sequenced(e) : e \in Restarted}
      /\ alarm' = IF timers' # {} THEN ArmedFor(Earliest(timers')[1]) ELSE alarm
      /\ UNCHANGED <<numCreated, cancelingTimers, toRun, readAt, now, functors, call, issued,
                     cancelled, ran>>
  BY DEF Reset, apiVars
<1>2. /\ Restarted \subseteq expired
      /\ \A e \in Restarted : /\ e \in expired /\ e[2] \in Addrs
                              /\ heap'[e[2]] \in TimerObjects /\ heap'[e[2]] # Free
                              /\ heap'[e[2]].seq = heap[e[2]].seq
                              /\ heap'[e[2]].expiration = next
      /\ \A e \in expired \ Restarted : heap'[e[2]] = Free
      /\ \A a \in Addrs : a \notin At(expired) => heap'[a] = heap[a]
      /\ heap' \in [Addrs -> TimerObjects \union {Free}]
      /\ next \in Int
      /\ \A e, f \in expired : e[2] = f[2] => e = f
  BY ResetHeap
<1>3. \A e \in timers : e[2] \in Addrs /\ e[2] \notin At(expired) /\ heap'[e[2]] = heap[e[2]]
  <2> SUFFICES ASSUME NEW e \in timers
               PROVE  e[2] \in Addrs /\ e[2] \notin At(expired) /\ heap'[e[2]] = heap[e[2]]
    OBVIOUS
  <2>1. e[2] \in Addrs
    BY Entries
  <2>2. e[2] \in At(timers)
    BY DEF At
  <2>3. e[2] \notin At(expired)
    BY <2>2 DEF IInv, BatchInv
  <2> QED
    BY <1>2, <2>1, <2>3
<1>4. \A e \in timers : Sequenced(e)' = Sequenced(e)
  BY <1>3 DEF Sequenced
<1>5. \A e \in Restarted : Sequenced(<<next, e[2]>>)' = Sequenced(e)
  BY <1>1, <1>2 DEF Sequenced
<1>6. At(timers') \subseteq At(timers) \union At(expired)
  BY <1>1, <1>2 DEF At
<1>7. timers' \subseteq Times \X Addrs
  BY <1>1, <1>2 DEF IInv, TypeOK, Times
<1>8. IsFiniteSet(timers')
  <2>1. IsFiniteSet(Restarted) /\ IsFiniteSet(timers)
    BY <1>2, FS_Subset DEF IInv, BatchInv
  <2>2. \A S, x : IsFiniteSet(S) => IsFiniteSet({<<x, e[2]>> : e \in S})
    BY RestartedFinite
  <2>3. IsFiniteSet({<<next, e[2]>> : e \in Restarted})
    BY <2>1, <2>2
  <2> QED
    BY <1>1, <2>1, <2>3, FS_Union
<1>9. timers' # {} => alarm' \in Nat /\ \A e \in timers' : alarm' <= e[1] \/ alarm' <= now + 1
  <2> SUFFICES ASSUME timers' # {}
               PROVE  alarm' \in Nat /\ \A e \in timers' : alarm' <= e[1] \/ alarm' <= now + 1
    OBVIOUS
  <2>1. PICK S \in SUBSET (Times \X Addrs) : S = timers'
    BY <1>7
  <2>2. Earliest(S) \in S /\ \A f \in S : Earliest(S)[1] <= f[1]
    BY <1>8, <2>1, EarliestIsFirst
  <2>3. Earliest(S)[1] \in Int /\ \A f \in S : f[1] \in Int
    <3>1. \A f \in S : f[1] \in Int
      BY DEF Times
    <3> QED
      BY <2>2, <3>1
  <2>4. alarm' = ArmedFor(Earliest(S)[1])
    BY <1>1, <2>1
  <2>5. now \in Nat
    BY BoundsAssumption DEF IInv, TypeOK
  <2> QED
    BY <2>1, <2>2, <2>3, <2>4, <2>5 DEF ArmedFor
<1>10. TypeOK'
  <2>1. alarm' \in {Off} \union Nat
    BY <1>1, <1>9 DEF IInv, TypeOK
  <2>2. activeTimers' \subseteq Pairs
    BY <1>1, <1>2, Entries DEF IInv, TypeOK
  <2> QED
    BY <1>1, <1>2, <1>7, <2>1, <2>2 DEF IInv, TypeOK
<1>11. SetsAgree'
  <2>1. activeTimers' = {Sequenced(e)' : e \in timers'}
    <3>1. activeTimers = {Sequenced(e) : e \in timers}
      BY DEF IInv, SetsAgree
    <3>2. ASSUME NEW x \in activeTimers' PROVE \E e \in timers' : x = Sequenced(e)'
      <4>1. CASE \E e \in timers : x = Sequenced(e)
        BY <1>1, <1>4, <4>1
      <4>2. CASE \E e \in Restarted : x = Sequenced(e)
        BY <1>1, <1>5, <4>2
      <4> QED
        BY <1>1, <3>1, <3>2, <4>1, <4>2
    <3>3. ASSUME NEW e \in timers' PROVE Sequenced(e)' \in activeTimers'
      <4>1. CASE e \in timers
        BY <1>1, <1>4, <3>1, <4>1
      <4>2. CASE \E f \in Restarted : e = <<next, f[2]>>
        BY <1>1, <1>5, <4>2
      <4> QED
        BY <1>1, <3>3, <4>1, <4>2
    <3> QED
      BY <3>2, <3>3
  <2>2. \A e \in timers' : heap'[e[2]] # Free /\ e[1] = heap'[e[2]].expiration
    BY <1>1, <1>2, <1>3 DEF IInv, SetsAgree
  <2>3. \A e, f \in timers' : e[2] = f[2] => e = f
    BY <1>1, <1>2, <1>3 DEF IInv, SetsAgree, At
  <2> QED
    BY <2>1, <2>2, <2>3 DEF SetsAgree
<1>12. BatchInv'
  <2>1. IsFiniteSet({})
    BY FS_EmptySet
  <2> QED
    BY <1>1, <1>8, <2>1 DEF BatchInv, At
<1>13. PendingInv'
  <2>1. ASSUME NEW i \in 1..Len(functors), functors[i].op = "add"
        PROVE  /\ heap'[functors[i].id[1]].seq = functors[i].id[2]
               /\ functors[i].id[1] \notin At(timers') \union At(expired')
               /\ functors[i].id \notin cancelled'
    <3>1. /\ functors[i].id[1] \in Addrs /\ heap[functors[i].id[1]].seq = functors[i].id[2]
          /\ functors[i].id[1] \notin At(timers) \union At(expired)
          /\ functors[i].id \notin cancelled
      BY <2>1, Pending, Queued
    <3>2. At(expired') = {}
      BY <1>1 DEF At
    <3> QED
      BY <1>1, <1>2, <1>6, <3>1, <3>2
  <2>2. Shrinks /\ numCreated' \in Nat /\ numCreated <= numCreated'
    BY <1>1, Objects DEF Shrinks
  <2> QED
    BY <2>1, <2>2, PendingKept
<1>14. SeqsInv'
  <2>1. ASSUME NEW a \in Addrs PROVE heap'[a].seq <= numCreated'
    <3>1. CASE a \notin At(expired)
      BY <1>1, <1>2, <3>1 DEF IInv, SeqsInv
    <3>2. CASE \E e \in expired : a = e[2]
      BY <1>1, <1>2, <3>2, Objects DEF IInv, SeqsInv, Free
    <3> QED
      BY <3>1, <3>2 DEF At
  <2> QED
    BY <1>1, <2>1 DEF IInv, SeqsInv
<1>15. CancelInv'
  <2>1. \A e \in Restarted : Sequenced(e) \notin cancelled
    BY DEF IInv, CancelInv, Restarted
  <2> QED
    BY <1>1, <2>1 DEF IInv, CancelInv
<1>16. NoTimerLost'
  <2> SUFFICES ASSUME NEW s \in 1..numCreated, Waits(s)
               PROVE  Waits(s)' \/ s \in ran \/ \E id \in cancelled : id[2] = s
    BY <1>1 DEF IInv, NoTimerLost
  <2>1. CASE \E e \in timers : heap[e[2]].seq = s
    BY <1>1, <1>3, <2>1 DEF Waits
  <2>2. CASE \E e \in Restarted : heap[e[2]].seq = s
    <3>1. PICK e \in Restarted : heap[e[2]].seq = s
      BY <2>2
    <3>2. <<next, e[2]>> \in timers' /\ heap'[e[2]].seq = s
      BY <1>1, <1>2, <3>1
    <3> QED
      BY <3>2 DEF Waits
  <2>3. CASE \E e \in expired \ Restarted : heap[e[2]].seq = s
    <3>1. PICK e \in expired \ Restarted : heap[e[2]].seq = s
      BY <2>3
    <3>2. CASE heap[e[2]].interval > 0
      <4>1. Sequenced(e) \in cancelled
        BY <3>1, <3>2 DEF Restarted, IInv, CancelInv
      <4> QED
        BY <3>1, <4>1 DEF Sequenced
    <3>3. CASE ~(heap[e[2]].interval > 0)
      BY <1>1, <3>1, <3>3 DEF IInv, BatchInv
    <3> QED
      BY <3>2, <3>3
  <2>4. CASE \E i \in 1..Len(functors) : functors[i].op = "add" /\ functors[i].id[2] = s
    BY <1>1, <2>4 DEF Waits
  <2> QED
    BY <2>1, <2>2, <2>3, <2>4 DEF Waits
<1>17. AlarmCoversEarliest'
  BY <1>1, <1>9 DEF AlarmCoversEarliest, Off
<1> QED
  BY <1>10, <1>11, <1>12, <1>13, <1>14, <1>15, <1>16, <1>17 DEF IInv

-----------------------------------------------------------------------------
(* Theorems.                                                               *)

LEMMA InitIInv == Init => IInv
<1> SUFFICES ASSUME Init PROVE IInv
  OBVIOUS
<1>1. IsFiniteSet({})
  BY FS_EmptySet
<1>2. TypeOK
  <2>1. functors \in Seq([op : {"add", "cancel"}, id : Pairs])
    <3> DEFINE F == [op : {"add", "cancel"}, id : Pairs]
    <3>1. <<>> \in Seq(F)
      OBVIOUS
    <3> QED
      BY <3>1 DEF Init
  <2>2. heap \in [Addrs -> TimerObjects \union {Free}]
    BY DEF Init
  <2>3. 0 \in 0..MaxTimers /\ 0 \in 0..MaxTime
    BY BoundsAssumption
  <2> QED
    BY <2>1, <2>2, <2>3 DEF Init, TypeOK
<1>3. SetsAgree /\ BatchInv /\ CancelInv /\ AlarmCoversEarliest
  BY <1>1 DEF Init, SetsAgree, BatchInv, CancelInv, AlarmCoversEarliest, At
<1>4. PendingInv
  BY DEF Init, PendingInv
<1>5. SeqsInv
  BY DEF Init, SeqsInv, Free, NoCall
<1>6. NoTimerLost
  BY DEF Init, NoTimerLost
<1> QED
  BY <1>2, <1>3, <1>4, <1>5, <1>6 DEF IInv

LEMMA StepIInv == IInv /\ [Next]_vars => IInv'
<1> SUFFICES ASSUME IInv, [Next]_vars PROVE IInv'
  OBVIOUS
<1>1. LoopStep => IInv'
  BY RunFunctorKeeps, BeginExpiredKeeps, RunTimerKeeps, ResetKeeps DEF LoopStep
<1>2. Tick => IInv'
  BY TickKeeps
<1>3. ASSUME NEW a \in Addrs, NEW d \in Whens, NEW i \in {0, Interval},
             LoopAddTimer(a, d, i) \/ \E t \in Threads : ForeignAddTimer(t, a, d, i)
      PROVE  IInv'
  BY <1>3, LoopAddKeeps, ForeignAddKeeps
<1>4. ASSUME NEW id \in issued, LoopCancel(id) \/ \E t \in Threads : ForeignCancel(t, id)
      PROVE  IInv'
  BY <1>4, LoopCancelKeeps, ForeignCancelKeeps
<1>5. ASSUME NEW t \in Threads, ForeignReturns(t)
      PROVE  IInv'
  BY <1>5, ForeignReturnsKeeps
<1>6. CASE UNCHANGED vars
  <2>1. UNCHANGED <<heap, timers, activeTimers, numCreated, cancelingTimers, calling, expired, toRun,
                    readAt, now, alarm, functors, call, issued, cancelled, ran>>
    BY <1>6 DEF vars, setVars, fireVars, apiVars
  <2>2. TypeOK'
    BY <2>1 DEF IInv, TypeOK
  <2> QED
    BY <2>1, <2>2, Unmoved DEF IInv, SeqsInv, AlarmCoversEarliest
<1> QED
  BY <1>1, <1>2, <1>3, <1>4, <1>5, <1>6 DEF Next

\* The inductive invariant.
THEOREM Invariance == Spec => []IInv
<1> QED
  BY InitIInv, StepIInv, PTL DEF Spec

\* TimerQueue.cpp's assertions on its two sets: they hold the same timers, each under
\* the expiration it has, and neither the batch of handleRead() nor a queued
\* addTimerInLoop() points to a timer that was deleted.
THEOREM SetsStayConsistent == Spec => []SetsConsistent
<1>1. ASSUME IInv PROVE SetsConsistent
  <2>1. \A e \in expired : heap[e[2]] # Free /\ Sequenced(e) \notin activeTimers
    <3> SUFFICES ASSUME NEW e \in expired
                 PROVE  heap[e[2]] # Free /\ Sequenced(e) \notin activeTimers
      OBVIOUS
    <3>1. heap[e[2]] # Free /\ e[2] \notin At(timers)
      BY <1>1 DEF IInv, BatchInv, At
    <3>2. \A f \in timers : f[2] # e[2]
      BY <3>1 DEF At
    <3>3. activeTimers = {Sequenced(f) : f \in timers}
      BY <1>1 DEF IInv, SetsAgree
    <3> QED
      BY <3>1, <3>2, <3>3 DEF Sequenced
  <2>2. \A i \in DOMAIN functors :
            functors[i].op = "add" => heap[functors[i].id[1]].seq = functors[i].id[2]
    BY <1>1, Queued DEF IInv, PendingInv
  <2> QED
    BY <1>1, <2>1, <2>2 DEF IInv, SetsConsistent, NoDanglingTimer
<1> QED
  BY <1>1, Invariance, PTL

\* addTimerInLoop(), cancelInLoop() and reset() never leave timerfd_ unarmed, or armed
\* for later than the earliest timer, when handleRead() is not running.
THEOREM EarliestIsCovered == Spec => []AlarmCoversEarliest
<1>1. IInv => AlarmCoversEarliest
  BY DEF IInv
<1> QED
  BY <1>1, Invariance, PTL

\* A timer whose cancelInLoop() ran is not in a later batch; in the batch that runs it is
\* in cancelingTimers_, and reset() does not restart it.
THEOREM CancelTakesEffect == Spec => []CancelledStaysCancelled
<1>1. IInv => CancelledStaysCancelled
  BY DEF IInv, TypeOK, CancelInv, CancelledStaysCancelled
<1> QED
  BY <1>1, Invariance, PTL

\* Every timer ever created is in timers_, in the running batch or in a queued
\* addTimerInLoop(), or it ran and does not repeat, or was cancelled by its own TimerId.
THEOREM TimersAreNotLost == Spec => []NoTimerLost
<1>1. IInv => NoTimerLost
  BY DEF IInv
<1> QED
  BY <1>1, Invariance, PTL

-----------------------------------------------------------------------------
(* The pollers.                                                            *)

\* The map has each channel that the loop has under its descriptor, and no other.
OwnersInv ==
    /\ \A f \in DOMAIN channels : added[channels[f]] /\ fd[channels[f]] = f
    /\ \A c \in Channels : added[c] => HasChannel(c)
    /\ \A c \in Channels : fd[c] = None => index[c] = kNew
    /\ \A c \in Channels : index[c] = kNew => ~added[c]
    /\ IsFiniteSet(DOMAIN channels)

\* The entry of a channel, and whether poll() looks at it.
Entry(c) == pollfds[index[c] + 1]
Shown(c) == IF kind = "epoll" THEN index[c] = kAdded ELSE Entry(c).fd = fd[c]

\* PollPoller: the array is dense, and its entries are the channels'.
PollInv ==
    /\ Len(pollfds) = Cardinality(DOMAIN channels)
    /\ \A c \in Channels : index[c] < 0 => index[c] = kNew
    /\ \A c \in Channels : added[c] =>
        /\ index[c] \in 0..(Len(pollfds) - 1)
        /\ Entry(c).events = events[c]
        /\ Entry(c).fd = fd[c] \/ (Entry(c).fd = Negated(fd[c]) /\ events[c] = {})
    /\ \A i \in 1..Len(pollfds) : \E c \in Channels : added[c] /\ index[c] + 1 = i

\* EPollPoller: index_ tells what the kernel knows.
EpollInv ==
    /\ \A c \in Channels : index[c] \in {kNew, kAdded, kDeleted} /\ (index[c] # kNew => added[c])
    /\ \A f \in DOMAIN epollSet :
        f \in DOMAIN channels /\ epollSet[f] = [events |-> events[channels[f]], channel |-> channels[f]]
    /\ \A c \in Channels : added[c] =>
        /\ index[c] = kAdded <=> fd[c] \in DOMAIN epollSet
        /\ index[c] = kDeleted => events[c] = {}

BooksInv == OwnersInv /\ (kind = "poll" => PollInv) /\ (kind = "epoll" => EpollInv)

\* The results of a poll() are of different channels.
LoopInv ==
    /\ active \in Seq([channel : Channels, revents : SUBSET Reports])
    /\ phase # "dispatch" => active = <<>> /\ at = 0
    /\ \A i, j \in 1..Len(active) : active[i].channel = active[j].channel => i = j

PollerIInv == PollerTypeOK /\ BooksInv /\ LoopInv /\ AssertionsHold

-----------------------------------------------------------------------------
LEMMA FdFacts ==
    /\ Fds \subseteq Nat /\ None \notin Fds /\ None = -1 /\ kNew = -1 /\ kAdded = 1 /\ kDeleted = 2
    /\ \A c \in Channels : FdsOf[c] \subseteq Fds
    /\ \A f, g \in Nat : /\ Negated(f) \in Int /\ Negated(f) < 0 /\ Negated(Negated(f)) = f
                         /\ f # Negated(g) /\ (Negated(f) = Negated(g) => f = g)
<1>1. Fds \subseteq Nat /\ \A c \in Channels : FdsOf[c] \subseteq Fds
  BY FdsAssumption DEF Fds, Range
<1> QED
  BY <1>1 DEF Negated, None, kNew, kAdded, kDeleted

LEMMA FunctionIsSeq ==
    ASSUME NEW S, NEW n \in Nat, NEW s \in [1..n -> S]
    PROVE  s \in Seq(S) /\ Len(s) = n
  OBVIOUS

\* The owners in one place: added channels have descriptors of their own.
LEMMA OwnersFacts ==
    ASSUME PollerTypeOK, OwnersInv
    PROVE  /\ Range(channels) = {c \in Channels : added[c]}
           /\ \A c \in Channels : added[c] => fd[c] \in Fds /\ fd[c] \in DOMAIN channels /\ channels[fd[c]] = c
           /\ \A c, d \in Channels : added[c] /\ added[d] /\ fd[c] = fd[d] => c = d
           /\ \A f \in DOMAIN channels : f \in Fds /\ channels[f] \in Channels
  BY DEF PollerTypeOK, OwnersInv, HasChannel, Range

LEMMA EntryFacts ==
    ASSUME PollerTypeOK, OwnersInv, PollInv
    PROVE  /\ Len(pollfds) \in Nat
           /\ \A c \in Channels : added[c] => index[c] + 1 \in 1..Len(pollfds) /\ AtIndex(c)
           /\ \A c, d \in Channels : added[c] /\ added[d] /\ index[c] = index[d] => c = d
<1>1. Len(pollfds) \in Nat /\ \A c \in Channels : index[c] \in Int
  BY DEF PollerTypeOK
<1>2. \A c \in Channels : added[c] => index[c] + 1 \in 1..Len(pollfds) /\ AtIndex(c)
  BY <1>1 DEF PollInv, AtIndex, Entry
<1>3. ASSUME NEW c \in Channels, NEW d \in Channels, added[c], added[d], index[c] = index[d] PROVE c = d
  <2>1. fd[c] \in Nat /\ fd[d] \in Nat
    BY <1>3, OwnersFacts, FdFacts
  <2>2. Entry(c).fd \in {fd[c], Negated(fd[c])} /\ Entry(c).fd \in {fd[d], Negated(fd[d])}
    BY <1>3 DEF PollInv, Entry
  <2>3. fd[c] = fd[d]
    BY <2>1, <2>2, FdFacts
  <2> QED
    BY <1>3, <2>3, OwnersFacts
<1> QED
  BY <1>1, <1>2, <1>3

\* What the kernel watches, for either poller.
WatchFacts ==
    /\ Range(channels) = {c \in Channels : added[c]}
    /\ \A f \in DOMAIN Watched :
        f \in DOMAIN channels /\ Watched[f] = [events |-> events[channels[f]], channel |-> channels[f]]
    /\ \A c \in Channels : added[c] =>
        /\ fd[c] \in DOMAIN Watched <=> Shown(c)
        /\ WatchOf(c) = IF Shown(c) THEN events[c] ELSE {"silent"}
        /\ events[c] # {} => Shown(c)
    /\ IsFiniteSet(DOMAIN Watched)

LEMMA WatchIsAsked == PollerIInv => WatchFacts
<1> SUFFICES ASSUME PollerIInv PROVE WatchFacts
  OBVIOUS
<1> USE DEF PollerIInv, BooksInv
<1>1. /\ Range(channels) = {c \in Channels : added[c]}
      /\ \A c \in Channels : added[c] => fd[c] \in Fds /\ fd[c] \in DOMAIN channels /\ channels[fd[c]] = c
      /\ \A f \in DOMAIN channels : f \in Fds /\ channels[f] \in Channels /\ added[channels[f]] /\ fd[channels[f]] = f
  BY OwnersFacts DEF OwnersInv
<1>2. /\ \A f \in DOMAIN Watched :
          f \in DOMAIN channels /\ Watched[f] = [events |-> events[channels[f]], channel |-> channels[f]]
      /\ \A c \in Channels : added[c] => (fd[c] \in DOMAIN Watched <=> Shown(c)) /\ (events[c] # {} => Shown(c))
  <2>1. CASE kind = "epoll"
    <3>1. Watched = epollSet /\ \A c : Shown(c) <=> index[c] = kAdded
      BY <2>1 DEF Watched, Shown
    <3>2. \A c \in Channels : index[c] # kNew \/ ~added[c]
      BY DEF OwnersInv
    <3> QED
      BY <2>1, <3>1, <3>2 DEF EpollInv
  <2>2. CASE kind = "poll"
    <3>1. /\ DOMAIN pollfds = 1..Len(pollfds) /\ kind # "epoll"
          /\ \A c : Shown(c) <=> Entry(c).fd = fd[c]
      BY <2>2 DEF PollerTypeOK, Shown
    <3>2. DOMAIN Watched = {p.fd : p \in Range(pollfds)} \intersect Fds
      BY <3>1 DEF Watched
    <3>3. ASSUME NEW i \in 1..Len(pollfds), pollfds[i].fd \in Fds
          PROVE  \E c \in Channels : /\ added[c] /\ index[c] + 1 = i /\ pollfds[i].fd = fd[c]
                                     /\ pollfds[i].events = events[c]
      <4>1. PICK c \in Channels : added[c] /\ index[c] + 1 = i
        BY <2>2 DEF PollInv
      <4>2. pollfds[i] = Entry(c)
        BY <4>1 DEF Entry
      <4>3. fd[c] \in Nat /\ pollfds[i].fd \in Nat
        BY <1>1, <3>3, <4>1, FdFacts
      <4> QED
        BY <2>2, <4>1, <4>2, <4>3, FdFacts DEF PollInv
    <3>4. ASSUME NEW f \in DOMAIN Watched
          PROVE  f \in DOMAIN channels /\ Watched[f] = [events |-> events[channels[f]], channel |-> channels[f]]
      <4> DEFINE q == CHOOSE p \in Range(pollfds) : p.fd = f
      <4>1. q \in Range(pollfds) /\ q.fd = f /\ f \in Fds
        BY <3>2
      <4> HIDE DEF q
      <4>2. PICK i \in 1..Len(pollfds) : pollfds[i] = q
        BY <3>1, <4>1 DEF Range
      <4>3. PICK c \in Channels : added[c] /\ f = fd[c] /\ q.events = events[c]
        BY <3>3, <4>1, <4>2
      <4>4. f \in DOMAIN channels /\ channels[f] = c
        BY <1>1, <4>3
      <4>5. Watched[f] = [events |-> q.events, channel |-> channels[f]]
        BY <3>1, <4>1 DEF Watched, q
      <4> QED
        BY <4>3, <4>4, <4>5
    <3>5. ASSUME NEW c \in Channels, added[c]
          PROVE  (fd[c] \in DOMAIN Watched <=> Shown(c)) /\ (events[c] # {} => Shown(c))
      <4>1. index[c] + 1 \in 1..Len(pollfds)
        BY <2>2, <3>5, EntryFacts
      <4>2. Entry(c).fd = fd[c] => fd[c] \in DOMAIN Watched
        BY <1>1, <3>1, <3>2, <3>5, <4>1 DEF Range, Entry
      <4>3. ASSUME fd[c] \in DOMAIN Watched PROVE Entry(c).fd = fd[c]
        <5>1. PICK i \in 1..Len(pollfds) : pollfds[i].fd = fd[c] /\ fd[c] \in Fds
          BY <3>1, <3>2, <4>3 DEF Range
        <5>2. PICK d \in Channels : added[d] /\ index[d] + 1 = i /\ fd[d] = fd[c]
          BY <3>3, <5>1
        <5>3. d = c
          BY <3>5, <5>2, OwnersFacts
        <5> QED
          BY <5>1, <5>2, <5>3 DEF Entry
      <4> QED
        BY <2>2, <3>1, <3>5, <4>2, <4>3 DEF PollInv
    <3> QED
      BY <3>4, <3>5
  <2> QED
    BY <2>1, <2>2 DEF PollerTypeOK
<1>3. IsFiniteSet(DOMAIN Watched)
  <2>1. DOMAIN Watched \subseteq DOMAIN channels
    BY <1>2
  <2> QED
    BY <2>1, FS_Subset DEF OwnersInv
<1>4. \A c \in Channels : added[c] => WatchOf(c) = IF Shown(c) THEN events[c] ELSE {"silent"}
  BY <1>1, <1>2 DEF WatchOf
<1> QED
  BY <1>1, <1>2, <1>3, <1>4 DEF WatchFacts

-----------------------------------------------------------------------------
(* Steps that leave the books as they are.                                 *)

LEMMA AbortKeeps ==
    ASSUME PollerIInv, kind = "poll", NEW where \in {"updateRemoved", "removeUnasked"}, Abort(where),
           where = "removeUnasked" => \E p \in Range(pollfds) : p.fd >= 0 /\ p.events = {}
    PROVE  PollerIInv'
<1>1. UNCHANGED <<kind, channelVars, books, ready, loopVars>> /\ failed' = where
  BY DEF Abort
<1>2. AssertionsHold'
  BY <1>1 DEF PollerIInv, AssertionsHold, books
<1>4. PollerTypeOK'
  <2>1. where \in Assertions
    BY DEF Assertions
  <2> QED
    BY <1>1, <2>1 DEF PollerIInv, PollerTypeOK, channelVars, books, loopVars
<1>3. BooksInv' /\ LoopInv'
  BY <1>1 DEF PollerIInv, BooksInv, OwnersInv, HasChannel, PollInv, EpollInv, Entry, LoopInv, channelVars, books, loopVars
<1> QED
  BY <1>2, <1>3, <1>4 DEF PollerIInv

\* What poll() hands out: channels that the loop has and the kernel watches, each once.
LEMMA Polled ==
    ASSUME PollerIInv, PollReturns
    PROVE  /\ active' \in Seq([channel : Channels, revents : SUBSET Reports])
           /\ \A i, j \in 1..Len(active') : active'[i].channel = active'[j].channel => i = j
           /\ \A i \in 1..Len(active') :
                /\ added[active'[i].channel] /\ Shown(active'[i].channel)
                /\ active'[i].revents # {}
                /\ active'[i].revents \subseteq events[active'[i].channel] \union {"hup"}
<1> USE DEF PollerIInv
<1>1. PICK F \in SUBSET Reportable : \E fs \in SetToSeqs(F) : active' = Filled(fs)
  BY DEF PollReturns, PollPollerReturns, EPollPollerReturns, kSubset
<1>2. PICK fs \in SetToSeqs(F) : active' = Filled(fs)
  BY <1>1
<1>3. WatchFacts
  BY WatchIsAsked
<1>4. Reportable \subseteq DOMAIN Watched /\ Cardinality(F) \in Nat
  BY <1>3, FS_Subset, FS_CardinalityType DEF Reportable, WatchFacts
<1> DEFINE n == Cardinality(F)
<1>5. fs \in [1..n -> F] /\ \A i, j \in 1..n : i # j => fs[i] # fs[j]
  BY <1>2 DEF SetToSeqs
<1>6. ASSUME NEW f \in F
      PROVE  /\ Watched[f].channel = channels[f] /\ channels[f] \in Channels /\ fd[channels[f]] = f
             /\ Revents(f) \in SUBSET Reports /\ Revents(f) # {}
             /\ added[channels[f]] /\ Shown(channels[f])
             /\ Revents(f) \subseteq events[channels[f]] \union {"hup"}
  <2>1. /\ f \in DOMAIN channels /\ channels[f] \in Channels /\ fd[channels[f]] = f /\ added[channels[f]]
        /\ Watched[f] = [events |-> events[channels[f]], channel |-> channels[f]]
    BY <1>3, <1>4, OwnersFacts DEF WatchFacts, BooksInv, OwnersInv
  <2>2. events[channels[f]] \subseteq Events /\ Revents(f) # {} /\ f \in DOMAIN Watched
    BY <1>4, <2>1 DEF PollerTypeOK, Reportable
  <2>3. Shown(channels[f])
    BY <1>3, <2>1, <2>2 DEF WatchFacts
  <2> QED
    BY <2>1, <2>2, <2>3 DEF Revents, Reports
<1>7. n \in Nat
  BY <1>4
<1> HIDE DEF n
<1>8. /\ active' = [i \in 1..n |-> [channel |-> channels[fs[i]], revents |-> Revents(fs[i])]]
      /\ \A i \in 1..n : fs[i] \in F
  BY <1>2, <1>5, <1>6 DEF Filled
<1>9. active' \in Seq([channel : Channels, revents : SUBSET Reports]) /\ Len(active') = n
  <2>1. \A i \in 1..n : [channel |-> channels[fs[i]], revents |-> Revents(fs[i])]
                          \in [channel : Channels, revents : SUBSET Reports]
    BY <1>6, <1>8
  <2> HIDE <1>6
  <2>2. active' \in [1..n -> [channel : Channels, revents : SUBSET Reports]]
    BY <1>8, <2>1
  <2> QED
    BY <1>7, <2>2, FunctionIsSeq
<1>10. ASSUME NEW i \in 1..n, NEW j \in 1..n, active'[i].channel = active'[j].channel PROVE i = j
  <2>1. channels[fs[i]] = channels[fs[j]]
    BY <1>8, <1>10
  <2>2. fs[i] = fs[j]
    BY <1>6, <1>8, <2>1
  <2> QED
    BY <1>5, <2>2
<1>11. \A i \in 1..n : /\ active'[i].channel = channels[fs[i]] /\ active'[i].revents = Revents(fs[i])
                        /\ fs[i] \in F
  BY <1>8
<1> QED
  BY <1>6, <1>9, <1>10, <1>11

LEMMA LoopKeeps ==
    ASSUME PollerIInv, HandleEvent \/ DoPendingFunctors \/ EnterPoll \/ PollReturns \/ UNCHANGED pollerVars
    PROVE  PollerIInv'
<1> USE DEF PollerIInv
<1>1. /\ UNCHANGED <<kind, channelVars, channels, pollfds, epollSet, failed>>
      /\ listSize' \in Nat \ {0}
  <2>1. CASE PollReturns
    <3>1. listSize' \in {listSize, 2 * listSize} /\ listSize \in Nat \ {0}
      BY <2>1 DEF PollReturns, PollPollerReturns, EPollPollerReturns, Grown, PollerTypeOK
    <3> QED
      BY <2>1, <3>1 DEF PollReturns
  <2> QED
    BY <2>1 DEF HandleEvent, DoPendingFunctors, EnterPoll, pollerVars, books, PollerTypeOK
<1>2. BooksInv' /\ AssertionsHold'
  BY <1>1 DEF BooksInv, OwnersInv, HasChannel, PollInv, EpollInv, Entry, AssertionsHold, channelVars
<1>3. /\ LoopInv' /\ at' \in 0..Len(active') /\ phase' \in {"poll", "dispatch", "functors"}
      /\ DOMAIN ready' \subseteq Fds /\ Range(ready') \subseteq SUBSET Reports
  <2>1. CASE DoPendingFunctors
    <3>1. <<>> \in Seq([channel : Channels, revents : SUBSET Reports]) /\ Len(<<>>) = 0 /\ 1..0 = {}
      OBVIOUS
    <3> QED
      BY <2>1, <3>1 DEF DoPendingFunctors, LoopInv, PollerTypeOK
  <2>4. CASE UNCHANGED pollerVars
    BY <2>4 DEF pollerVars, loopVars, LoopInv, PollerTypeOK
  <2>5. CASE HandleEvent
    <3>1. UNCHANGED <<phase, active, ready>> /\ phase = "dispatch" /\ at' \in 0..Len(active)
      BY <2>5 DEF HandleEvent, PollerTypeOK, LoopInv
    <3> QED
      BY <3>1 DEF LoopInv, PollerTypeOK
  <2>2. CASE EnterPoll
    <3>1. DOMAIN Watched \subseteq Fds
      BY WatchIsAsked, OwnersFacts DEF WatchFacts, BooksInv
    <3> QED
      BY <2>2, <3>1 DEF EnterPoll, LoopInv, PollerTypeOK, Range
  <2>3. CASE PollReturns
    <3>1. phase' = "dispatch" /\ ready' = <<>> /\ at' = 0 /\ Len(active') \in Nat
      BY <2>3, Polled DEF PollReturns, LoopInv
    <3> QED
      BY <2>3, <3>1, Polled DEF LoopInv, Range
  <2> QED
    BY <2>1, <2>2, <2>3, <2>4, <2>5
<1>4. PollerTypeOK'
  BY <1>1, <1>3 DEF PollerTypeOK, channelVars
<1> QED
  BY <1>2, <1>3, <1>4

\* Channels are made and destroyed outside the loop.
LEMMA ConstructKeeps ==
    ASSUME PollerIInv, NEW c \in Channels, NEW f \in FdsOf[c], Construct(c, f)
    PROVE  PollerIInv'
<1> USE DEF PollerIInv
<1>1. /\ UNCHANGED <<kind, events, index, added, books, ready, loopVars, failed>>
      /\ ~added[c] /\ fd' = [fd EXCEPT ![c] = f] /\ f \in Fds
  BY FdFacts DEF Construct, BooksInv, OwnersInv
<1>2. fd' \in [Channels -> Fds \union {None}] /\ \A d \in Channels : d # c => fd'[d] = fd[d]
  BY <1>1 DEF PollerTypeOK
<1>3. PollerTypeOK' /\ LoopInv' /\ AssertionsHold'
  BY <1>1, <1>2 DEF PollerTypeOK, LoopInv, AssertionsHold, books, loopVars
<1>4. \A d \in Channels : added[d] => d # c /\ fd'[d] = fd[d]
  BY <1>1, <1>2
<1>5. OwnersInv'
  BY <1>1, <1>2, <1>4, OwnersFacts, FdFacts DEF OwnersInv, HasChannel, BooksInv, books, PollerTypeOK
<1>6. kind = "poll" => PollInv'
  BY <1>1, <1>4 DEF PollInv, BooksInv, Entry, books
<1>7. kind = "epoll" => EpollInv'
  BY <1>1, <1>4 DEF EpollInv, BooksInv, books
<1> QED
  BY <1>1, <1>3, <1>5, <1>6, <1>7 DEF BooksInv

LEMMA DestroyKeeps ==
    ASSUME PollerIInv, NEW c \in Channels, Destroy(c)
    PROVE  PollerIInv'
<1> USE DEF PollerIInv
<1>1. /\ UNCHANGED <<kind, added, books, ready, loopVars, failed>> /\ ~added[c]
      /\ fd' = [fd EXCEPT ![c] = None] /\ events' = [events EXCEPT ![c] = {}] /\ index' = [index EXCEPT ![c] = kNew]
  <2>1. ~added[c] /\ ~HasChannel(c)
    BY DEF Destroy, BooksInv, OwnersInv, HasChannel
  <2> QED
    BY <2>1 DEF Destroy
<1>2. /\ fd' \in [Channels -> Fds \union {None}] /\ events' \in [Channels -> SUBSET Events] /\ index' \in [Channels -> Int]
      /\ \A d \in Channels : d # c => fd'[d] = fd[d] /\ events'[d] = events[d] /\ index'[d] = index[d]
      /\ index'[c] = kNew /\ kNew = -1
  BY <1>1 DEF PollerTypeOK, kNew
<1>3. PollerTypeOK' /\ LoopInv' /\ AssertionsHold'
  BY <1>1, <1>2 DEF PollerTypeOK, LoopInv, AssertionsHold, books, loopVars
<1>4. \A d \in Channels : added[d] => d # c /\ fd'[d] = fd[d] /\ events'[d] = events[d] /\ index'[d] = index[d]
  BY <1>1, <1>2
<1>5. OwnersInv'
  BY <1>1, <1>2, <1>4, OwnersFacts, FdFacts DEF OwnersInv, HasChannel, BooksInv, books, PollerTypeOK
<1>6. kind = "poll" => PollInv'
  BY <1>1, <1>2, <1>4 DEF PollInv, BooksInv, Entry, books
<1>7. kind = "epoll" => EpollInv'
  BY <1>1, <1>2, <1>4, OwnersFacts DEF EpollInv, BooksInv, OwnersInv, books
<1> QED
  BY <1>1, <1>3, <1>5, <1>6, <1>7 DEF BooksInv

-----------------------------------------------------------------------------
(* The map.                                                                *)

\* An update of a channel that is the only one with its descriptor, or the loop's.
LEMMA UpdateOwner ==
    ASSUME PollerIInv, NEW c \in Channels, NEW asked \in SUBSET Events, Update(c, asked)
    PROVE  /\ fd[c] \in Fds
           /\ fd[c] \in DOMAIN channels => added[c] /\ HasChannel(c)
           /\ HasChannel(c) <=> added[c]
           /\ \A d \in Channels : d # c /\ added[d] => fd[d] # fd[c]
<1> USE DEF PollerIInv, BooksInv
<1>1. fd[c] \in Fds /\ (added[c] \/ \A d \in Channels : fd[d] = fd[c] => d = c)
  BY DEF Update, PollerTypeOK
<1> QED
  BY <1>1, OwnersFacts DEF OwnersInv, HasChannel

\* What an update and a removal do to the map.
LEMMA MapGrows ==
    ASSUME PollerIInv, NEW c \in Channels, fd[c] \in Fds,
           fd[c] \in DOMAIN channels => added[c] /\ HasChannel(c),
           \A d \in Channels : d # c /\ added[d] => fd[d] # fd[c],
           channels' = With(channels, fd[c], c), added' = [added EXCEPT ![c] = TRUE],
           fd' = fd, index' \in [Channels -> Int], index'[c] # kNew,
           \A d \in Channels : d # c => index'[d] = index[d]
    PROVE  /\ OwnersInv' /\ DOMAIN channels' \subseteq Fds /\ Range(channels') \subseteq Channels
           /\ added' \in [Channels -> BOOLEAN]
           /\ \A d \in Channels : added'[d] <=> d = c \/ added[d]
           /\ DOMAIN channels' = DOMAIN channels \union {fd[c]} /\ channels'[fd[c]] = c
           /\ \A f \in DOMAIN channels : f # fd[c] => channels'[f] = channels[f]
<1> USE DEF PollerIInv, BooksInv
<1>1. /\ DOMAIN channels' = DOMAIN channels \union {fd[c]} /\ channels'[fd[c]] = c
      /\ \A f \in DOMAIN channels : f # fd[c] => channels'[f] = channels[f]
  BY DEF With
<1>2. added' \in [Channels -> BOOLEAN] /\ \A d \in Channels : added'[d] <=> d = c \/ added[d]
  BY DEF PollerTypeOK
<1>3. DOMAIN channels' \subseteq Fds /\ Range(channels') \subseteq Channels
  BY <1>1, OwnersFacts DEF Range
<1>4. IsFiniteSet(DOMAIN channels')
  BY <1>1, FS_AddElement DEF OwnersInv
<1>5. \A f \in DOMAIN channels' : added'[channels'[f]] /\ fd'[channels'[f]] = f
  BY <1>1, <1>2, OwnersFacts DEF OwnersInv
<1>6. \A d \in Channels : added'[d] => fd'[d] \in DOMAIN channels' /\ channels'[fd'[d]] = d
  BY <1>1, <1>2, OwnersFacts
<1>7. \A d \in Channels : (fd'[d] = None => index'[d] = kNew) /\ (index'[d] = kNew => ~added'[d])
  BY <1>2, FdFacts DEF OwnersInv
<1> QED
  BY <1>1, <1>2, <1>3, <1>4, <1>5, <1>6, <1>7 DEF OwnersInv, HasChannel

LEMMA MapShrinks ==
    ASSUME PollerIInv, NEW c \in Channels, added[c],
           channels' = Without(channels, fd[c]), added' = [added EXCEPT ![c] = FALSE],
           fd' = fd, index' \in [Channels -> Int],
           \A d \in Channels : index'[d] = kNew <=> index[d] = kNew \/ (d = c /\ index'[c] = kNew)
    PROVE  /\ OwnersInv' /\ DOMAIN channels' \subseteq Fds /\ Range(channels') \subseteq Channels
           /\ added' \in [Channels -> BOOLEAN]
           /\ \A d \in Channels : added'[d] <=> d # c /\ added[d]
           /\ DOMAIN channels' = DOMAIN channels \ {fd[c]} /\ fd[c] \in DOMAIN channels
           /\ \A f \in DOMAIN channels : f # fd[c] => channels'[f] = channels[f]
<1> USE DEF PollerIInv, BooksInv
<1>1. /\ DOMAIN channels' = DOMAIN channels \ {fd[c]} /\ fd[c] \in DOMAIN channels
      /\ \A f \in DOMAIN channels : f # fd[c] => channels'[f] = channels[f]
  <2>1. channels' = [f \in DOMAIN channels \ {fd[c]} |-> channels[f]] /\ fd[c] \in DOMAIN channels
    BY OwnersFacts DEF Without, Restrict
  <2> QED
    BY <2>1
<1>2. added' \in [Channels -> BOOLEAN] /\ \A d \in Channels : added'[d] <=> d # c /\ added[d]
  BY DEF PollerTypeOK
<1>3. DOMAIN channels' \subseteq Fds /\ Range(channels') \subseteq Channels
  BY <1>1, OwnersFacts DEF Range
<1>4. IsFiniteSet(DOMAIN channels')
  BY <1>1, FS_RemoveElement DEF OwnersInv
<1>5. \A f \in DOMAIN channels' : added'[channels'[f]] /\ fd'[channels'[f]] = f
  BY <1>1, <1>2, OwnersFacts DEF OwnersInv
<1>6. \A d \in Channels : added'[d] => fd'[d] \in DOMAIN channels' /\ channels'[fd'[d]] = d
  BY <1>1, <1>2, OwnersFacts
<1>7. \A d \in Channels : (fd'[d] = None => index'[d] = kNew) /\ (index'[d] = kNew => ~added'[d])
  BY <1>2 DEF OwnersInv
<1> QED
  BY <1>1, <1>2, <1>3, <1>4, <1>5, <1>6, <1>7 DEF OwnersInv, HasChannel

-----------------------------------------------------------------------------
(* EPollPoller.                                                            *)

\* No assertion of updateChannel() or error of epoll_ctl() stops an owner that keeps the
\* rules.
LEMMA EpollUpdates ==
    ASSUME PollerIInv, kind = "epoll", NEW c \in Channels, NEW asked \in SUBSET Events, Update(c, asked)
    PROVE  /\ Asks(c, asked) /\ channels' = With(channels, fd[c], c) /\ UNCHANGED <<pollfds, failed>>
           /\ IF index[c] = kAdded /\ asked = {}
              THEN index' = [index EXCEPT ![c] = kDeleted] /\ epollSet' = Without(epollSet, fd[c])
              ELSE /\ index' = [index EXCEPT ![c] = kAdded]
                   /\ epollSet' = With(epollSet, fd[c], [events |-> asked, channel |-> c])
<1> USE DEF PollerIInv, BooksInv
<1>1. /\ fd[c] \in DOMAIN channels => added[c] /\ HasChannel(c)
      /\ HasChannel(c) <=> added[c]
  BY UpdateOwner
<1>2. EpollUpdate(c, asked)
  BY DEF Update
<1>3. /\ index[c] \in {kNew, kAdded, kDeleted} /\ (index[c] # kNew <=> added[c])
      /\ index[c] = kAdded => fd[c] \in DOMAIN epollSet
      /\ index[c] # kAdded => fd[c] \notin DOMAIN epollSet
  <2>1. index[c] \in {kNew, kAdded, kDeleted} /\ (index[c] # kNew <=> added[c])
    BY DEF EpollInv, OwnersInv
  <2>2. fd[c] \in DOMAIN epollSet => added[c]
    BY <1>1 DEF EpollInv
  <2>3. added[c] => (index[c] = kAdded <=> fd[c] \in DOMAIN epollSet)
    BY DEF EpollInv
  <2>4. kNew # kAdded
    BY FdFacts
  <2> QED
    BY <2>1, <2>2, <2>3, <2>4
<1> DEFINE operation == IF index[c] # kAdded THEN "ADD" ELSE IF asked = {} THEN "DEL" ELSE "MOD"
<1>4. ~(index[c] = kNew /\ fd[c] \in DOMAIN channels) /\ ~(index[c] # kNew /\ ~HasChannel(c))
  BY <1>1, <1>3
<1>5. ~EpollFails(operation, c)
  BY <1>3 DEF EpollFails
<1>6. /\ EpollCtl(operation, c, asked)
      /\ channels' = With(channels, fd[c], c)
      /\ index' = [index EXCEPT ![c] = IF operation = "DEL" THEN kDeleted ELSE kAdded]
      /\ Asks(c, asked)
      /\ UNCHANGED <<pollfds, failed>>
  BY <1>2, <1>4, <1>5 DEF EpollUpdate
<1>7. operation = "DEL" <=> index[c] = kAdded /\ asked = {}
  OBVIOUS
<1> HIDE DEF operation
<1> QED
  BY <1>6, <1>7 DEF EpollCtl

LEMMA EpollRemoves ==
    ASSUME PollerIInv, kind = "epoll", NEW c \in Channels, RemoveChannel(c)
    PROVE  /\ Removed(c) /\ channels' = Without(channels, fd[c]) /\ UNCHANGED <<pollfds, failed>>
           /\ added[c] /\ events[c] = {}
           /\ index' = [index EXCEPT ![c] = kNew]
           /\ epollSet' = IF index[c] = kAdded THEN Without(epollSet, fd[c]) ELSE epollSet
<1>1. added[c] /\ events[c] = {} /\ HasChannel(c) /\ index[c] # kNew /\ EpollRemove(c)
  BY DEF PollerIInv, BooksInv, RemoveChannel, OwnersInv
<1> QED
  BY <1>1 DEF EpollRemove, EpollCtl

\* An update and a removal leave the other channels' part of the types and the loop.
LEMMA AsksTypes ==
    ASSUME PollerIInv, NEW c \in Channels, NEW asked \in SUBSET Events, Asks(c, asked)
    PROVE  /\ events' \in [Channels -> SUBSET Events] /\ events'[c] = asked
           /\ \A d \in Channels : d # c => events'[d] = events[d]
           /\ added' = [added EXCEPT ![c] = TRUE] /\ LoopInv'
           /\ UNCHANGED <<kind, fd, listSize, ready, phase, active, at>>
  BY DEF PollerIInv, PollerTypeOK, Asks, LoopInv, loopVars

LEMMA RemovedTypes ==
    ASSUME PollerIInv, NEW c \in Channels, Removed(c)
    PROVE  /\ added' = [added EXCEPT ![c] = FALSE] /\ LoopInv'
           /\ UNCHANGED <<kind, fd, events, listSize, ready, phase, active, at>>
  BY DEF PollerIInv, Removed, LoopInv, loopVars

LEMMA EpollUpdateKeeps ==
    ASSUME PollerIInv, kind = "epoll", NEW c \in Channels, NEW asked \in SUBSET Events, Update(c, asked)
    PROVE  PollerIInv'
<1> USE DEF PollerIInv, BooksInv
<1>1. /\ fd[c] \in Fds
      /\ fd[c] \in DOMAIN channels => added[c] /\ HasChannel(c)
      /\ \A d \in Channels : d # c /\ added[d] => fd[d] # fd[c]
  BY UpdateOwner
<1>2. /\ Asks(c, asked) /\ channels' = With(channels, fd[c], c) /\ UNCHANGED <<pollfds, failed>>
      /\ IF index[c] = kAdded /\ asked = {}
         THEN index' = [index EXCEPT ![c] = kDeleted] /\ epollSet' = Without(epollSet, fd[c])
         ELSE /\ index' = [index EXCEPT ![c] = kAdded]
              /\ epollSet' = With(epollSet, fd[c], [events |-> asked, channel |-> c])
  BY EpollUpdates
<1>3. /\ index' \in [Channels -> Int] /\ \A d \in Channels : d # c => index'[d] = index[d]
      /\ index'[c] = IF index[c] = kAdded /\ asked = {} THEN kDeleted ELSE kAdded
      /\ kNew # kAdded /\ kNew # kDeleted /\ kAdded # kDeleted
  BY <1>2, FdFacts DEF PollerTypeOK
<1>4. /\ events' \in [Channels -> SUBSET Events] /\ events'[c] = asked
      /\ \A d \in Channels : d # c => events'[d] = events[d]
      /\ added' = [added EXCEPT ![c] = TRUE] /\ LoopInv'
      /\ UNCHANGED <<kind, fd, listSize, ready, phase, active, at>>
  BY <1>2, AsksTypes
<1>5. /\ OwnersInv' /\ DOMAIN channels' \subseteq Fds /\ Range(channels') \subseteq Channels
      /\ added' \in [Channels -> BOOLEAN]
      /\ \A d \in Channels : added'[d] <=> d = c \/ added[d]
      /\ DOMAIN channels' = DOMAIN channels \union {fd[c]} /\ channels'[fd[c]] = c
      /\ \A f \in DOMAIN channels : f # fd[c] => channels'[f] = channels[f]
  BY <1>1, <1>2, <1>3, <1>4, MapGrows
<1>6. /\ DOMAIN epollSet' = IF index[c] = kAdded /\ asked = {}
                            THEN DOMAIN epollSet \ {fd[c]} ELSE DOMAIN epollSet \union {fd[c]}
      /\ \A f \in DOMAIN epollSet' :
          epollSet'[f] = IF f = fd[c] THEN [events |-> asked, channel |-> c] ELSE epollSet[f]
  BY <1>2 DEF With, Without, Restrict
<1>7. PollerTypeOK' /\ AssertionsHold'
  <2>1. DOMAIN epollSet' \subseteq Fds
    BY <1>1, <1>6 DEF PollerTypeOK
  <2> QED
    BY <1>2, <1>3, <1>4, <1>5, <2>1 DEF PollerTypeOK, AssertionsHold
<1>8. EpollInv'
  <2>1. \A d \in Channels : index'[d] \in {kNew, kAdded, kDeleted} /\ (index'[d] # kNew => added'[d])
    BY <1>3, <1>5 DEF EpollInv
  <2>2. ASSUME NEW f \in DOMAIN epollSet'
        PROVE  f \in DOMAIN channels' /\ epollSet'[f] = [events |-> events'[channels'[f]], channel |-> channels'[f]]
    <3>1. CASE f = fd[c]
      BY <1>4, <1>5, <1>6, <3>1
    <3>2. CASE f # fd[c]
      <4>1. /\ f \in DOMAIN epollSet /\ f \in DOMAIN channels /\ channels'[f] = channels[f]
            /\ epollSet[f] = [events |-> events[channels[f]], channel |-> channels[f]]
        BY <1>5, <1>6, <3>2 DEF EpollInv
      <4>2. channels[f] \in Channels /\ channels[f] # c
        BY <3>2, <4>1, OwnersFacts DEF OwnersInv
      <4> QED
        BY <1>4, <1>5, <1>6, <3>2, <4>1, <4>2
    <3> QED
      BY <3>1, <3>2
  <2>3. ASSUME NEW d \in Channels, added'[d]
        PROVE  /\ index'[d] = kAdded <=> fd'[d] \in DOMAIN epollSet'
               /\ index'[d] = kDeleted => events'[d] = {}
    BY <1>1, <1>3, <1>4, <1>5, <1>6, <2>3 DEF EpollInv
  <2> QED
    BY <2>1, <2>2, <2>3 DEF EpollInv
<1> QED
  BY <1>4, <1>5, <1>7, <1>8

LEMMA EpollRemoveKeeps ==
    ASSUME PollerIInv, kind = "epoll", NEW c \in Channels, RemoveChannel(c)
    PROVE  PollerIInv'
<1> USE DEF PollerIInv, BooksInv
<1>1. /\ Removed(c) /\ channels' = Without(channels, fd[c]) /\ UNCHANGED <<pollfds, failed>>
      /\ added[c] /\ events[c] = {}
      /\ index' = [index EXCEPT ![c] = kNew]
      /\ epollSet' = IF index[c] = kAdded THEN Without(epollSet, fd[c]) ELSE epollSet
  BY EpollRemoves
<1>2. /\ index' \in [Channels -> Int] /\ \A d \in Channels : d # c => index'[d] = index[d]
      /\ index'[c] = kNew /\ kNew # kAdded /\ kNew # kDeleted /\ kAdded # kDeleted
  BY <1>1, FdFacts DEF PollerTypeOK
<1>3. /\ added' = [added EXCEPT ![c] = FALSE] /\ LoopInv'
      /\ UNCHANGED <<kind, fd, events, listSize, ready, phase, active, at>>
  BY <1>1, RemovedTypes
<1>4. /\ OwnersInv' /\ DOMAIN channels' \subseteq Fds /\ Range(channels') \subseteq Channels
      /\ added' \in [Channels -> BOOLEAN]
      /\ \A d \in Channels : added'[d] <=> d # c /\ added[d]
      /\ DOMAIN channels' = DOMAIN channels \ {fd[c]} /\ fd[c] \in DOMAIN channels
      /\ \A f \in DOMAIN channels : f # fd[c] => channels'[f] = channels[f]
  BY <1>1, <1>2, <1>3, MapShrinks
<1>5. /\ DOMAIN epollSet' = DOMAIN epollSet \ {fd[c]}
      /\ \A f \in DOMAIN epollSet' : epollSet'[f] = epollSet[f]
  <2>1. index[c] # kAdded => fd[c] \notin DOMAIN epollSet
    BY <1>1 DEF EpollInv
  <2> QED
    BY <1>1, <2>1 DEF Without, Restrict
<1>6. PollerTypeOK' /\ AssertionsHold'
  BY <1>1, <1>2, <1>3, <1>4, <1>5 DEF PollerTypeOK, AssertionsHold
<1>7. EpollInv'
  <2>1. \A d \in Channels : index'[d] \in {kNew, kAdded, kDeleted} /\ (index'[d] # kNew => added'[d])
    BY <1>2, <1>4 DEF EpollInv
  <2>2. \A f \in DOMAIN epollSet' :
          f \in DOMAIN channels' /\ epollSet'[f] = [events |-> events'[channels'[f]], channel |-> channels'[f]]
    BY <1>3, <1>4, <1>5 DEF EpollInv
  <2>3. ASSUME NEW d \in Channels, added'[d]
        PROVE  /\ index'[d] = kAdded <=> fd'[d] \in DOMAIN epollSet'
               /\ index'[d] = kDeleted => events'[d] = {}
    <3>1. d # c /\ added[d] /\ fd[d] # fd[c]
      BY <1>1, <1>4, <2>3, OwnersFacts
    <3> QED
      BY <1>2, <1>3, <1>5, <3>1 DEF EpollInv
  <2> QED
    BY <2>1, <2>2, <2>3 DEF EpollInv
<1> QED
  BY <1>3, <1>4, <1>6, <1>7

-----------------------------------------------------------------------------
(* PollPoller.                                                             *)

\* updateChannel() appends an entry or rewrites one, if the channel was not removed.
LEMMA PollUpdates ==
    ASSUME PollerIInv, kind = "poll", NEW c \in Channels, NEW asked \in SUBSET Events, Update(c, asked)
    PROVE  \/ Abort("updateRemoved")
           \/ /\ ~added[c] /\ fd[c] \notin DOMAIN channels
              /\ pollfds' = Append(pollfds, [fd |-> fd[c], events |-> asked])
              /\ index' = [index EXCEPT ![c] = Len(pollfds)]
              /\ channels' = With(channels, fd[c], c) /\ Asks(c, asked) /\ UNCHANGED <<epollSet, failed>>
           \/ /\ added[c] /\ pollfds' = [pollfds EXCEPT ![index[c] + 1] = PollFd(c, asked)]
              /\ Asks(c, asked) /\ UNCHANGED <<index, channels, epollSet, failed>>
<1> USE DEF PollerIInv, BooksInv
<1>1. /\ fd[c] \in DOMAIN channels => added[c]
      /\ HasChannel(c) <=> added[c]
      /\ added[c] => AtIndex(c)
  BY UpdateOwner, EntryFacts
<1>2. PollUpdate(c, asked)
  BY DEF Update
<1>3. CASE index[c] < 0
  <2>1. ~added[c] /\ PollAdd(c, asked)
    BY <1>2, <1>3 DEF PollUpdate, PollInv, OwnersInv
  <2> QED
    BY <1>1, <2>1 DEF PollAdd
<1>4. CASE ~(index[c] < 0)
  <2>1. PollModify(c, asked)
    BY <1>2, <1>4 DEF PollUpdate
  <2> QED
    BY <1>1, <2>1 DEF PollModify
<1> QED
  BY <1>3, <1>4

LEMMA PollUpdateKeeps ==
    ASSUME PollerIInv, kind = "poll", NEW c \in Channels, NEW asked \in SUBSET Events, Update(c, asked)
    PROVE  PollerIInv'
<1> USE DEF PollerIInv, BooksInv
<1>1. /\ fd[c] \in Fds /\ fd[c] \in Nat /\ Negated(fd[c]) \in Int
      /\ fd[c] \in DOMAIN channels => added[c] /\ HasChannel(c)
      /\ \A d \in Channels : d # c /\ added[d] => fd[d] # fd[c]
  BY UpdateOwner, FdFacts
<1>2. CASE Abort("updateRemoved")
  BY <1>2, AbortKeeps
<1>3. CASE /\ ~added[c] /\ fd[c] \notin DOMAIN channels
           /\ pollfds' = Append(pollfds, [fd |-> fd[c], events |-> asked])
           /\ index' = [index EXCEPT ![c] = Len(pollfds)]
           /\ channels' = With(channels, fd[c], c) /\ Asks(c, asked) /\ UNCHANGED <<epollSet, failed>>
  <2>1. /\ Len(pollfds) \in Nat /\ pollfds' \in Seq(PollFds) /\ Len(pollfds') = Len(pollfds) + 1
        /\ pollfds'[Len(pollfds) + 1] = [fd |-> fd[c], events |-> asked]
        /\ \A i \in 1..Len(pollfds) : pollfds'[i] = pollfds[i]
    <3>1. [fd |-> fd[c], events |-> asked] \in PollFds
      BY <1>1 DEF PollFds
    <3> QED
      BY <1>3, <3>1, AppendProperties DEF PollerTypeOK
  <2>2. /\ index' \in [Channels -> Int] /\ \A d \in Channels : d # c => index'[d] = index[d]
        /\ index'[c] = Len(pollfds) /\ index'[c] # kNew
    BY <1>3, <2>1, FdFacts DEF PollerTypeOK
  <2>3. /\ events' \in [Channels -> SUBSET Events] /\ events'[c] = asked
        /\ \A d \in Channels : d # c => events'[d] = events[d]
        /\ added' = [added EXCEPT ![c] = TRUE] /\ LoopInv'
        /\ UNCHANGED <<kind, fd, listSize, ready, phase, active, at>>
    BY <1>3, AsksTypes
  <2>4. /\ OwnersInv' /\ DOMAIN channels' \subseteq Fds /\ Range(channels') \subseteq Channels
        /\ added' \in [Channels -> BOOLEAN]
        /\ \A d \in Channels : added'[d] <=> d = c \/ added[d]
        /\ DOMAIN channels' = DOMAIN channels \union {fd[c]}
    BY <1>1, <1>3, <2>2, <2>3, MapGrows
  <2>5. PollerTypeOK' /\ AssertionsHold'
    BY <1>3, <2>1, <2>2, <2>3, <2>4 DEF PollerTypeOK, AssertionsHold, Running, InUserCode, Update
  <2>6. Len(pollfds') = Cardinality(DOMAIN channels')
    <3>1. IsFiniteSet(DOMAIN channels) /\ Len(pollfds) = Cardinality(DOMAIN channels)
      BY DEF PollInv, OwnersInv
    <3>2. Cardinality(DOMAIN channels \union {fd[c]}) = Cardinality(DOMAIN channels) + 1
      BY <1>3, <3>1, FS_AddElement
    <3> QED
      BY <2>1, <2>4, <3>1, <3>2
  <2>7. ASSUME NEW d \in Channels, added'[d]
        PROVE  /\ index'[d] \in 0..(Len(pollfds') - 1)
               /\ pollfds'[index'[d] + 1].events = events'[d]
               /\ \/ pollfds'[index'[d] + 1].fd = fd'[d]
                  \/ pollfds'[index'[d] + 1].fd = Negated(fd'[d]) /\ events'[d] = {}
    <3>1. CASE d = c
      BY <2>1, <2>2, <2>3, <3>1
    <3>2. CASE d # c
      <4>1. added[d] /\ index[d] \in 0..(Len(pollfds) - 1) /\ index[d] + 1 \in 1..Len(pollfds)
        BY <2>1, <2>4, <2>7, <3>2 DEF PollInv
      <4>2. pollfds'[index'[d] + 1] = Entry(d)
        BY <2>1, <2>2, <3>2, <4>1 DEF Entry
      <4> QED
        <5>1. index'[d] = index[d] /\ events'[d] = events[d] /\ fd'[d] = fd[d]
          BY <2>2, <2>3, <3>2
        <5>2. index[d] \in 0..(Len(pollfds') - 1)
          BY <2>1, <4>1
        <5>3. /\ Entry(d).events = events[d]
              /\ Entry(d).fd = fd[d] \/ (Entry(d).fd = Negated(fd[d]) /\ events[d] = {})
          BY <4>1 DEF PollInv
        <5> QED
          BY <4>2, <5>1, <5>2, <5>3
    <3> QED
      BY <3>1, <3>2
  <2>8. \A i \in 1..Len(pollfds') : \E d \in Channels : added'[d] /\ index'[d] + 1 = i
    <3> SUFFICES ASSUME NEW i \in 1..Len(pollfds') PROVE \E d \in Channels : added'[d] /\ index'[d] + 1 = i
      OBVIOUS
    <3>1. CASE i = Len(pollfds) + 1
      BY <2>2, <2>4, <3>1
    <3>2. CASE i \in 1..Len(pollfds)
      <4>1. PICK d \in Channels : added[d] /\ index[d] + 1 = i
        BY <3>2 DEF PollInv
      <4> QED
        BY <1>3, <2>2, <2>4, <4>1
    <3> QED
      BY <2>1, <3>1, <3>2
  <2>9. \A d \in Channels : index'[d] < 0 => index'[d] = kNew
    BY <2>1, <2>2 DEF PollInv
  <2> QED
    BY <2>3, <2>4, <2>5, <2>6, <2>7, <2>8, <2>9 DEF PollInv, Entry
<1>4. CASE /\ added[c] /\ pollfds' = [pollfds EXCEPT ![index[c] + 1] = PollFd(c, asked)]
           /\ Asks(c, asked) /\ UNCHANGED <<index, channels, epollSet, failed>>
  <2>1. /\ events' \in [Channels -> SUBSET Events] /\ events'[c] = asked
        /\ \A d \in Channels : d # c => events'[d] = events[d]
        /\ added' = [added EXCEPT ![c] = TRUE] /\ LoopInv'
        /\ UNCHANGED <<kind, fd, listSize, ready, phase, active, at>>
    BY <1>4, AsksTypes
  <2>2. added' = added
    BY <1>4, <2>1 DEF PollerTypeOK
  <2>3. OwnersInv'
    BY <1>4, <2>1, <2>2 DEF OwnersInv, HasChannel
  <2>4. PollFd(c, asked) \in PollFds
    BY <1>1 DEF PollFd, PollFds
  <2>5. /\ Len(pollfds) \in Nat /\ pollfds' \in Seq(PollFds) /\ Len(pollfds') = Len(pollfds)
        /\ index[c] + 1 \in 1..Len(pollfds) /\ pollfds'[index[c] + 1] = PollFd(c, asked)
        /\ \A i \in 1..Len(pollfds) : i # index[c] + 1 => pollfds'[i] = pollfds[i]
    BY <1>4, <2>4, EntryFacts, ExceptSeq DEF PollerTypeOK
  <2>6. PollerTypeOK' /\ AssertionsHold'
    BY <1>4, <2>1, <2>2, <2>5 DEF PollerTypeOK, AssertionsHold, Running, InUserCode, Update
  <2>7. ASSUME NEW d \in Channels, added'[d]
        PROVE  /\ index'[d] \in 0..(Len(pollfds') - 1)
               /\ pollfds'[index'[d] + 1].events = events'[d]
               /\ \/ pollfds'[index'[d] + 1].fd = fd'[d]
                  \/ pollfds'[index'[d] + 1].fd = Negated(fd'[d]) /\ events'[d] = {}
    <3>1. CASE d = c
      BY <1>4, <2>1, <2>2, <2>5, <3>1 DEF PollFd, PollInv
    <3>2. CASE d # c
      <4>1. added[d] /\ index[d] \in 0..(Len(pollfds) - 1) /\ index[d] + 1 \in 1..Len(pollfds)
        BY <2>2, <2>5, <2>7 DEF PollInv
      <4>2. index[d] + 1 # index[c] + 1
        BY <1>4, <3>2, <4>1, EntryFacts DEF PollerTypeOK
      <4>3. pollfds'[index'[d] + 1] = Entry(d)
        BY <1>4, <2>5, <4>1, <4>2 DEF Entry
      <4> QED
        BY <1>4, <2>1, <2>5, <3>2, <4>1, <4>3 DEF PollInv
    <3> QED
      BY <3>1, <3>2
  <2> QED
    BY <1>4, <2>1, <2>2, <2>3, <2>5, <2>6, <2>7 DEF PollInv, Entry
<1> QED
  BY <1>2, <1>3, <1>4, PollUpdates

\* removeChannel(): the last entry takes the place of the removed one, and its channel
\* the index.
LEMMA PollRemoves ==
    ASSUME PollerIInv, kind = "poll", NEW c \in Channels, RemoveChannel(c)
    PROVE  /\ added[c] /\ events[c] = {}
           /\ \/ Abort("removeUnasked") /\ \E p \in Range(pollfds) : p.fd >= 0 /\ p.events = {}
              \/ PollErased(c) /\ channels' = Without(channels, fd[c]) /\ Removed(c) /\ UNCHANGED <<epollSet, failed>>
<1> USE DEF PollerIInv, BooksInv
<1>1. added[c] /\ events[c] = {} /\ HasChannel(c) /\ AtIndex(c) /\ PollRemove(c)
  BY EntryFacts DEF RemoveChannel, OwnersInv
<1>2. ASSUME pollfds[index[c] + 1] # PollFd(c, {})
      PROVE  \E p \in Range(pollfds) : p.fd >= 0 /\ p.events = {}
  <2>1. /\ index[c] + 1 \in DOMAIN pollfds /\ Entry(c) \in Range(pollfds) /\ Entry(c) \in PollFds
        /\ Entry(c) = pollfds[index[c] + 1]
    BY <1>1, EntryFacts DEF Entry, PollerTypeOK, Range
  <2>2. Entry(c) = [fd |-> Entry(c).fd, events |-> Entry(c).events]
    BY <2>1 DEF PollFds
  <2>3. Entry(c).events = {} /\ (Entry(c).fd = fd[c] \/ Entry(c).fd = Negated(fd[c]))
    BY <1>1 DEF PollInv
  <2>4. Entry(c).fd = fd[c]
    BY <1>2, <2>1, <2>2, <2>3 DEF PollFd
  <2>5. fd[c] >= 0
    <3>1. fd[c] \in Nat
      BY <1>1, OwnersFacts, FdFacts
    <3> QED
      BY <3>1
  <2> QED
    BY <2>1, <2>3, <2>4, <2>5
<1> QED
  BY <1>1, <1>2 DEF PollRemove

LEMMA Erased ==
    ASSUME PollerIInv, kind = "poll", NEW c \in Channels, added[c], PollErased(c)
    PROVE  \E d \in Channels :
           /\ added[d] /\ index[d] + 1 = Len(pollfds)
           /\ index[c] + 1 \in 1..Len(pollfds) /\ Len(pollfds) \in Nat
           /\ pollfds' \in Seq(PollFds) /\ Len(pollfds') = Len(pollfds) - 1
           /\ \A i \in 1..(Len(pollfds) - 1) :
                pollfds'[i] = IF i = index[c] + 1 THEN pollfds[Len(pollfds)] ELSE pollfds[i]
           /\ index' \in [Channels -> Int]
           /\ \A e \in Channels : index'[e] = IF e = d THEN index[c] ELSE index[e]
<1> USE DEF PollerIInv, BooksInv
<1> DEFINE n == Len(pollfds)
           k == index[c] + 1
<1>1. /\ pollfds \in Seq(PollFds) /\ n \in Nat /\ k \in 1..n /\ n \in 1..n /\ pollfds[n] \in PollFds
      /\ index \in [Channels -> Int]
  BY EntryFacts DEF PollerTypeOK
<1>2. PICK d \in Channels : added[d] /\ index[d] + 1 = n
  BY <1>1 DEF PollInv
<1>3. ChannelAtEnd = d
  <2>1. Last(pollfds) = Entry(d)
    BY <1>2 DEF Last, Entry
  <2>2. fd[d] \in Nat /\ fd[d] >= 0 /\ fd[d] \in DOMAIN channels /\ channels[fd[d]] = d
    <3>1. fd[d] \in Fds /\ fd[d] \in DOMAIN channels /\ channels[fd[d]] = d
      BY <1>2, OwnersFacts
    <3>2. fd[d] \in Nat
      BY <3>1, FdFacts
    <3> QED
      BY <3>1, <3>2
  <2>3. Entry(d).fd = fd[d] \/ Entry(d).fd = Negated(fd[d])
    BY <1>2 DEF PollInv
  <2>4. Negated(fd[d]) < 0 /\ Negated(Negated(fd[d])) = fd[d]
    BY <2>2, FdFacts
  <2>5. ~(fd[d] < 0)
    BY <2>2
  <2>6. (IF Entry(d).fd < 0 THEN Negated(Entry(d).fd) ELSE Entry(d).fd) = fd[d]
    BY <2>3, <2>4, <2>5
  <2> QED
    BY <2>1, <2>2, <2>6 DEF ChannelAtEnd
<1>4. /\ pollfds' \in Seq(PollFds) /\ Len(pollfds') = n - 1
      /\ \A i \in 1..(n - 1) : pollfds'[i] = IF i = k THEN pollfds[n] ELSE pollfds[i]
  <2> DEFINE moved == [pollfds EXCEPT ![k] = pollfds[n]]
  <2>1. moved \in Seq(PollFds) /\ Len(moved) = n /\ \A i \in 1..n : moved[i] = IF i = k THEN pollfds[n] ELSE pollfds[i]
    BY <1>1, ExceptSeq
  <2>2. pollfds' = SubSeq(moved, 1, Len(moved) - 1)
    BY DEF PollErased, Front, Last
  <2> HIDE DEF moved, k, n
  <2>3. pollfds' = SubSeq(moved, 1, n - 1)
    BY <2>1, <2>2
  <2>4. \A i \in 1..(n - 1) : moved[i] \in PollFds /\ i \in 1..n
    BY <1>1, <2>1, ElementOfSeq
  <2>5. n - 1 \in Int /\ (IF 1 <= n - 1 THEN (n - 1) - 1 + 1 ELSE 0) = n - 1
    BY <1>1
  <2>6. /\ pollfds' \in Seq(PollFds) /\ Len(pollfds') = n - 1
        /\ \A i \in 1..((n - 1) - 1 + 1) : pollfds'[i] = moved[1 + i - 1]
    BY <2>3, <2>4, <2>5, SubSeqProperties
  <2>7. ASSUME NEW i \in 1..(n - 1) PROVE pollfds'[i] = IF i = k THEN pollfds[n] ELSE pollfds[i]
    <3>1. i \in Int /\ 1 + i - 1 = i /\ i \in 1..((n - 1) - 1 + 1) /\ i \in 1..n
      BY <1>1, <2>7
    <3> QED
      BY <2>1, <2>6, <3>1
  <2> QED
    BY <2>6, <2>7
<1>5. /\ index' \in [Channels -> Int]
      /\ \A e \in Channels : index'[e] = IF e = d THEN index[c] ELSE index[e]
  <2>1. CASE index[c] = n - 1
    <3>1. index' = index
      BY <2>1 DEF PollErased
    <3>2. d = c
      BY <1>1, <1>2, <2>1, EntryFacts
    <3> QED
      BY <1>1, <3>1, <3>2
  <2>2. CASE index[c] # n - 1
    <3>1. index' = [index EXCEPT ![d] = index[c]]
      BY <1>3, <2>2 DEF PollErased
    <3> QED
      BY <1>1, <3>1
  <2> QED
    BY <2>1, <2>2
<1> QED
  BY <1>1, <1>2, <1>4, <1>5

LEMMA PollRemoveKeeps ==
    ASSUME PollerIInv, kind = "poll", NEW c \in Channels, RemoveChannel(c)
    PROVE  PollerIInv'
<1> USE DEF PollerIInv, BooksInv
<1> DEFINE n == Len(pollfds)
<1>1. CASE Abort("removeUnasked") /\ \E p \in Range(pollfds) : p.fd >= 0 /\ p.events = {}
  BY <1>1, AbortKeeps
<1>2. CASE PollErased(c) /\ channels' = Without(channels, fd[c]) /\ Removed(c) /\ UNCHANGED <<epollSet, failed>>
  <2>1. added[c]
    BY PollRemoves
  <2>2. PICK d \in Channels :
           /\ added[d] /\ index[d] + 1 = n
           /\ index[c] + 1 \in 1..n /\ n \in Nat
           /\ pollfds' \in Seq(PollFds) /\ Len(pollfds') = n - 1
           /\ \A i \in 1..(n - 1) : pollfds'[i] = IF i = index[c] + 1 THEN pollfds[n] ELSE pollfds[i]
           /\ index' \in [Channels -> Int]
           /\ \A e \in Channels : index'[e] = IF e = d THEN index[c] ELSE index[e]
    BY <1>2, <2>1, Erased
  <2>3. /\ added' = [added EXCEPT ![c] = FALSE] /\ LoopInv'
        /\ UNCHANGED <<kind, fd, events, listSize, ready, phase, active, at>>
    BY <1>2, RemovedTypes
  <2>4. \A e \in Channels : index'[e] = kNew <=> index[e] = kNew
    BY <2>1, <2>2 DEF OwnersInv
  <2>5. index'[c] # kNew
    BY <2>1, <2>4 DEF OwnersInv
  <2>6. /\ OwnersInv' /\ DOMAIN channels' \subseteq Fds /\ Range(channels') \subseteq Channels
        /\ added' \in [Channels -> BOOLEAN]
        /\ \A e \in Channels : added'[e] <=> e # c /\ added[e]
        /\ DOMAIN channels' = DOMAIN channels \ {fd[c]} /\ fd[c] \in DOMAIN channels
    BY <1>2, <2>1, <2>2, <2>3, <2>4, <2>5, MapShrinks
  <2>7. PollerTypeOK' /\ AssertionsHold'
    BY <1>2, <2>2, <2>3, <2>6 DEF PollerTypeOK, AssertionsHold, Running, InUserCode, RemoveChannel
  <2>8. Len(pollfds') = Cardinality(DOMAIN channels')
    <3>1. IsFiniteSet(DOMAIN channels) /\ Len(pollfds) = Cardinality(DOMAIN channels)
      BY DEF PollInv, OwnersInv
    <3>2. Cardinality(DOMAIN channels \ {fd[c]}) = Cardinality(DOMAIN channels) - 1
      BY <2>6, <3>1, FS_RemoveElement
    <3> QED
      BY <2>2, <2>6, <3>1, <3>2
  <2>9. ASSUME NEW e \in Channels, added'[e]
        PROVE  /\ index'[e] \in 0..(Len(pollfds') - 1)
               /\ pollfds'[index'[e] + 1] = Entry(e)
    <3>1. e # c /\ added[e] /\ index[e] # index[c] /\ index[e] + 1 \in 1..n /\ index[e] \in Int /\ index[c] \in Int
      BY <2>1, <2>6, <2>9, EntryFacts DEF PollerTypeOK
    <3>2. CASE e = d
      <4>1. index[c] + 1 # n
        BY <2>2, <3>1, <3>2
      <4> QED
        BY <2>2, <3>1, <3>2, <4>1 DEF Entry
    <3>3. CASE e # d
      <4>1. index[e] # index[d]
        BY <2>2, <3>1, <3>3, EntryFacts
      <4>2. index[e] + 1 # n /\ index[d] \in Int
        BY <2>2, <3>1, <4>1 DEF PollerTypeOK
      <4>3. index'[e] = index[e] /\ index[e] + 1 \in 1..(n - 1) /\ index[e] + 1 # index[c] + 1
        BY <2>2, <3>1, <3>3, <4>2
      <4>4. pollfds'[index[e] + 1] = pollfds[index[e] + 1]
        BY <2>2, <4>3
      <4>5. index[e] \in 0..(Len(pollfds') - 1)
        BY <2>2, <3>1, <4>3
      <4> QED
        BY <4>3, <4>4, <4>5 DEF Entry
    <3> QED
      BY <3>2, <3>3
  <2>10. ASSUME NEW i \in 1..Len(pollfds') PROVE \E e \in Channels : added'[e] /\ index'[e] + 1 = i
    <3>1. i \in 1..n /\ i # n /\ index[c] \in Int /\ i \in Int
      BY <2>2 DEF PollerTypeOK
    <3>2. PICK e \in Channels : added[e] /\ index[e] + 1 = i
      BY <3>1 DEF PollInv
    <3>3. e # d
      BY <2>2, <3>1, <3>2
    <3>4. CASE e # c
      BY <2>2, <2>6, <3>2, <3>3, <3>4
    <3>5. CASE e = c
      BY <2>2, <2>6, <3>2, <3>3, <3>5
    <3> QED
      BY <3>4, <3>5
  <2>11. \A e \in Channels : index'[e] < 0 => index'[e] = kNew
    BY <2>1, <2>2 DEF PollInv
  <2>12. PollInv'
    <3>1. \A e \in Channels : added'[e] =>
            /\ index'[e] \in 0..(Len(pollfds') - 1)
            /\ pollfds'[index'[e] + 1].events = events'[e]
            /\ \/ pollfds'[index'[e] + 1].fd = fd'[e]
               \/ pollfds'[index'[e] + 1].fd = Negated(fd'[e]) /\ events'[e] = {}
      BY <2>3, <2>6, <2>9 DEF PollInv
    <3> QED
      BY <2>8, <2>10, <2>11, <3>1 DEF PollInv, Entry
  <2> QED
    BY <2>3, <2>6, <2>7, <2>12
<1> QED
  BY <1>1, <1>2, PollRemoves

-----------------------------------------------------------------------------
(* The theorems.                                                           *)

LEMMA PollerInitIInv ==
    ASSUME PollerInit
    PROVE  PollerIInv
<1>1. /\ DOMAIN channels = {} /\ DOMAIN epollSet = {} /\ DOMAIN ready = {} /\ Range(channels) = {} /\ Range(ready) = {}
      /\ pollfds = <<>> /\ Len(pollfds) = 0 /\ pollfds \in Seq(PollFds)
      /\ active = <<>> /\ Len(active) = 0 /\ active \in Seq([channel : Channels, revents : SUBSET Reports])
      /\ 1..0 = {}
  BY DEF PollerInit, Range
<1>2. IsFiniteSet({}) /\ Cardinality({}) = 0
  BY FS_EmptySet
<1>3. PollerTypeOK /\ AssertionsHold /\ LoopInv
  BY <1>1, ListSizeAssumption DEF PollerInit, PollerTypeOK, AssertionsHold, LoopInv, kNew
<1>4. OwnersInv /\ PollInv /\ EpollInv
  BY <1>1, <1>2 DEF PollerInit, OwnersInv, PollInv, EpollInv
<1> QED
  BY <1>3, <1>4 DEF PollerIInv, BooksInv

LEMMA PollerStepIInv ==
    ASSUME PollerIInv, [PollerNext]_pollerVars
    PROVE  PollerIInv'
<1>1. ASSUME NEW c \in Channels, NEW asked \in SUBSET Events, Update(c, asked) PROVE PollerIInv'
  BY <1>1, PollUpdateKeeps, EpollUpdateKeeps DEF PollerIInv, PollerTypeOK
<1>2. ASSUME NEW c \in Channels, RemoveChannel(c) PROVE PollerIInv'
  BY <1>2, PollRemoveKeeps, EpollRemoveKeeps DEF PollerIInv, PollerTypeOK
<1> QED
  BY <1>1, <1>2, LoopKeeps, ConstructKeeps, DestroyKeeps DEF PollerNext, Loop

LEMMA PollerInvariance == PollerSpec => []PollerIInv
<1>1. PollerInit => PollerIInv
  BY PollerInitIInv
<1>2. PollerIInv /\ [PollerNext]_pollerVars => PollerIInv'
  BY PollerStepIInv
<1> QED
  BY <1>1, <1>2, PTL DEF PollerSpec

\* However any number of channels come, ask, go and pass their descriptors on, either
\* poller's map has those that were added, each at its index, the kernel watches of each
\* what it asks for, and only the two assertions that AssertionsHold names can fail.
THEOREM BooksAgree == PollerSpec => []WatchedAsAsked
<1>1. PollerIInv => WatchedAsAsked
  <2> SUFFICES ASSUME PollerIInv PROVE WatchedAsAsked
    OBVIOUS
  <2> USE DEF PollerIInv, BooksInv
  <2>1. WatchFacts
    BY WatchIsAsked
  <2>2. \A c \in Range(channels) : HasChannel(c)
    BY <2>1 DEF WatchFacts, OwnersInv
  <2>3. kind = "poll" => Len(pollfds) = Cardinality(DOMAIN channels)
    BY DEF PollInv
  <2>4. \A c \in Range(channels) :
        /\ kind = "poll" => AtIndex(c)
        /\ kind = "epoll" => (index[c] = kAdded <=> fd[c] \in DOMAIN Watched)
        /\ events[c] # {} => fd[c] \in DOMAIN Watched
    BY <2>1, EntryFacts DEF WatchFacts, Shown
  <2> QED
    BY <2>1, <2>2, <2>3, <2>4 DEF WatchedAsAsked, WatchFacts
<1> QED
  BY <1>1, PollerInvariance, PTL

-----------------------------------------------------------------------------
(* The refinement of the module Poller: what an update and a removal do to *)
(* what the kernel watches.                                                *)

OthersKept(c) ==
    /\ UNCHANGED <<active, at, phase>>
    /\ \A d \in Channels : d # c =>
        /\ added'[d] = added[d] /\ events'[d] = events[d]
        /\ added[d] => (Shown(d)' <=> Shown(d))

Asked(c, asked) ==
    /\ OthersKept(c) /\ added'[c] /\ events'[c] = asked
    /\ added[c] /\ Shown(c) /\ asked = {} => ~Shown(c)'

LEMMA EpollAsked ==
    ASSUME PollerIInv, kind = "epoll", NEW c \in Channels, NEW asked \in SUBSET Events, Update(c, asked)
    PROVE  Asked(c, asked)
<1>1. /\ Asks(c, asked)
      /\ IF index[c] = kAdded /\ asked = {} THEN index' = [index EXCEPT ![c] = kDeleted]
                                            ELSE index' = [index EXCEPT ![c] = kAdded]
  BY EpollUpdates
<1>2. kAdded # kDeleted /\ index \in [Channels -> Int] /\ added \in [Channels -> BOOLEAN]
  BY FdFacts DEF PollerIInv, PollerTypeOK
<1>3. /\ events'[c] = asked /\ \A d \in Channels : d # c => events'[d] = events[d]
      /\ added' = [added EXCEPT ![c] = TRUE] /\ UNCHANGED <<kind, phase, active, at>>
  BY <1>1, AsksTypes
<1>4. \A d : (Shown(d) <=> index[d] = kAdded) /\ (Shown(d)' <=> index'[d] = kAdded)
  BY <1>3 DEF Shown
<1> QED
  BY <1>1, <1>2, <1>3, <1>4 DEF Asked, OthersKept

LEMMA PollAsked ==
    ASSUME PollerIInv, kind = "poll", NEW c \in Channels, NEW asked \in SUBSET Events, Update(c, asked)
    PROVE  Abort("updateRemoved") \/ Asked(c, asked)
<1> USE DEF PollerIInv, BooksInv
<1>1. /\ fd[c] \in Nat /\ added \in [Channels -> BOOLEAN] /\ index \in [Channels -> Int] /\ kind # "epoll"
      /\ pollfds \in Seq(PollFds) /\ Len(pollfds) \in Nat
      /\ \A d \in Channels : added[d] => index[d] + 1 \in 1..Len(pollfds)
  BY UpdateOwner, FdFacts, EntryFacts DEF PollerTypeOK
<1>2. CASE /\ ~added[c]
           /\ pollfds' = Append(pollfds, [fd |-> fd[c], events |-> asked])
           /\ index' = [index EXCEPT ![c] = Len(pollfds)] /\ Asks(c, asked)
  <2>1. /\ events'[c] = asked /\ \A d \in Channels : d # c => events'[d] = events[d]
        /\ added' = [added EXCEPT ![c] = TRUE] /\ UNCHANGED <<kind, fd, phase, active, at>>
    BY <1>2, AsksTypes
  <2>2. ASSUME NEW d \in Channels, d # c, added[d] PROVE Shown(d)' <=> Shown(d)
    <3>1. index'[d] = index[d] /\ pollfds'[index[d] + 1] = pollfds[index[d] + 1]
      BY <1>1, <1>2, <2>2
    <3> QED
      BY <1>1, <2>1, <3>1 DEF Shown, Entry
  <2> QED
    BY <1>1, <1>2, <2>1, <2>2 DEF Asked, OthersKept
<1>3. CASE /\ added[c] /\ pollfds' = [pollfds EXCEPT ![index[c] + 1] = PollFd(c, asked)]
           /\ Asks(c, asked) /\ index' = index
  <2>1. /\ events'[c] = asked /\ \A d \in Channels : d # c => events'[d] = events[d]
        /\ added' = [added EXCEPT ![c] = TRUE] /\ UNCHANGED <<kind, fd, phase, active, at>>
    BY <1>3, AsksTypes
  <2>2. ASSUME NEW d \in Channels, d # c, added[d] PROVE Shown(d)' <=> Shown(d)
    <3>1. index[d] + 1 # index[c] + 1
      BY <1>1, <1>3, <2>2, EntryFacts
    <3>2. pollfds'[index[d] + 1] = pollfds[index[d] + 1]
      BY <1>1, <1>3, <2>2, <3>1
    <3> QED
      BY <1>1, <1>3, <2>1, <3>2 DEF Shown, Entry
  <2>3. asked = {} => ~Shown(c)'
    <3>1. pollfds'[index[c] + 1] = PollFd(c, asked)
      BY <1>1, <1>3
    <3>2. fd[c] # Negated(fd[c])
      BY <1>1, FdFacts
    <3> QED
      BY <1>1, <1>3, <2>1, <3>1, <3>2 DEF Shown, Entry, PollFd
  <2> QED
    BY <1>1, <1>3, <2>1, <2>2, <2>3 DEF Asked, OthersKept
<1> QED
  BY <1>2, <1>3, PollUpdates

LEMMA EpollNoMore ==
    ASSUME PollerIInv, kind = "epoll", NEW c \in Channels, RemoveChannel(c)
    PROVE  OthersKept(c) /\ ~added'[c] /\ added[c] /\ events[c] = {}
<1>1. Removed(c) /\ added[c] /\ events[c] = {} /\ index' = [index EXCEPT ![c] = kNew]
  BY EpollRemoves
<1>2. index \in [Channels -> Int] /\ added \in [Channels -> BOOLEAN]
  BY DEF PollerIInv, PollerTypeOK
<1>3. added' = [added EXCEPT ![c] = FALSE] /\ UNCHANGED <<kind, events, phase, active, at>>
  BY <1>1, RemovedTypes
<1> QED
  BY <1>1, <1>2, <1>3 DEF OthersKept, Shown

LEMMA PollNoMore ==
    ASSUME PollerIInv, kind = "poll", NEW c \in Channels, RemoveChannel(c)
    PROVE  /\ Abort("removeUnasked") \/ (OthersKept(c) /\ ~added'[c])
           /\ added[c] /\ events[c] = {}
<1> USE DEF PollerIInv, BooksInv
<1>1. CASE PollErased(c) /\ Removed(c)
  <2>1. added[c] /\ events[c] = {}
    BY PollRemoves
  <2>2. added' = [added EXCEPT ![c] = FALSE] /\ UNCHANGED <<kind, fd, events, phase, active, at>>
    BY <1>1, RemovedTypes
  <2>3. PICK d \in Channels :
           /\ added[d] /\ index[d] + 1 = Len(pollfds)
           /\ index[c] + 1 \in 1..Len(pollfds) /\ Len(pollfds) \in Nat
           /\ \A i \in 1..(Len(pollfds) - 1) :
                pollfds'[i] = IF i = index[c] + 1 THEN pollfds[Len(pollfds)] ELSE pollfds[i]
           /\ \A e \in Channels : index'[e] = IF e = d THEN index[c] ELSE index[e]
    BY <1>1, <2>1, Erased
  <2>4. ASSUME NEW e \in Channels, e # c, added[e] PROVE Shown(e)' <=> Shown(e)
    <3>1. /\ index[e] # index[c] /\ index[e] + 1 \in 1..Len(pollfds)
          /\ index[e] \in Int /\ index[c] \in Int /\ index[d] \in Int
      BY <2>1, <2>4, EntryFacts DEF PollerTypeOK
    <3>2. CASE e = d
      <4>1. pollfds'[index[c] + 1] = pollfds[Len(pollfds)]
        BY <2>3, <3>1, <3>2
      <4> QED
        BY <2>2, <2>3, <3>2, <4>1 DEF Shown, Entry
    <3>3. CASE e # d
      <4>1. index[e] # index[d]
        BY <2>3, <2>4, <3>3, EntryFacts
      <4>2. index[e] + 1 \in 1..(Len(pollfds) - 1) /\ index[e] + 1 # index[c] + 1
        BY <2>3, <3>1, <4>1
      <4>3. pollfds'[index[e] + 1] = pollfds[index[e] + 1] /\ index'[e] = index[e]
        BY <2>3, <3>3, <4>2
      <4> QED
        BY <2>2, <4>3 DEF Shown, Entry
    <3> QED
      BY <3>2, <3>3
  <2> QED
    BY <2>1, <2>2, <2>4 DEF OthersKept, PollerTypeOK
<1> QED
  BY <1>1, PollRemoves

\* What the module Poller sees.
AbsWatch == [c \in Range(channels) |-> WatchOf(c)]
AbsActive ==
    [c \in {active[i].channel : i \in WaitingAt} |->
        (CHOOSE r \in Range(active) : r.channel = c).revents]

AbsFacts ==
    /\ DOMAIN AbsWatch = {c \in Channels : added[c]}
    /\ \A c \in Channels : added[c] =>
        /\ AbsWatch[c] = IF Shown(c) THEN events[c] ELSE {"silent"}
        /\ events[c] # {} => Shown(c)
        /\ events[c] \subseteq Events
    /\ DOMAIN AbsActive = {active[i].channel : i \in WaitingAt}
    /\ WaitingAt = {i \in 1..Len(active) : i > at}
    /\ \A i \in WaitingAt : AbsActive[active[i].channel] = active[i].revents

LEMMA AbsIs == PollerIInv => AbsFacts
<1> SUFFICES ASSUME PollerIInv PROVE AbsFacts
  OBVIOUS
<1> USE DEF PollerIInv
<1>1. WatchFacts /\ \A c \in Channels : events[c] \subseteq Events
  BY WatchIsAsked DEF PollerTypeOK
<1>2. /\ DOMAIN AbsWatch = {c \in Channels : added[c]}
      /\ \A c \in Channels : added[c] => AbsWatch[c] = IF Shown(c) THEN events[c] ELSE {"silent"}
  BY <1>1 DEF WatchFacts, AbsWatch
<1>3. DOMAIN active = 1..Len(active) /\ WaitingAt = {i \in 1..Len(active) : i > at}
  BY DEF LoopInv, WaitingAt
<1>4. ASSUME NEW i \in WaitingAt PROVE AbsActive[active[i].channel] = active[i].revents
  <2> DEFINE r == CHOOSE r \in Range(active) : r.channel = active[i].channel
  <2>1. r \in Range(active) /\ r.channel = active[i].channel
    BY <1>3, <1>4 DEF Range
  <2> HIDE DEF r
  <2>2. r = active[i]
    BY <1>3, <1>4, <2>1 DEF Range, LoopInv
  <2> QED
    BY <1>4, <2>2 DEF AbsActive, r
<1> QED
  BY <1>1, <1>2, <1>3, <1>4 DEF AbsFacts, AbsActive, WatchFacts

\* Steps that change nothing for the loop's channels stutter.
LEMMA WatchKept ==
    ASSUME PollerIInv, PollerIInv',
           \A d \in Channels : added'[d] <=> added[d],
           \A d \in Channels : added[d] => (Shown(d)' <=> Shown(d)) /\ events'[d] = events[d]
    PROVE  AbsWatch' = AbsWatch
<1>1. AbsFacts /\ AbsFacts'
  BY AbsIs, PTL
<1>2. /\ DOMAIN AbsWatch' = DOMAIN AbsWatch
      /\ \A c \in DOMAIN AbsWatch : AbsWatch'[c] = AbsWatch[c]
  BY <1>1 DEF AbsFacts
<1>3. /\ AbsWatch = [c \in DOMAIN AbsWatch |-> AbsWatch[c]]
      /\ AbsWatch' = [c \in DOMAIN AbsWatch' |-> AbsWatch'[c]]
  BY DEF AbsWatch
<1> QED
  BY <1>2, <1>3

LEMMA ActiveKept ==
    ASSUME UNCHANGED <<active, at>>
    PROVE  AbsActive' = AbsActive
  BY DEF AbsActive, WaitingAt

AbsVars == <<AbsWatch, AbsActive>>

LEMMA OwnersStutter ==
    ASSUME PollerIInv, PollerIInv', NEW c \in Channels,
           (\E f \in FdsOf[c] : Construct(c, f)) \/ Destroy(c)
    PROVE  UNCHANGED AbsVars
<1> USE DEF PollerIInv, BooksInv
<1>1. ~added[c] /\ ~HasChannel(c) /\ UNCHANGED <<kind, added, books, loopVars>>
  BY DEF Construct, Destroy, OwnersInv, HasChannel
<1>2. \A d \in Channels : d # c => fd'[d] = fd[d] /\ events'[d] = events[d] /\ index'[d] = index[d]
  BY <1>1 DEF Construct, Destroy, PollerTypeOK
<1>3. \A d \in Channels : added[d] => (Shown(d)' <=> Shown(d)) /\ events'[d] = events[d]
  BY <1>1, <1>2 DEF Shown, Entry, books
<1> QED
  BY <1>1, <1>3, WatchKept, ActiveKept DEF AbsVars, loopVars

LEMMA SameWatch ==
    ASSUME PollerIInv, PollerIInv', UNCHANGED <<kind, channelVars, pollfds>>
    PROVE  AbsWatch' = AbsWatch
  BY WatchKept DEF channelVars, Shown, Entry

LEMMA LoopPolls ==
    ASSUME PollerIInv, PollerIInv', PollReturns
    PROVE  P!Poll
<1> USE DEF PollerIInv
<1>1. AbsFacts /\ AbsFacts' /\ AbsWatch' = AbsWatch
  <2>1. AbsFacts /\ AbsFacts'
    BY AbsIs, PTL
  <2>2. AbsWatch' = AbsWatch
    BY SameWatch DEF PollReturns
  <2> QED
    BY <2>1, <2>2
<1>2. active = <<>> /\ at = 0 /\ at' = 0
  BY DEF PollReturns, LoopInv
<1>3. AbsActive = <<>>
  BY <1>2 DEF AbsActive, WaitingAt
<1>4. ASSUME NEW c \in DOMAIN AbsActive'
      PROVE  /\ c \in DOMAIN AbsWatch
             /\ AbsWatch[c] # {"silent"}
             /\ AbsActive'[c] \in (SUBSET (AbsWatch[c] \union {"hup"})) \ {{}}
  <2>1. PICK i \in 1..Len(active') : i \in WaitingAt' /\ c = active'[i].channel
    BY <1>1, <1>4 DEF AbsFacts
  <2>2. AbsActive'[c] = active'[i].revents
    BY <1>1, <2>1 DEF AbsFacts
  <2>3. /\ c \in Channels /\ added[c] /\ Shown(c) /\ active'[i].revents # {}
        /\ active'[i].revents \subseteq events[c] \union {"hup"}
    <3>1. active'[i] \in [channel : Channels, revents : SUBSET Reports]
      BY <2>1, Polled, ElementOfSeq
    <3> QED
      BY <2>1, <3>1, Polled
  <2>4. AbsWatch[c] = events[c] /\ c \in DOMAIN AbsWatch /\ "silent" \notin events[c]
    BY <1>1, <2>3, EventsAssumption DEF AbsFacts
  <2> QED
    BY <2>2, <2>3, <2>4
<1>5. DOMAIN AbsActive' \subseteq DOMAIN AbsWatch
  BY <1>4
<1> QED
  BY <1>1, <1>3, <1>4, <1>5 DEF P!Poll, P!Registered, P!Silent, AbsWatch, AbsActive

LEMMA LoopHandles ==
    ASSUME PollerIInv, PollerIInv', HandleEvent
    PROVE  P!Handle
<1> USE DEF PollerIInv
<1>1. AbsFacts /\ AbsFacts' /\ AbsWatch' = AbsWatch
  <2>1. AbsFacts /\ AbsFacts'
    BY AbsIs, PTL
  <2>2. AbsWatch' = AbsWatch
    BY SameWatch DEF HandleEvent, books
  <2> QED
    BY <2>1, <2>2
<1>2. active' = active /\ at' = at + 1 /\ at \in Nat /\ at + 1 \in 1..Len(active)
  BY DEF HandleEvent, PollerTypeOK, LoopInv
<1> DEFINE c == active[at + 1].channel
<1>3. WaitingAt' = WaitingAt \ {at + 1} /\ at + 1 \in WaitingAt
  BY <1>1, <1>2 DEF AbsFacts
<1>4. DOMAIN AbsActive' = DOMAIN AbsActive \ {c} /\ c \in DOMAIN AbsActive
  BY <1>1, <1>2, <1>3 DEF AbsFacts, LoopInv
<1>5. \A d \in DOMAIN AbsActive' : AbsActive'[d] = AbsActive[d]
  BY <1>1, <1>2, <1>3 DEF AbsFacts
<1>6. AbsActive' = [d \in DOMAIN AbsActive' |-> AbsActive'[d]]
  BY DEF AbsActive
<1> HIDE DEF c
<1>7. AbsActive' = P!Restrict(AbsActive, DOMAIN AbsActive \ {c})
  BY <1>4, <1>5, <1>6 DEF P!Restrict
<1>8. \E d \in DOMAIN AbsActive : AbsActive' = P!Restrict(AbsActive, DOMAIN AbsActive \ {d})
  BY <1>4, <1>7
<1> QED
  BY <1>1, <1>8 DEF P!Handle, AbsWatch, AbsActive

LEMMA LoopStutters ==
    ASSUME PollerIInv, PollerIInv', DoPendingFunctors \/ EnterPoll \/ UNCHANGED pollerVars
    PROVE  UNCHANGED AbsVars
<1>1. AbsWatch' = AbsWatch
  BY SameWatch DEF DoPendingFunctors, EnterPoll, pollerVars, books
<1>2. AbsActive' = AbsActive
  <2>1. CASE DoPendingFunctors
    <3>1. WaitingAt = {} /\ WaitingAt' = {}
      BY <2>1 DEF DoPendingFunctors, WaitingAt, PollerIInv, LoopInv
    <3> QED
      BY <3>1 DEF AbsActive
  <2> QED
    BY <2>1, ActiveKept DEF EnterPoll, pollerVars, loopVars
<1> QED
  BY <1>1, <1>2 DEF AbsVars

LEMMA ChannelUpdates ==
    ASSUME PollerIInv, PollerIInv', NEW c \in Channels, NEW asked \in SUBSET Events, Update(c, asked)
    PROVE  P!Update(c) \/ UNCHANGED AbsVars
<1> USE DEF PollerIInv
<1>1. CASE Abort("updateRemoved")
  <2>1. UNCHANGED <<kind, channelVars, books, active, at>>
    BY <1>1 DEF Abort, loopVars
  <2> QED
    BY <2>1, SameWatch, ActiveKept DEF AbsVars, books
<1>2. CASE Asked(c, asked)
  <2>1. AbsFacts /\ AbsFacts'
    BY AbsIs, PTL
  <2>2. AbsActive' = AbsActive
    BY <1>2, ActiveKept DEF Asked, OthersKept
  <2>3. /\ DOMAIN AbsWatch' = DOMAIN AbsWatch \union {c}
        /\ \A d \in DOMAIN AbsWatch \ {c} : AbsWatch'[d] = AbsWatch[d]
    BY <1>2, <2>1 DEF Asked, OthersKept, AbsFacts
  <2>4. AbsWatch'[c] \in (SUBSET Events) \union {{"silent"}}
    BY <1>2, <2>1 DEF Asked, AbsFacts
  <2>5. ASSUME c \in DOMAIN AbsWatch, AbsWatch[c] # {"silent"} PROVE AbsWatch'[c] # {}
    BY <1>2, <2>1, <2>5 DEF Asked, AbsFacts
  <2> QED
    BY <2>2, <2>3, <2>4, <2>5 DEF P!Update, P!Registered, P!Silent, AbsWatch, AbsActive
<1> QED
  BY <1>1, <1>2, EpollAsked, PollAsked DEF PollerTypeOK

LEMMA ChannelGoes ==
    ASSUME PollerIInv, PollerIInv', NEW c \in Channels, RemoveChannel(c)
    PROVE  P!RemoveChannel(c) \/ UNCHANGED AbsVars
<1> USE DEF PollerIInv
<1>1. CASE Abort("removeUnasked")
  <2>1. UNCHANGED <<kind, channelVars, books, active, at>>
    BY <1>1 DEF Abort, loopVars
  <2> QED
    BY <2>1, SameWatch, ActiveKept DEF AbsVars, books
<1>2. CASE OthersKept(c) /\ ~added'[c]
  <2>1. AbsFacts /\ AbsFacts' /\ added[c] /\ events[c] = {}
    <3>1. AbsFacts /\ AbsFacts'
      BY AbsIs, PTL
    <3> QED
      BY <3>1 DEF RemoveChannel
  <2>2. AbsActive' = AbsActive
    BY <1>2, ActiveKept DEF OthersKept
  <2>3. /\ DOMAIN AbsWatch' = DOMAIN AbsWatch \ {c} /\ c \in DOMAIN AbsWatch
        /\ \A d \in DOMAIN AbsWatch' : AbsWatch'[d] = AbsWatch[d]
        /\ AbsWatch[c] \in {{}, {"silent"}}
    BY <1>2, <2>1 DEF OthersKept, AbsFacts
  <2>4. AbsWatch' = [d \in DOMAIN AbsWatch' |-> AbsWatch'[d]]
    BY DEF AbsWatch
  <2>5. AbsWatch' = P!Restrict(AbsWatch, DOMAIN AbsWatch \ {c})
    BY <2>3, <2>4 DEF P!Restrict
  <2>6. c \notin DOMAIN AbsActive
    <3>1. \A i \in WaitingAt : active[i].channel # c
      <4>1. CASE at > 0
        <5>1. DOMAIN active = 1..Len(active) /\ at \in 1..Len(active)
          BY <4>1 DEF LoopInv, PollerTypeOK
        <5> QED
          BY <2>1, <4>1, <5>1 DEF RemoveChannel, AbsFacts, LoopInv
      <4>2. CASE ~(at > 0)
        BY <2>1, <4>2 DEF RemoveChannel, InUserCode, AbsFacts, LoopInv
      <4> QED
        BY <4>1, <4>2
    <3> QED
      BY <2>1, <3>1 DEF AbsFacts
  <2> QED
    BY <2>2, <2>3, <2>5, <2>6 DEF P!RemoveChannel, P!Registered, P!Silent, AbsWatch, AbsActive
<1> QED
  BY <1>1, <1>2, EpollNoMore, PollNoMore DEF PollerTypeOK

\* PollPoller and EPollPoller, whichever the loop has, do what the class Poller promises
\* the loop: they watch of each channel what it asks for, and poll() hands out channels
\* of the loop, each once, with events that they asked for or a hang-up.
THEOREM PollersArePollers == PollerSpec => ImplementsPoller
<1>1. PollerInit => P!Init
  <2> SUFFICES ASSUME PollerInit PROVE P!Init
    OBVIOUS
  <2>1. Range(channels) = {} /\ WaitingAt = {}
    BY DEF PollerInit, Range, WaitingAt
  <2>2. AbsWatch = <<>> /\ AbsActive = <<>>
    BY <2>1 DEF AbsWatch, AbsActive
  <2> QED
    BY <2>2 DEF P!Init, AbsWatch, AbsActive
<1>2. PollerIInv /\ PollerIInv' /\ [PollerNext]_pollerVars => [P!Next]_AbsVars
  <2> SUFFICES ASSUME PollerIInv, PollerIInv', [PollerNext]_pollerVars
               PROVE  P!Next \/ UNCHANGED AbsVars
    OBVIOUS
  <2>1. CASE PollReturns
    BY <2>1, LoopPolls DEF P!Next
  <2>2. CASE HandleEvent
    BY <2>2, LoopHandles DEF P!Next
  <2>3. CASE \E c \in Channels, asked \in SUBSET Events : Update(c, asked)
    BY <2>3, ChannelUpdates DEF P!Next
  <2>4. CASE \E c \in Channels : RemoveChannel(c)
    BY <2>4, ChannelGoes DEF P!Next
  <2> QED
    BY <2>1, <2>2, <2>3, <2>4, LoopStutters, OwnersStutter DEF PollerNext, Loop
<1> QED
  BY <1>1, <1>2, PollerInvariance, PTL DEF PollerSpec, ImplementsPoller, P!Spec, AbsVars, AbsWatch, AbsActive

=============================================================================
