----------------------------- MODULE TimerQueue ------------------------------
(***************************************************************************)
(* muduo::net::TimerQueue: the timers of one EventLoop, in two ordered     *)
(* sets (by expiration and by address), behind one timerfd.  Timers are    *)
(* objects at addresses that the allocator hands out again after a delete; *)
(* a TimerId is an address and a sequence number.  Other threads add and   *)
(* cancel through functors of the loop, which run in the order they were   *)
(* queued (module EventLoop).                                              *)
(***************************************************************************)
EXTENDS Integers, Sequences, FiniteSets

CONSTANTS
    Addrs,              \* addresses of Timer objects, ordered as the sets order them
    Threads,            \* threads other than the loop's
    MaxTimers,          \* bound on the timers ever created
    MaxTime,            \* bound on the clock
    Whens,              \* delays asked for: when = now + delay, which may be past
    Interval            \* of repeated timers; 0 is that of the others

ASSUME AddrsAssumption == Addrs \subseteq Nat
ASSUME BoundsAssumption == {MaxTimers, MaxTime} \subseteq Nat
ASSUME DelaysAssumption == Whens \subseteq Int /\ Interval \in Nat \ {0}

VARIABLES
    heap,               \* the Timer at an address, or Free
    numCreated,         \* Timer::s_numCreated_
    timers,             \* timers_: pairs <<expiration, address>>
    activeTimers,       \* activeTimers_: pairs <<address, sequence>>
    cancelingTimers,    \* cancelingTimers_
    calling,            \* callingExpiredTimers_
    expired,            \* handleRead()'s local vector
    toRun,              \* what of it has still to run
    readAt,             \* handleRead()'s local now
    now,                \* the clock
    alarm,              \* when timerfd_ becomes readable, or Off
    functors,           \* addTimerInLoop and cancelInLoop queued in the loop
    call,               \* a thread in addTimer() past runInLoop(): its Timer's TimerId
    issued,             \* TimerIds that addTimer() returned
    cancelled,          \* history: those whose cancelInLoop() ran after their addTimerInLoop()
    ran                 \* history: the sequence numbers of timers with no interval that ran

setVars  == <<heap, timers, activeTimers>>
fireVars == <<cancelingTimers, calling, expired, toRun, readAt>>
apiVars  == <<functors, call, issued>>
vars == <<setVars, numCreated, fireVars, now, alarm, apiVars, cancelled, ran>>

Free == [seq |-> 0, expiration |-> 0, interval |-> 0]
Off == -1
NoCall == <<0, 0>>
Seqs == 1..MaxTimers
Times == Int
Pairs == Addrs \X Seqs
TimerObjects == [seq : Seqs, expiration : Times, interval : {0, Interval}]

TypeOK ==
    /\ heap \in [Addrs -> TimerObjects \union {Free}]
    /\ numCreated \in 0..MaxTimers
    /\ timers \subseteq Times \X Addrs
    /\ activeTimers \subseteq Pairs
    /\ cancelingTimers \subseteq Pairs
    /\ calling \in BOOLEAN
    /\ expired \subseteq Times \X Addrs
    /\ toRun \subseteq expired
    /\ now \in 0..MaxTime /\ readAt \in 0..MaxTime
    /\ alarm \in {Off} \union Nat
    /\ functors \in Seq([op : {"add", "cancel"}, id : Pairs])
    /\ call \in [Threads -> Pairs \union {NoCall}]
    /\ issued \subseteq Pairs
    /\ cancelled \subseteq Pairs
    /\ ran \subseteq Seqs

Init ==
    /\ heap = [a \in Addrs |-> Free]
    /\ numCreated = 0
    /\ timers = {} /\ activeTimers = {} /\ cancelingTimers = {}
    /\ calling = FALSE
    /\ expired = {} /\ toRun = {}
    /\ now = 0 /\ readAt = 0
    /\ alarm = Off
    /\ functors = <<>>
    /\ call = [t \in Threads |-> NoCall]
    /\ issued = {} /\ cancelled = {} /\ ran = {}

-----------------------------------------------------------------------------
(* Helpers.                                                                *)

\* The order of std::set<Entry>: by expiration and then by address.
Before(e, f) == e[1] < f[1] \/ (e[1] = f[1] /\ e[2] < f[2])

Earliest(S) == CHOOSE e \in S : \A f \in S \ {e} : Before(e, f)

\* resetTimerfd(): howMuchTimeFromNow() never returns less than 100us, here 1.
ArmedFor(when) == IF when > now THEN when ELSE now + 1

Sequenced(e) == <<e[2], heap[e[2]].seq>>

\* A cancel that overtakes the addTimerInLoop() in the queue (only the loop's thread
\* can, with the TimerId of another thread's timer) is lost, and is not counted.
Cancelled(id) ==
    cancelled' = IF \E i \in DOMAIN functors : functors[i] = [op |-> "add", id |-> id]
                 THEN cancelled ELSE cancelled \union {id}

\* The loop's thread runs user code when no handler of the queue does, and in the
\* callback of a timer.
UserCode == calling => toRun # expired

-----------------------------------------------------------------------------
(* addTimer() and cancel().                                                *)

\* new Timer(cb, when, interval)
New(a, when, interval) ==
    /\ heap[a] = Free
    /\ numCreated < MaxTimers
    /\ numCreated' = numCreated + 1
    /\ heap' = [heap EXCEPT ![a] =
                    [seq |-> numCreated + 1, expiration |-> when, interval |-> interval]]

MutInsertNeverEarlier(a, timer) ==
    /\ timers' = timers \union {<<timer.expiration, a>>}
    /\ activeTimers' = activeTimers \union {<<a, timer.seq>>}
    /\ alarm' = IF timers = {} THEN ArmedFor(timer.expiration) ELSE alarm

\* addTimerInLoop(): insert(), and re-arm timerfd_ for a timer that is the earliest.
AddTimerInLoop(a, timer) ==
    /\ timers' = timers \union {<<timer.expiration, a>>}
    /\ activeTimers' = activeTimers \union {<<a, timer.seq>>}
    /\ alarm' = IF \A e \in timers : timer.expiration < e[1]
                THEN ArmedFor(timer.expiration) ELSE alarm

MutCancelByAddress(id) ==
    LET a == id[1] IN
    /\ IF \E s \in Seqs : <<a, s>> \in activeTimers
       THEN /\ timers' = timers \ {<<heap[a].expiration, a>>}
            /\ activeTimers' = activeTimers \ {<<a, heap[a].seq>>}
            /\ heap' = [heap EXCEPT ![a] = Free]
            /\ UNCHANGED cancelingTimers
       ELSE /\ cancelingTimers' = IF calling THEN cancelingTimers \union {id} ELSE cancelingTimers
            /\ UNCHANGED setVars
    /\ Cancelled(id)

\* cancelInLoop(): an active timer is deleted; one that is not may be about to be
\* restarted by the reset() of the callbacks that are running.
CancelInLoop(id) ==
    LET a == id[1] IN
    /\ IF id \in activeTimers
       THEN /\ timers' = timers \ {<<heap[a].expiration, a>>}
            /\ activeTimers' = activeTimers \ {id}
            /\ heap' = [heap EXCEPT ![a] = Free]
            /\ UNCHANGED cancelingTimers
       ELSE /\ cancelingTimers' = IF calling THEN cancelingTimers \union {id} ELSE cancelingTimers
            /\ UNCHANGED setVars
    /\ Cancelled(id)

\* On the loop's thread runInLoop() calls at once.
LoopAddTimer(a, delay, interval) ==
    /\ UserCode
    /\ New(a, now + delay, interval)
    /\ AddTimerInLoop(a, heap'[a])
    /\ issued' = issued \union {<<a, heap'[a].seq>>}
    /\ UNCHANGED <<fireVars, now, functors, call, cancelled, ran>>

LoopCancel(id) ==
    /\ UserCode
    /\ id \in issued \ cancelled
    /\ CancelInLoop(id)
    /\ UNCHANGED <<numCreated, calling, expired, toRun, readAt, now, alarm, apiVars, ran>>

\* On another thread: new Timer, runInLoop(), and then the Timer's sequence().
ForeignAddTimer(t, a, delay, interval) ==
    /\ call[t] = NoCall
    /\ New(a, now + delay, interval)
    /\ functors' = Append(functors, [op |-> "add", id |-> <<a, numCreated + 1>>])
    /\ call' = [call EXCEPT ![t] = <<a, numCreated + 1>>]
    /\ UNCHANGED <<timers, activeTimers, fireVars, now, alarm, issued, cancelled, ran>>

\* TimerId(timer, timer->sequence()).  The read is undefined once the loop has
\* deleted the timer; what it then returns is taken to be a TimerId of nothing.
ForeignReturns(t) ==
    /\ call[t] # NoCall
    /\ call' = [call EXCEPT ![t] = NoCall]
    /\ issued' = IF heap[call[t][1]].seq = call[t][2] THEN issued \union {call[t]} ELSE issued
    /\ UNCHANGED <<setVars, numCreated, fireVars, now, alarm, functors, cancelled, ran>>

\* A TimerId reaches other threads, too.
ForeignCancel(t, id) ==
    /\ call[t] = NoCall
    /\ id \in issued \ cancelled
    /\ \A i \in DOMAIN functors : functors[i] # [op |-> "cancel", id |-> id]
    /\ functors' = Append(functors, [op |-> "cancel", id |-> id])
    /\ UNCHANGED <<setVars, numCreated, fireVars, now, alarm, call, issued, cancelled, ran>>

\* The loop runs the functors outside handleRead().
RunFunctor ==
    /\ ~calling
    /\ functors # <<>>
    /\ functors' = Tail(functors)
    /\ LET f == Head(functors) IN
       \/ /\ f.op = "add"
          /\ AddTimerInLoop(f.id[1], heap[f.id[1]])
          /\ UNCHANGED <<heap, cancelingTimers, cancelled>>
       \/ /\ f.op = "cancel"
          /\ CancelInLoop(f.id)
          /\ UNCHANGED alarm
    /\ UNCHANGED <<numCreated, calling, expired, toRun, readAt, now, call, issued, ran>>

-----------------------------------------------------------------------------
(* handleRead().                                                           *)

Tick ==
    /\ now < MaxTime
    /\ now' = now + 1
    /\ UNCHANGED <<setVars, numCreated, fireVars, alarm, apiVars, cancelled, ran>>

MutGetExpiredKeepsActive ==
    /\ ~calling
    /\ alarm # Off /\ alarm <= now
    /\ alarm' = Off
    /\ expired' = {e \in timers : e[1] <= now}
    /\ toRun' = expired'
    /\ timers' = timers \ expired'
    /\ cancelingTimers' = {}
    /\ calling' = TRUE
    /\ readAt' = now
    /\ UNCHANGED <<heap, activeTimers, numCreated, now, apiVars, cancelled, ran>>

\* handleRead() up to the callbacks: read timerfd_, getExpired(now).
BeginExpired ==
    /\ ~calling
    /\ alarm # Off /\ alarm <= now
    /\ alarm' = Off
    /\ expired' = {e \in timers : e[1] <= now}
    /\ toRun' = expired'
    /\ timers' = timers \ expired'
    /\ activeTimers' = activeTimers \ {Sequenced(e) : e \in expired'}
    /\ cancelingTimers' = {}
    /\ calling' = TRUE
    /\ readAt' = now
    /\ UNCHANGED <<heap, numCreated, now, apiVars, cancelled, ran>>

RunTimer ==
    /\ calling
    /\ toRun # {}
    /\ toRun' = toRun \ {Earliest(toRun)}
    /\ LET timer == heap[Earliest(toRun)[2]] IN
       ran' = IF timer.interval > 0 THEN ran ELSE ran \union {timer.seq}
    /\ UNCHANGED <<setVars, numCreated, cancelingTimers, calling, expired, readAt, now, alarm, apiVars, cancelled>>

MutRestartsCancelled == {e \in expired : heap[e[2]].interval > 0}

\* The timers of the batch that reset() restarts.
Restarted == {e \in expired : heap[e[2]].interval > 0 /\ Sequenced(e) \notin cancelingTimers}

\* reset(): restart(now) and insert(), or delete, each timer of the batch; then arm
\* timerfd_ for the earliest of all timers.
Reset ==
    /\ calling
    /\ toRun = {}
    /\ heap' = [a \in Addrs |->
                    IF \E e \in Restarted : e[2] = a
                    THEN [heap[a] EXCEPT !.expiration = readAt + Interval]
                    ELSE IF \E e \in expired : e[2] = a THEN Free ELSE heap[a]]
    /\ timers' = timers \union {<<readAt + Interval, e[2]>> : e \in Restarted}
    /\ activeTimers' = activeTimers \union {Sequenced(e) : e \in Restarted}
    /\ alarm' = IF timers' # {} THEN ArmedFor(Earliest(timers')[1]) ELSE alarm
    /\ calling' = FALSE
    /\ expired' = {}
    /\ UNCHANGED <<numCreated, cancelingTimers, toRun, readAt, now, apiVars, cancelled, ran>>

-----------------------------------------------------------------------------
LoopStep == RunFunctor \/ BeginExpired \/ RunTimer \/ Reset

Next ==
    \/ LoopStep \/ Tick
    \/ \E a \in Addrs, d \in Whens, i \in {0, Interval} :
        LoopAddTimer(a, d, i) \/ \E t \in Threads : ForeignAddTimer(t, a, d, i)
    \/ \E id \in issued : LoopCancel(id) \/ \E t \in Threads : ForeignCancel(t, id)
    \/ \E t \in Threads : ForeignReturns(t)

Spec == Init /\ [][Next]_vars

-----------------------------------------------------------------------------
(* Properties.                                                             *)

\* The two sets hold the same timers, each under the expiration it has now: the
\* assertions on their sizes, and on what insert() and erase() return, hold.
SetsAgree ==
    /\ activeTimers = {Sequenced(e) : e \in timers}
    /\ \A e \in timers : heap[e[2]] # Free /\ e[1] = heap[e[2]].expiration
    /\ \A e, f \in timers : e[2] = f[2] => e = f

\* What the batch of handleRead() and the queued addTimerInLoop() functors point to
\* is not deleted under them, by whatever a callback or another thread cancels.
NoDanglingTimer ==
    /\ \A e \in expired : heap[e[2]] # Free /\ Sequenced(e) \notin activeTimers
    /\ \A i \in DOMAIN functors :
        functors[i].op = "add" => heap[functors[i].id[1]].seq = functors[i].id[2]

\* No timer is forgotten: outside handleRead() timerfd_ is armed, for no later than
\* the earliest expiration or, that being past, the shortest delay there is.
AlarmCoversEarliest ==
    (timers # {} /\ ~calling) => /\ alarm # Off
                                 /\ \A e \in timers : alarm <= e[1] \/ alarm <= now + 1

\* A timer whose cancel() has taken effect is not about to run, unless the cancel
\* came from a callback of the batch that it is part of (cancelingTimers_).
CancelledStaysCancelled ==
    \A e \in toRun : Sequenced(e) \in cancelled => Sequenced(e) \in cancelingTimers

\* A timer is in timers_, in the batch of handleRead(), or in an addTimerInLoop() that
\* the loop has yet to run.
Waits(s) ==
    \/ \E e \in timers \union expired : heap[e[2]].seq = s
    \/ \E i \in 1..Len(functors) : functors[i].op = "add" /\ functors[i].id[2] = s

\* A timer waits until it ran, if it does not repeat, or until it was cancelled under its
\* own TimerId: a TimerId that outlives its timer cancels no other timer that the
\* allocator put at the same address (comment above TimerId), and reset() deletes no
\* repeated timer that nobody cancelled.
NoTimerLost ==
    \A s \in 1..numCreated : Waits(s) \/ s \in ran \/ \E id \in cancelled : id[2] = s

\* The sets, the heap and the pointers into it agree, in states of the right types.
SetsConsistent == TypeOK /\ SetsAgree /\ NoDanglingTimer

=============================================================================
