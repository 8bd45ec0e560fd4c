------------------------------ MODULE EventLoop ------------------------------
(***************************************************************************)
(* muduo::net::EventLoop: one thread that alternates poll(), the callbacks *)
(* of the ready channels and the functors that any thread queued, and the  *)
(* eventfd that other threads write to end a blocked poll().               *)
(*                                                                         *)
(* A thread's call of queueInLoop() or quit() is two steps, because the    *)
(* loop runs between them: the update (pendingFunctors_ under mutex_, or   *)
(* quit_) and then the wakeup().  Functors are identities: each is handed  *)
(* over at most once, so the order of two of them can be told.             *)
(***************************************************************************)
EXTENDS Naturals, Sequences

CONSTANTS
    Callers,            \* threads other than the loop's
    LoopThread,         \* the thread that created the EventLoop
    Functors,           \* the functors that are ever handed over
    MaxQuits            \* bound on the calls of quit()

ASSUME LoopThreadAssumption == LoopThread \notin Callers
ASSUME MaxQuitsAssumption == MaxQuits \in Nat

Threads == Callers \union {LoopThread}

\* Where the loop thread is: outside loop(), at the test of quit_, blocked in
\* poll(), in the callbacks of the active channels, in doPendingFunctors()
\* before the swap, running the swapped functors.
Phases == {"outside", "test", "poll", "dispatch", "swap", "run"}

\* A thread inside queueInLoop() past the push, or inside quit() past the store.
Calls == {"none", "queued", "quitting"}

VARIABLES
    phase,                  \* of the loop thread
    looping,                \* looping_
    quit,                   \* quit_
    callingPendingFunctors, \* callingPendingFunctors_
    eventfd,                \* the counter behind wakeupFd_
    active,                 \* activeChannels_: "wakeup" and, for all others, "io"
    pendingFunctors,        \* pendingFunctors_
    functors,               \* doPendingFunctors()'s local vector, what is left of it
    running,                \* a functor of that vector is executing
    call,                   \* where each thread is in a call
    quits,                  \* calls of quit() so far
    posted,                 \* history: the order in which functors were pushed
    ran,                    \* history: the order in which queued functors ran
    inlined,                \* history: functors runInLoop() called directly
    early                   \* history: pushed by the loop thread outside loop()

queueVars == <<pendingFunctors, functors, running, posted, ran, inlined, early>>
loopVars  == <<phase, looping, callingPendingFunctors, active>>
vars == <<loopVars, quit, eventfd, queueVars, call, quits>>

Elems(s) == {s[i] : i \in DOMAIN s}

TypeOK ==
    /\ phase \in Phases
    /\ looping \in BOOLEAN
    /\ quit \in BOOLEAN
    /\ callingPendingFunctors \in BOOLEAN
    /\ eventfd \in Nat
    /\ active \in SUBSET {"wakeup", "io"}
    /\ pendingFunctors \in Seq(Functors)
    /\ functors \in Seq(Functors)
    /\ running \in BOOLEAN
    /\ call \in [Threads -> Calls]
    /\ quits \in 0..MaxQuits
    /\ posted \in Seq(Functors)
    /\ ran \in Seq(Functors)
    /\ inlined \in SUBSET Functors
    /\ early \in SUBSET Functors

Init ==
    /\ phase = "outside"
    /\ looping = FALSE
    /\ quit \in BOOLEAN             \* the constructor does not set quit_
    /\ callingPendingFunctors = FALSE
    /\ eventfd = 0
    /\ active = {}
    /\ pendingFunctors = <<>>
    /\ functors = <<>>
    /\ running = FALSE
    /\ call = [t \in Threads |-> "none"]
    /\ quits = 0
    /\ posted = <<>>
    /\ ran = <<>>
    /\ inlined = {}
    /\ early = {}

-----------------------------------------------------------------------------
(* What any thread may call.                                               *)

\* The loop thread executes user code outside loop(), in the callback of a
\* channel and in a functor; other threads always do.
InUserCode(t) ==
    /\ call[t] = "none"
    /\ \/ t \in Callers
       \/ phase = "outside"
       \/ phase = "dispatch" /\ "io" \in active
       \/ phase = "run" /\ running

IsNew(f) == f \notin Elems(posted) \union inlined

\* wakeup(): a write of 1 to the eventfd.
Wakeup == eventfd' = eventfd + 1

\* queueInLoop() up to the release of mutex_.
QueueInLoop(t, f) ==
    /\ InUserCode(t)
    /\ IsNew(f)
    /\ pendingFunctors' = Append(pendingFunctors, f)
    /\ posted' = Append(posted, f)
    /\ early' = IF t = LoopThread /\ phase = "outside" THEN early \union {f} ELSE early
    /\ call' = [call EXCEPT ![t] = "queued"]
    /\ UNCHANGED <<loopVars, quit, eventfd, functors, running, ran, inlined, quits>>

MutNeedsWakeupOthersOnly(t) == t # LoopThread

MutNeedsWakeupLoopOnly(t) == callingPendingFunctors

\* The test of isInLoopThread() and callingPendingFunctors_ that follows it.
NeedsWakeup(t) == t # LoopThread \/ callingPendingFunctors

QueueWakeup(t) ==
    /\ call[t] = "queued"
    /\ call' = [call EXCEPT ![t] = "none"]
    /\ IF NeedsWakeup(t) THEN Wakeup ELSE UNCHANGED eventfd
    /\ UNCHANGED <<loopVars, quit, queueVars, quits>>

\* runInLoop() on the loop thread calls cb at once; what cb goes on to call is
\* user code like any other.  On another thread runInLoop() is QueueInLoop.
RunInLoopHere(f) ==
    /\ InUserCode(LoopThread)
    /\ IsNew(f)
    /\ inlined' = inlined \union {f}
    /\ UNCHANGED <<loopVars, quit, eventfd, pendingFunctors, functors, running,
                   posted, ran, early, call, quits>>

\* quit() up to the store to quit_.
Quit(t) ==
    /\ InUserCode(t)
    /\ quits < MaxQuits
    /\ quits' = quits + 1
    /\ quit' = TRUE
    /\ call' = [call EXCEPT ![t] = "quitting"]
    /\ UNCHANGED <<loopVars, eventfd, queueVars>>

MutQuitWakeupMissing(t) ==
    /\ call[t] = "quitting"
    /\ call' = [call EXCEPT ![t] = "none"]
    /\ UNCHANGED <<loopVars, quit, queueVars, quits, eventfd>>

QuitWakeup(t) ==
    /\ call[t] = "quitting"
    /\ call' = [call EXCEPT ![t] = "none"]
    /\ IF t # LoopThread THEN Wakeup ELSE UNCHANGED eventfd
    /\ UNCHANGED <<loopVars, quit, queueVars, quits>>

-----------------------------------------------------------------------------
(* loop().                                                                 *)

\* The loop thread takes its next own step only when it is not inside a call.
Steps(from) == phase = from /\ call[LoopThread] = "none"

EnterLoop ==
    /\ Steps("outside")
    /\ phase' = "test"
    /\ looping' = TRUE
    /\ quit' = FALSE
    /\ UNCHANGED <<callingPendingFunctors, active, eventfd, queueVars, call, quits>>

LeaveLoop ==
    /\ Steps("test")
    /\ quit
    /\ phase' = "outside"
    /\ looping' = FALSE
    /\ UNCHANGED <<quit, callingPendingFunctors, active, eventfd, queueVars, call, quits>>

EnterPoll ==
    /\ Steps("test")
    /\ ~quit
    /\ phase' = "poll"
    /\ active' = {}
    /\ UNCHANGED <<looping, quit, callingPendingFunctors, eventfd, queueVars, call, quits>>

\* poll() returns with the channels that are ready: the eventfd exactly when its
\* counter is not zero (level-triggered), and others as their peers please.
PollReturns(io) ==
    /\ phase = "poll"
    /\ phase' = "dispatch"
    /\ active' = io \union (IF eventfd > 0 THEN {"wakeup"} ELSE {})
    /\ UNCHANGED <<looping, quit, callingPendingFunctors, eventfd, queueVars, call, quits>>

\* Something is ready: the eventfd or a user's channel.
PollReady == \E io \in SUBSET {"io"} : (io # {} \/ eventfd > 0) /\ PollReturns(io)

\* kPollTimeMs passed with nothing ready.
PollTimeout == eventfd = 0 /\ PollReturns({})

\* EventLoop::handleRead(): the read takes the whole counter.
HandleWakeup ==
    /\ Steps("dispatch")
    /\ "wakeup" \in active
    /\ active' = active \ {"wakeup"}
    /\ eventfd' = 0
    /\ UNCHANGED <<phase, looping, callingPendingFunctors, quit, queueVars, call, quits>>

\* The callbacks of the other channels are over.
HandleIo ==
    /\ Steps("dispatch")
    /\ "io" \in active
    /\ active' = active \ {"io"}
    /\ UNCHANGED <<phase, looping, callingPendingFunctors, quit, eventfd, queueVars, call, quits>>

-----------------------------------------------------------------------------
(* doPendingFunctors().                                                    *)

BeginPendingFunctors ==
    /\ Steps("dispatch")
    /\ active = {}
    /\ phase' = "swap"
    /\ callingPendingFunctors' = TRUE
    /\ UNCHANGED <<looping, active, quit, eventfd, queueVars, call, quits>>

SwapFunctors ==
    /\ Steps("swap")
    /\ phase' = "run"
    /\ functors' = pendingFunctors
    /\ pendingFunctors' = <<>>
    /\ UNCHANGED <<looping, callingPendingFunctors, active, quit, eventfd,
                   running, posted, ran, inlined, early, call, quits>>

MutRunFunctorFromBack ==
    /\ Steps("run")
    /\ functors # <<>>
    /\ ran' = Append(ran, functors[Len(functors)])
    /\ functors' = SubSeq(functors, 1, Len(functors) - 1)
    /\ running' = TRUE
    /\ UNCHANGED <<loopVars, quit, eventfd, pendingFunctors, posted, inlined, early, call, quits>>

RunFunctor ==
    /\ Steps("run")
    /\ functors # <<>>
    /\ ran' = Append(ran, Head(functors))
    /\ functors' = Tail(functors)
    /\ running' = TRUE
    /\ UNCHANGED <<loopVars, quit, eventfd, pendingFunctors, posted, inlined, early, call, quits>>

MutEndOnlyWhenNonePending ==
    /\ Steps("run")
    /\ functors = <<>>
    /\ functors' = pendingFunctors
    /\ pendingFunctors' = <<>>
    /\ running' = FALSE
    /\ callingPendingFunctors' = (pendingFunctors # <<>>)
    /\ phase' = IF pendingFunctors # <<>> THEN "run" ELSE "test"
    /\ UNCHANGED <<looping, active, quit, eventfd, posted, ran, inlined, early, call, quits>>

EndPendingFunctors ==
    /\ Steps("run")
    /\ functors = <<>>
    /\ running' = FALSE
    /\ callingPendingFunctors' = FALSE
    /\ phase' = "test"
    /\ UNCHANGED <<looping, active, quit, eventfd, pendingFunctors, functors,
                   posted, ran, inlined, early, call, quits>>

-----------------------------------------------------------------------------
CallStep(t) == QueueWakeup(t) \/ QuitWakeup(t)

UserStep(t) == Quit(t) \/ \E f \in Functors : QueueInLoop(t, f)

LoopStep ==
    \/ LeaveLoop
    \/ EnterPoll
    \/ HandleWakeup
    \/ HandleIo
    \/ BeginPendingFunctors
    \/ SwapFunctors
    \/ RunFunctor
    \/ EndPendingFunctors

Next ==
    \/ EnterLoop
    \/ LoopStep
    \/ PollReady
    \/ PollTimeout
    \/ \E t \in Threads : CallStep(t) \/ UserStep(t)
    \/ \E f \in Functors : RunInLoopHere(f)

Spec == Init /\ [][Next]_vars

\* Threads that are runnable run, callbacks and functors return, and poll()
\* returns once the eventfd is readable.  Nothing forces a call of loop(), a user
\* call or the arrival of I/O; and no fairness is given to PollTimeout, so that
\* what holds does not owe to the 10 s time-out.
Fairness ==
    /\ WF_vars(LoopStep)
    /\ WF_vars(eventfd > 0 /\ PollReady)
    /\ \A t \in Threads : WF_vars(CallStep(t))

FairSpec == Spec /\ Fairness

-----------------------------------------------------------------------------
(* Properties.                                                             *)

\* The loop never blocks in poll() on a functor it will not be told of: while a
\* functor is queued (other than before loop() by the loop's own thread) and the
\* loop is about to poll or polls, the eventfd is readable or the thread that
\* queued it is still on its way to wakeup() (queueInLoop's condition for
\* wakeup(), and the comment above it).
NoLostWakeup ==
    (phase \in {"test", "poll"} /\ ~(Elems(pendingFunctors) \subseteq early))
        => eventfd > 0 \/ \E t \in Callers : call[t] = "queued"

\* Across the mutex-protected push, the swap and the loop over the local vector
\* no functor is lost, doubled or overtaken: those run, those of the current
\* batch and those pending are, in this order, all that were ever pushed.
QueueOrder == posted = ran \o functors \o pendingFunctors

\* A functor that a running functor queues waits for the next round: while a
\* batch is being run nothing enters it, so doPendingFunctors() ends (the reason
\* for swapping the vector instead of iterating over it).
BatchClosed == [][phase = "run" => Len(functors') <= Len(functors)]_vars

\* A functor handed over from any thread, or from a callback or functor of the
\* loop, runs without waiting for poll() to time out, unless loop() is left.
PostedRuns ==
    \A f \in Functors :
        (f \in Elems(posted) \ early) ~> (f \in Elems(ran) \/ phase = "outside")

\* quit() of a looping EventLoop, called by any thread at any point, gets loop()
\* to return although poll() may be blocked when it is called.
QuitStops == (quit /\ looping) ~> ~looping

\* The tasks the abstract queue holds are the batch and then the pending ones.
Abstract == INSTANCE TaskQueue WITH
    Tasks <- Functors,
    queue <- functors \o pendingFunctors,
    done  <- ran

\* EventLoop's queue, with its threads, its mutex and its two vectors, is a FIFO
\* that runs each accepted functor once.
ImplementsTaskQueue == Abstract!Spec
=============================================================================
