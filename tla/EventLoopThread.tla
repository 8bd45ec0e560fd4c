--------------------------- MODULE EventLoopThread ---------------------------
(***************************************************************************)
(* muduo::net::EventLoopThread: the owner starts a thread, waits until the *)
(* EventLoop on that thread's stack exists, hands tasks to it and, in the  *)
(* destructor, quits the loop and joins the thread.  The loop itself is    *)
(* reduced to what the hand-over depends on: quit_, the eventfd, and       *)
(* whether a functor that calls quit() is pending.  Module EventLoop has   *)
(* the rest of it.                                                         *)
(***************************************************************************)
EXTENDS Naturals, Mutex

CONSTANT CallbackMayQuit    \* the init callback may queue a call of quit()

ASSUME CallbackAssumption == CallbackMayQuit \in BOOLEAN

\* The threads, and the mutexes: latch_'s and mutex_.
ASSUME MutexAssumption == Threads = {"owner", "child"} /\ Mutexes = {"latch", "mutex"}

\* The owner: not started; in Thread::start() at latch_.wait(); in startLoop()
\* waiting for loop_; past it; past the push of a functor; in the destructor before
\* the test of loop_, before and after the store of quit(), in join(), destroying the
\* members, done.
OwnerAt == {"new", "latch", "check", "using", "wakeup",
            "dtor", "quit", "quitWakeup", "join", "members", "gone"}

\* The thread: absent; setting tid_, counting down, in runInThread(); constructing the
\* loop and calling the callback; setting loop_; about to run loop(); in loop(); about
\* to clear loop_; about to destroy the loop; done.
ChildAt == {"none", "runInThread", "countDown", "construct", "publish", "enter", "test", "poll",
            "functors", "clear", "destroy", "finished"}

InLoop == {"test", "poll", "functors"}

VARIABLES
    owner, child,
    latch,              \* thread_.latch_'s count_
    tid_,               \* thread_.tid_ > 0
    loop_,              \* loop_ # NULL
    loopAlive,          \* the EventLoop is constructed and not destroyed
    quit,               \* its quit_
    eventfd,            \* its eventfd counter
    quitQueued,         \* its pendingFunctors_ hold a call of quit()
    asked               \* history: somebody called quit() or queued a call of it

handOver == <<latch, tid_, loop_>>
loopVars == <<loopAlive, quit, eventfd, quitQueued, asked>>
vars == <<owner, child, handOver, mutexVars, loopVars>>

TypeOK ==
    /\ owner \in OwnerAt
    /\ child \in ChildAt
    /\ latch \in 0..1
    /\ tid_ \in BOOLEAN
    /\ loop_ \in BOOLEAN
    /\ MutexTypeOK
    /\ loopAlive \in BOOLEAN
    /\ quit \in BOOLEAN
    /\ eventfd \in 0..3
    /\ quitQueued \in BOOLEAN
    /\ asked \in BOOLEAN

Init ==
    /\ owner = "new" /\ child = "none"
    /\ latch = 1
    /\ tid_ = FALSE
    /\ loop_ = FALSE
    /\ MutexInit
    /\ loopAlive = FALSE
    /\ quit = FALSE
    /\ eventfd = 0
    /\ quitQueued = FALSE
    /\ asked = FALSE

-----------------------------------------------------------------------------
(* The owner.                                                              *)

OwnerGoes(from, to) == owner = from /\ Out("owner") /\ owner' = to /\ UNCHANGED mutexVars

\* startLoop(): Thread::start() creates the thread and waits for its latch.
StartThread ==
    /\ OwnerGoes("new", "latch")
    /\ child' = "runInThread"
    /\ UNCHANGED <<handOver, loopVars>>

\* The guard in latch_.wait(), and the one in startLoop().
OwnerLocks ==
    /\ \/ owner = "latch" /\ Lock("owner", "latch")
       \/ owner = "check" /\ Lock("owner", "mutex")
    /\ UNCHANGED <<owner, child, handOver, loopVars>>

\* while (count_ > 0) condition_.wait()
TestLatch ==
    /\ Inside("owner", "latch")
    /\ IF latch > 0 THEN BeginWait("owner", "latch") /\ UNCHANGED owner
       ELSE Leave("owner", "latch") /\ owner' = "check"
    /\ UNCHANGED <<child, handOver, loopVars>>

\* while (loop_ == NULL) cond_.wait()
CheckLoop ==
    /\ Inside("owner", "mutex")
    /\ IF ~loop_ THEN BeginWait("owner", "mutex") /\ UNCHANGED owner
       ELSE Leave("owner", "mutex") /\ owner' = "using"
    /\ UNCHANGED <<child, handOver, loopVars>>

\* pthread_cond_wait() may return without a signal.
SpuriousWakeup ==
    /\ \E m \in {"latch", "mutex"} : Wake("owner", m)
    /\ UNCHANGED <<owner, child, handOver, loopVars>>

\* The owner queues a functor that calls loop->quit(): the push, the wakeup().
QueueQuit ==
    /\ OwnerGoes("using", "wakeup")
    /\ ~asked
    /\ quitQueued' = TRUE
    /\ asked' = TRUE
    /\ UNCHANGED <<child, handOver, loopAlive, quit, eventfd>>

QueueQuitWakeup ==
    /\ OwnerGoes("wakeup", "using")
    /\ eventfd' = eventfd + 1
    /\ UNCHANGED <<child, handOver, loopAlive, quit, quitQueued, asked>>

\* The destructor starts; the thread may never have been started.
BeginDtor ==
    /\ OwnerGoes("new", "dtor") \/ OwnerGoes("using", "dtor")
    /\ UNCHANGED <<child, handOver, loopVars>>

\* if (loop_ != NULL), read without mutex_.
DtorReadsLoop ==
    /\ OwnerGoes("dtor", IF loop_ THEN "quit" ELSE "members")
    /\ UNCHANGED <<child, handOver, loopVars>>

\* loop_->quit(): the store, the wakeup().
DtorQuits ==
    /\ OwnerGoes("quit", "quitWakeup")
    /\ quit' = TRUE
    /\ asked' = TRUE
    /\ UNCHANGED <<child, handOver, loopAlive, eventfd, quitQueued>>

MutDtorNoWakeup ==
    /\ OwnerGoes("quitWakeup", "join")
    /\ UNCHANGED <<child, handOver, loopAlive, quit, quitQueued, asked, eventfd>>

DtorWakesLoop ==
    /\ OwnerGoes("quitWakeup", "join")
    /\ eventfd' = eventfd + 1
    /\ UNCHANGED <<child, handOver, loopAlive, quit, quitQueued, asked>>

Join ==
    /\ OwnerGoes("join", "members")
    /\ child = "finished"
    /\ UNCHANGED <<child, handOver, loopVars>>

\* The members are destroyed; ~Thread() detaches a thread that was not joined.
DestroyMembers ==
    /\ OwnerGoes("members", "gone")
    /\ UNCHANGED <<child, handOver, loopVars>>

-----------------------------------------------------------------------------
(* The thread.                                                             *)

ChildGoes(from, to) == child = from /\ Out("child") /\ child' = to /\ UNCHANGED mutexVars

\* ThreadData::runInThread(): *tid_, countDown(), then threadFunc().
SetTid ==
    /\ ChildGoes("runInThread", "countDown")
    /\ tid_' = TRUE
    /\ UNCHANGED <<owner, latch, loop_, loopVars>>

\* The guards in countDown() and threadFunc().
ChildLocks ==
    /\ \/ child = "countDown" /\ Lock("child", "latch")
       \/ child \in {"publish", "clear"} /\ Lock("child", "mutex")
    /\ UNCHANGED <<owner, child, handOver, loopVars>>

CountDown ==
    /\ IF latch = 1 THEN NotifyAll("child", "latch") ELSE Leave("child", "latch")
    /\ child' = "construct"
    /\ latch' = latch - 1
    /\ UNCHANGED <<owner, tid_, loop_, loopVars>>

\* EventLoop loop; callback_(&loop).  quit_ is not initialised.
ConstructLoop ==
    /\ ChildGoes("construct", "publish")
    /\ loopAlive' = TRUE
    /\ quit' \in BOOLEAN
    /\ \E q \in {FALSE, CallbackMayQuit} : quitQueued' = q /\ asked' = q
    /\ UNCHANGED <<owner, handOver, eventfd>>

\* loop_ = &loop and cond_.notify() under mutex_.
Publish ==
    /\ child = "publish" /\ Notify("child", "mutex")
    /\ child' = "enter"
    /\ loop_' = TRUE
    /\ UNCHANGED <<owner, latch, tid_, loopVars>>

\* loop() starts: quit_ = false.
EnterLoop ==
    /\ ChildGoes("enter", "test")
    /\ quit' = FALSE
    /\ UNCHANGED <<owner, handOver, loopAlive, eventfd, quitQueued, asked>>

TestQuit ==
    /\ ChildGoes("test", IF quit THEN "clear" ELSE "poll")
    /\ UNCHANGED <<owner, handOver, loopVars>>

\* poll() returns for the eventfd, which is read; PollTimeout: for nothing.
PollReady ==
    /\ ChildGoes("poll", "functors")
    /\ eventfd > 0
    /\ eventfd' = 0
    /\ UNCHANGED <<owner, handOver, loopAlive, quit, quitQueued, asked>>

PollTimeout ==
    /\ ChildGoes("poll", "functors")
    /\ eventfd = 0
    /\ UNCHANGED <<owner, handOver, loopVars>>

RunFunctors ==
    /\ ChildGoes("functors", "test")
    /\ quit' = (quit \/ quitQueued)
    /\ quitQueued' = FALSE
    /\ UNCHANGED <<owner, handOver, loopAlive, eventfd, asked>>

\* loop_ = NULL, and the guard goes out of scope, and then the loop.
ClearLoop ==
    /\ child = "clear" /\ Inside("child", "mutex") /\ Leave("child", "mutex")
    /\ child' = "destroy"
    /\ loop_' = FALSE
    /\ UNCHANGED <<owner, latch, tid_, loopVars>>

DestroyLoop ==
    /\ ChildGoes("destroy", "finished")
    /\ loopAlive' = FALSE
    /\ UNCHANGED <<owner, handOver, quit, eventfd, quitQueued, asked>>

-----------------------------------------------------------------------------
InGuard(t) == MutexStep(t) /\ UNCHANGED <<owner, child, handOver, loopVars>>

\* What the owner does without being asked to: it may use the loop for ever.
OwnerStep ==
    \/ InGuard("owner")
    \/ StartThread \/ OwnerLocks \/ TestLatch \/ CheckLoop \/ QueueQuitWakeup
    \/ DtorReadsLoop \/ DtorQuits \/ DtorWakesLoop \/ Join \/ DestroyMembers

ChildStep ==
    \/ InGuard("child")
    \/ SetTid \/ ChildLocks \/ CountDown \/ ConstructLoop \/ Publish \/ EnterLoop \/ TestQuit
    \/ PollReady \/ RunFunctors \/ ClearLoop \/ DestroyLoop

Next == OwnerStep \/ ChildStep \/ SpuriousWakeup \/ QueueQuit \/ BeginDtor \/ PollTimeout

Spec == Init /\ [][Next]_vars

\* Both threads are scheduled, and one that asks for a mutex which is free again and
\* again, while the other wakes up for nothing, gets it; nothing else is promised (no
\* time-out of poll()).
FairSpec == Spec /\ WF_vars(OwnerStep) /\ WF_vars(ChildStep) /\ SF_vars(ChildLocks)

-----------------------------------------------------------------------------
(* Properties.                                                             *)

\* The pointer that startLoop() returns is that of a constructed loop, and stays
\* usable until somebody asks the loop to quit.
ReturnedLoopIsAlive == owner \in {"using", "wakeup"} /\ ~asked => loopAlive /\ loop_

\* The object under threadFunc() is not destroyed while the thread has still to
\* construct, run or leave its loop.
NotDestroyedUnderLoop ==
    owner \in {"members", "gone"} => child \in {"none", "destroy", "finished"}

\* The destructor of a thread whose loop() is running, and has not been asked to
\* quit yet, returns: quit() gets poll() to return and join() ends.
DtorOfRunningLoopReturns ==
    (owner = "dtor" /\ child \in InLoop /\ ~asked) ~> (owner = "gone")

\* startLoop() returns although the notify may precede the wait.
StartLoopReturns == (owner = "latch") ~> (owner = "using")

\* "dtor calls quit()", and then the thread ends: the destructor returns whenever
\* it is called after startLoop().
DtorReturns == (owner = "dtor") ~> (owner = "gone")

\* start()'s assertion on tid_ holds, and the latch is not destroyed under countDown().
LatchOpensLast ==
    /\ owner \in {"check", "using", "wakeup"} => tid_
    /\ owner \in {"members", "gone"} => stage["child"][2] # "latch"

\* Each mutex has the holder it names; what startLoop() handed out stays good and the object outlives its thread's use
\* of it, in states of the right types.
LoopOutlivesUse ==
    TypeOK /\ HolderRight /\ ReturnedLoopIsAlive /\ NotDestroyedUnderLoop /\ LatchOpensLast

\* The two calls of the owner return, whatever the interleaving with threadFunc().
OwnerReturns == StartLoopReturns /\ DtorOfRunningLoopReturns

=============================================================================
