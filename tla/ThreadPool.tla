----------------------------- MODULE ThreadPool ------------------------------
(***************************************************************************)
(* muduo::ThreadPool: worker threads that take tasks from a queue, which   *)
(* may be bounded, and run them; callers of run() that wait while it is    *)
(* full; an owner that starts and stops the pool.  A critical section      *)
(* between two waits is one step.                                          *)
(***************************************************************************)
EXTENDS Naturals, Sequences, FiniteSets

CONSTANTS
    Workers,            \* threads_
    Callers,            \* threads that call run()
    Tasks,              \* each is handed over at most once
    NoTask,
    MaxQueueSize        \* maxQueueSize_, 0 for no bound

ASSUME TasksAssumption == NoTask \notin Tasks
ASSUME MaxQueueSizeAssumption == MaxQueueSize \in Nat

\* Without a bound the tasks are the bound.
ASSUME UnboundedAssumption == MaxQueueSize = 0 => IsFiniteSet(Tasks)

VARIABLES
    owner,              \* of the pool: where it is in start() and stop()
    worker,             \* where each worker is in runInThread() and take()
    current,            \* the task each worker has taken
    caller,             \* where each caller is in run()
    item,               \* the task each caller hands over
    queue,              \* queue_
    running,            \* running_
    given,              \* history: tasks handed to run()
    done                \* history: tasks that ran

workerVars == <<worker, current>>
callerVars == <<caller, item>>
vars == <<owner, workerVars, callerVars, queue, running, given, done>>

OwnerAt == {"new", "starting", "up", "joining", "stopped"}
WorkerAt == {"none", "test", "take", "notEmpty", "task", "exited"}
CallerAt == {"idle", "run", "notFull"}

TypeOK ==
    /\ owner \in OwnerAt
    /\ worker \in [Workers -> WorkerAt]
    /\ current \in [Workers -> Tasks \union {NoTask}]
    /\ caller \in [Callers -> CallerAt]
    /\ item \in [Callers -> Tasks \union {NoTask}]
    /\ queue \in Seq(Tasks) /\ (MaxQueueSize > 0 => Len(queue) <= MaxQueueSize)
    /\ running \in BOOLEAN
    /\ given \subseteq Tasks
    /\ done \subseteq given

Init ==
    /\ owner = "new"
    /\ worker = [w \in Workers |-> "none"]
    /\ current = [w \in Workers |-> NoTask]
    /\ caller = [c \in Callers |-> "idle"]
    /\ item = [c \in Callers |-> NoTask]
    /\ queue = <<>>
    /\ running = FALSE
    /\ given = {} /\ done = {}

\* notEmpty_.notify() and notFull_.notify() send one waiter, if any, to its test.
NotifyNotEmpty(from) ==
    LET waiting == {w \in Workers : from[w] = "notEmpty"} IN
    IF waiting = {} THEN worker' = from
    ELSE \E w \in waiting : worker' = [from EXCEPT ![w] = "take"]

NotifyNotFull ==
    LET waiting == {c \in Callers : caller[c] = "notFull"} IN
    IF waiting = {} THEN UNCHANGED caller
    ELSE \E c \in waiting : caller' = [caller EXCEPT ![c] = "run"]

-----------------------------------------------------------------------------
(* The owner.                                                              *)

\* start(): running_ = true, then one thread after the other.
Start ==
    /\ owner = "new"
    /\ owner' = "starting"
    /\ running' = TRUE
    /\ UNCHANGED <<workerVars, callerVars, queue, given, done>>

StartWorker(w) ==
    /\ owner = "starting"
    /\ worker[w] = "none"
    /\ worker' = [worker EXCEPT ![w] = "test"]
    /\ owner' = IF \A v \in Workers \ {w} : worker[v] # "none" THEN "up" ELSE owner
    /\ UNCHANGED <<current, callerVars, queue, running, given, done>>

MutStopNotifiesOne ==
    /\ owner = "up"
    /\ owner' = "joining"
    /\ running' = FALSE
    /\ NotifyNotEmpty(worker)
    /\ UNCHANGED <<current, callerVars, queue, given, done>>

\* stop(), or ~ThreadPool(): running_ = false and notEmpty_.notifyAll().
Stop ==
    /\ owner = "up"
    /\ owner' = "joining"
    /\ running' = FALSE
    /\ worker' = [w \in Workers |-> IF worker[w] = "notEmpty" THEN "take" ELSE worker[w]]
    /\ UNCHANGED <<current, callerVars, queue, given, done>>

Join ==
    /\ owner = "joining"
    /\ \A w \in Workers : worker[w] = "exited"
    /\ owner' = "stopped"
    /\ UNCHANGED <<workerVars, callerVars, queue, running, given, done>>

-----------------------------------------------------------------------------
(* run().                                                                  *)

\* With no threads (before start()) the caller runs the task itself.
RunHere(t) ==
    /\ owner = "new"
    /\ t \notin given
    /\ given' = given \union {t}
    /\ done' = done \union {t}
    /\ UNCHANGED <<owner, workerVars, callerVars, queue, running>>

CallRun(c, t) ==
    /\ owner \in {"up", "joining"}
    /\ caller[c] = "idle"
    /\ t \notin given
    /\ given' = given \union {t}
    /\ caller' = [caller EXCEPT ![c] = "run"]
    /\ item' = [item EXCEPT ![c] = t]
    /\ UNCHANGED <<owner, workerVars, queue, running, done>>

MutIsFull == MaxQueueSize > 0 /\ Len(queue) > MaxQueueSize

IsFull == MaxQueueSize > 0 /\ Len(queue) >= MaxQueueSize

MutPutNoNotify(c) ==
    /\ caller[c] = "run"
    /\ ~IsFull
    /\ queue' = Append(queue, item[c])
    /\ caller' = [caller EXCEPT ![c] = "idle"]
    /\ item' = [item EXCEPT ![c] = NoTask]
    /\ UNCHANGED <<worker, owner, current, running, given, done>>

Put(c) ==
    /\ caller[c] = "run"
    /\ ~IsFull
    /\ queue' = Append(queue, item[c])
    /\ caller' = [caller EXCEPT ![c] = "idle"]
    /\ item' = [item EXCEPT ![c] = NoTask]
    /\ NotifyNotEmpty(worker)
    /\ UNCHANGED <<owner, current, running, given, done>>

WaitNotFull(c) ==
    /\ caller[c] = "run"
    /\ IsFull
    /\ caller' = [caller EXCEPT ![c] = "notFull"]
    /\ UNCHANGED <<owner, workerVars, item, queue, running, given, done>>

-----------------------------------------------------------------------------
(* runInThread() and take().                                               *)

TestRunning(w) ==
    /\ worker[w] = "test"
    /\ worker' = [worker EXCEPT ![w] = IF running THEN "take" ELSE "exited"]
    /\ UNCHANGED <<owner, current, callerVars, queue, running, given, done>>

WaitNotEmpty(w) ==
    /\ worker[w] = "take"
    /\ queue = <<>> /\ running
    /\ worker' = [worker EXCEPT ![w] = "notEmpty"]
    /\ UNCHANGED <<owner, current, callerVars, queue, running, given, done>>

\* take() returns an empty task when the pool is stopped.
TakeNothing(w) ==
    /\ worker[w] = "take"
    /\ queue = <<>> /\ ~running
    /\ worker' = [worker EXCEPT ![w] = "test"]
    /\ UNCHANGED <<owner, current, callerVars, queue, running, given, done>>

MutTakeNoPop(w) ==
    /\ worker[w] = "take"
    /\ queue # <<>>
    /\ current' = [current EXCEPT ![w] = Head(queue)]
    /\ worker' = [worker EXCEPT ![w] = "task"]
    /\ IF MaxQueueSize > 0 THEN NotifyNotFull ELSE UNCHANGED caller
    /\ UNCHANGED <<owner, item, queue, running, given, done>>

Take(w) ==
    /\ worker[w] = "take"
    /\ queue # <<>>
    /\ current' = [current EXCEPT ![w] = Head(queue)]
    /\ queue' = Tail(queue)
    /\ worker' = [worker EXCEPT ![w] = "task"]
    /\ IF MaxQueueSize > 0 THEN NotifyNotFull ELSE UNCHANGED caller
    /\ UNCHANGED <<owner, item, running, given, done>>

RunTask(w) ==
    /\ worker[w] = "task"
    /\ done' = done \union {current[w]}
    /\ current' = [current EXCEPT ![w] = NoTask]
    /\ worker' = [worker EXCEPT ![w] = "test"]
    /\ UNCHANGED <<owner, callerVars, queue, running, given>>

\* pthread_cond_wait() may return without a signal.
SpuriousWakeup ==
    /\ \/ /\ \E w \in Workers : worker[w] = "notEmpty" /\ worker' = [worker EXCEPT ![w] = "take"]
          /\ UNCHANGED caller
       \/ /\ \E c \in Callers : caller[c] = "notFull" /\ caller' = [caller EXCEPT ![c] = "run"]
          /\ UNCHANGED worker
    /\ UNCHANGED <<owner, current, item, queue, running, given, done>>

-----------------------------------------------------------------------------
WorkerStep(w) ==
    TestRunning(w) \/ WaitNotEmpty(w) \/ TakeNothing(w) \/ Take(w) \/ RunTask(w)

CallerStep(c) == Put(c) \/ WaitNotFull(c)

OwnerStep == Join \/ \E w \in Workers : StartWorker(w)

Next ==
    \/ OwnerStep \/ Start \/ Stop \/ SpuriousWakeup
    \/ \E w \in Workers : WorkerStep(w)
    \/ \E c \in Callers : CallerStep(c)
    \/ \E t \in Tasks : RunHere(t) \/ \E c \in Callers : CallRun(c, t)

Spec == Init /\ [][Next]_vars

\* Threads are scheduled and tasks return; nobody has to call anything, and no
\* wait has to end without a notify.
FairSpec ==
    /\ Spec
    /\ WF_vars(OwnerStep)
    /\ \A w \in Workers : WF_vars(WorkerStep(w))
    /\ \A c \in Callers : WF_vars(CallerStep(c))

-----------------------------------------------------------------------------
(* Properties.                                                             *)

\* Where a task is: with a caller that waits to get in, queued, taken or done.
Places(t) ==
    {<<"item", c>> : c \in {c \in Callers : item[c] = t}}
    \union {<<"queue", i>> : i \in {i \in DOMAIN queue : queue[i] = t}}
    \union {<<"current", w>> : w \in {w \in Workers : current[w] = t}}
    \union {<<"done", d>> : d \in done \intersect {t}}

\* A task that was handed over is in one place, so that it is not lost and runs at most
\* once.
EachTaskOnce == \A t \in given : \E p \in Places(t) : Places(t) = {p}

\* A queued task is run by somebody while the pool is not stopped: no notify is
\* lost between run(), take() and the workers' waits.
QueuedTaskRuns ==
    \A t \in Tasks : (\E i \in DOMAIN queue : queue[i] = t) ~> (t \in done \/ ~running)

\* run() on a full queue returns while the pool is not stopped.  (A caller that
\* waits when stop() is called waits for ever: stop() does not notify notFull_.)
RunReturns == \A c \in Callers : (caller[c] # "idle") ~> (caller[c] = "idle" \/ ~running)

\* stop() returns: every worker, also one that waits, leaves its loop.
StopReturns == (owner = "joining") ~> (owner = "stopped")

\* The queue with its waits is a BoundedBlockingQueue; a worker that stop() sends
\* home only stops waiting.
Bounded == INSTANCE BoundedBlockingQueue WITH
    Producers <- Callers,
    Consumers <- Workers,
    Items     <- Tasks,
    Capacity  <- IF MaxQueueSize > 0 THEN MaxQueueSize ELSE Cardinality(Tasks),
    notFull   <- {c \in Callers : caller[c] = "notFull"},
    notEmpty  <- {w \in Workers : worker[w] = "notEmpty"}

ImplementsBoundedQueue == Bounded!Spec

\* Every task is in one place, in states of the right types; the type of the queue
\* includes its bound (assert(!isFull()) of run()).
TasksAccounted == TypeOK /\ EachTaskOnce

\* Nobody waits for ever in a call: neither run() on a full queue nor stop().
CallsReturn == RunReturns /\ StopReturns

=============================================================================
