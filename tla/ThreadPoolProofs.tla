--------------------------- MODULE ThreadPoolProofs ---------------------------
(***************************************************************************)
(* Theorems of ThreadPool for every set of workers, callers and tasks and  *)
(* every maxQueueSize_: types and the queue's bound, each task in one      *)
(* place, and the refinement of BoundedBlockingQueue.                      *)
(***************************************************************************)
EXTENDS ThreadPool, SequenceTheorems, FiniteSetTheorems, TLAPS

\* A worker has a task when it is about to run one, and a caller from its call of
\* run() until the task is in the queue.
HandsInv ==
    /\ \A w \in Workers : current[w] = NoTask <=> worker[w] # "task"
    /\ \A c \in Callers : item[c] = NoTask <=> caller[c] = "idle"

\* Nobody waits for room in a queue without a bound.
WaitInv == MaxQueueSize = 0 => \A c \in Callers : caller[c] # "notFull"

\* Tasks are somewhere once they were handed over and not before.
GivenInv ==
    /\ \A c \in Callers : item[c] # NoTask => item[c] \in given
    /\ \A i \in 1..Len(queue) : queue[i] \in given
    /\ \A w \in Workers : current[w] # NoTask => current[w] \in given
    /\ \A t \in given : \/ \E c \in Callers : item[c] = t
                        \/ \E i \in 1..Len(queue) : queue[i] = t
                        \/ \E w \in Workers : current[w] = t
                        \/ t \in done

\* No two callers, two cells of the queue or two workers have the same task.
OnceInv ==
    /\ \A c, d \in Callers : item[c] = item[d] /\ item[c] # NoTask => c = d
    /\ \A i, j \in 1..Len(queue) : queue[i] = queue[j] => i = j
    /\ \A w, v \in Workers : current[w] = current[v] /\ current[w] # NoTask => w = v

\* No task is in places of two kinds.
ApartInv ==
    /\ \A c \in Callers, i \in 1..Len(queue) : item[c] # queue[i]
    /\ \A c \in Callers, w \in Workers : item[c] = current[w] => item[c] = NoTask
    /\ \A w \in Workers, i \in 1..Len(queue) : current[w] # queue[i]
    /\ \A c \in Callers : item[c] \notin done
    /\ \A i \in 1..Len(queue) : queue[i] \notin done
    /\ \A w \in Workers : current[w] \notin done

IInv == TypeOK /\ HandsInv /\ WaitInv /\ GivenInv /\ OnceInv /\ ApartInv

-----------------------------------------------------------------------------
\* What notEmpty_.notify() and notFull_.notify() do to the threads: they may end one
\* wait and do nothing else.
LEMMA NotifiedWorkers ==
    ASSUME worker \in [Workers -> WorkerAt], NotifyNotEmpty(worker)
    PROVE  /\ worker' \in [Workers -> WorkerAt]
           /\ \A w \in Workers :
                worker'[w] = worker[w] \/ (worker[w] = "notEmpty" /\ worker'[w] = "take")
  BY DEF NotifyNotEmpty, WorkerAt

LEMMA NotifiedCallers ==
    ASSUME caller \in [Callers -> CallerAt], NotifyNotFull
    PROVE  /\ caller' \in [Callers -> CallerAt]
           /\ \A c \in Callers :
                caller'[c] = caller[c] \/ (caller[c] = "notFull" /\ caller'[c] = "run")
  BY DEF NotifyNotFull, CallerAt

\* Steps that move no task keep what is said of the tasks.
LEMMA TasksStay ==
    ASSUME GivenInv, OnceInv, ApartInv, UNCHANGED <<current, item, queue, given, done>>
    PROVE  GivenInv' /\ OnceInv' /\ ApartInv'
  BY DEF GivenInv, OnceInv, ApartInv

-----------------------------------------------------------------------------
\* Every step keeps the types and says rightly who has a task in hand.
LEMMA TypesKept ==
    ASSUME TypeOK, HandsInv, GivenInv, [Next]_vars
    PROVE  TypeOK' /\ HandsInv'
<1> USE TasksAssumption DEF TypeOK, HandsInv, OwnerAt, WorkerAt, CallerAt
<1>1. CASE Start
  BY <1>1 DEF Start, workerVars, callerVars
<1>2. ASSUME NEW w \in Workers, StartWorker(w) PROVE TypeOK' /\ HandsInv'
  BY <1>2 DEF StartWorker, callerVars
<1>3. CASE Stop
  BY <1>3 DEF Stop, callerVars
<1>4. CASE Join
  BY <1>4 DEF Join, workerVars, callerVars
<1>5. ASSUME NEW t \in Tasks, RunHere(t) PROVE TypeOK' /\ HandsInv'
  BY <1>5 DEF RunHere, workerVars, callerVars
<1>6. ASSUME NEW c \in Callers, NEW t \in Tasks, CallRun(c, t) PROVE TypeOK' /\ HandsInv'
  BY <1>6 DEF CallRun, workerVars
<1>7. ASSUME NEW c \in Callers, Put(c) PROVE TypeOK' /\ HandsInv'
  <2>1. item[c] \in Tasks
    BY <1>7 DEF Put
  <2>2. queue' \in Seq(Tasks) /\ Len(queue') = Len(queue) + 1 /\ Len(queue) \in Nat
    BY <1>7, <2>1, AppendProperties, LenProperties DEF Put
  <2>3. MaxQueueSize > 0 => Len(queue') <= MaxQueueSize
    BY <1>7, <2>2, MaxQueueSizeAssumption DEF Put, IsFull
  <2>4. /\ worker' \in [Workers -> WorkerAt]
        /\ \A w \in Workers : worker'[w] = "task" <=> worker[w] = "task"
    BY <1>7, NotifiedWorkers DEF Put
  <2>5. QED
    BY <1>7, <2>2, <2>3, <2>4 DEF Put
<1>8. ASSUME NEW c \in Callers, WaitNotFull(c) PROVE TypeOK' /\ HandsInv'
  BY <1>8 DEF WaitNotFull, workerVars
<1>9. ASSUME NEW w \in Workers, TestRunning(w) PROVE TypeOK' /\ HandsInv'
  BY <1>9 DEF TestRunning, callerVars
<1>10. ASSUME NEW w \in Workers, WaitNotEmpty(w) PROVE TypeOK' /\ HandsInv'
  BY <1>10 DEF WaitNotEmpty, callerVars
<1>11. ASSUME NEW w \in Workers, TakeNothing(w) PROVE TypeOK' /\ HandsInv'
  BY <1>11 DEF TakeNothing, callerVars
<1>12. ASSUME NEW w \in Workers, Take(w) PROVE TypeOK' /\ HandsInv'
  <2>1. /\ Head(queue) \in Tasks
        /\ queue' \in Seq(Tasks)
        /\ Len(queue') = Len(queue) - 1 /\ Len(queue) \in Nat
    BY <1>12, HeadTailProperties, LenProperties DEF Take
  <2>2. /\ caller' \in [Callers -> CallerAt]
        /\ \A c \in Callers : caller'[c] = "idle" <=> caller[c] = "idle"
    BY <1>12, NotifiedCallers DEF Take
  <2>3. QED
    BY <1>12, <2>1, <2>2, MaxQueueSizeAssumption DEF Take
<1>13. ASSUME NEW w \in Workers, RunTask(w) PROVE TypeOK' /\ HandsInv'
  <2>1. current[w] \in given
    BY <1>13 DEF RunTask, GivenInv
  <2>2. QED
    BY <1>13, <2>1 DEF RunTask, callerVars
<1>14. CASE SpuriousWakeup
  BY <1>14 DEF SpuriousWakeup
<1>15. CASE UNCHANGED vars
  BY <1>15 DEF vars, workerVars, callerVars
<1>16. QED
  BY <1>1, <1>2, <1>3, <1>4, <1>5, <1>6, <1>7, <1>8, <1>9, <1>10, <1>11, <1>12, <1>13, <1>14, <1>15
     DEF Next, OwnerStep, WorkerStep, CallerStep

\* Steps that hand a task over, move it or run it keep it in one place.
LEMMA TasksKept ==
    ASSUME TypeOK, HandsInv, GivenInv, OnceInv, ApartInv, [Next]_vars
    PROVE  GivenInv' /\ OnceInv' /\ ApartInv'
<1> DEFINE TaskInv == GivenInv /\ OnceInv /\ ApartInv
<1> USE TasksAssumption DEF TypeOK
<1>1. CASE Start
  BY <1>1, TasksStay DEF Start, workerVars, callerVars
<1>2. ASSUME NEW w \in Workers, StartWorker(w) PROVE TaskInv'
  BY <1>2, TasksStay DEF StartWorker, callerVars
<1>3. CASE Stop
  BY <1>3, TasksStay DEF Stop, callerVars
<1>4. CASE Join
  BY <1>4, TasksStay DEF Join, workerVars, callerVars
<1>5. ASSUME NEW t \in Tasks, RunHere(t) PROVE TaskInv'
  <2>1. GivenInv'
    BY <1>5 DEF RunHere, workerVars, callerVars, GivenInv
  <2>2. OnceInv'
    BY <1>5 DEF RunHere, workerVars, callerVars, OnceInv
  <2>3. ApartInv'
    BY <1>5 DEF RunHere, workerVars, callerVars, ApartInv, GivenInv
  <2>4. QED
    BY <2>1, <2>2, <2>3
<1>6. ASSUME NEW c \in Callers, NEW t \in Tasks, CallRun(c, t) PROVE TaskInv'
  <2>1. item[c] = NoTask /\ t # NoTask
    BY <1>6 DEF CallRun, HandsInv
  <2>2. item' = [item EXCEPT ![c] = t] /\ given' = given \union {t}
        /\ UNCHANGED <<current, queue, done>> /\ t \notin given
    BY <1>6 DEF CallRun, workerVars
  <2>3. GivenInv'
    BY <2>1, <2>2 DEF GivenInv
  <2>4. OnceInv'
    BY <2>1, <2>2 DEF OnceInv, GivenInv
  <2>5. ApartInv'
    BY <2>1, <2>2 DEF ApartInv, GivenInv
  <2>6. QED
    BY <2>3, <2>4, <2>5
<1>7. ASSUME NEW c \in Callers, Put(c) PROVE TaskInv'
  <2>1. item[c] \in Tasks /\ item[c] # NoTask
    BY <1>7 DEF Put, HandsInv
  <2>2. /\ Len(queue) \in Nat
        /\ Len(queue') = Len(queue) + 1
        /\ \A i \in 1..Len(queue) : queue'[i] = queue[i]
        /\ queue'[Len(queue) + 1] = item[c]
    BY <1>7, <2>1, AppendProperties, LenProperties DEF Put
  <2>3. item' = [item EXCEPT ![c] = NoTask] /\ UNCHANGED <<current, given, done>>
    BY <1>7 DEF Put
  <2>4. \A i \in 1..Len(queue') : i \in 1..Len(queue) \/ i = Len(queue) + 1
    BY <2>2
  <2>5. GivenInv'
    BY <2>1, <2>2, <2>3, <2>4 DEF GivenInv
  <2>6. OnceInv'
    BY <2>1, <2>2, <2>3, <2>4 DEF OnceInv, ApartInv
  <2>7. ApartInv'
    BY <2>1, <2>2, <2>3, <2>4 DEF ApartInv, OnceInv
  <2>8. QED
    BY <2>5, <2>6, <2>7
<1>8. ASSUME NEW c \in Callers, WaitNotFull(c) PROVE TaskInv'
  BY <1>8, TasksStay DEF WaitNotFull, workerVars
<1>9. ASSUME NEW w \in Workers, TestRunning(w) PROVE TaskInv'
  BY <1>9, TasksStay DEF TestRunning, callerVars
<1>10. ASSUME NEW w \in Workers, WaitNotEmpty(w) PROVE TaskInv'
  BY <1>10, TasksStay DEF WaitNotEmpty, callerVars
<1>11. ASSUME NEW w \in Workers, TakeNothing(w) PROVE TaskInv'
  BY <1>11, TasksStay DEF TakeNothing, callerVars
<1>12. ASSUME NEW w \in Workers, Take(w) PROVE TaskInv'
  <2>1. current[w] = NoTask
    BY <1>12 DEF Take, HandsInv
  <2>2. /\ Len(queue) \in Nat \ {0}
        /\ Len(queue') = Len(queue) - 1
        /\ \A i \in 1..Len(queue') : queue'[i] = queue[i + 1]
    BY <1>12, HeadTailProperties, EmptySeq DEF Take
  <2>3. /\ current' = [current EXCEPT ![w] = queue[1]]
        /\ queue[1] \in Tasks
        /\ UNCHANGED <<item, given, done>>
    BY <1>12, <2>2 DEF Take
  <2>4. \A i \in 1..Len(queue') : i + 1 \in 1..Len(queue) /\ i + 1 # 1
    BY <2>2
  <2>5. GivenInv'
    <3>1. \A i \in 1..Len(queue) : i = 1 \/ (i - 1 \in 1..Len(queue') /\ queue'[i - 1] = queue[i])
      BY <2>2
    <3>2. ASSUME NEW t \in given PROVE \/ \E d \in Callers : item'[d] = t
                                       \/ \E i \in 1..Len(queue') : queue'[i] = t
                                       \/ \E v \in Workers : current'[v] = t
                                       \/ t \in done'
      <4>1. t # NoTask /\ current'[w] = queue[1]
        BY <2>3
      <4>2. CASE \E i \in 1..Len(queue) : queue[i] = t
        BY <2>3, <3>1, <4>1, <4>2
      <4>3. CASE \E v \in Workers : current[v] = t
        BY <2>1, <2>3, <4>1, <4>3
      <4>4. QED
        BY <2>3, <4>2, <4>3 DEF GivenInv
    <3>3. QED
      BY <2>2, <2>3, <2>4, <3>2 DEF GivenInv
  <2>6. OnceInv'
    BY <2>2, <2>3, <2>4 DEF OnceInv, ApartInv
  <2>7. ApartInv'
    BY <2>2, <2>3, <2>4 DEF ApartInv, OnceInv
  <2>8. QED
    BY <2>5, <2>6, <2>7
<1>13. ASSUME NEW w \in Workers, RunTask(w) PROVE TaskInv'
  <2>1. current[w] \in Tasks /\ current[w] # NoTask
    BY <1>13 DEF RunTask, HandsInv
  <2>2. /\ current' = [current EXCEPT ![w] = NoTask]
        /\ done' = done \union {current[w]}
        /\ UNCHANGED <<item, queue, given>>
    BY <1>13 DEF RunTask, callerVars
  <2>3. GivenInv'
    BY <2>1, <2>2 DEF GivenInv
  <2>4. OnceInv'
    BY <2>1, <2>2 DEF OnceInv
  <2>5. ApartInv'
    BY <2>1, <2>2 DEF ApartInv, OnceInv
  <2>6. QED
    BY <2>3, <2>4, <2>5
<1>14. CASE SpuriousWakeup
  BY <1>14, TasksStay DEF SpuriousWakeup
<1>15. CASE UNCHANGED vars
  BY <1>15, TasksStay DEF vars, workerVars, callerVars
<1>16. QED
  BY <1>1, <1>2, <1>3, <1>4, <1>5, <1>6, <1>7, <1>8, <1>9, <1>10, <1>11, <1>12, <1>13, <1>14, <1>15
     DEF Next, OwnerStep, WorkerStep, CallerStep

\* A wait on notFull_ begins only where there is a bound.
LEMMA WaitKept ==
    ASSUME TypeOK, WaitInv, [Next]_vars
    PROVE  WaitInv'
<1> SUFFICES ASSUME MaxQueueSize = 0, NEW c \in Callers PROVE caller'[c] # "notFull"
  BY DEF WaitInv
<1>1. caller \in [Callers -> CallerAt] /\ caller[c] # "notFull" /\ ~IsFull
  BY DEF WaitInv, TypeOK, IsFull
<1>2. QED
  BY <1>1 DEF Next, OwnerStep, WorkerStep, CallerStep, vars, workerVars, callerVars,
     Start, StartWorker, Stop, Join, RunHere, CallRun, Put, WaitNotFull,
     TestRunning, WaitNotEmpty, TakeNothing, Take, RunTask, SpuriousWakeup

LEMMA Begins == Init => IInv
<1> SUFFICES ASSUME Init PROVE IInv
  OBVIOUS
<1>1. <<>> \in Seq(Tasks) /\ Len(<<>>) = 0
  BY EmptySeq
<1>2. TypeOK
  <2>1. queue \in Seq(Tasks) /\ (MaxQueueSize > 0 => Len(queue) <= MaxQueueSize)
    BY <1>1, MaxQueueSizeAssumption DEF Init
  <2>2. worker \in [Workers -> WorkerAt] /\ caller \in [Callers -> CallerAt]
    BY DEF Init, WorkerAt, CallerAt
  <2>3. QED
    BY <2>1, <2>2 DEF Init, TypeOK, OwnerAt
<1>3. HandsInv /\ WaitInv
  BY DEF Init, HandsInv, WaitInv
<1>4. GivenInv /\ OnceInv /\ ApartInv
  BY <1>1 DEF Init, GivenInv, OnceInv, ApartInv
<1>5. QED
  BY <1>2, <1>3, <1>4 DEF IInv

LEMMA Inductive == Spec => []IInv
<1>1. IInv /\ [Next]_vars => IInv'
  BY TypesKept, TasksKept, WaitKept DEF IInv
<1>2. QED
  BY Begins, <1>1, PTL DEF Spec

\* Type correctness; the queue never outgrows maxQueueSize_, the assertion of run().
THEOREM TypeCorrect == Spec => []TypeOK
<1>1. IInv => TypeOK
  BY DEF IInv
<1>2. QED
  BY <1>1, Inductive, PTL

-----------------------------------------------------------------------------
\* What was handed to run() is in one place: no task is lost, or run by two workers.
THEOREM EachTaskInOnePlace == Spec => []TasksAccounted
<1>1. ASSUME IInv PROVE EachTaskOnce
  <2> SUFFICES ASSUME NEW t \in given PROVE \E p \in Places(t) : Places(t) = {p}
    BY DEF EachTaskOnce
  <2> USE <1>1, TasksAssumption DEF IInv, TypeOK
  <2>1. t # NoTask /\ DOMAIN queue = 1..Len(queue)
    BY LenProperties
  <2>2. CASE \E c \in Callers : item[c] = t
    <3>1. PICK c \in Callers : item[c] = t
      BY <2>2
    <3>2. Places(t) = {<<"item", c>>}
      BY <2>1, <3>1 DEF Places, OnceInv, ApartInv
    <3>3. QED
      BY <3>2
  <2>3. CASE \E i \in 1..Len(queue) : queue[i] = t
    <3>1. PICK i \in 1..Len(queue) : queue[i] = t
      BY <2>3
    <3>2. Places(t) = {<<"queue", i>>}
      BY <2>1, <3>1 DEF Places, OnceInv, ApartInv
    <3>3. QED
      BY <3>2
  <2>4. CASE \E w \in Workers : current[w] = t
    <3>1. PICK w \in Workers : current[w] = t
      BY <2>4
    <3>2. Places(t) = {<<"current", w>>}
      BY <2>1, <3>1 DEF Places, OnceInv, ApartInv
    <3>3. QED
      BY <3>2
  <2>5. CASE t \in done
    <3>1. Places(t) = {<<"done", t>>}
      BY <2>1, <2>5 DEF Places, ApartInv
    <3>2. QED
      BY <3>1
  <2>6. QED
    BY <2>2, <2>3, <2>4, <2>5 DEF GivenInv
<1>2. IInv => TasksAccounted
  BY <1>1 DEF TasksAccounted, IInv
<1>3. QED
  BY <1>2, Inductive, PTL

-----------------------------------------------------------------------------
\* Without a bound, a task that is not queued yet finds room among the tasks.
LEMMA RoomForTask ==
    ASSUME IInv, MaxQueueSize = 0, NEW c \in Callers, item[c] # NoTask
    PROVE  Len(queue) < Cardinality(Tasks)
<1> DEFINE others == Tasks \ {item[c]}
<1>1. item[c] \in Tasks /\ IsFiniteSet(Tasks)
  BY UnboundedAssumption DEF IInv, TypeOK
<1>2. IsFiniteSet(others) /\ Cardinality(others) = Cardinality(Tasks) - 1
  BY <1>1, FS_RemoveElement
<1>3. /\ Len(queue) \in Nat /\ DOMAIN queue = 1..Len(queue)
      /\ queue \in [1..Len(queue) -> Tasks]
  BY LenProperties DEF IInv, TypeOK
<1>4. queue \in [1..Len(queue) -> others]
  BY <1>3 DEF IInv, ApartInv
<1>5. queue \in Injection(1..Len(queue), others)
  BY <1>3, <1>4 DEF Injection, IsInjective, IInv, OnceInv
<1>6. Cardinality(1..Len(queue)) <= Cardinality(others)
  BY <1>2, <1>5, FS_Injection
<1>7. Cardinality(1..Len(queue)) = Len(queue)
  BY <1>3, FS_Interval
<1>8. Cardinality(Tasks) \in Nat
  BY <1>1, FS_CardinalityType
<1>9. QED
  BY <1>2, <1>3, <1>6, <1>7, <1>8

\* The test of isFull() is the abstract queue's test of its capacity.
LEMMA FullMeansFull ==
    ASSUME IInv, NEW c \in Callers, item[c] # NoTask
    PROVE  LET Capacity == IF MaxQueueSize > 0 THEN MaxQueueSize ELSE Cardinality(Tasks)
           IN  IF IsFull THEN Len(queue) >= Capacity ELSE Len(queue) < Capacity
<1>1. Len(queue) \in Nat
  BY LenProperties DEF IInv, TypeOK
<1>2. QED
  BY <1>1, RoomForTask, MaxQueueSizeAssumption DEF IsFull

\* The queue and its waits implement a BoundedBlockingQueue: run() is its put(), the
\* worker's take() is its take(), and stop() at most ends waits.
THEOREM Refinement == Spec => ImplementsBoundedQueue
<1>1. Init => Bounded!Init
  BY DEF Init, Bounded!Init
<1>2. IInv /\ [Next]_vars => [Bounded!Next]_(Bounded!vars)
  <2> SUFFICES ASSUME IInv, [Next]_vars PROVE [Bounded!Next]_(Bounded!vars)
    OBVIOUS
  <2> DEFINE callersWaiting == {c \in Callers : caller[c] = "notFull"}
             workersWaiting == {w \in Workers : worker[w] = "notEmpty"}
  <2> USE DEF Bounded!Next, Bounded!vars, IInv, TypeOK
  <2>1. ASSUME NEW c \in Callers, NEW x \in Tasks, x = item[c], Put(c) PROVE Bounded!Put(c, x)
    <3>1. item[c] # NoTask
      BY <2>1 DEF Put, HandsInv
    <3>2. workersWaiting' \in Bounded!Notified(workersWaiting)
      <4>1. CASE workersWaiting = {}
        BY <2>1, <4>1 DEF Put, NotifyNotEmpty, Bounded!Notified
      <4>2. CASE workersWaiting # {}
        <5>1. PICK w \in workersWaiting : worker' = [worker EXCEPT ![w] = "take"]
          BY <2>1, <4>2 DEF Put, NotifyNotEmpty
        <5>2. workersWaiting' = workersWaiting \ {w}
          BY <5>1
        <5>3. QED
          BY <4>2, <5>2 DEF Bounded!Notified
      <4>3. QED
        BY <4>1, <4>2
    <3>3. callersWaiting' = callersWaiting /\ c \notin callersWaiting
      BY <2>1 DEF Put
    <3>4. QED
      BY <2>1, <3>1, <3>2, <3>3, FullMeansFull DEF Put, Bounded!Put
  <2>2. ASSUME NEW c \in Callers, NEW x \in Tasks, x = item[c], WaitNotFull(c) PROVE Bounded!Put(c, x)
    <3>1. item[c] # NoTask
      BY <2>2 DEF WaitNotFull, HandsInv
    <3>2. callersWaiting' = callersWaiting \union {c} /\ c \notin callersWaiting
      BY <2>2 DEF WaitNotFull
    <3>3. QED
      BY <2>2, <3>1, <3>2, FullMeansFull DEF WaitNotFull, workerVars, Bounded!Put
  <2>3. ASSUME NEW w \in Workers, Take(w) PROVE Bounded!Take(w)
    <3>1. callersWaiting' \in Bounded!Notified(callersWaiting)
      <4>1. CASE callersWaiting = {}
        BY <2>3, <4>1 DEF Take, NotifyNotFull, Bounded!Notified
      <4>2. CASE callersWaiting # {}
        <5>1. MaxQueueSize > 0
          BY <4>2, MaxQueueSizeAssumption DEF WaitInv
        <5>2. PICK c \in callersWaiting : caller' = [caller EXCEPT ![c] = "run"]
          BY <2>3, <4>2, <5>1 DEF Take, NotifyNotFull
        <5>3. callersWaiting' = callersWaiting \ {c}
          BY <5>2
        <5>4. QED
          BY <4>2, <5>3 DEF Bounded!Notified
      <4>3. QED
        BY <4>1, <4>2
    <3>2. workersWaiting' = workersWaiting /\ w \notin workersWaiting
      BY <2>3 DEF Take
    <3>3. QED
      BY <2>3, <3>1, <3>2 DEF Take, Bounded!Take
  <2>4. ASSUME NEW w \in Workers, WaitNotEmpty(w) PROVE Bounded!Take(w)
    <3>1. workersWaiting' = workersWaiting \union {w} /\ w \notin workersWaiting
      BY <2>4 DEF WaitNotEmpty
    <3>2. QED
      BY <2>4, <3>1 DEF WaitNotEmpty, callerVars, Bounded!Take
  <2>5. ASSUME Stop PROVE Bounded!SpuriousWakeups
    <3>1. workersWaiting' = {} /\ callersWaiting' = callersWaiting
      BY <2>5 DEF Stop, callerVars
    <3>2. QED
      BY <2>5, <3>1 DEF Stop, Bounded!SpuriousWakeups
  <2>6. ASSUME SpuriousWakeup PROVE Bounded!SpuriousWakeups
    <3>1. workersWaiting' \in SUBSET workersWaiting /\ callersWaiting' \in SUBSET callersWaiting
      BY <2>6 DEF SpuriousWakeup
    <3>2. QED
      BY <2>6, <3>1 DEF SpuriousWakeup, Bounded!SpuriousWakeups
  <2>7. ASSUME NEW w \in Workers, StartWorker(w) PROVE UNCHANGED Bounded!vars
    BY <2>7 DEF StartWorker, callerVars
  <2>8. ASSUME NEW w \in Workers, TestRunning(w) PROVE UNCHANGED Bounded!vars
    BY <2>8 DEF TestRunning, callerVars
  <2>9. ASSUME NEW w \in Workers, TakeNothing(w) PROVE UNCHANGED Bounded!vars
    BY <2>9 DEF TakeNothing, callerVars
  <2>10. ASSUME NEW w \in Workers, RunTask(w) PROVE UNCHANGED Bounded!vars
    BY <2>10 DEF RunTask, callerVars
  <2>11. CASE Start
    BY <2>11 DEF Start, workerVars, callerVars
  <2>12. CASE Join
    BY <2>12 DEF Join, workerVars, callerVars
  <2>13. ASSUME NEW t \in Tasks, RunHere(t) PROVE UNCHANGED Bounded!vars
    BY <2>13 DEF RunHere, workerVars, callerVars
  <2>14. ASSUME NEW c \in Callers, NEW t \in Tasks, CallRun(c, t) PROVE UNCHANGED Bounded!vars
    BY <2>14 DEF CallRun, workerVars
  <2>15. CASE UNCHANGED vars
    BY <2>15 DEF vars, workerVars, callerVars
  <2>16. \A c \in Callers : Put(c) \/ WaitNotFull(c) => item[c] \in Tasks
    BY DEF Put, WaitNotFull, HandsInv
  <2>17. \A c \in Callers : Put(c) \/ WaitNotFull(c) => Bounded!Next
    BY <2>1, <2>2, <2>16
  <2>18. \A w \in Workers : Take(w) \/ WaitNotEmpty(w) => Bounded!Next
    BY <2>3, <2>4
  <2>19. Stop \/ SpuriousWakeup => Bounded!Next
    BY <2>5, <2>6
  <2> HIDE DEF Bounded!Next, Bounded!vars, IInv, TypeOK
  <2>20. QED
    BY <2>7, <2>8, <2>9, <2>10, <2>11, <2>12, <2>13, <2>14, <2>15, <2>17, <2>18, <2>19
       DEF Next, OwnerStep, WorkerStep, CallerStep
<1>3. QED
  BY <1>1, <1>2, Inductive, PTL DEF Spec, ImplementsBoundedQueue, Bounded!Spec

=============================================================================
