------------------------ MODULE EventLoopThreadProofs -------------------------
(***************************************************************************)
(* Theorems of EventLoopThread, and lemmas about any threads and mutexes   *)
(* of Mutex they rest on.  The hand-over has two threads; what is left     *)
(* open is whether the init callback may quit the loop.                    *)
(***************************************************************************)
EXTENDS EventLoopThread, TLAPS

\* Stages in which a thread has the pthread mutex, and in which it is also the holder_.
Locking == {"assign", "inside", "leave", "unlock", "unwait", "wait"}
Holding == {"inside", "leave", "unwait"}

\* A mutex is locked by the thread whose stage says so, and held by nobody else.
MutexInv ==
    /\ \A t \in Threads, m \in Mutexes : lockedBy[m] = t <=> stage[t] \in Locking \X {m}
    /\ \A t \in Threads, m \in Mutexes : holder_[m] = t <=> stage[t] \in Holding \X {m}

\* What the thread has made follows from where it is.
ChildInv ==
    /\ latch = IF child \in {"none", "runInThread", "countDown"} THEN 1 ELSE 0
    /\ tid_ <=> child \notin {"none", "runInThread"}
    /\ loop_ <=> child \in {"enter", "clear"} \union InLoop
    /\ loopAlive <=> child \in {"publish", "enter", "clear", "destroy"} \union InLoop

\* In loop(), and behind it, the loop was asked to quit if it is to quit.
AskedInv ==
    /\ child \in {"none", "runInThread", "countDown", "construct"} => ~quitQueued
    /\ quitQueued => asked
    /\ child \in InLoop /\ quit => asked
    /\ child \in {"clear", "destroy", "finished"} => asked

\* Who is in which guard: each mutex is used in one place of the owner's and in one or
\* two of the thread's, and a guard has been left before the next one is entered.  The
\* thread does not wait.
GuardInv ==
    /\ stage["child"][1] \notin {"unwait", "wait", "waiting", "woken"}
    /\ \A s \in {"assign", "inside"} : stage["child"] = <<s, "latch">> => child = "countDown"
    /\ stage["child"][2] = "latch" => child \in {"countDown", "construct"}
    /\ \A s \in {"assign", "inside", "unwait", "wait", "waiting", "woken"} :
        /\ stage["owner"] = <<s, "latch">> => owner = "latch"
        /\ stage["owner"] = <<s, "mutex">> => owner = "check"

\* How far the owner is says how far the thread must be.
OwnerInv ==
    /\ owner = "new" => child = "none"
    /\ owner = "latch" => child # "none"
    /\ owner = "check" => child \notin {"none", "runInThread", "countDown"}
    /\ owner \in {"using", "wakeup", "quit", "quitWakeup", "join"}
        => child \notin {"none", "runInThread", "countDown", "construct", "publish"}
    /\ owner = "dtor"
        => child \notin {"runInThread", "countDown", "construct", "publish"}
    /\ owner \in {"members", "gone"} => child \in {"none", "destroy", "finished"}

\* The eventfd is written once for a queued quit() and once by the destructor.
EventfdInv ==
    /\ owner \in {"new", "latch", "check", "wakeup"} \/ ~asked => eventfd = 0
    /\ owner \in {"using", "dtor", "quit", "quitWakeup"} => eventfd <= 1
    /\ owner \in {"wakeup", "quitWakeup"} => asked
    /\ eventfd <= 2

\* What is said of where the two threads are.
PlaceInv == ChildInv /\ AskedInv /\ GuardInv /\ OwnerInv /\ EventfdInv

IInv == TypeOK /\ MutexInv /\ PlaceInv
-----------------------------------------------------------------------------
(* Mutex: what each call keeps, for any threads and mutexes.               *)

MutexOK == MutexTypeOK /\ MutexInv

\* A thread that comes in finds the mutex free and is not its holder yet.
LEMMA LockKeeps ==
    ASSUME MutexOK, Nobody \notin Threads, NEW t \in Threads, NEW m \in Mutexes,
           Lock(t, m) \/ Relock(t, m)
    PROVE  MutexOK'
  BY DEF MutexOK, MutexTypeOK, MutexInv, Lock, Relock, Locks, Goes, Out, Locking, Holding

\* holder_ is written while the pthread mutex is locked.
LEMMA HolderKeeps ==
    ASSUME MutexOK, Nobody \notin Threads, NEW t \in Threads, NEW m \in Mutexes,
           AssignHolder(t, m) \/ UnassignHolder(t, m)
    PROVE  MutexOK'
  BY DEF MutexOK, MutexTypeOK, MutexInv, AssignHolder, UnassignHolder, Goes, Locking, Holding

LEMMA UnlockKeeps ==
    ASSUME MutexOK, Nobody \notin Threads, NEW t \in Threads, NEW m \in Mutexes,
           Unlock(t, m) \/ Wake(t, m)
    PROVE  MutexOK'
  BY DEF MutexOK, MutexTypeOK, MutexInv, Unlock, Wake, Goes, Locking, Holding

\* The end of what is done inside, with a notify or without.
LEMMA LeaveKeeps ==
    ASSUME MutexOK, NEW t \in Threads, NEW m \in Mutexes,
           Leave(t, m) \/ BeginWait(t, m) \/ Notify(t, m) \/ NotifyAll(t, m)
    PROVE  MutexOK'
  BY DEF MutexOK, MutexTypeOK, MutexInv, Leave, BeginWait, Notify, NotifyAll, WakesAndLeaves,
     Waiting, Inside, Goes, Locking, Holding

-----------------------------------------------------------------------------
(* The two threads.                                                        *)

LEMMA TheThreads ==
    /\ Nobody \notin Threads
    /\ "owner" \in Threads /\ "child" \in Threads
    /\ "latch" \in Mutexes /\ "mutex" \in Mutexes
  BY MutexAssumption DEF Nobody

\* Every step that takes, waits for or leaves a mutex does so as a MutexLock does.
LEMMA MutexKept ==
    ASSUME MutexOK, [Next]_vars
    PROVE  MutexOK'
<1> USE TheThreads
<1>1. CASE UNCHANGED mutexVars
  BY <1>1 DEF MutexOK, MutexTypeOK, MutexInv, mutexVars
<1>2. ASSUME NEW t \in Threads, InGuard(t) PROVE MutexOK'
  BY <1>2, LockKeeps, HolderKeeps, UnlockKeeps DEF InGuard, MutexStep
<1>3. CASE OwnerLocks
  BY <1>3, LockKeeps DEF OwnerLocks
<1>4. CASE TestLatch
  BY <1>4, LeaveKeeps DEF TestLatch
<1>5. CASE CheckLoop
  BY <1>5, LeaveKeeps DEF CheckLoop
<1>6. CASE SpuriousWakeup
  BY <1>6, UnlockKeeps DEF SpuriousWakeup
<1>7. CASE ChildLocks
  BY <1>7, LockKeeps DEF ChildLocks
<1>8. CASE CountDown
  BY <1>8, LeaveKeeps DEF CountDown
<1>9. CASE Publish
  BY <1>9, LeaveKeeps DEF Publish
<1>10. CASE ClearLoop
  BY <1>10, LeaveKeeps DEF ClearLoop
<1>11. QED
  BY <1>1, <1>2, <1>3, <1>4, <1>5, <1>6, <1>7, <1>8, <1>9, <1>10
     DEF Next, OwnerStep, ChildStep, vars, OwnerGoes, ChildGoes, StartThread, QueueQuit,
         QueueQuitWakeup, BeginDtor, DtorReadsLoop, DtorQuits, DtorWakesLoop, Join,
         DestroyMembers, SetTid, ConstructLoop, EnterLoop, TestQuit, PollReady, PollTimeout,
         RunFunctors, DestroyLoop

\* Every step goes from a place to a place that fits.
LEMMA PlacesKept ==
    ASSUME TypeOK, MutexInv, PlaceInv, [Next]_vars
    PROVE  TypeOK' /\ PlaceInv'
<1> USE TheThreads DEF PlaceInv, ChildInv, AskedInv, GuardInv, OwnerInv, EventfdInv, InLoop,
        TypeOK, MutexTypeOK, OwnerAt, ChildAt, Out, handOver, loopVars, mutexVars
<1>1. MutexTypeOK'
  BY MutexKept DEF MutexOK
<1>2. ASSUME NEW t \in Threads, InGuard(t) PROVE TypeOK' /\ PlaceInv'
  <2>1. UNCHANGED <<owner, child, handOver, loopVars>>
    BY <1>2 DEF InGuard
  <2>2. GuardInv'
    <3>1. PICK m \in Mutexes : Relock(t, m) \/ AssignHolder(t, m) \/ UnassignHolder(t, m) \/ Unlock(t, m)
      BY <1>2 DEF InGuard, MutexStep
    <3>2. PICK s : stage' = [stage EXCEPT ![t] = s]
                   /\ \/ stage[t] = <<"woken", m>> /\ s = <<"assign", m>>
                      \/ stage[t] = <<"assign", m>> /\ s = <<"inside", m>>
                      \/ stage[t] = <<"leave", m>> /\ s = <<"unlock", m>>
                      \/ stage[t] = <<"unwait", m>> /\ s = <<"wait", m>>
                      \/ stage[t] = <<"unlock", m>> /\ s = <<"out", Nobody>>
                      \/ stage[t] = <<"wait", m>> /\ s = <<"waiting", m>>
      BY <3>1 DEF Relock, AssignHolder, UnassignHolder, Unlock, Goes
    <3>3. t = "owner" \/ t = "child"
      BY MutexAssumption
    <3>4. CASE t = "owner"
      BY <2>1, <3>2, <3>4 DEF Nobody
    <3>5. CASE t = "child"
      BY <2>1, <3>2, <3>5 DEF Nobody
    <3>6. QED
      BY <3>3, <3>4, <3>5
  <2>3. QED
    BY <1>1, <2>1, <2>2
<1>3. CASE StartThread
  BY <1>1, <1>3 DEF StartThread, OwnerGoes
<1>4. CASE OwnerLocks
  BY <1>1, <1>4 DEF OwnerLocks, Lock, Locks
<1>5. CASE TestLatch
  BY <1>1, <1>5 DEF TestLatch, BeginWait, Leave, Inside, Goes
<1>6. CASE CheckLoop
  BY <1>1, <1>6 DEF CheckLoop, BeginWait, Leave, Inside, Goes
<1>7. CASE SpuriousWakeup
  BY <1>1, <1>7 DEF SpuriousWakeup, Wake, Goes
<1>8. CASE QueueQuit
  BY <1>1, <1>8 DEF QueueQuit, OwnerGoes
<1>9. CASE QueueQuitWakeup
  BY <1>1, <1>9 DEF QueueQuitWakeup, OwnerGoes
<1>10. CASE BeginDtor
  BY <1>1, <1>10 DEF BeginDtor, OwnerGoes
<1>11. CASE DtorReadsLoop
  BY <1>1, <1>11 DEF DtorReadsLoop, OwnerGoes
<1>12. CASE DtorQuits
  BY <1>1, <1>12 DEF DtorQuits, OwnerGoes
<1>13. CASE DtorWakesLoop
  BY <1>1, <1>13 DEF DtorWakesLoop, OwnerGoes
<1>14. CASE Join
  BY <1>1, <1>14 DEF Join, OwnerGoes
<1>15. CASE DestroyMembers
  BY <1>1, <1>15 DEF DestroyMembers, OwnerGoes
<1>16. CASE SetTid
  BY <1>1, <1>16 DEF SetTid, ChildGoes
<1>17. CASE ChildLocks
  BY <1>1, <1>17 DEF ChildLocks, Lock, Locks
<1>18. CASE CountDown
  BY <1>1, <1>18 DEF CountDown, NotifyAll, WakesAndLeaves, Waiting, Inside, Leave, Goes
<1>19. CASE ConstructLoop
  <2>1. quit' \in BOOLEAN /\ quitQueued' \in BOOLEAN /\ asked' = quitQueued'
    BY <1>19, CallbackAssumption, Zenon DEF ConstructLoop
  <2>2. /\ child = "construct" /\ child' = "publish" /\ loopAlive' = TRUE
        /\ UNCHANGED <<owner, latch, tid_, loop_, eventfd, stage>>
        /\ stage["child"] = <<"out", "nobody">>
    BY <1>19 DEF ConstructLoop, ChildGoes, Nobody
  <2>3. TypeOK'
    BY <1>1, <2>1, <2>2
  <2>4. owner \in {"latch", "check"} /\ eventfd = 0
    BY <2>2
  <2>5. ChildInv' /\ GuardInv' /\ OwnerInv'
    BY <2>2, <2>4
  <2>6. AskedInv' /\ EventfdInv'
    BY <2>1, <2>2, <2>4
  <2>7. QED
    BY <2>3, <2>5, <2>6
<1>20. CASE Publish
  BY <1>1, <1>20 DEF Publish, Notify, WakesAndLeaves, Waiting, Inside, Leave, Goes
<1>21. CASE EnterLoop
  BY <1>1, <1>21 DEF EnterLoop, ChildGoes
<1>22. CASE TestQuit
  BY <1>1, <1>22 DEF TestQuit, ChildGoes
<1>23. CASE PollReady
  BY <1>1, <1>23 DEF PollReady, ChildGoes
<1>24. CASE PollTimeout
  BY <1>1, <1>24 DEF PollTimeout, ChildGoes
<1>25. CASE RunFunctors
  BY <1>1, <1>25 DEF RunFunctors, ChildGoes
<1>26. CASE ClearLoop
  BY <1>1, <1>26 DEF ClearLoop, Inside, Leave, Goes
<1>27. CASE DestroyLoop
  BY <1>1, <1>27 DEF DestroyLoop, ChildGoes
<1>28. CASE UNCHANGED vars
  BY <1>1, <1>28 DEF vars
<1>29. QED
  BY <1>2, <1>3, <1>4, <1>5, <1>6, <1>7, <1>8, <1>9, <1>10, <1>11, <1>12, <1>13, <1>14,
     <1>15, <1>16, <1>17, <1>18, <1>19, <1>20, <1>21, <1>22, <1>23, <1>24, <1>25, <1>26, <1>27, <1>28
     DEF Next, OwnerStep, ChildStep

LEMMA Begins == Init => IInv
<1> SUFFICES ASSUME Init PROVE IInv
  OBVIOUS
<1> USE TheThreads DEF Init, MutexInit
<1>1. TypeOK
  <2>1. MutexTypeOK
    BY DEF MutexTypeOK
  <2>2. latch \in 0..1 /\ eventfd \in 0..3
    OBVIOUS
  <2>3. {tid_, loop_, loopAlive, quit, quitQueued, asked} \subseteq BOOLEAN
    BY Zenon
  <2>4. QED
    BY <2>1, <2>2, <2>3 DEF TypeOK, OwnerAt, ChildAt
<1>2. MutexInv
  BY DEF MutexInv, Locking, Holding
<1>3. PlaceInv
  BY DEF PlaceInv, ChildInv, AskedInv, GuardInv, OwnerInv, EventfdInv, InLoop, Nobody
<1>4. QED
  BY <1>1, <1>2, <1>3 DEF IInv

LEMMA Inductive == Spec => []IInv
<1>1. IInv /\ [Next]_vars => IInv'
  BY MutexKept, PlacesKept DEF IInv, MutexOK, TypeOK
<1>2. QED
  BY Begins, <1>1, PTL DEF Spec

-----------------------------------------------------------------------------
\* Between lock() and unlock(), also after a wait(), a thread has the pthread mutex and
\* is its holder, and holder_ never names another: isLockedByThisThread() can be relied on.
THEOREM HolderIsRight == Spec => []HolderRight
<1>1. IInv => HolderRight
  <2> SUFFICES ASSUME IInv, NEW m \in Mutexes
               PROVE  /\ \A t \in Threads : Inside(t, m) => lockedBy[m] = t /\ holder_[m] = t
                      /\ holder_[m] \in {Nobody, lockedBy[m]}
    BY DEF HolderRight
  <2> USE TheThreads DEF IInv, TypeOK, MutexTypeOK, MutexInv, Locking, Holding
  <2>1. \A t \in Threads : Inside(t, m) => lockedBy[m] = t /\ holder_[m] = t
    BY DEF Inside
  <2>2. \A t \in Threads : holder_[m] = t => lockedBy[m] = t
    OBVIOUS
  <2>3. QED
    BY <2>1, <2>2
<1>2. QED
  BY <1>1, Inductive, PTL

\* startLoop() returns a loop that is alive until somebody asks it to quit, the latch and
\* the object outlive the thread's use of them, and mutexes name their holders.
THEOREM HandOverIsSafe == Spec => []LoopOutlivesUse
<1>1. IInv => TypeOK /\ ReturnedLoopIsAlive /\ NotDestroyedUnderLoop /\ LatchOpensLast
  <2> SUFFICES ASSUME IInv
               PROVE  TypeOK /\ ReturnedLoopIsAlive /\ NotDestroyedUnderLoop /\ LatchOpensLast
    OBVIOUS
  <2> USE DEF IInv, PlaceInv, TypeOK, ChildInv, AskedInv, OwnerInv, InLoop, ChildAt
  <2>1. ReturnedLoopIsAlive
    BY DEF ReturnedLoopIsAlive, EventfdInv
  <2>2. NotDestroyedUnderLoop
    BY DEF NotDestroyedUnderLoop
  <2>3. LatchOpensLast
    BY DEF LatchOpensLast, GuardInv
  <2>4. QED
    BY <2>1, <2>2, <2>3
<1>2. QED
  BY <1>1, HolderIsRight, Inductive, PTL DEF LoopOutlivesUse

=============================================================================
