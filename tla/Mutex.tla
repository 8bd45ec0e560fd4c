-------------------------------- MODULE Mutex --------------------------------
(***************************************************************************)
(* muduo::MutexLock, MutexLockGuard and Condition: a pthread mutex, which  *)
(* keeps threads out, and holder_, which says who is in, are two things,   *)
(* written one after the other.  A thread of this model has one mutex at a *)
(* time, and a mutex has one condition.                                    *)
(***************************************************************************)
CONSTANTS Threads, Mutexes

VARIABLES
    lockedBy,           \* who has a pthread mutex, or "nobody"
    holder_,            \* who MutexLock says has it, or "nobody"
    stage               \* how far each thread is, and with which mutex:
                        \*   "assign", "inside"   past pthread_mutex_lock(), holder_ set
                        \*   "leave", "unlock"    in unlock()
                        \*   "unwait", "wait"     in Condition::wait()
                        \*   "waiting", "woken"   in pthread_cond_wait()

mutexVars == <<lockedBy, holder_, stage>>

Nobody == "nobody"

Out(t) == stage[t] = <<"out", Nobody>>
Inside(t, m) == stage[t] = <<"inside", m>>

MutexTypeOK ==
    /\ lockedBy \in [Mutexes -> Threads \union {Nobody}]
    /\ holder_ \in [Mutexes -> Threads \union {Nobody}]
    /\ stage \in [Threads ->
        {<<"out", Nobody>>}
        \union {"assign", "inside", "leave", "unlock", "unwait", "wait", "waiting", "woken"} \X Mutexes]

MutexInit ==
    /\ lockedBy = [m \in Mutexes |-> Nobody]
    /\ holder_ = [m \in Mutexes |-> Nobody]
    /\ stage = [t \in Threads |-> <<"out", Nobody>>]

Goes(t, m, from, to) == stage[t] = <<from, m>> /\ stage' = [stage EXCEPT ![t] = <<to, m>>]

\* pthread_mutex_lock(), which begins lock(), or ends pthread_cond_wait().
Locks(t, m) == lockedBy[m] = Nobody /\ lockedBy' = [lockedBy EXCEPT ![m] = t] /\ UNCHANGED holder_
Lock(t, m) == Out(t) /\ stage' = [stage EXCEPT ![t] = <<"assign", m>>] /\ Locks(t, m)

MutRelock(t, m) == Goes(t, m, "woken", "inside") /\ Locks(t, m)

Relock(t, m) == Goes(t, m, "woken", "assign") /\ Locks(t, m)

\* assignHolder(), in lock() or by the UnassignGuard of wait().
AssignHolder(t, m) ==
    /\ Goes(t, m, "assign", "inside")
    /\ holder_' = [holder_ EXCEPT ![m] = t]
    /\ UNCHANGED lockedBy

\* unassignHolder(), in unlock() or by the UnassignGuard of wait().
UnassignHolder(t, m) ==
    /\ Goes(t, m, "leave", "unlock") \/ Goes(t, m, "unwait", "wait")
    /\ holder_' = [holder_ EXCEPT ![m] = Nobody]
    /\ UNCHANGED lockedBy

\* pthread_mutex_unlock(), and pthread_cond_wait(), which unlocks and waits at once.
Unlock(t, m) ==
    /\ \/ stage[t] = <<"unlock", m>> /\ stage' = [stage EXCEPT ![t] = <<"out", Nobody>>]
       \/ Goes(t, m, "wait", "waiting")
    /\ lockedBy' = [lockedBy EXCEPT ![m] = Nobody]
    /\ UNCHANGED holder_

\* It may also return without a signal.
Wake(t, m) == Goes(t, m, "waiting", "woken") /\ UNCHANGED <<lockedBy, holder_>>

-----------------------------------------------------------------------------
(* What the code inside ends with: the guard going out of scope, after a   *)
(* notify or not, or a wait().                                             *)

Leave(t, m) == Goes(t, m, "inside", "leave") /\ UNCHANGED <<lockedBy, holder_>>
BeginWait(t, m) == Goes(t, m, "inside", "unwait") /\ UNCHANGED <<lockedBy, holder_>>

Waiting(m) == {t \in Threads : stage[t] = <<"waiting", m>>}

WakesAndLeaves(t, m, awake) ==
    /\ Inside(t, m)
    /\ stage' = [u \in Threads |-> IF u = t THEN <<"leave", m>> ELSE IF u \in awake THEN <<"woken", m>> ELSE stage[u]]
    /\ UNCHANGED <<lockedBy, holder_>>

Notify(t, m) ==
    IF Waiting(m) = {} THEN Leave(t, m) ELSE \E u \in Waiting(m) : WakesAndLeaves(t, m, {u})
NotifyAll(t, m) == WakesAndLeaves(t, m, Waiting(m))

\* The steps of a thread in lock(), unlock() and wait(), on its own.
MutexStep(t) ==
    \E m \in Mutexes : Relock(t, m) \/ AssignHolder(t, m) \/ UnassignHolder(t, m) \/ Unlock(t, m)

-----------------------------------------------------------------------------
\* A thread that is inside has the mutex and is its holder, also after a wait(), and
\* nobody is called the holder who has not got the mutex.
HolderRight ==
    \A m \in Mutexes :
        /\ \A t \in Threads : Inside(t, m) => lockedBy[m] = t /\ holder_[m] = t
        /\ holder_[m] \in {Nobody, lockedBy[m]}

=============================================================================
