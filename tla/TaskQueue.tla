------------------------------ MODULE TaskQueue ------------------------------
(***************************************************************************)
(* What EventLoop::queueInLoop promises its callers, with no threads, no   *)
(* wakeups and no swapping of vectors: tasks leave in the order they were  *)
(* accepted and each is run once.                                          *)
(***************************************************************************)
EXTENDS Sequences

CONSTANT Tasks              \* the functors callers may hand over

VARIABLES
    queue,                  \* accepted, not yet run
    done                    \* run, in the order they ran

vars == <<queue, done>>

Init == queue = <<>> /\ done = <<>>

\* A task is accepted at the tail; the same task is not accepted twice.
Accept(f) ==
    /\ \A i \in DOMAIN queue : queue[i] # f
    /\ \A i \in DOMAIN done : done[i] # f
    /\ queue' = Append(queue, f)
    /\ UNCHANGED done

\* The task at the head runs.
Run ==
    /\ queue # <<>>
    /\ done' = Append(done, Head(queue))
    /\ queue' = Tail(queue)

Next == Run \/ \E f \in Tasks : Accept(f)

Spec == Init /\ [][Next]_vars
=============================================================================
