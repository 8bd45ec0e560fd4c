------------------------ MODULE BoundedBlockingQueue -------------------------
(***************************************************************************)
(* muduo::BoundedBlockingQueue: a FIFO of at most Capacity items under one *)
(* mutex, with a condition for each of its two waits.  A critical section  *)
(* between two waits is one step; a notify wakes one waiter, if any.       *)
(***************************************************************************)
EXTENDS Naturals, Sequences

CONSTANTS Producers, Consumers, Items, Capacity    \* Capacity \in Nat

VARIABLES
    queue,          \* queue_
    notFull,        \* the producers that wait on notFull_
    notEmpty        \* the consumers that wait on notEmpty_

vars == <<queue, notFull, notEmpty>>

Init == queue = <<>> /\ notFull = {} /\ notEmpty = {}

\* notify(): waiters' is waiters without one of them.
Notified(waiters) == IF waiters = {} THEN {{}} ELSE {waiters \ {w} : w \in waiters}

Put(p, x) ==
    /\ p \notin notFull
    /\ \/ /\ Len(queue) >= Capacity
          /\ notFull' = notFull \union {p}
          /\ UNCHANGED <<queue, notEmpty>>
       \/ /\ Len(queue) < Capacity
          /\ queue' = Append(queue, x)
          /\ notEmpty' \in Notified(notEmpty)
          /\ UNCHANGED notFull

Take(c) ==
    /\ c \notin notEmpty
    /\ \/ /\ queue = <<>>
          /\ notEmpty' = notEmpty \union {c}
          /\ UNCHANGED <<queue, notFull>>
       \/ /\ queue # <<>>
          /\ queue' = Tail(queue)
          /\ notFull' \in Notified(notFull)
          /\ UNCHANGED notEmpty

\* Waits may end without a notify, several at a time.
SpuriousWakeups ==
    /\ notFull' \in SUBSET notFull
    /\ notEmpty' \in SUBSET notEmpty
    /\ UNCHANGED queue

Next ==
    \/ \E p \in Producers, x \in Items : Put(p, x)
    \/ \E c \in Consumers : Take(c)
    \/ SpuriousWakeups

Spec == Init /\ [][Next]_vars
=============================================================================
