--------------------------- MODULE EventLoopProofs ---------------------------
(***************************************************************************)
(* Theorems of EventLoop for every set of threads and functors, and for    *)
(* any number of calls of quit().                                          *)
(***************************************************************************)
EXTENDS EventLoop, SequenceTheorems, TLAPS

\* What the phase of the loop thread says of its other variables.
PhaseInv ==
    /\ callingPendingFunctors <=> phase \in {"swap", "run"}
    /\ phase # "run" => functors = <<>> /\ ~running
    /\ phase \in {"test", "poll", "swap"} => call[LoopThread] = "none"

\* NoLostWakeup, extended to the phases from which the loop gets to its test.
\* Before the swap nothing is required: the swap takes all that is pending.
WakeInv ==
    (phase \in {"outside", "test", "poll", "run"} /\ ~(Elems(pendingFunctors) \subseteq early))
        => \/ eventfd > 0
           \/ \E t \in Callers : call[t] = "queued"
           \/ phase = "run" /\ call[LoopThread] = "queued"

IInv == TypeOK /\ PhaseInv /\ WakeInv /\ QueueOrder

-----------------------------------------------------------------------------
\* An appended element joins the elements of a sequence and adds no other.
LEMMA ElemsAppend ==
    ASSUME NEW S, NEW s \in Seq(S), NEW e \in S
    PROVE  Elems(Append(s, e)) = Elems(s) \union {e}
<1>1. /\ Append(s, e) \in Seq(S)
      /\ DOMAIN Append(s, e) = 1 .. Len(s) + 1
      /\ \A i \in 1 .. Len(s) : Append(s, e)[i] = s[i]
      /\ Append(s, e)[Len(s) + 1] = e
  BY AppendProperties
<1>2. DOMAIN s = 1 .. Len(s) /\ Len(s) \in Nat
  OBVIOUS
<1>3. 1 .. Len(s) + 1 = (1 .. Len(s)) \union {Len(s) + 1}
  BY <1>2
<1>4. QED
  BY <1>1, <1>2, <1>3 DEF Elems

\* An element pushed at the end of a concatenation is pushed at the end of its
\* last part.
LEMMA PushTail ==
    ASSUME NEW S, NEW r \in Seq(S), NEW f \in Seq(S), NEW p \in Seq(S), NEW e \in S
    PROVE  (r \o f) \o Append(p, e) = Append((r \o f) \o p, e)
<1>1. <<e>> \in Seq(S) /\ r \o f \in Seq(S)
  BY ConcatProperties
<1>2. (r \o f) \o p \in Seq(S)
  BY <1>1, ConcatProperties
<1>3. ((r \o f) \o p) \o <<e>> = (r \o f) \o (p \o <<e>>)
  BY <1>1, ConcatAssociative, SMTT(60)
<1>4. QED
  BY <1>2, <1>3, AppendIsConcat

\* A sequence that is not empty is its head followed by its tail.
LEMMA HeadThenTail ==
    ASSUME NEW S, NEW f \in Seq(S), f # <<>>
    PROVE  /\ <<Head(f)>> \in Seq(S)
           /\ Head(f) \in S
           /\ Tail(f) \in Seq(S)
           /\ <<Head(f)>> \o Tail(f) = f
<1>1. Head(f) \in S /\ Tail(f) \in Seq(S) /\ Len(f) \in Nat \ {0}
  BY HeadTailProperties, EmptySeq
<1>2. <<Head(f)>> \in Seq(S) /\ Len(<<Head(f)>>) = 1 /\ <<Head(f)>>[1] = Head(f)
  BY <1>1
<1>3. <<Head(f)>> \o Tail(f) \in Seq(S)
  BY <1>1, <1>2, ConcatProperties
<1>4. Len(<<Head(f)>> \o Tail(f)) = Len(f)
  BY <1>1, <1>2, ConcatProperties, HeadTailProperties
<1>5. ASSUME NEW i \in 1 .. Len(f) PROVE (<<Head(f)>> \o Tail(f))[i] = f[i]
  BY <1>1, <1>2, ConcatProperties, HeadTailProperties
<1>6. QED
  BY <1>1, <1>2, <1>3, <1>4, <1>5, SeqEqual

\* Running the head of a batch moves it from the batch to what has run.
LEMMA MoveHead ==
    ASSUME NEW S, NEW r \in Seq(S), NEW f \in Seq(S), f # <<>>
    PROVE  Append(r, Head(f)) \o Tail(f) = r \o f
<1>1. Append(r, Head(f)) = r \o <<Head(f)>>
  BY HeadThenTail, AppendIsConcat
<1>2. (r \o <<Head(f)>>) \o Tail(f) = r \o (<<Head(f)>> \o Tail(f))
  BY HeadThenTail, ConcatAssociative
<1>3. QED
  BY <1>1, <1>2, HeadThenTail

\* The head of a concatenation is that of its first part.
LEMMA HeadOfConcat ==
    ASSUME NEW S, NEW f \in Seq(S), f # <<>>, NEW p \in Seq(S)
    PROVE  /\ f \o p # <<>>
           /\ Head(f \o p) = Head(f)
           /\ Tail(f \o p) = Tail(f) \o p
<1>1. f \o p = <<Head(f)>> \o (Tail(f) \o p)
  BY HeadThenTail, ConcatAssociative
<1>2. Tail(f) \o p \in Seq(S) /\ Head(f) \in S
  BY HeadThenTail, ConcatProperties
<1>3. QED
  BY <1>1, <1>2

-----------------------------------------------------------------------------
\* Type correctness (every assignment of EventLoop.cpp keeps its member's range).
THEOREM TypeCorrect == Spec => []TypeOK
<1>1. Init => TypeOK
  <2> SUFFICES ASSUME Init PROVE TypeOK
    OBVIOUS
  <2>1. 0 \in 0..MaxQuits
    BY MaxQuitsAssumption
  <2>2. <<>> \in Seq(Functors)
    BY EmptySeq
  <2>3. QED
    BY <2>1, <2>2 DEF Init, TypeOK, Phases, Calls
<1>2. TypeOK /\ [Next]_vars => TypeOK'
  <2> SUFFICES ASSUME TypeOK, [Next]_vars PROVE TypeOK'
    OBVIOUS
  <2> USE DEF TypeOK, Phases, Calls
  <2>1. ASSUME NEW t \in Threads, NEW f \in Functors, QueueInLoop(t, f) PROVE TypeOK'
    BY <2>1, AppendProperties DEF QueueInLoop, loopVars
  <2>2. ASSUME NEW t \in Threads, QueueWakeup(t) PROVE TypeOK'
    BY <2>2 DEF QueueWakeup, Wakeup, loopVars, queueVars
  <2>3. ASSUME NEW t \in Threads, Quit(t) PROVE TypeOK'
    BY <2>3, MaxQuitsAssumption DEF Quit, loopVars, queueVars
  <2>4. ASSUME NEW t \in Threads, QuitWakeup(t) PROVE TypeOK'
    BY <2>4 DEF QuitWakeup, Wakeup, loopVars, queueVars
  <2>5. ASSUME NEW f \in Functors, RunInLoopHere(f) PROVE TypeOK'
    BY <2>5 DEF RunInLoopHere, loopVars
  <2>6. CASE EnterLoop
    BY <2>6 DEF EnterLoop, queueVars
  <2>7. CASE LeaveLoop
    BY <2>7 DEF LeaveLoop, queueVars
  <2>8. CASE EnterPoll
    BY <2>8 DEF EnterPoll, queueVars
  <2>9. ASSUME NEW io \in SUBSET {"io"}, PollReturns(io) PROVE TypeOK'
    BY <2>9 DEF PollReturns, queueVars
  <2>10. CASE HandleWakeup
    BY <2>10 DEF HandleWakeup, queueVars
  <2>11. CASE HandleIo
    BY <2>11 DEF HandleIo, queueVars
  <2>12. CASE BeginPendingFunctors
    BY <2>12 DEF BeginPendingFunctors, queueVars
  <2>13. CASE SwapFunctors
    BY <2>13, EmptySeq DEF SwapFunctors
  <2>14. CASE RunFunctor
    BY <2>14, HeadTailProperties, AppendProperties DEF RunFunctor, loopVars
  <2>15. CASE EndPendingFunctors
    BY <2>15 DEF EndPendingFunctors
  <2>16. CASE UNCHANGED vars
    BY <2>16 DEF vars, loopVars, queueVars
  <2>17. QED
    BY <2>1, <2>2, <2>3, <2>4, <2>5, <2>6, <2>7, <2>8, <2>9, <2>10, <2>11, <2>12,
       <2>13, <2>14, <2>15, <2>16
       DEF Next, LoopStep, CallStep, UserStep, PollReady, PollTimeout
<1>3. QED
  BY <1>1, <1>2, PTL DEF Spec

-----------------------------------------------------------------------------
\* Every step keeps the phases consistent.
LEMMA PhaseStep ==
    ASSUME TypeOK, PhaseInv, [Next]_vars
    PROVE  PhaseInv'
<1> USE DEF TypeOK, PhaseInv, Threads
<1>1. ASSUME NEW t \in Threads, NEW f \in Functors, QueueInLoop(t, f) PROVE PhaseInv'
  <2>1. phase \in {"test", "poll", "swap"} => t # LoopThread
    BY <1>1, LoopThreadAssumption DEF QueueInLoop, InUserCode
  <2>2. UNCHANGED <<phase, callingPendingFunctors, functors, running>>
    BY <1>1 DEF QueueInLoop, loopVars
  <2>3. t # LoopThread => call'[LoopThread] = call[LoopThread]
    BY <1>1 DEF QueueInLoop
  <2>4. QED
    BY <2>1, <2>2, <2>3
<1>2. ASSUME NEW t \in Threads, QueueWakeup(t) PROVE PhaseInv'
  BY <1>2 DEF QueueWakeup, loopVars, queueVars
<1>3. ASSUME NEW t \in Threads, Quit(t) PROVE PhaseInv'
  <2>1. phase \in {"test", "poll", "swap"} => t # LoopThread
    BY <1>3, LoopThreadAssumption DEF Quit, InUserCode
  <2>2. UNCHANGED <<phase, callingPendingFunctors, functors, running>>
    BY <1>3 DEF Quit, loopVars, queueVars
  <2>3. t # LoopThread => call'[LoopThread] = call[LoopThread]
    BY <1>3 DEF Quit
  <2>4. QED
    BY <2>1, <2>2, <2>3
<1>4. ASSUME NEW t \in Threads, QuitWakeup(t) PROVE PhaseInv'
  BY <1>4 DEF QuitWakeup, loopVars, queueVars
<1>5. ASSUME NEW f \in Functors, RunInLoopHere(f) PROVE PhaseInv'
  BY <1>5 DEF RunInLoopHere, loopVars
<1>6. CASE EnterLoop
  BY <1>6 DEF EnterLoop, Steps, queueVars
<1>7. CASE LeaveLoop
  BY <1>7 DEF LeaveLoop, Steps, queueVars
<1>8. CASE EnterPoll
  BY <1>8 DEF EnterPoll, Steps, queueVars
<1>9. ASSUME NEW io \in SUBSET {"io"}, PollReturns(io) PROVE PhaseInv'
  BY <1>9 DEF PollReturns, queueVars
<1>10. CASE HandleWakeup
  BY <1>10 DEF HandleWakeup, Steps, queueVars
<1>11. CASE HandleIo
  BY <1>11 DEF HandleIo, Steps, queueVars
<1>12. CASE BeginPendingFunctors
  BY <1>12 DEF BeginPendingFunctors, Steps, queueVars
<1>13. CASE SwapFunctors
  BY <1>13 DEF SwapFunctors, Steps
<1>14. CASE RunFunctor
  BY <1>14 DEF RunFunctor, Steps, loopVars
<1>15. CASE EndPendingFunctors
  BY <1>15 DEF EndPendingFunctors, Steps
<1>16. CASE UNCHANGED vars
  BY <1>16 DEF vars, loopVars, queueVars
<1>17. QED
  BY <1>1, <1>2, <1>3, <1>4, <1>5, <1>6, <1>7, <1>8, <1>9, <1>10,
     <1>11, <1>12, <1>13, <1>14, <1>15, <1>16
     DEF Next, LoopStep, CallStep, UserStep, PollReady, PollTimeout

\* Every step keeps the order of the queue.
LEMMA OrderStep ==
    ASSUME TypeOK, PhaseInv, QueueOrder, [Next]_vars
    PROVE  QueueOrder'
<1>1. ASSUME NEW t \in Threads, NEW f \in Functors, QueueInLoop(t, f) PROVE QueueOrder'
  <2>1. (ran \o functors) \o Append(pendingFunctors, f) = Append((ran \o functors) \o pendingFunctors, f)
    BY PushTail, SMTT(60) DEF TypeOK
  <2>2. QED
    BY <1>1, <2>1 DEF QueueInLoop, QueueOrder
<1>2. ASSUME NEW t \in Threads, QueueWakeup(t) PROVE QueueOrder'
  BY <1>2 DEF QueueWakeup, queueVars, QueueOrder
<1>3. ASSUME NEW t \in Threads, Quit(t) PROVE QueueOrder'
  BY <1>3 DEF Quit, queueVars, QueueOrder
<1>4. ASSUME NEW t \in Threads, QuitWakeup(t) PROVE QueueOrder'
  BY <1>4 DEF QuitWakeup, queueVars, QueueOrder
<1>5. ASSUME NEW f \in Functors, RunInLoopHere(f) PROVE QueueOrder'
  BY <1>5 DEF RunInLoopHere, QueueOrder
<1>6. CASE EnterLoop
  BY <1>6 DEF EnterLoop, queueVars, QueueOrder
<1>7. CASE LeaveLoop
  BY <1>7 DEF LeaveLoop, queueVars, QueueOrder
<1>8. CASE EnterPoll
  BY <1>8 DEF EnterPoll, queueVars, QueueOrder
<1>9. ASSUME NEW io \in SUBSET {"io"}, PollReturns(io) PROVE QueueOrder'
  BY <1>9 DEF PollReturns, queueVars, QueueOrder
<1>10. CASE HandleWakeup
  BY <1>10 DEF HandleWakeup, queueVars, QueueOrder
<1>11. CASE HandleIo
  BY <1>11 DEF HandleIo, queueVars, QueueOrder
<1>12. CASE BeginPendingFunctors
  BY <1>12 DEF BeginPendingFunctors, queueVars, QueueOrder
<1>13. CASE SwapFunctors
  <2>1. functors = <<>>
    BY <1>13 DEF SwapFunctors, Steps, PhaseInv
  <2>2. (ran \o functors) = ran /\ (ran \o pendingFunctors) \o <<>> = ran \o pendingFunctors
    BY <2>1, ConcatEmptySeq, ConcatProperties DEF TypeOK
  <2>3. QED
    BY <1>13, <2>2 DEF SwapFunctors, QueueOrder
<1>14. CASE RunFunctor
  <2>1. Append(ran, Head(functors)) \o Tail(functors) = ran \o functors
    BY <1>14, MoveHead DEF RunFunctor, TypeOK
  <2>2. QED
    BY <1>14, <2>1 DEF RunFunctor, QueueOrder
<1>15. CASE EndPendingFunctors
  BY <1>15 DEF EndPendingFunctors, QueueOrder
<1>16. CASE UNCHANGED vars
  BY <1>16 DEF vars, queueVars, QueueOrder
<1>17. QED
  BY <1>1, <1>2, <1>3, <1>4, <1>5, <1>6, <1>7, <1>8, <1>9, <1>10,
     <1>11, <1>12, <1>13, <1>14, <1>15, <1>16
     DEF Next, LoopStep, CallStep, UserStep, PollReady, PollTimeout

\* Every step keeps the promise of a wakeup.
LEMMA WakeStep ==
    ASSUME TypeOK, TypeOK', PhaseInv, WakeInv, [Next]_vars
    PROVE  WakeInv'
<1> USE LoopThreadAssumption DEF Threads
<1>1. ASSUME NEW t \in Threads, NEW f \in Functors, QueueInLoop(t, f) PROVE WakeInv'
  <2>1. Elems(pendingFunctors') = Elems(pendingFunctors) \union {f}
    BY <1>1, ElemsAppend DEF QueueInLoop, TypeOK
  <2>2. call' = [call EXCEPT ![t] = "queued"] /\ phase' = phase /\ eventfd' = eventfd
    BY <1>1 DEF QueueInLoop, loopVars
  <2>3. CASE t \in Callers
    BY <2>2, <2>3 DEF WakeInv, TypeOK
  <2>4. CASE t = LoopThread /\ phase = "outside"
    <3>1. early' = early \union {f}
      BY <1>1, <2>4 DEF QueueInLoop
    <3>2. \A c \in Callers : call'[c] = call[c]
      BY <2>2, <2>4 DEF TypeOK
    <3>3. QED
      BY <2>1, <2>2, <2>4, <3>1, <3>2 DEF WakeInv
  <2>5. CASE t = LoopThread /\ phase # "outside"
    <3>1. phase \in {"dispatch", "run"} /\ call'[LoopThread] = "queued"
      BY <1>1, <2>2, <2>5 DEF QueueInLoop, InUserCode, TypeOK
    <3>2. QED
      BY <2>2, <3>1 DEF WakeInv
  <2>6. QED
    BY <2>3, <2>4, <2>5
<1>2. ASSUME NEW t \in Threads, QueueWakeup(t) PROVE WakeInv'
  <2>1. CASE NeedsWakeup(t)
    BY <1>2, <2>1 DEF QueueWakeup, Wakeup, WakeInv, TypeOK
  <2>2. CASE ~NeedsWakeup(t)
    <3>1. t = LoopThread /\ phase # "run"
      BY <2>2 DEF NeedsWakeup, PhaseInv
    <3>2. \A c \in Callers : call'[c] = call[c]
      BY <1>2, <3>1 DEF QueueWakeup, TypeOK
    <3>3. UNCHANGED <<phase, pendingFunctors, early, eventfd>>
      BY <1>2, <2>2 DEF QueueWakeup, loopVars, queueVars
    <3>4. QED
      BY <3>1, <3>2, <3>3 DEF WakeInv, Elems
  <2>3. QED
    BY <2>1, <2>2
<1>3. ASSUME NEW t \in Threads, Quit(t) PROVE WakeInv'
  <2>1. \A u \in Threads : call[u] = "queued" => call'[u] = "queued"
    BY <1>3 DEF Quit, InUserCode, TypeOK
  <2>2. UNCHANGED <<phase, pendingFunctors, early, eventfd>>
    BY <1>3 DEF Quit, loopVars, queueVars
  <2>3. QED
    BY <2>1, <2>2 DEF WakeInv, Elems
<1>4. ASSUME NEW t \in Threads, QuitWakeup(t) PROVE WakeInv'
  <2>1. \A u \in Threads : call[u] = "queued" => call'[u] = "queued"
    BY <1>4 DEF QuitWakeup, TypeOK
  <2>2. UNCHANGED <<phase, pendingFunctors, early>> /\ (eventfd > 0 => eventfd' > 0)
    BY <1>4 DEF QuitWakeup, Wakeup, loopVars, queueVars, TypeOK
  <2>3. QED
    BY <2>1, <2>2 DEF WakeInv, Elems
<1>5. ASSUME NEW f \in Functors, RunInLoopHere(f) PROVE WakeInv'
  BY <1>5 DEF RunInLoopHere, loopVars, WakeInv, Elems
<1>6. CASE EnterLoop
  BY <1>6 DEF EnterLoop, WakeInv, Steps, Elems, queueVars
<1>7. CASE LeaveLoop
  BY <1>7 DEF LeaveLoop, WakeInv, Steps, Elems, queueVars
<1>8. CASE EnterPoll
  BY <1>8 DEF EnterPoll, WakeInv, Steps, Elems, queueVars
<1>9. ASSUME NEW io \in SUBSET {"io"}, PollReturns(io) PROVE WakeInv'
  BY <1>9 DEF PollReturns, Steps, WakeInv
<1>10. CASE HandleWakeup
  BY <1>10 DEF HandleWakeup, Steps, WakeInv
<1>11. CASE HandleIo
  BY <1>11 DEF HandleIo, Steps, WakeInv
<1>12. CASE BeginPendingFunctors
  BY <1>12 DEF BeginPendingFunctors, Steps, WakeInv
<1>13. CASE SwapFunctors
  BY <1>13 DEF SwapFunctors, WakeInv, Elems
<1>14. CASE RunFunctor
  BY <1>14 DEF RunFunctor, loopVars, WakeInv, Elems
<1>15. CASE EndPendingFunctors
  BY <1>15 DEF EndPendingFunctors, WakeInv, Steps, Elems
<1>16. CASE UNCHANGED vars
  BY <1>16 DEF vars, loopVars, queueVars, WakeInv, Elems
<1>17. QED
  BY <1>1, <1>2, <1>3, <1>4, <1>5, <1>6, <1>7, <1>8, <1>9, <1>10,
     <1>11, <1>12, <1>13, <1>14, <1>15, <1>16
     DEF Next, LoopStep, CallStep, UserStep, PollReady, PollTimeout

-----------------------------------------------------------------------------
\* The inductive invariant holds in every reachable state.
THEOREM Inductive == Spec => []IInv
<1>1. Init => PhaseInv /\ WakeInv /\ QueueOrder
  <2> SUFFICES ASSUME Init PROVE PhaseInv /\ WakeInv /\ QueueOrder
    OBVIOUS
  <2>1. PhaseInv
    BY DEF Init, PhaseInv, Threads
  <2>2. WakeInv
    BY DEF Init, WakeInv, Elems
  <2>3. QueueOrder
    BY DEF Init, QueueOrder
  <2>4. QED
    BY <2>1, <2>2, <2>3
<1>2. TypeOK /\ TypeOK' /\ PhaseInv /\ WakeInv /\ QueueOrder /\ [Next]_vars
        => PhaseInv' /\ WakeInv' /\ QueueOrder'
  BY PhaseStep, WakeStep, OrderStep
<1>3. QED
  BY <1>1, <1>2, TypeCorrect, PTL DEF Spec, IInv

\* No wakeup is lost: however pushes, wakeups, reads of the eventfd and the swap
\* of doPendingFunctors() interleave, the loop does not block on a functor that
\* nobody will wake it for (EventLoop::queueInLoop, EventLoop::handleRead).
THEOREM WakeupNeverLost == Spec => []NoLostWakeup
<1>1. IInv => NoLostWakeup
  BY DEF IInv, WakeInv, NoLostWakeup
<1>2. QED
  BY <1>1, Inductive, PTL

\* The functors run in the order of their pushes, each once and none lost.
THEOREM OrderKept == Spec => []QueueOrder
<1>1. IInv => QueueOrder
  BY DEF IInv
<1>2. QED
  BY <1>1, Inductive, PTL

-----------------------------------------------------------------------------
\* A batch that is being run only shrinks, whatever its functors queue.
THEOREM BatchOnlyShrinks == Spec => BatchClosed
<1> DEFINE A == phase = "run" => Len(functors') <= Len(functors)
<1>1. TypeOK /\ [Next]_vars => [A]_vars
  <2> SUFFICES ASSUME TypeOK, Next, phase = "run"
               PROVE  Len(functors') <= Len(functors)
    BY DEF A
  <2>1. functors \in Seq(Functors) /\ Len(functors) \in Nat
    BY LenProperties DEF TypeOK
  <2>2. CASE RunFunctor
    BY <2>1, <2>2, HeadTailProperties DEF RunFunctor
  <2>3. CASE \E t \in Threads, f \in Functors : QueueInLoop(t, f)
    BY <2>1, <2>3 DEF QueueInLoop
  <2>4. CASE \E t \in Threads : CallStep(t) \/ Quit(t)
    BY <2>1, <2>4 DEF CallStep, QueueWakeup, QuitWakeup, Quit, queueVars
  <2>5. CASE (\E f \in Functors : RunInLoopHere(f)) \/ EndPendingFunctors
    BY <2>1, <2>5 DEF RunInLoopHere, EndPendingFunctors
  <2>6. ~( \/ EnterLoop \/ LeaveLoop \/ EnterPoll \/ HandleWakeup \/ HandleIo
          \/ BeginPendingFunctors \/ SwapFunctors \/ PollReady \/ PollTimeout)
    BY DEF EnterLoop, LeaveLoop, EnterPoll, HandleWakeup, HandleIo, BeginPendingFunctors,
           SwapFunctors, PollReady, PollTimeout, PollReturns, Steps
  <2>7. QED
    BY <2>2, <2>3, <2>4, <2>5, <2>6 DEF Next, LoopStep, UserStep
<1>2. QED
  BY <1>1, TypeCorrect, PTL DEF Spec, BatchClosed, A

-----------------------------------------------------------------------------
\* A functor not yet handed over is in no part of the queue.
LEMMA NewIsAbsent ==
    ASSUME TypeOK, QueueOrder, NEW f, IsNew(f)
    PROVE  /\ \A i \in DOMAIN (functors \o pendingFunctors) : (functors \o pendingFunctors)[i] # f
           /\ \A i \in DOMAIN ran : ran[i] # f
<1> DEFINE q == functors \o pendingFunctors
<1>1. q \in Seq(Functors) /\ ran \in Seq(Functors)
  BY ConcatProperties DEF TypeOK
<1>2. posted = ran \o q
  BY ConcatAssociative DEF TypeOK, QueueOrder
<1>3. /\ Len(posted) = Len(ran) + Len(q)
      /\ \A i \in 1 .. Len(ran) + Len(q) :
            posted[i] = IF i <= Len(ran) THEN ran[i] ELSE q[i - Len(ran)]
  BY <1>1, <1>2, ConcatProperties
<1>4. \A i \in 1 .. Len(posted) : posted[i] # f
  BY DEF IsNew, Elems, TypeOK
<1> HIDE DEF q
<1>5. \A i \in 1 .. Len(q) : q[i] # f
  <2> TAKE i \in 1 .. Len(q)
  <2>1. i + Len(ran) \in 1 .. Len(posted) /\ posted[i + Len(ran)] = q[i]
    BY <1>1, <1>3
  <2>2. QED
    BY <2>1, <1>4
<1>6. \A i \in 1 .. Len(ran) : ran[i] # f
  BY <1>1, <1>3, <1>4
<1>7. DOMAIN q = 1 .. Len(q) /\ DOMAIN ran = 1 .. Len(ran)
  BY <1>1
<1>8. QED
  BY <1>5, <1>6, <1>7 DEF q

\* EventLoop's two vectors implement the abstract queue: every step is a step of
\* TaskQueue or leaves its variables alone (pushing accepts, calling a functor of
\* the batch runs, the swap changes nothing).
THEOREM Refinement == Spec => ImplementsTaskQueue
<1>1. Init => Abstract!Init
  BY DEF Init, Abstract!Init
<1>2. IInv /\ [Next]_vars => [Abstract!Next]_(Abstract!vars)
  <2> SUFFICES ASSUME TypeOK, PhaseInv, QueueOrder, [Next]_vars
               PROVE  [Abstract!Next]_(Abstract!vars)
    BY DEF IInv
  <2> USE DEF Abstract!vars, Abstract!Next
  <2>1. ASSUME NEW t \in Threads, NEW f \in Functors, QueueInLoop(t, f)
        PROVE  Abstract!Accept(f)
    <3>1. functors \o Append(pendingFunctors, f) = Append(functors \o pendingFunctors, f)
      <4>1. <<>> \o functors = functors /\ <<>> \in Seq(Functors)
        BY ConcatEmptySeq DEF TypeOK
      <4>2. (<<>> \o functors) \o Append(pendingFunctors, f)
              = Append((<<>> \o functors) \o pendingFunctors, f)
        BY <4>1, PushTail DEF TypeOK
      <4>3. QED
        BY <4>1, <4>2
    <3>2. IsNew(f)
      BY <2>1 DEF QueueInLoop
    <3>3. QED
      BY <2>1, <3>1, <3>2, NewIsAbsent DEF QueueInLoop, Abstract!Accept
  <2>2. CASE RunFunctor
    <3>1. functors # <<>>
      BY <2>2 DEF RunFunctor
    <3>2. /\ functors \o pendingFunctors # <<>>
          /\ Head(functors \o pendingFunctors) = Head(functors)
          /\ Tail(functors \o pendingFunctors) = Tail(functors) \o pendingFunctors
      BY <3>1, HeadOfConcat DEF TypeOK
    <3>3. QED
      BY <2>2, <3>2 DEF RunFunctor, Abstract!Run
  <2>3. CASE SwapFunctors
    <3>1. functors = <<>>
      BY <2>3 DEF SwapFunctors, Steps, PhaseInv
    <3>2. <<>> \o pendingFunctors = pendingFunctors /\ pendingFunctors \o <<>> = pendingFunctors
      BY ConcatEmptySeq DEF TypeOK
    <3>3. QED
      BY <2>3, <3>1, <3>2 DEF SwapFunctors
  <2>4. ASSUME NEW t \in Threads, QueueWakeup(t) PROVE UNCHANGED Abstract!vars
    BY <2>4 DEF QueueWakeup, queueVars
  <2>5. ASSUME NEW t \in Threads, Quit(t) PROVE UNCHANGED Abstract!vars
    BY <2>5 DEF Quit, queueVars
  <2>6. ASSUME NEW t \in Threads, QuitWakeup(t) PROVE UNCHANGED Abstract!vars
    BY <2>6 DEF QuitWakeup, queueVars
  <2>7. ASSUME NEW f \in Functors, RunInLoopHere(f) PROVE UNCHANGED Abstract!vars
    BY <2>7 DEF RunInLoopHere
  <2>8. CASE EnterLoop
    BY <2>8 DEF EnterLoop, queueVars
  <2>9. CASE LeaveLoop
    BY <2>9 DEF LeaveLoop, queueVars
  <2>10. CASE EnterPoll
    BY <2>10 DEF EnterPoll, queueVars
  <2>11. ASSUME NEW io \in SUBSET {"io"}, PollReturns(io) PROVE UNCHANGED Abstract!vars
    BY <2>11 DEF PollReturns, queueVars
  <2>12. CASE HandleWakeup
    BY <2>12 DEF HandleWakeup, queueVars
  <2>13. CASE HandleIo
    BY <2>13 DEF HandleIo, queueVars
  <2>14. CASE BeginPendingFunctors
    BY <2>14 DEF BeginPendingFunctors, queueVars
  <2>15. CASE EndPendingFunctors
    BY <2>15 DEF EndPendingFunctors
  <2>16. CASE UNCHANGED vars
    BY <2>16 DEF vars, queueVars
  <2>17. QED
    BY <2>1, <2>2, <2>3, <2>4, <2>5, <2>6, <2>7, <2>8,
       <2>9, <2>10, <2>11, <2>12, <2>13, <2>14, <2>15, <2>16
       DEF Next, LoopStep, CallStep, UserStep, PollReady, PollTimeout
<1>3. QED
  BY <1>1, <1>2, Inductive, PTL DEF Spec, ImplementsTaskQueue, Abstract!Spec
=============================================================================
