---------------------------- MODULE MutexProofs ----------------------------
(***************************************************************************)
(* Proofs about module Mutex, for any number of threads.  MutexSpec        *)
(* implies the specification of the scheduler, whose invariant then holds; *)
(* from it follow mutual exclusion, that no waiter is forgotten, and the   *)
(* safety part of module Lock.                                             *)
(***************************************************************************)
EXTENDS Mutex, SchedProofs

\* Every step of the mutex is a step of the scheduler.
LEMMA MutexStepIsSched ==
    ASSUME MutexConstants, [MutexNext]_mutexVars
    PROVE  [Next]_vars
<1>1. CASE TryFails
  <2>1. \E q \in WaitQueue, s \in Waiting : Wait(q, s)
    BY <1>1 DEF TryFails, MutexConstants, Waiting
  <2> QED BY <2>1 DEF Next
<1>2. CASE TrySucceeds
  BY <1>2 DEF TrySucceeds, Next
<1>3. CASE Unlock
  <2>1. \E q \in WaitQueue : WakeUp(q)
    BY <1>3 DEF Unlock, MutexConstants
  <2> QED BY <2>1 DEF Next
<1>4. CASE MutexYield
  BY <1>4 DEF MutexYield, Next
<1>5. CASE Other
  <2>1. {} \in SUBSET Device /\ {} \in SUBSET {}
    OBVIOUS
  <2> QED BY <1>5, <2>1, Zenon DEF Other, Next
<1>6. CASE UNCHANGED mutexVars
  BY <1>6 DEF mutexVars
<1> QED BY <1>1, <1>2, <1>3, <1>4, <1>5, <1>6 DEF MutexNext

\* A mutex is used over the scheduler that module Sched describes.
THEOREM MutexRunsOnSched == MutexSpec => Spec
BY MutexStepIsSched, MutexConstants, PTL DEF MutexSpec, MutexInit, Spec

-----------------------------------------------------------------------------
(* Mutual exclusion                                                        *)

MutexType == /\ lock \in {0, 1}
             /\ pc \in [Thread -> {"out", "wait", "try", "in"}]

MutexInv == MutexType /\ LockMatchesHolder /\ NoWaiterForgotten

\* What every step that neither takes nor gives the lock leaves true: those
\* that only let threads inside mutex_lock() change their place there.
LEMMA MutexOtherSteps ==
    ASSUME MutexInv, pc' \in [Thread -> {"out", "wait", "try", "in"}],
           UNCHANGED <<lock, waitq>>,
           \A t \in Thread : pc'[t] = "in" <=> pc[t] = "in",
           \A t \in Thread : pc[t] \in {"wait", "try"} => pc'[t] \in {"wait", "try"}
    PROVE  MutexInv'
BY DEF MutexInv, MutexType, LockMatchesHolder, NoWaiterForgotten, Holders, IsElem

LEMMA MutexInitInv == MutexConstants /\ MutexInit => MutexInv
<1>1. \A t : ~IsElem(t, <<>>)
  BY DEF IsElem
<1> QED BY <1>1 DEF MutexConstants, MutexInit, Init, MutexInv, MutexType, LockMatchesHolder,
                    NoWaiterForgotten, Holders

\* The step that queues the thread is taken with the lock held.
LEMMA TryFailsInv == ASSUME MutexConstants, Inv, MutexInv, TryFails PROVE MutexInv'
<1> USE DEF MutexConstants, Inv, QueueInv, QueueType
<1>1. lock = 1 /\ lock' = lock /\ pc[current] \in {"out", "try"} /\ current \in Thread
  BY DEF TryFails, Locked
<1>2. /\ pc' = [pc EXCEPT ![current] = "wait"]
      /\ waitq' = [waitq EXCEPT ![wq] = Append(@, current)]
  BY DEF TryFails, Wait, Goto
<1>3. MutexType' /\ LockMatchesHolder'
  BY <1>1, <1>2 DEF MutexInv, MutexType, LockMatchesHolder, Holders
<1>4. waitq[wq] \in Seq(Thread) /\ waitq'[wq] = Append(waitq[wq], current)
  BY <1>2
<1>5. \A t : IsElem(t, waitq'[wq]) <=> IsElem(t, waitq[wq]) \/ t = current
  BY <1>1, <1>4, AppendElems
<1>6. \A t \in Thread : IsElem(t, waitq'[wq]) => pc'[t] \in {"wait", "try"}
  BY <1>1, <1>2, <1>5 DEF MutexInv, MutexType, NoWaiterForgotten
<1>7. NoWaiterForgotten'
  BY <1>1, <1>6 DEF NoWaiterForgotten, IsElem
<1> QED BY <1>3, <1>7 DEF MutexInv

\* The thread that takes the lock runs, so it is on no queue.
LEMMA TrySucceedsInv == ASSUME MutexConstants, Inv, MutexInv, TrySucceeds PROVE MutexInv'
<1> USE DEF MutexConstants, Inv, QueueInv, QueueType
<1>1. /\ lock = 0 /\ lock' = 1 /\ current \in Thread /\ state[current] = "RUNNING"
      /\ pc' = [pc EXCEPT ![current] = "in"] /\ waitq' = waitq
  BY DEF TrySucceeds, Locked, Section, Goto, queues, MutexInv, MutexType
<1>2. MutexType' /\ LockMatchesHolder'
  BY <1>1 DEF MutexInv, MutexType, LockMatchesHolder, Holders
<1>3. ~IsElem(current, waitq[wq])
  BY <1>1 DEF QueueDiscipline, Waiting
<1>4. NoWaiterForgotten'
  BY <1>1, <1>3 DEF MutexInv, MutexType, NoWaiterForgotten, IsElem
<1> QED BY <1>2, <1>4 DEF MutexInv

\* An unlock empties the queue as it frees the lock.
LEMMA UnlockInv == ASSUME MutexConstants, Inv, MutexInv, Unlock PROVE MutexInv'
<1> USE DEF MutexConstants, Inv, QueueInv, QueueType
<1>1. /\ lock' = 0 /\ current \in Thread /\ pc[current] = "in"
      /\ pc' = [pc EXCEPT ![current] = "out"] /\ waitq' = [waitq EXCEPT ![wq] = <<>>]
  BY DEF Unlock, WakeUp, Wake, Goto
<1>2. MutexType' /\ LockMatchesHolder'
  BY <1>1 DEF MutexInv, MutexType, LockMatchesHolder, Holders
<1>3. waitq'[wq] = <<>> /\ \A t : ~IsElem(t, <<>>)
  BY <1>1 DEF IsElem
<1>4. NoWaiterForgotten'
  BY <1>1, <1>3 DEF NoWaiterForgotten, IsElem
<1> QED BY <1>2, <1>4 DEF MutexInv

LEMMA MutexYieldInv == ASSUME Inv, MutexInv, MutexYield PROVE MutexInv'
<1>1. /\ current \in Thread /\ UNCHANGED <<lock, waitq>>
      /\ pc' = [pc EXCEPT ![current] = IF @ = "wait" THEN "try" ELSE @]
  BY DEF MutexYield, Yield, SchedulePreemptDisabled, queues, Goto, Inv, QueueInv, QueueType
<1> QED BY <1>1, MutexOtherSteps DEF MutexInv, MutexType

LEMMA OtherInv == ASSUME MutexInv, Other PROVE MutexInv'
<1>1. UNCHANGED <<lock, pc, waitq>>
  BY DEF Other, ThreadCreate, Fetch, Clear, Leave, HandlerSchedule, SchedulePreemptDisabled,
         Irq, queues
<1> QED BY <1>1, MutexOtherSteps DEF MutexInv, MutexType

\* The two invariants hold over those of the scheduler.
THEOREM MutexInvariance == MutexSpec => []MutexInv
<1>1. MutexInv /\ Inv /\ [MutexNext]_mutexVars => MutexInv'
  <2> SUFFICES ASSUME MutexInv, Inv, [MutexNext]_mutexVars PROVE MutexInv'
    OBVIOUS
  <2>1. CASE MutexNext
    BY <2>1, MutexConstants, TryFailsInv, TrySucceedsInv, UnlockInv, MutexYieldInv, OtherInv
       DEF MutexNext
  <2>2. CASE UNCHANGED mutexVars
    BY <2>2 DEF mutexVars, vars, MutexInv, MutexType, LockMatchesHolder, NoWaiterForgotten, Holders
  <2> QED BY <2>1, <2>2
<1> QED BY <1>1, MutexInitInv, MutexConstants, MutexRunsOnSched, Invariance, PTL DEF MutexSpec

\* At most one thread is between mutex_lock() and mutex_unlock(), and m->lock
\* says whether there is one.
THEOREM MutualExclusion == MutexSpec => []LockMatchesHolder
<1>1. MutexInv => LockMatchesHolder
  BY DEF MutexInv
<1> QED BY <1>1, MutexInvariance, PTL

\* No thread sleeps on a free mutex.
THEOREM NoWaiterIsForgotten == MutexSpec => []NoWaiterForgotten
<1>1. MutexInv => NoWaiterForgotten
  BY DEF MutexInv
<1> QED BY <1>1, MutexInvariance, PTL

-----------------------------------------------------------------------------
(* The mutex implements module Lock, but for Lock's fairness.              *)

InLock == {t \in Thread : pc[t] \in {"wait", "try"}}

LEMMA StepImplementsLock ==
    ASSUME Inv, MutexInv, [MutexNext]_mutexVars
    PROVE  [L!Next]_<<InLock, Holders>>
<1> USE DEF MutexInv, MutexType, InLock, Holders
<1>1. current \in Thread
  BY DEF Inv, QueueInv, QueueType
<1>2. CASE TryFails
  <2>1. pc' = [pc EXCEPT ![current] = "wait"] /\ pc[current] \in {"out", "try"}
    BY <1>2 DEF TryFails, Goto
  <2>2. CASE pc[current] = "out"
    <3>1. \E t \in Thread : L!Request(t)
      BY <1>1, <2>1, <2>2 DEF L!Request
    <3>2. L!Next
      BY <3>1 DEF L!Next
    <3> QED BY <3>2
  <2>3. CASE pc[current] = "try"
    BY <1>1, <2>1, <2>3
  <2> QED BY <2>1, <2>2, <2>3
<1>3. CASE TrySucceeds
  <2>1. /\ pc' = [pc EXCEPT ![current] = "in"] /\ pc[current] \in {"out", "try"}
        /\ lock = 0
    BY <1>3 DEF TrySucceeds, Goto, Locked
  <2>2. Holders = {}
    BY <2>1 DEF LockMatchesHolder
  <2>3. \E t \in Thread : L!Acquire(t)
    BY <1>1, <2>1, <2>2 DEF L!Acquire
  <2>4. L!Next
    BY <2>3 DEF L!Next
  <2> QED BY <2>4
<1>4. CASE Unlock
  <2>1. pc' = [pc EXCEPT ![current] = "out"] /\ pc[current] = "in"
    BY <1>4 DEF Unlock, Goto
  <2>2. Holders = {current}
    BY <1>1, <2>1 DEF LockMatchesHolder
  <2>3. \E t \in Thread : L!Release(t)
    BY <1>1, <2>1, <2>2 DEF L!Release
  <2>4. L!Next
    BY <2>3 DEF L!Next
  <2> QED BY <2>4
<1>5. CASE MutexYield
  <2>1. pc' = [pc EXCEPT ![current] = IF @ = "wait" THEN "try" ELSE @]
    BY <1>5 DEF MutexYield, Goto
  <2> QED BY <1>1, <2>1
<1>6. CASE Other
  BY <1>6 DEF Other
<1>7. CASE UNCHANGED mutexVars
  BY <1>7 DEF mutexVars
<1> QED BY <1>2, <1>3, <1>4, <1>5, <1>6, <1>7 DEF MutexNext

\* Every behaviour of the mutex is one that Lock allows: a thread that waits has
\* asked, it gets a free lock, and nobody but the holder gives it back.
THEOREM MutexImplementsLock == MutexSpec => L!Init /\ [][L!Next]_<<InLock, Holders>>
<1>1. MutexInit => L!Init
  BY DEF MutexInit, L!Init, InLock, Holders
<1> QED BY <1>1, StepImplementsLock, MutexRunsOnSched, Invariance, MutexInvariance, PTL
        DEF MutexSpec
=============================================================================
