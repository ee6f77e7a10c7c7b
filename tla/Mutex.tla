------------------------------- MODULE Mutex -------------------------------
(***************************************************************************)
(* One mutex of kernel/schedc.c over the scheduler: every step is a step   *)
(* of module Sched in which threads lock and unlock.  The wait queue m.wq  *)
(* is one of Sched's, m.lock is added.                                     *)
(***************************************************************************)
EXTENDS Sched

CONSTANT wq           \* the mutex's wait queue

ASSUME MutexConstants == wq \in WaitQueue

VARIABLES lock,       \* m->lock
          pc          \* thread -> "out", or in mutex_lock() "wait"ing for its
                      \* schedule() or about to "try", or "in" possession

mutexVars == <<vars, lock, pc>>

MutexInit == Init /\ lock = 0 /\ pc = [t \in Thread |-> "out"]

Goto(p) == pc' = [pc EXCEPT ![current] = p]

\* Mutant: the lock is tested once, not in a loop.
LockedAtFirst == lock = 1 /\ pc[current] = "out"
\* The condition of mutex_lock()'s loop.
Locked == lock = 1

\* One test of m->lock, with preemption disabled: the thread queues itself ...
TryFails == /\ pc[current] \in {"out", "try"} /\ Locked
            /\ Wait(wq, "MUTEX_WAITING")
            /\ Goto("wait")
            /\ UNCHANGED lock

\* ... or takes the lock.
TrySucceeds == /\ pc[current] \in {"out", "try"} /\ ~Locked
               /\ Section
               /\ lock' = 1
               /\ Goto("in")

\* Mutant: nobody is woken.
UnlockSilently == /\ pc[current] = "in"
                  /\ Section
                  /\ lock' = 0
                  /\ Goto("out")
\* mutex_unlock()
Unlock == /\ pc[current] = "in"
          /\ WakeUp(wq)
          /\ lock' = 0
          /\ Goto("out")

\* schedule(): the one in mutex_lock()'s loop, or any other.
MutexYield == /\ Yield
              /\ pc[current] # "try"
              /\ Goto(IF pc[current] = "wait" THEN "try" ELSE pc[current])
              /\ UNCHANGED lock

\* Everything that the mutex has no part in.
Other == /\ \/ \E t \in Thread : ThreadCreate(t)
            \/ Fetch \/ Clear \/ Leave({}, {})
            \/ HandlerSchedule
            \/ \E k \in 0 .. MaxLag, timer \in BOOLEAN : Irq(k, {}, {}, timer)
         /\ UNCHANGED <<lock, pc>>

MutexNext == TryFails \/ TrySucceeds \/ Unlock \/ MutexYield \/ Other

MutexSpec == MutexInit /\ [][MutexNext]_mutexVars

\* The next step of irq_sched(), which no interrupt can put off for ever.
IrqSchedStep == /\ Fetch \/ Clear \/ Leave({}, {}) \/ HandlerSchedule
                /\ UNCHANGED <<lock, pc>>

\* The next step of a thread in mutex_lock()'s loop.
LockStep == pc[current] \in {"wait", "try"} /\ (TryFails \/ TrySucceeds \/ MutexYield)

\* What runs again and again gets to its code, for the next switch is a quota
\* away, which is longer than an irq_sched().  There a thread in mutex_lock()'s
\* loop goes on, one that holds the lock unlocks in the end, and one that is
\* not idle calls schedule() in the end.  Nobody ever has to lock.
MutexFairSpec ==
    /\ MutexSpec
    /\ WF_mutexVars(IrqSchedStep)
    /\ []<>(pc[current] \in {"wait", "try"}) => []<><<LockStep>>_mutexVars
    /\ []<>(pc[current] = "in") => []<><<Unlock>>_mutexVars
    /\ []<>(current # Idle) => []<><<MutexYield>>_mutexVars

-----------------------------------------------------------------------------
(* Properties                                                              *)

Holders == {t \in Thread : pc[t] = "in"}

\* The lock is taken exactly while one thread is between mutex_lock() and
\* mutex_unlock(), whatever preempts it in between.
LockMatchesHolder ==
    /\ \A s, t \in Holders : s = t
    /\ lock = 1 <=> Holders # {}

\* A thread that sleeps on the mutex has somebody left to wake it, and only
\* threads inside mutex_lock() are on its queue: the test of the lock and the
\* queuing cannot be separated by an unlock.
NoWaiterForgotten ==
    /\ waitq[wq] # <<>> => lock = 1
    /\ \A t \in Thread : IsElem(t, waitq[wq]) => pc[t] \in {"wait", "try"}

\* The mutex keeps the promise of module Lock.
L == INSTANCE Lock WITH waiting <- {t \in Thread : pc[t] \in {"wait", "try"}},
                        holders <- Holders
ImplementsLock == L!Spec
=============================================================================
