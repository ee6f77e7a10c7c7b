---------------------------- MODULE SleepProofs ----------------------------
(***************************************************************************)
(* Proofs about module Sleep, for any number of threads and slots.  The    *)
(* invariant SleepInv holds together with that of the scheduler: it needs  *)
(* where the threads are, and the scheduler needs that what the timer's    *)
(* handler wakes is the queue of a thread.                                 *)
(***************************************************************************)
EXTENDS Sleep, SchedProofs

OnWheel(t) == \E s \in Slot : IsElem(t, timer_heads[s])

SleepType ==
    /\ timer_heads \in [Slot -> Seq(Thread)]
    /\ timer_req_mask \in SUBSET Slot /\ timer_recv_mask \in SUBSET Slot
    /\ timer_ticks \in Slot /\ firing \in SUBSET Slot
    /\ handler \in {"idle", "fire"}
    /\ step \in [Thread -> {"no", "armed", "wait", "schedule"}]
    /\ left \in [Thread -> 0 .. SCHED_MAX_TOUT_TICKS]

\* sched_irq_timer() is the handler that runs, and what it fires is no longer
\* requested.
FiringInv ==
    /\ handler = "fire" => phase[current] = "run" /\ IRQ_SCHED_TIMER \in mask[current]
    /\ handler = "idle" => firing = {}
    /\ firing \intersect timer_req_mask = {}

\* A timer is queued once.
QueuedOnce ==
    /\ \A s \in Slot : Distinct(timer_heads[s])
    /\ \A r, s \in Slot, t \in Thread :
           IsElem(t, timer_heads[r]) /\ IsElem(t, timer_heads[s]) => r = s

\* The thread of a queued timer is about to wait or waits, and has been
\* switched out once it has called schedule().
SleeperInv ==
    \A t \in Thread : OnWheel(t) =>
        \/ step[t] = "armed"
        \/ step[t] \in {"wait", "schedule"} /\ state[t] = "WAITING"
              /\ (step[t] = "schedule" => t # current)

\* The wait queue of a timer is its thread's alone.
OwnQueue == \A q, t \in Thread : IsElem(t, waitq[q]) => t = q

\* A timer that is not due is on the slot that its ticks lead to.
LeftInv ==
    \A s \in Slot, t \in Thread : IsElem(t, timer_heads[s]) =>
        \/ s \in timer_recv_mask \union firing
        \/ /\ left[t] # 0
           /\ s = (timer_ticks + left[t]) % SCHED_MAX_TOUT_TICKS

SleepInv == /\ SleepType /\ FiringInv /\ WheelExact /\ QueuedOnce
            /\ SleeperInv /\ OwnQueue /\ LeftInv

-----------------------------------------------------------------------------
(* Every step is a step of the scheduler.                                  *)

LEMMA DeviceIsTimer == SleepConstants => IRQ_SCHED_TIMER \in Device /\ Device = {0}
BY DEF SleepConstants, IRQ_SCHED_TIMER, Device, SchedIrq

LEMMA SleepStepIsSched ==
    ASSUME SleepConstants, SleepType, current \in Thread, [SleepNext]_sleepVars
    PROVE  [Next]_vars
<1>1. /\ WaitQueue = Thread /\ IRQ_SCHED_TIMER \in Device /\ IRQ_SCHED_TIMER \in SchedIrq
      /\ \A n : TimerRaise(n) \in SUBSET Device
      /\ {} \in SUBSET Device /\ "WAITING" \in Waiting
  BY DeviceIsTimer DEF SleepConstants, TimerRaise, Device, Waiting
<1>2. CASE \E d \in 1 .. SCHED_MAX_TOUT_TICKS : Arm(d)
  BY <1>2 DEF Arm
<1>3. CASE SleepWait
  <2>1. \E q \in WaitQueue, s \in Waiting : Wait(q, s)
    BY <1>1, <1>3 DEF SleepWait
  <2> QED BY <2>1 DEF Next
<1>4. CASE SleepYield
  BY <1>4 DEF SleepYield, Next
<1>5. CASE SleepReturn \/ TimerTake
  BY <1>5 DEF SleepReturn, TimerTake
<1>6. CASE \E k \in 0 .. MaxLag, timer \in BOOLEAN : SleepIrq(k, timer)
  <2>1. PICK k \in 0 .. MaxLag, timer \in BOOLEAN : SleepIrq(k, timer)
    BY <1>6
  <2>2. \E D \in SUBSET Device : \E late \in SUBSET D : Irq(k, D, late, timer)
    BY <1>1, <2>1 DEF SleepIrq
  <2> QED BY <2>2 DEF Next
<1>7. CASE SleepLeave
  <2>1. \E D \in SUBSET Device : \E late \in SUBSET D : Leave(D, late)
    BY <1>1, <1>7 DEF SleepLeave
  <2> QED BY <2>1 DEF Next
<1>8. CASE TimerDone
  <2>1. \E i \in SchedIrq : HandlerDone(i)
    BY <1>1, <1>8 DEF TimerDone
  <2> QED BY <2>1 DEF Next
<1>9. CASE \E s \in Slot : TimerFire(s)
  <2>1. PICK s \in Slot : TimerFire(s)
    BY <1>9
  <2>2. timer_heads[s] \in Seq(Thread) /\ timer_heads[s] # <<>>
    BY <2>1 DEF SleepType, TimerFire
  <2>3. Head(timer_heads[s]) \in Thread
    BY <2>2, TailElems
  <2>4. \E q \in WaitQueue : HandlerWake(q)
    BY <1>1, <2>1, <2>3 DEF TimerFire
  <2> QED BY <2>4 DEF Next
<1>10. CASE /\ \/ \E t \in Thread : step[current] = "no" /\ ThreadCreate(t)
               \/ Fetch \/ Clear \/ HandlerSchedule
            /\ UNCHANGED timerVars
  BY <1>10 DEF Next
<1>11. CASE UNCHANGED sleepVars
  BY <1>11 DEF sleepVars
<1> QED BY <1>2, <1>3, <1>4, <1>5, <1>6, <1>7, <1>8, <1>9, <1>10, <1>11 DEF SleepNext

-----------------------------------------------------------------------------
(* Steps that leave the timers alone.                                      *)

\* schedule_preempt_disabled() switches a thread that waits out, and neither
\* wakes one nor switches to one.
LEMMA ScheduleKeepsWaiting ==
    ASSUME SchedConstants, Inv, SchedulePreemptDisabled,
           NEW t \in Thread, state[t] = "WAITING"
    PROVE  /\ state'[t] = "WAITING" /\ waitq' = waitq
           /\ (t # current \/ current # Idle) => t # current'
<1> USE DEF Inv, QueueInv, QueueType
<1>1. ready # <<>> => Chosen \in Thread /\ IsElem(Chosen, ready)
  BY ChosenElems DEF QueueDiscipline, SchedConstants
<1>2. ready # <<>> => state[Chosen] = "READY"
  BY <1>1 DEF QueueDiscipline
<1>3. ready = <<>> => current = Idle
  BY InvAssertions DEF AssertionsHold
<1>4. CASE ready = <<>>
  BY <1>3, <1>4 DEF SchedulePreemptDisabled, queues
<1>5. CASE ready # <<>> /\ OnlyIdleWaits
  BY <1>5 DEF SchedulePreemptDisabled, queues, OnlyIdleWaits
<1>6. CASE ready # <<>> /\ ~OnlyIdleWaits
  BY <1>1, <1>2, <1>6 DEF SchedulePreemptDisabled
<1> QED BY <1>4, <1>5, <1>6

\* With the timers as they are, what counts is that nobody who waits is woken
\* or goes on, that no queue gets another thread, and the handler's place.
LEMMA TimersAlone ==
    ASSUME SleepInv, UNCHANGED timerVars,
           \A t \in Thread : state[t] = "WAITING" =>
               state'[t] = "WAITING" /\ (t # current => t # current'),
           \A q, t \in Thread : IsElem(t, waitq'[q]) => IsElem(t, waitq[q]),
           handler = "fire" => phase'[current'] = "run" /\ IRQ_SCHED_TIMER \in mask'[current']
    PROVE  SleepInv'
<1> USE DEF SleepInv, timerVars
<1>1. SleepType' /\ FiringInv' /\ WheelExact' /\ QueuedOnce' /\ LeftInv'
  BY DEF SleepType, FiringInv, WheelExact, QueuedOnce, LeftInv
<1>2. SleeperInv'
  BY DEF SleeperInv, OnWheel
<1>3. OwnQueue'
  BY DEF OwnQueue
<1> QED BY <1>1, <1>2, <1>3

\* The handler is not interrupted by steps of threads.
LEMMA IdleOutOfRun ==
    ASSUME SleepInv, phase[current] # "run"
    PROVE  handler = "idle" /\ firing = {}
BY DEF SleepInv, SleepType, FiringInv

LEMMA SleepOtherInv ==
    ASSUME SchedConstants, SleepConstants, Inv, SleepInv, UNCHANGED timerVars,
           \/ \E t \in Thread : step[current] = "no" /\ ThreadCreate(t)
           \/ Fetch \/ Clear \/ HandlerSchedule
    PROVE  SleepInv'
<1>1. CASE \E t \in Thread : ThreadCreate(t)
  <2>1. PICK t \in Thread : ThreadCreate(t)
    BY <1>1
  <2>2. handler # "fire"
    BY <2>1, IdleOutOfRun DEF ThreadCreate, InCode
  <2>3. /\ state[t] = "none" /\ state' = [state EXCEPT ![t] = "READY"]
        /\ current' = current /\ waitq' = waitq
    BY <2>1 DEF ThreadCreate
  <2>4. \A u \in Thread : state[u] = "WAITING" => state'[u] = "WAITING"
    BY <2>3 DEF Inv, QueueInv, QueueType
  <2> QED BY <2>2, <2>3, <2>4, TimersAlone
<1>2. CASE Fetch \/ Clear
  <2>1. handler # "fire"
    BY <1>2, IdleOutOfRun DEF Fetch, Clear
  <2> QED BY <1>2, <2>1, TimersAlone DEF Fetch, Clear, queues
<1>3. CASE HandlerSchedule
  <2>1. handler # "fire"
    <3>1. /\ IsNext(1) /\ mask[current] \in SUBSET SchedIrq
      BY <1>3 DEF HandlerSchedule, ScheduleIsNext, SleepConstants, Inv, QueueInv, QueueType,
                  ControlInv, ControlType
    <3>2. 0 \notin mask[current]
      BY <3>1 DEF IsNext
    <3> QED BY <3>2 DEF SleepInv, FiringInv, IRQ_SCHED_TIMER
  <2>2. SchedulePreemptDisabled
    BY <1>3 DEF HandlerSchedule
  <2>3. waitq' = waitq
    BY <2>2 DEF SchedulePreemptDisabled, queues
  <2>4. \A t \in Thread : state[t] = "WAITING" =>
            state'[t] = "WAITING" /\ (t # current => t # current')
    BY <2>2, ScheduleKeepsWaiting
  <2> QED BY <2>1, <2>3, <2>4, TimersAlone
<1> QED BY <1>1, <1>2, <1>3

-----------------------------------------------------------------------------
(* Steps of threads.                                                       *)

\* A thread out of msleep() has no timer queued, and adds one.
LEMMA ArmInv ==
    ASSUME SleepConstants, Inv, SleepInv, NEW d \in 1 .. SCHED_MAX_TOUT_TICKS, Arm(d)
    PROVE  SleepInv'
<1> DEFINE ft == (timer_ticks + d) % SCHED_MAX_TOUT_TICKS
<1> USE DEF SleepInv, SleepType
<1>1. /\ ft \in Slot /\ current \in Thread /\ d \in 0 .. SCHED_MAX_TOUT_TICKS
      /\ handler = "idle" /\ firing = {}
  <2>1. ft \in Slot /\ d \in 0 .. SCHED_MAX_TOUT_TICKS
    BY DEF SleepConstants, Slot
  <2>2. phase[current] # "run"
    BY DEF Arm, InCode
  <2> QED BY <2>1, <2>2, IdleOutOfRun DEF Inv, QueueInv, QueueType
<1>2. /\ timer_heads' = [timer_heads EXCEPT ![ft] = Append(@, current)]
      /\ timer_req_mask' = timer_req_mask \union {ft}
      /\ step' = [step EXCEPT ![current] = "armed"] /\ left' = [left EXCEPT ![current] = d]
      /\ step[current] = "no"
      /\ UNCHANGED <<vars, timer_recv_mask, timer_ticks, firing, handler>>
  BY DEF Arm
<1> HIDE DEF ft
<1>3. /\ timer_heads'[ft] \in Seq(Thread) /\ timer_heads'[ft] # <<>>
      /\ \A t : IsElem(t, timer_heads'[ft]) <=> IsElem(t, timer_heads[ft]) \/ t = current
      /\ Distinct(timer_heads[ft]) /\ ~IsElem(current, timer_heads[ft])
            => Distinct(timer_heads'[ft])
      /\ \A s \in Slot \ {ft} : timer_heads'[s] = timer_heads[s]
  BY <1>1, <1>2, AppendElems
<1>4. \A s \in Slot : ~IsElem(current, timer_heads[s])
  BY <1>1, <1>2 DEF SleeperInv, OnWheel
<1>5. SleepType'
  BY <1>1, <1>2, <1>3
<1>6. FiringInv' /\ OwnQueue'
  BY <1>1, <1>2 DEF FiringInv, OwnQueue, vars
<1>7. WheelExact'
  BY <1>1, <1>2, <1>3 DEF WheelExact
<1>8. QueuedOnce'
  <2>1. \A s \in Slot : Distinct(timer_heads'[s])
    BY <1>1, <1>3, <1>4 DEF QueuedOnce
  <2>2. ASSUME NEW s \in Slot, NEW t, IsElem(t, timer_heads'[s])
        PROVE  (t = current /\ s = ft) \/ (t # current /\ IsElem(t, timer_heads[s]))
    <3>1. CASE s = ft
      <4>1. IsElem(t, timer_heads'[ft]) /\ ~IsElem(current, timer_heads[ft])
        BY <1>1, <1>4, <2>2, <3>1
      <4>2. t = current \/ IsElem(t, timer_heads[ft])
        BY <1>3, <4>1
      <4> QED BY <3>1, <4>1, <4>2
    <3>2. CASE s # ft
      <4>1. timer_heads'[s] = timer_heads[s]
        BY <1>3, <3>2
      <4> QED BY <1>4, <2>2, <4>1
    <3> QED BY <3>1, <3>2
  <2>3. ASSUME NEW r \in Slot, NEW s \in Slot, NEW t \in Thread,
               IsElem(t, timer_heads'[r]), IsElem(t, timer_heads'[s])
        PROVE  r = s
    BY <2>2, <2>3 DEF QueuedOnce
  <2> QED BY <2>1, <2>3 DEF QueuedOnce
<1>9. SleeperInv'
  <2>1. \A t \in Thread : t # current /\ OnWheel(t)' => OnWheel(t)
    BY <1>1, <1>3 DEF OnWheel
  <2> QED BY <1>1, <1>2, <2>1 DEF SleeperInv, vars, queues
<1>10. LeftInv'
  <2> SUFFICES ASSUME NEW s \in Slot, NEW t \in Thread, IsElem(t, timer_heads'[s])
               PROVE  \/ s \in timer_recv_mask \union firing
                      \/ /\ left'[t] # 0
                         /\ s = (timer_ticks + left'[t]) % SCHED_MAX_TOUT_TICKS
    BY <1>2 DEF LeftInv
  <2>1. CASE t = current
    <3>1. s = ft /\ left'[t] = d /\ d # 0
      BY <1>1, <1>2, <1>3, <1>4, <2>1
    <3> QED BY <3>1 DEF ft
  <2>2. CASE t # current
    <3>1. IsElem(t, timer_heads[s]) /\ left'[t] = left[t]
      BY <1>1, <1>2, <1>3, <2>2
    <3> QED BY <3>1 DEF LeftInv
  <2> QED BY <2>1, <2>2
<1> QED BY <1>5, <1>6, <1>7, <1>8, <1>9, <1>10

\* The thread queues itself on the queue of its own timer.
LEMMA SleepWaitInv ==
    ASSUME SleepConstants, Inv, SleepInv, SleepWait PROVE SleepInv'
<1> USE DEF SleepInv, SleepType, Inv, QueueInv, QueueType, SleepConstants
<1>1. /\ current \in Thread /\ handler = "idle"
      /\ step[current] = "armed" /\ step' = [step EXCEPT ![current] = "wait"]
      /\ state' = [state EXCEPT ![current] = "WAITING"] /\ current' = current
      /\ waitq' = [waitq EXCEPT ![current] = Append(@, current)]
      /\ UNCHANGED <<wheel, firing, handler, left>>
  BY IdleOutOfRun DEF SleepWait, AfterQueuing, Wait, InCode
<1>2. SleepType' /\ FiringInv' /\ WheelExact' /\ QueuedOnce' /\ LeftInv'
  BY <1>1 DEF FiringInv, WheelExact, QueuedOnce, LeftInv, wheel
<1>3. SleeperInv'
  BY <1>1 DEF SleeperInv, OnWheel, wheel
<1>4. OwnQueue'
  <2>1. waitq[current] \in Seq(Thread)
    BY <1>1
  <2>2. \A t : IsElem(t, waitq'[current]) <=> IsElem(t, waitq[current]) \/ t = current
    BY <1>1, <2>1, AppendElems
  <2> QED BY <1>1, <2>2 DEF OwnQueue
<1> QED BY <1>2, <1>3, <1>4

\* A thread whose timer is queued waits, so its schedule() switches it out.
LEMMA SleepYieldInv ==
    ASSUME SchedConstants, SleepConstants, Inv, SleepInv, SleepYield PROVE SleepInv'
<1> USE DEF SleepInv, SleepType
<1>1. /\ current \in Thread /\ handler = "idle" /\ current # Idle
      /\ step' = [step EXCEPT ![current] = IF @ = "wait" THEN "schedule" ELSE @]
      /\ step[current] \in {"no", "wait"} /\ SchedulePreemptDisabled
      /\ UNCHANGED <<wheel, firing, handler, left>>
  BY IdleOutOfRun DEF SleepYield, Yield, InCode, Inv, QueueInv, QueueType
<1>2. waitq' = waitq
  BY <1>1 DEF SchedulePreemptDisabled, queues
<1>3. \A t \in Thread : state[t] = "WAITING" => state'[t] = "WAITING" /\ t # current'
  BY <1>1, ScheduleKeepsWaiting
<1>4. SleepType' /\ FiringInv' /\ WheelExact' /\ QueuedOnce' /\ LeftInv'
  BY <1>1 DEF FiringInv, WheelExact, QueuedOnce, LeftInv, wheel
<1>5. SleeperInv'
  <2> SUFFICES ASSUME NEW t \in Thread, OnWheel(t)
               PROVE  \/ step'[t] = "armed"
                      \/ step'[t] \in {"wait", "schedule"} /\ state'[t] = "WAITING"
                            /\ (step'[t] = "schedule" => t # current')
    BY <1>1 DEF SleeperInv, OnWheel, wheel
  <2>1. CASE t = current
    BY <1>1, <1>3, <2>1 DEF SleeperInv
  <2>2. CASE t # current
    BY <1>1, <1>3, <2>2 DEF SleeperInv
  <2> QED BY <2>1, <2>2
<1>6. OwnQueue'
  BY <1>2 DEF OwnQueue
<1> QED BY <1>4, <1>5, <1>6

\* A thread that runs after its schedule() has no timer left.
LEMMA SleepReturnInv ==
    ASSUME SleepConstants, Inv, SleepInv, SleepReturn PROVE SleepInv'
<1> USE DEF SleepInv, SleepType
<1>1. /\ current \in Thread /\ step[current] = "schedule"
      /\ step' = [step EXCEPT ![current] = "no"] /\ left' = [left EXCEPT ![current] = 0]
      /\ UNCHANGED <<vars, wheel, firing, handler>>
  BY DEF SleepReturn, Inv, QueueInv, QueueType
<1>2. \A s \in Slot : ~IsElem(current, timer_heads[s])
  BY <1>1 DEF SleeperInv, OnWheel
<1>3. SleepType'
  <2>1. left' \in [Thread -> 0 .. SCHED_MAX_TOUT_TICKS]
    <3>1. 0 \in 0 .. SCHED_MAX_TOUT_TICKS
      BY DEF SleepConstants
    <3> QED BY <1>1, <3>1
  <2> QED BY <1>1, <2>1 DEF wheel
<1>4. FiringInv' /\ WheelExact' /\ QueuedOnce' /\ OwnQueue'
  BY <1>1 DEF FiringInv, WheelExact, QueuedOnce, OwnQueue, wheel, vars, queues, control
<1>5. SleeperInv'
  BY <1>1, <1>2 DEF SleeperInv, OnWheel, wheel, vars, queues
<1>6. LeftInv'
  BY <1>1, <1>2 DEF LeftInv, wheel
<1> QED BY <1>3, <1>4, <1>5, <1>6

-----------------------------------------------------------------------------
(* Ticks                                                                   *)

\* The remainder of what is less than twice the divisor.
LEMMA ModSmall ==
    ASSUME NEW N \in Nat \ {0}, NEW x \in Nat, x < N
    PROVE  x % N = x
OBVIOUS

LEMMA ModOnce ==
    ASSUME NEW N \in Nat \ {0}, NEW x \in Nat, N <= x, x < N + N
    PROVE  x % N = x - N
<1>1. x = N + (x - N) /\ x - N \in 0 .. N - 1
  OBVIOUS
<1> QED BY <1>1

\* A timer that n ticks do not reach stays at the slot its ticks lead to.
LEMMA TickKeepsDistance ==
    ASSUME NEW N \in Nat \ {0}, NEW now \in 0 .. N - 1, NEW l \in 1 .. N, NEW n \in Nat, n < l
    PROVE  (now + l) % N = (((now + n) % N) + (l - n)) % N
<1>1. now + l \in Nat /\ now + l < N + N /\ now + n \in Nat /\ now + n < N + N
  OBVIOUS
<1>2. CASE now + n < N
  <2>1. (now + n) % N = now + n
    BY <1>1, <1>2, ModSmall
  <2>2. (now + n) + (l - n) = now + l
    OBVIOUS
  <2> QED BY <2>1, <2>2
<1>3. CASE N <= now + n
  <2>1. (now + n) % N = now + n - N
    <3> DEFINE x == now + n
    <3>1. x \in Nat /\ N <= x /\ x < N + N
      BY <1>1, <1>3
    <3> HIDE DEF x
    <3>2. x % N = x - N
      BY <3>1, ModOnce
    <3> QED BY <3>2 DEF x
  <2>2. (now + n - N) + (l - n) = now + l - N
    OBVIOUS
  <2>3. now + l - N \in Nat /\ now + l - N < N /\ N <= now + l
    BY <1>3
  <2>4. (now + l) % N = now + l - N
    <3> DEFINE x == now + l
    <3>1. x \in Nat /\ N <= x /\ x < N + N
      BY <1>1, <2>3
    <3> HIDE DEF x
    <3>2. x % N = x - N
      BY <3>1, ModOnce
    <3> QED BY <3>2 DEF x
  <2>5. (now + l - N) % N = now + l - N
    BY <2>3, ModSmall, Zenon
  <2> QED BY <2>1, <2>2, <2>4, <2>5
<1> QED BY <1>2, <1>3

\* Ticks make every timer due that they reach, and bring the others nearer.
LEMMA TickInv ==
    ASSUME SleepConstants, SleepInv, NEW n \in Nat, Tick(n),
           UNCHANGED <<current, queues, mask>>,
           handler = "fire" => phase'[current] = "run"
    PROVE  SleepInv'
<1> DEFINE N == SCHED_MAX_TOUT_TICKS
<1>0. /\ N \in Nat \ {0} /\ timer_ticks \in 0 .. N - 1
      /\ \A l \in 1 .. N : n < l => (timer_ticks + l) % N = (((timer_ticks + n) % N) + (l - n)) % N
  <2>1. N \in Nat \ {0} /\ timer_ticks \in 0 .. N - 1
    BY DEF SleepConstants, SleepInv, SleepType, Slot
  <2> HIDE DEF N
  <2> QED BY ONLY <2>1, n \in Nat, TickKeepsDistance
<1> USE DEF SleepInv, SleepType
<1>1. /\ N \in Nat \ {0} /\ Slot = 0 .. N - 1 /\ timer_ticks \in 0 .. N - 1
      /\ (timer_ticks + n) % N \in Slot
  BY DEF SleepConstants, Slot
<1>2. /\ timer_recv_mask' = timer_recv_mask \union (Due(n) \intersect timer_req_mask)
      /\ timer_ticks' = (timer_ticks + n) % N
      /\ left' = [t \in Thread |-> IF left[t] > n THEN left[t] - n ELSE 0]
      /\ UNCHANGED <<timer_heads, timer_req_mask, firing, handler, step>>
      /\ UNCHANGED <<state, waitq, current, mask>>
  BY DEF Tick, queues
<1> HIDE DEF N
<1>3. SleepType'
  <2>1. ASSUME NEW t \in Thread
        PROVE  (IF left[t] > n THEN left[t] - n ELSE 0) \in 0 .. N
    <3>1. left[t] \in 0 .. N
      BY DEF N
    <3> QED BY <1>1, <3>1
  <2>2. left' \in [Thread -> 0 .. N]
    BY <1>2, <2>1
  <2> QED BY <1>1, <1>2, <2>2 DEF N
<1>4. FiringInv' /\ WheelExact' /\ QueuedOnce' /\ OwnQueue'
  BY <1>2 DEF FiringInv, WheelExact, QueuedOnce, OwnQueue
<1>5. SleeperInv'
  BY <1>2 DEF SleeperInv, OnWheel
<1>6. LeftInv'
  <2> SUFFICES ASSUME NEW s \in Slot, NEW t \in Thread, IsElem(t, timer_heads[s]),
                      s \notin timer_recv_mask' \union firing
               PROVE  /\ left'[t] # 0
                      /\ s = (timer_ticks' + left'[t]) % N
    BY <1>2 DEF LeftInv, N
  <2>1. /\ left[t] # 0 /\ s = (timer_ticks + left[t]) % N /\ left[t] \in 0 .. N
    BY <1>2 DEF LeftInv, N
  <2>2. s \in timer_req_mask
    <3>1. timer_heads[s] # <<>>
      BY DEF IsElem
    <3> QED BY <1>2, <3>1 DEF WheelExact
  <2>3. s \notin Due(n)
    BY <1>2, <2>2
  <2>4. n < left[t]
    <3> SUFFICES ASSUME left[t] <= n PROVE FALSE
      BY <1>1, <2>1
    <3>1. CASE n >= N
      BY <2>3, <3>1 DEF Due, N
    <3>2. CASE n < N
      <4>1. left[t] \in 1 .. n
        BY <1>1, <2>1
      <4>2. Due(n) = {(timer_ticks + k) % N : k \in 1 .. n}
        BY <1>1, <3>2 DEF Due, N
      <4> QED BY <2>1, <2>3, <4>1, <4>2
    <3> QED BY <1>1, <3>1, <3>2
  <2>5. left'[t] = left[t] - n /\ left[t] \in 1 .. N
    BY <1>1, <1>2, <2>1, <2>4
  <2>6. (timer_ticks + left[t]) % N = (((timer_ticks + n) % N) + (left[t] - n)) % N
    BY <1>0, <2>4, <2>5
  <2>7. left'[t] # 0
    BY <1>1, <2>4, <2>5
  <2> QED BY <1>2, <2>1, <2>5, <2>6, <2>7
<1> QED BY <1>3, <1>4, <1>5, <1>6

LEMMA SleepIrqInv ==
    ASSUME SchedConstants, SleepConstants, Inv, SleepInv,
           NEW k \in 0 .. MaxLag, NEW timer \in BOOLEAN, SleepIrq(k, timer)
    PROVE  SleepInv'
<1>1. PICK D : Irq(k, D, {}, timer)
  BY DEF SleepIrq
<1>2. /\ UNCHANGED <<current, queues, mask>> /\ hard_ticks + k \in Nat
  BY <1>1 DEF Irq, Inv, TickType, SchedConstants
<1>3. handler = "fire" => phase' = phase /\ phase[current] = "run"
  <2>1. handler = "fire" => phase[current] = "run" /\ ctx[current] # "proc"
    BY DEF SleepInv, FiringInv, Inv, QueueInv, QueueType, ControlInv
  <2> QED BY <1>1, <2>1 DEF Irq
<1>4. CASE timer /\ ctx[current] # "irq"
  <2>1. Tick(hard_ticks + k)
    BY <1>4 DEF SleepIrq
  <2> QED BY <1>2, <1>3, <2>1, TickInv
<1>5. CASE ~(timer /\ ctx[current] # "irq")
  <2>1. UNCHANGED timerVars
    BY <1>5 DEF SleepIrq
  <2>2. handler = "fire" => phase'[current'] = "run" /\ IRQ_SCHED_TIMER \in mask'[current']
    BY <1>2, <1>3 DEF SleepInv, FiringInv
  <2> QED BY <1>2, <2>1, <2>2, TimersAlone DEF queues
<1> QED BY <1>4, <1>5

LEMMA SleepLeaveInv ==
    ASSUME SchedConstants, SleepConstants, Inv, SleepInv, SleepLeave
    PROVE  SleepInv'
<1>1. PICK D : Leave(D, {})
  BY DEF SleepLeave
<1>2. /\ UNCHANGED <<current, queues, mask>> /\ hard_ticks \in Nat
      /\ handler = "idle"
  BY <1>1, IdleOutOfRun DEF Leave, Inv, TickType, SchedConstants
<1>3. CASE ctx[current] = "irq" /\ hard_ticks > 0
  <2>1. Tick(hard_ticks)
    BY <1>3 DEF SleepLeave
  <2> QED BY <1>2, <2>1, TickInv
<1>4. CASE ~(ctx[current] = "irq" /\ hard_ticks > 0)
  <2>1. UNCHANGED timerVars
    BY <1>4 DEF SleepLeave
  <2> QED BY <1>2, <2>1, TimersAlone DEF queues
<1> QED BY <1>3, <1>4

-----------------------------------------------------------------------------
(* sched_irq_timer()                                                       *)

\* The handler is that of the current thread's irq_sched().
LEMMA IsNextRuns ==
    ASSUME SleepConstants, Inv, NEW i, IsNext(i)
    PROVE  /\ current \in Thread /\ phase[current] = "run" /\ i \in mask[current]
           /\ ctx[current] # "proc"
BY DEF IsNext, Inv, QueueInv, QueueType, ControlInv

LEMMA TimerTakeInv ==
    ASSUME SleepConstants, Inv, SleepInv, TimerTake PROVE SleepInv'
<1> USE DEF SleepInv, SleepType
<1>1. /\ phase[current] = "run" /\ IRQ_SCHED_TIMER \in mask[current] /\ firing = {}
      /\ firing' = timer_recv_mask /\ timer_recv_mask' = {}
      /\ timer_req_mask' = timer_req_mask \ timer_recv_mask
      /\ handler' = "fire"
      /\ UNCHANGED <<vars, timer_heads, timer_ticks, step, left>>
  BY IsNextRuns DEF TimerTake, Received, FiringInv
<1>2. SleepType' /\ QueuedOnce' /\ OwnQueue'
  BY <1>1 DEF QueuedOnce, OwnQueue, vars, queues
<1>3. FiringInv'
  BY <1>1 DEF FiringInv, vars, control
<1>4. WheelExact' /\ LeftInv'
  BY <1>1 DEF WheelExact, LeftInv
<1>5. SleeperInv'
  BY <1>1 DEF SleeperInv, OnWheel, vars, queues
<1> QED BY <1>2, <1>3, <1>4, <1>5

\* The timer that fires leaves the wheel as its thread is woken; no other
\* thread is, for the queue is its own.
LEMMA TimerFireInv ==
    ASSUME SleepConstants, Inv, SleepInv, NEW s \in Slot, TimerFire(s) PROVE SleepInv'
<1> DEFINE h == Head(timer_heads[s])
<1> USE DEF SleepInv, SleepType
<1>1. /\ h \in Thread /\ Tail(timer_heads[s]) \in Seq(Thread)
      /\ \A t : IsElem(t, timer_heads[s]) <=> t = h \/ IsElem(t, Tail(timer_heads[s]))
      /\ Distinct(Tail(timer_heads[s])) /\ ~IsElem(h, Tail(timer_heads[s]))
  <2>1. timer_heads[s] \in Seq(Thread) /\ timer_heads[s] # <<>> /\ Distinct(timer_heads[s])
    BY DEF TimerFire, QueuedOnce
  <2> QED BY <2>1, TailElems
<1>2. /\ timer_heads' = [timer_heads EXCEPT ![s] = Tail(timer_heads[s])]
      /\ firing' = IF Tail(timer_heads[s]) = <<>> THEN firing \ {s} ELSE firing
      /\ handler = "fire" /\ s \in firing
      /\ UNCHANGED <<timer_req_mask, timer_recv_mask, timer_ticks, handler, step, left>>
  BY DEF TimerFire
<1>3. /\ waitq' = [waitq EXCEPT ![h] = <<>>]
      /\ \A t \in Thread : state'[t] = state[t] \/ IsElem(t, waitq[h])
      /\ UNCHANGED <<current, control>>
  BY DEF TimerFire, HandlerWake, Wake, Inv, QueueInv, QueueType, IsElem
<1> HIDE DEF h
<1>4. /\ timer_heads'[s] = Tail(timer_heads[s])
      /\ \A r \in Slot \ {s} : timer_heads'[r] = timer_heads[r]
  BY <1>2
<1>5. \A r \in Slot, t \in Thread :
          IsElem(t, timer_heads'[r]) => IsElem(t, timer_heads[r]) /\ t # h
  <2> SUFFICES ASSUME NEW r \in Slot, NEW t \in Thread, IsElem(t, timer_heads'[r])
               PROVE  IsElem(t, timer_heads[r]) /\ t # h
    OBVIOUS
  <2>1. CASE r = s
    BY <1>1, <1>4, <2>1
  <2>2. CASE r # s
    <3>1. IsElem(t, timer_heads[r]) /\ IsElem(h, timer_heads[s])
      BY <1>1, <1>4, <2>2
    <3>2. t # h
      BY <1>1, <2>2, <3>1 DEF QueuedOnce
    <3> QED BY <3>1, <3>2
  <2> QED BY <2>1, <2>2
<1>6. SleepType'
  BY <1>1, <1>2
<1>7. FiringInv'
  BY <1>2, <1>3 DEF FiringInv, control
<1>8. WheelExact'
  BY <1>2, <1>4 DEF WheelExact, FiringInv
<1>9. QueuedOnce'
  <2>1. \A r \in Slot : Distinct(timer_heads'[r])
    BY <1>1, <1>4 DEF QueuedOnce
  <2> QED BY <1>5, <2>1 DEF QueuedOnce
<1>10. SleeperInv'
  <2> SUFFICES ASSUME NEW t \in Thread, OnWheel(t)'
               PROVE  /\ OnWheel(t) /\ state'[t] = state[t]
    BY <1>2, <1>3 DEF SleeperInv
  <2>1. OnWheel(t) /\ t # h
    BY <1>5 DEF OnWheel
  <2>2. ~IsElem(t, waitq[h])
    BY <1>1, <2>1 DEF OwnQueue
  <2> QED BY <1>3, <2>1, <2>2
<1>11. OwnQueue'
  <2>1. \A t : ~IsElem(t, <<>>)
    BY DEF IsElem
  <2>2. waitq \in [Thread -> Seq(Thread)]
    BY DEF Inv, QueueInv, QueueType, SleepConstants
  <2>3. \A q \in Thread : waitq'[q] = IF q = h THEN <<>> ELSE waitq[q]
    BY <1>3, <2>2
  <2> QED BY <2>1, <2>3 DEF OwnQueue
<1>12. LeftInv'
  <2> SUFFICES ASSUME NEW r \in Slot, NEW t \in Thread, IsElem(t, timer_heads'[r]),
                      r \in timer_recv_mask \union firing
               PROVE  r \in timer_recv_mask \union firing'
    BY <1>2, <1>5 DEF LeftInv
  <2>1. timer_heads'[r] # <<>>
    BY DEF IsElem
  <2> QED BY <1>2, <1>4, <2>1
<1> QED BY <1>6, <1>7, <1>8, <1>9, <1>10, <1>11, <1>12

LEMMA TimerDoneInv ==
    ASSUME SleepConstants, Inv, SleepInv, TimerDone PROVE SleepInv'
<1> USE DEF SleepInv, SleepType
<1>1. /\ firing = {} /\ handler' = "idle"
      /\ UNCHANGED <<wheel, firing, step, left, current, queues>>
  BY DEF TimerDone, HandlerDone
<1>2. SleepType' /\ FiringInv' /\ WheelExact' /\ QueuedOnce' /\ OwnQueue' /\ LeftInv'
  BY <1>1 DEF wheel, queues, FiringInv, WheelExact, QueuedOnce, OwnQueue, LeftInv
<1>3. SleeperInv'
  BY <1>1 DEF SleeperInv, OnWheel, wheel, queues
<1> QED BY <1>2, <1>3

-----------------------------------------------------------------------------
(* The invariant, and what it says about the code.                         *)

LEMMA SleepInitInv ==
    ASSUME SchedConstants, SleepConstants, SleepInit PROVE Inv /\ SleepInv
<1>1. Inv
  BY InitInv DEF SleepInit
<1>2. \A t : ~IsElem(t, <<>>)
  BY DEF IsElem
<1>3. 0 \in Slot /\ 0 \in 0 .. SCHED_MAX_TOUT_TICKS /\ Distinct(<<>>)
  BY DEF SleepConstants, Slot, Distinct
<1>4. SleepType /\ FiringInv /\ WheelExact
  BY <1>3 DEF SleepInit, SleepType, FiringInv, WheelExact
<1>5. QueuedOnce /\ SleeperInv /\ LeftInv
  BY <1>2, <1>3 DEF SleepInit, QueuedOnce, SleeperInv, LeftInv, OnWheel
<1>6. OwnQueue
  BY <1>2 DEF SleepInit, Init, OwnQueue, SleepConstants
<1> QED BY <1>1, <1>4, <1>5, <1>6 DEF SleepInv

LEMMA SleepNextInv ==
    ASSUME SchedConstants, SleepConstants, Inv, SleepInv, [SleepNext]_sleepVars
    PROVE  Inv' /\ SleepInv'
<1>1. current \in Thread /\ SleepType
  BY DEF Inv, QueueInv, QueueType, SleepInv
<1>2. Inv'
  BY <1>1, SleepStepIsSched, NextInv
<1>3. CASE SleepNext
  BY <1>2, <1>3, ArmInv, SleepWaitInv, SleepYieldInv, SleepReturnInv, SleepIrqInv, SleepLeaveInv,
     TimerTakeInv, TimerFireInv, TimerDoneInv, SleepOtherInv DEF SleepNext
<1>4. CASE UNCHANGED sleepVars
  <2>1. handler = "fire" => phase'[current'] = "run" /\ IRQ_SCHED_TIMER \in mask'[current']
    BY <1>4 DEF sleepVars, vars, control, SleepInv, FiringInv
  <2> QED BY <1>2, <1>4, <2>1, TimersAlone DEF sleepVars, vars, queues
<1> QED BY <1>2, <1>3, <1>4

THEOREM SleepInvariance == SleepSpec => [](Inv /\ SleepInv)
BY SleepInitInv, SleepNextInv, SchedConstants, SleepConstants, PTL DEF SleepSpec

\* The wheel is used over the scheduler that module Sched describes: what is
\* proved of that holds for threads that sleep.
THEOREM SleepRunsOnSched == SleepSpec => Spec
<1>1. SleepInit => Init
  BY DEF SleepInit
<1>2. Inv /\ SleepInv /\ [SleepNext]_sleepVars => [Next]_vars
  BY SleepStepIsSched, SleepConstants DEF Inv, QueueInv, QueueType, SleepInv
<1> QED BY <1>1, <1>2, SleepInvariance, PTL DEF SleepSpec, Spec

\* The masks say exactly which slots have timers.
THEOREM MasksMatchWheel == SleepSpec => []WheelExact
<1>1. SleepInv => WheelExact
  BY DEF SleepInv
<1> QED BY <1>1, SleepInvariance, PTL

\* No timer is left on the wheel when msleep() returns.
THEOREM TimersNeverDangle == SleepSpec => []NoDanglingTimer
<1>1. Inv /\ SleepInv => NoDanglingTimer
  <2> SUFFICES ASSUME Inv, SleepInv PROVE NoDanglingTimer
    OBVIOUS
  <2> USE DEF SleepInv, SleepType
  <2>1. ASSUME NEW r \in Slot, NEW s \in Slot,
               NEW i \in 1 .. Len(timer_heads[r]), NEW j \in 1 .. Len(timer_heads[s]),
               timer_heads[r][i] = timer_heads[s][j]
        PROVE  r = s /\ i = j
    <3>1. timer_heads[r][i] \in Thread
      BY ElementOfSeq
    <3>2. r = s
      BY <2>1, <3>1 DEF QueuedOnce, IsElem
    <3> QED BY <2>1, <3>2 DEF QueuedOnce, Distinct
  <2>2. ASSUME NEW s \in Slot, NEW t \in Thread, IsElem(t, timer_heads[s])
        PROVE  \/ step[t] \in {"armed", "wait"}
               \/ step[t] = "schedule" /\ ~(t = current /\ InCode)
    BY <2>2 DEF SleeperInv, OnWheel
  <2> QED BY <2>1, <2>2 DEF NoDanglingTimer
<1> QED BY <1>1, SleepInvariance, PTL

\* No tick passes a timer by.
THEOREM TimersNeverMissed == SleepSpec => []NeverMissed
<1>1. SleepInv => NeverMissed
  BY DEF SleepInv, LeftInv, NeverMissed
<1> QED BY <1>1, SleepInvariance, PTL
=============================================================================
