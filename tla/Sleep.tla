------------------------------- MODULE Sleep -------------------------------
(***************************************************************************)
(* msleep() and the timer wheel of kernel/schedc.c over the scheduler:     *)
(* every step is a step of module Sched in which the only device is the    *)
(* timer and threads only sleep and call schedule().  The timer of a       *)
(* thread lies on its stack, so a thread stands for its timer, and the     *)
(* wait queue of the timer of t is the queue t.                            *)
(***************************************************************************)
EXTENDS Sched

CONSTANT SCHED_MAX_TOUT_TICKS   \* slots of the wheel, 32 in the code

IRQ_SCHED_TIMER == 0
Slot == 0 .. SCHED_MAX_TOUT_TICKS - 1

ASSUME SleepConstants == /\ SCHED_MAX_TOUT_TICKS \in Nat \ {0}
                         /\ IRQ_SCHED_SCHEDULE = 1
                         /\ WaitQueue = Thread

VARIABLES
    timer_heads,      \* slot -> the timers on it
    timer_req_mask,   \* the slots with timers
    timer_recv_mask,  \* the slots that are due
    timer_ticks,      \* the slot of the present
    firing,           \* sched_irq_timer()'s local mask
    handler,          \* "fire" while sched_irq_timer() is past its first section
    step,             \* thread -> "no", or its step of msleep()
    left              \* history: thread -> ticks until its timer is due

timerVars == <<timer_heads, timer_req_mask, timer_recv_mask, timer_ticks,
               firing, handler, step, left>>
wheel     == <<timer_heads, timer_req_mask, timer_recv_mask, timer_ticks>>
sleepVars == <<vars, timerVars>>

SleepInit == /\ Init
             /\ timer_heads = [s \in Slot |-> <<>>]
             /\ timer_req_mask = {} /\ timer_recv_mask = {}
             /\ timer_ticks = 0
             /\ firing = {} /\ handler = "idle"
             /\ step = [t \in Thread |-> "no"]
             /\ left = [t \in Thread |-> 0]

-----------------------------------------------------------------------------
(* msleep()                                                                *)

\* The section with soft IRQs disabled: d ticks from now.
Arm(d) ==
    /\ InCode /\ current # Idle /\ state[current] = "RUNNING"
    /\ step[current] = "no"
    /\ LET ft == (timer_ticks + d) % SCHED_MAX_TOUT_TICKS
       IN  /\ timer_heads' = [timer_heads EXCEPT ![ft] = Append(@, current)]
           /\ timer_req_mask' = timer_req_mask \union {ft}
    /\ step' = [step EXCEPT ![current] = "armed"]
    /\ left' = [left EXCEPT ![current] = d]
    /\ UNCHANGED <<vars, timer_recv_mask, timer_ticks, firing, handler>>

\* Mutant: wait() does not call schedule().
ToReturn == "schedule"
AfterQueuing == "wait"

\* wait(&t.wq), up to its schedule().
SleepWait ==
    /\ step[current] = "armed"
    /\ Wait(current, "WAITING")
    /\ step' = [step EXCEPT ![current] = AfterQueuing]
    /\ UNCHANGED <<wheel, firing, handler, left>>

\* schedule(), wait()'s or the thread's own.
SleepYield ==
    /\ step[current] \in {"no", "wait"}
    /\ Yield
    /\ step' = [step EXCEPT ![current] = IF @ = "wait" THEN "schedule" ELSE @]
    /\ UNCHANGED <<wheel, firing, handler, left>>

\* wait()'s schedule() returns to msleep(), and msleep() to its caller.
SleepReturn ==
    /\ InCode /\ step[current] = "schedule"
    /\ step' = [step EXCEPT ![current] = "no"]
    /\ left' = [left EXCEPT ![current] = 0]
    /\ UNCHANGED <<vars, wheel, firing, handler>>

-----------------------------------------------------------------------------
(* sched_timer_tick_soft()                                                 *)

\* Mutant: the ticks are counted from the slot of the present.
DueFromNow(n) == {(timer_ticks + k) % SCHED_MAX_TOUT_TICKS : k \in 0 .. n - 1}
\* rol((1 << n) - 1, timer_ticks + 1), or all of them.
Due(n) == IF n >= SCHED_MAX_TOUT_TICKS THEN Slot
          ELSE {(timer_ticks + k) % SCHED_MAX_TOUT_TICKS : k \in 1 .. n}

\* The sched IRQs that the soft IRQ raises for the timers.
TimerRaise(n) == IF Due(n) \intersect timer_req_mask = {} THEN {}
                 ELSE {IRQ_SCHED_TIMER}

Tick(n) ==
    /\ timer_recv_mask' = timer_recv_mask \union (Due(n) \intersect timer_req_mask)
    /\ timer_ticks' = (timer_ticks + n) % SCHED_MAX_TOUT_TICKS
    /\ left' = [t \in Thread |-> IF left[t] > n THEN left[t] - n ELSE 0]
    /\ UNCHANGED <<timer_heads, timer_req_mask, firing, handler, step>>

SleepIrq(k, timer) ==
    LET soft == timer /\ ctx[current] # "irq"
    IN  /\ Irq(k, IF soft THEN TimerRaise(hard_ticks + k) ELSE {}, {}, timer)
        /\ IF soft THEN Tick(hard_ticks + k) ELSE UNCHANGED timerVars

SleepLeave ==
    LET soft == ctx[current] = "irq" /\ hard_ticks > 0
    IN  /\ Leave(IF soft THEN TimerRaise(hard_ticks) ELSE {}, {})
        /\ IF soft THEN Tick(hard_ticks) ELSE UNCHANGED timerVars

-----------------------------------------------------------------------------
(* sched_irq_timer()                                                       *)

\* Mutant: timer_recv_mask is not reset.
KeepReceived == timer_recv_mask
Received == {}

\* The section with soft IRQs disabled.
TimerTake ==
    /\ IsNext(IRQ_SCHED_TIMER) /\ handler = "idle"
    /\ firing' = timer_recv_mask
    /\ timer_recv_mask' = Received
    /\ timer_req_mask' = timer_req_mask \ timer_recv_mask
    /\ handler' = "fire"
    /\ UNCHANGED <<vars, timer_heads, timer_ticks, step, left>>

\* The function of the first timer of the first slot that fires:
\* sched_timer_wakeup() wakes the timer's queue.
TimerFire(s) ==
    /\ handler = "fire" /\ s \in firing
    /\ \A r \in firing : s <= r
    /\ timer_heads[s] # <<>>
    /\ HandlerWake(Head(timer_heads[s]))
    /\ timer_heads' = [timer_heads EXCEPT ![s] = Tail(@)]
    /\ firing' = IF Tail(timer_heads[s]) = <<>> THEN firing \ {s} ELSE firing
    /\ UNCHANGED <<timer_req_mask, timer_recv_mask, timer_ticks, handler, step,
                   left>>

TimerDone ==
    /\ handler = "fire" /\ firing = {}
    /\ HandlerDone(IRQ_SCHED_TIMER)
    /\ handler' = "idle"
    /\ UNCHANGED <<wheel, firing, step, left>>

SleepNext ==
    \/ \E d \in 1 .. SCHED_MAX_TOUT_TICKS : Arm(d)
    \/ SleepWait \/ SleepYield \/ SleepReturn
    \/ \E k \in 0 .. MaxLag, timer \in BOOLEAN : SleepIrq(k, timer)
    \/ SleepLeave
    \/ TimerTake \/ TimerDone
    \/ \E s \in Slot : TimerFire(s)
    \/ /\ \/ \E t \in Thread : step[current] = "no" /\ ThreadCreate(t)
          \/ Fetch \/ Clear \/ HandlerSchedule
       /\ UNCHANGED timerVars

SleepSpec == SleepInit /\ [][SleepNext]_sleepVars

-----------------------------------------------------------------------------
(* Properties                                                              *)

\* The assertion of sched_irq_timer() (schedc.c:369), for every slot at every
\* time: a slot has timers exactly if its bit is requested or it is firing,
\* and only requested slots are due.  A timer that is queued is not forgotten,
\* and no handler runs for a slot that was emptied.
WheelExact ==
    /\ \A s \in Slot : timer_heads[s] # <<>> <=> s \in timer_req_mask \union firing
    /\ timer_recv_mask \subseteq timer_req_mask

\* A timer on the wheel is that of a thread inside msleep(): msleep() never
\* returns, and its stack frame never dies, with the timer still queued; and
\* no thread has two timers queued.
NoDanglingTimer ==
    /\ \A r, s \in Slot :
          \A i \in 1 .. Len(timer_heads[r]), j \in 1 .. Len(timer_heads[s]) :
              timer_heads[r][i] = timer_heads[s][j] => r = s /\ i = j
    /\ \A s \in Slot, t \in Thread : IsElem(t, timer_heads[s]) =>
          \/ step[t] \in {"armed", "wait"}
          \/ step[t] = "schedule" /\ ~(t = current /\ InCode)

\* A timer whose time has come is on a slot that is due or firing, however
\* many ticks the soft IRQ finds at once and whatever it interrupts: no tick
\* passes a timer by, which would then wait for the wheel to come round.
NeverMissed ==
    \A s \in Slot, t \in Thread : IsElem(t, timer_heads[s]) /\ left[t] = 0 =>
        s \in timer_recv_mask \union firing

\* A thread that waits on its timer has the timer still to fire; what the
\* comment in msleep() says (schedc.c:423-425), of a wake-up that "could
\* arrive in between the queuing of the timer, and going for a wait".
SleeperHasTimer ==
    \A t \in Thread : state[t] = "WAITING" =>
        \E s \in Slot : IsElem(t, timer_heads[s])
=============================================================================
