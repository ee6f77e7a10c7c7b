------------------------------- MODULE Sched -------------------------------
(***************************************************************************)
(* The scheduler of kernel/schedc.c: the ready queue, the wait queues, the *)
(* idle thread, tick quotas, and the irq_sched() loop through which        *)
(* interrupts reach it.                                                    *)
(*                                                                         *)
(* The callers are the most general ones: a thread may at any time create  *)
(* a thread, call schedule(), wait() on a queue or wake_up() one, and the  *)
(* sched handler of a device may wake queues.  What runs with preemption   *)
(* disabled is one step: IrqLevels shows that no sched handler and no      *)
(* switch can fall inside it.  Soft IRQs can, and the steps of irq_sched() *)
(* between which they matter are separate.                                 *)
(***************************************************************************)
EXTENDS Naturals, Sequences, SequencesExt

CONSTANTS
    Thread,             \* every thread there will ever be
    Boot,               \* the thread that boots the kernel (_current)
    Idle,               \* the idle thread
    WaitQueue,          \* the list heads that threads wait on
    THRD_QUOTA,         \* ticks a thread may run
    CHAR_MOD,           \* struct thread's ticks is a char: 2^8 in the code
    IRQ_SCHED_SCHEDULE, \* sched IRQs are 0 .. IRQ_SCHED_SCHEDULE
    MaxLag              \* bound: timer ticks not yet taken by the soft IRQ

ASSUME SchedConstants ==
    /\ Boot \in Thread /\ Idle \in Thread /\ Boot # Idle
    /\ THRD_QUOTA \in Nat \ {0}
    /\ CHAR_MOD \in Nat /\ THRD_QUOTA < CHAR_MOD
    /\ IRQ_SCHED_SCHEDULE \in Nat
    /\ MaxLag \in Nat

SchedIrq == 0 .. IRQ_SCHED_SCHEDULE
Device   == SchedIrq \ {IRQ_SCHED_SCHEDULE}
Waiting  == {"WAITING", "MUTEX_WAITING"}

VARIABLES
    current,         \* the thread that runs
    state,           \* thread -> its state, "none" before it is created
    ready,           \* the ready queue
    waitq,           \* wait queue -> the threads on it
    ticks,           \* thread -> ticks left
    ctx,             \* thread -> "proc", or in irq_sched() for preempt_enable()
                     \* ("enable") or for excpt_irq() ("irq", soft IRQs off)
    phase,           \* thread -> "code", or its step of irq_sched()
    mask,            \* thread -> the local mask of its irq_sched()
    irq_sched_mask,  \* sched IRQs raised and not fetched
    hard_ticks       \* ticks counted by timer_irq() (dev/timer.c, ticks)

vars == <<current, state, ready, waitq, ticks, ctx, phase, mask,
          irq_sched_mask, hard_ticks>>
queues  == <<state, ready, waitq>>
control == <<ctx, phase, mask>>

\* sched_current_init() and sched_init(), which creates the idle thread.
Init == /\ current = Boot
        /\ state = [t \in Thread |-> IF t = Boot THEN "RUNNING"
                                     ELSE IF t = Idle THEN "READY" ELSE "none"]
        /\ ready = <<Idle>>
        /\ waitq = [q \in WaitQueue |-> <<>>]
        /\ ticks = [t \in Thread |-> THRD_QUOTA]
        /\ ctx = [t \in Thread |-> "proc"]
        /\ phase = [t \in Thread |-> "code"]
        /\ mask = [t \in Thread |-> {}]
        /\ irq_sched_mask = {}
        /\ hard_ticks = 0

InCode == phase[current] = "code"

\* preempt_enable() in thread code: the count drops to 0 after an irq_sched().
PreemptEnable ==
    /\ ctx' = [ctx EXCEPT ![current] = "enable"]
    /\ phase' = [phase EXCEPT ![current] = "fetch"]
    /\ UNCHANGED mask

-----------------------------------------------------------------------------
(* schedule_preempt_disabled()                                             *)

\* Mutant: idle is taken like any other thread.
NeverSkip == FALSE
\* The head of the queue is idle and there is another thread to switch to.
SkipIdle == Head(ready) = Idle /\ Len(ready) > 1

\* The thread picked, and the queue once it is off and idle is back at the end.
Chosen == IF SkipIdle THEN Head(Tail(ready)) ELSE Head(ready)
\* Mutant: idle is not put back.
OthersWithoutIdle == IF SkipIdle THEN Tail(Tail(ready)) ELSE Tail(ready)
Others == IF SkipIdle THEN Append(Tail(Tail(ready)), Idle) ELSE Tail(ready)

\* A current thread that could go on running goes to the end of the queue.
Requeue(t) == IF state[t] = "RUNNING" THEN Append(Others, t) ELSE Others

\* Only idle could take over from a thread that can go on running.
OnlyIdleWaits == ready = <<Idle>> /\ state[current] = "RUNNING"

\* A new quota only for a thread that has none left.
Refill(t) == [ticks EXCEPT ![t] = IF @ = 0 THEN THRD_QUOTA ELSE @]

\* The body; the control state of the old thread is set by the callers.
SchedulePreemptDisabled ==
    \/ /\ ready = <<>>
       /\ UNCHANGED <<current, queues, ticks>>
    \/ /\ ready # <<>> /\ OnlyIdleWaits
       /\ ticks' = Refill(current)
       /\ UNCHANGED <<current, queues>>
    \/ /\ ready # <<>> /\ ~OnlyIdleWaits
       /\ ready' = Requeue(current)
       /\ current' = Chosen
       /\ state' = [t \in Thread |->
                       IF t = Chosen THEN "RUNNING"
                       ELSE IF t = current /\ state[t] = "RUNNING" THEN "READY"
                       ELSE state[t]]
       /\ ticks' = Refill(Chosen)
       /\ UNCHANGED waitq

\* schedule() in a thread.
Yield ==
    /\ InCode /\ current # Idle
    /\ SchedulePreemptDisabled
    /\ PreemptEnable
    /\ UNCHANGED <<irq_sched_mask, hard_ticks>>

-----------------------------------------------------------------------------
(* Threads that are created, that wait and that wake others.               *)

ThreadCreate(t) ==
    /\ InCode /\ current # Idle /\ state[current] = "RUNNING"
    /\ state[t] = "none"
    /\ state' = [state EXCEPT ![t] = "READY"]
    /\ ready' = Append(ready, t)
    /\ PreemptEnable
    /\ UNCHANGED <<current, waitq, ticks, irq_sched_mask, hard_ticks>>

\* A preempt_disable()/preempt_enable() section that changes nothing modelled
\* here, as those of mutex_lock() and wait_event() that need not wait.
Section ==
    /\ InCode /\ current # Idle /\ state[current] = "RUNNING"
    /\ PreemptEnable
    /\ UNCHANGED <<current, queues, ticks, irq_sched_mask, hard_ticks>>

\* wait(), wait_event() and mutex_lock() up to their schedule(): the thread
\* queues itself, and while it is not RUNNING it can only call schedule().
Wait(q, s) ==
    /\ InCode /\ current # Idle /\ state[current] = "RUNNING"
    /\ state' = [state EXCEPT ![current] = s]
    /\ waitq' = [waitq EXCEPT ![q] = Append(@, current)]
    /\ PreemptEnable
    /\ UNCHANGED <<current, ready, ticks, irq_sched_mask, hard_ticks>>

\* Mutant: a waiting current thread is treated as any other.
WithCurrent(q) == waitq[q]
\* The threads of q that go to the ready queue: not the current one, which a
\* handler may wake between its preempt_enable() and its schedule().
Sleepers(q) ==
    IF \E i \in 1 .. Len(waitq[q]) : waitq[q][i] = current
    THEN RemoveAt(waitq[q], CHOOSE i \in 1 .. Len(waitq[q]) : waitq[q][i] = current)
    ELSE waitq[q]

\* Mutant: woken threads go before those that are ready.
AddFirst(s) == s \o ready
AddTail(s) == ready \o s

\* Mutant: idle is not told that it has to make way.
NoRaise(s) == {}
RaiseFor(s) == IF current = Idle /\ s # <<>> THEN {IRQ_SCHED_SCHEDULE} ELSE {}

\* wake_up_preempt_disabled(); what its raise may overwrite is with Raising.
Wake(q) ==
    /\ waitq' = [waitq EXCEPT ![q] = <<>>]
    /\ state' = [t \in Thread |->
                    IF \E i \in 1 .. Len(waitq[q]) : waitq[q][i] = t
                    THEN IF t = current THEN "RUNNING" ELSE "READY"
                    ELSE state[t]]
    /\ ready' = AddTail(Sleepers(q))
    /\ irq_sched_mask' = irq_sched_mask \union RaiseFor(Sleepers(q))

WakeUp(q) ==
    /\ InCode /\ current # Idle /\ state[current] = "RUNNING"
    /\ Wake(q)
    /\ PreemptEnable
    /\ UNCHANGED <<current, ticks, hard_ticks>>

-----------------------------------------------------------------------------
(* irq_sched()                                                             *)

Fetch ==
    /\ phase[current] = "fetch"
    /\ mask' = [mask EXCEPT ![current] = irq_sched_mask]
    /\ phase' = [phase EXCEPT ![current] = "clear"]
    /\ UNCHANGED <<current, queues, ticks, ctx, irq_sched_mask, hard_ticks>>

Clear ==
    /\ phase[current] = "clear"
    /\ irq_sched_mask' = {}
    /\ phase' = [phase EXCEPT ![current] =
                    IF mask[current] = {} THEN "leave" ELSE "run"]
    /\ UNCHANGED <<current, queues, ticks, ctx, mask, hard_ticks>>

\* The handler of sched IRQ i is the next to run.
IsNext(i) == /\ phase[current] = "run" /\ i \in mask[current]
             /\ \A j \in mask[current] : i <= j

\* A device's handler wakes a queue ...
HandlerWake(q) ==
    /\ \E i \in Device : IsNext(i)
    /\ Wake(q)
    /\ UNCHANGED <<current, ticks, control, hard_ticks>>

\* ... and returns.
HandlerDone(i) ==
    /\ IsNext(i) /\ i \in Device
    /\ mask' = [mask EXCEPT ![current] = @ \ {i}]
    /\ phase' = [phase EXCEPT ![current] =
                    IF mask[current] = {i} THEN "fetch" ELSE "run"]
    /\ UNCHANGED <<current, queues, ticks, ctx, irq_sched_mask, hard_ticks>>

\* Mutant: the scheduler's handler does not wait for those of the devices.
AnyTime == phase[current] = "run" /\ IRQ_SCHED_SCHEDULE \in mask[current]
ScheduleIsNext == IsNext(IRQ_SCHED_SCHEDULE)

\* sched_irq_schedule(), the last of the handlers.
HandlerSchedule ==
    /\ ScheduleIsNext
    /\ mask' = [mask EXCEPT ![current] = @ \ {IRQ_SCHED_SCHEDULE}]
    /\ phase' = [phase EXCEPT ![current] =
                    IF mask[current] = {IRQ_SCHED_SCHEDULE} THEN "fetch" ELSE "run"]
    /\ SchedulePreemptDisabled
    /\ UNCHANGED <<ctx, irq_sched_mask, hard_ticks>>

-----------------------------------------------------------------------------
(* Interrupts, and what they charge.                                       *)

\* Mutant: ticks as a signed counter.
LessTicks(n) == [ticks EXCEPT ![current] = @ - n]
\* current->ticks -= n, on an unsigned char.
TicksAfter(n) == [ticks EXCEPT ![current] = (@ + CHAR_MOD - (n % CHAR_MOD)) % CHAR_MOD]

\* irq_sched_raise() loads the mask and stores it with a bit added.  It runs with
\* hard IRQs on where the timer's soft handler raises IRQ_SCHED_SCHEDULE for the
\* quota or IRQ_SCHED_TIMER, and where a sched handler wakes a thread for idle.
Raising(timer) == IF ctx[current] = "irq" THEN current = Idle ELSE timer

\* Of the device sched IRQs D that hard IRQs raise, those in `late' come between
\* the load and the store of another raise, and the store takes them away.
Raise(D, late) == irq_sched_mask \union (D \ late)

\* sched_timer_tick_soft(n); its timers are in module Sleep.
ChargeAndRaise(n, D, late) ==
    IF current = Idle
    THEN ticks' = ticks /\ irq_sched_mask' = Raise(D, late)
    ELSE /\ ticks' = TicksAfter(n)
         /\ irq_sched_mask' = Raise(D, late) \union
               (IF ticks'[current] = 0 THEN {IRQ_SCHED_SCHEDULE} ELSE {})

\* A hard IRQ with k timer ticks that raises D.  With soft IRQs disabled it is
\* nested and only leaves marks.  Else the soft handlers run, the timer's if
\* `timer' (it may find that its ticks were taken by an earlier run), in which
\* others nest, and then irq_sched() unless one is running.
Irq(k, D, late, timer) ==
    /\ hard_ticks + k <= MaxLag
    /\ hard_ticks + k > 0 => timer
    /\ late # {} => Raising(timer)
    /\ IF ctx[current] = "irq"
       THEN /\ hard_ticks' = hard_ticks + k
            /\ irq_sched_mask' = Raise(D, late)
            /\ UNCHANGED <<ticks, ctx, phase>>
       ELSE /\ hard_ticks' = 0
            /\ IF timer THEN ChargeAndRaise(hard_ticks + k, D, late)
               ELSE ticks' = ticks /\ irq_sched_mask' = Raise(D, late)
            /\ IF ctx[current] = "proc"
               THEN /\ ctx' = [ctx EXCEPT ![current] = "irq"]
                    /\ phase' = [phase EXCEPT ![current] = "fetch"]
               ELSE UNCHANGED <<ctx, phase>>
    /\ UNCHANGED <<current, queues, mask>>

\* irq_sched() has returned.  The count drops; excpt_irq() then also runs the
\* soft IRQs that were left to it, after its irq_sched(); these may raise D.
Leave(D, late) ==
    /\ phase[current] = "leave"
    /\ ctx' = [ctx EXCEPT ![current] = "proc"]
    /\ phase' = [phase EXCEPT ![current] = "code"]
    /\ IF ctx[current] = "irq" /\ hard_ticks > 0
       THEN hard_ticks' = 0 /\ ChargeAndRaise(hard_ticks, D, late)
       ELSE D = {} /\ UNCHANGED <<hard_ticks, ticks, irq_sched_mask>>
    /\ UNCHANGED <<current, queues, mask>>

Next ==
    \/ Yield
    \/ \E t \in Thread : ThreadCreate(t)
    \/ \E q \in WaitQueue, s \in Waiting : Wait(q, s)
    \/ \E q \in WaitQueue : WakeUp(q)
    \/ Section \/ Fetch \/ Clear
    \/ \E D \in SUBSET Device : \E late \in SUBSET D : Leave(D, late)
    \/ \E q \in WaitQueue : HandlerWake(q)
    \/ \E i \in SchedIrq : HandlerDone(i)
    \/ HandlerSchedule
    \/ \E k \in 0 .. MaxLag, D \in SUBSET Device, timer \in BOOLEAN :
          \E late \in SUBSET D : Irq(k, D, late, timer)

Spec == Init /\ [][Next]_vars

-----------------------------------------------------------------------------
(* Properties                                                              *)

IsElem(t, s)  == \E i \in 1 .. Len(s) : s[i] = t
Distinct(s)   == \A i, j \in 1 .. Len(s) : s[i] = s[j] => i = j

\* Every variable has its type, under interrupts and switches in any order.
TypeOK ==
    /\ current \in Thread
    /\ state \in [Thread -> {"none", "RUNNING", "READY"} \union Waiting]
    /\ ready \in Seq(Thread)
    /\ waitq \in [WaitQueue -> Seq(Thread)]
    /\ ticks \in [Thread -> 0 .. CHAR_MOD - 1]
    /\ ctx \in [Thread -> {"proc", "enable", "irq"}]
    /\ phase \in [Thread -> {"code", "fetch", "clear", "run", "leave"}]
    /\ mask \in [Thread -> SUBSET SchedIrq]
    /\ irq_sched_mask \in SUBSET SchedIrq
    /\ hard_ticks \in 0 .. MaxLag

\* A thread is on the ready queue iff it is READY, on a wait queue iff it is
\* waiting, never on two queues or twice on one (the entry is one list_head:
\* a second insertion corrupts both lists), and only the current thread is
\* RUNNING.  No interrupt, wake-up or switch loses or duplicates a thread.
QueueDiscipline ==
    /\ Distinct(ready)
    /\ \A q \in WaitQueue : Distinct(waitq[q])
    /\ \A p, q \in WaitQueue : p # q =>
          \A t \in Thread : ~(IsElem(t, waitq[p]) /\ IsElem(t, waitq[q]))
    /\ \A t \in Thread : state[t] = "READY" <=> IsElem(t, ready)
    /\ \A t \in Thread : state[t] \in Waiting <=> \E q \in WaitQueue : IsElem(t, waitq[q])
    /\ \A t \in Thread : state[t] = "RUNNING" => t = current

\* The assertions of schedule_preempt_disabled() and wake_up_preempt_disabled()
\* (schedc.c:127,135,157,158,160,229): an empty ready queue means that idle
\* runs; the current thread is never on the ready queue, nor idle twice, nor
\* idle on a wait queue.
AssertionsHold ==
    /\ ready = <<>> => current = Idle
    /\ ready # <<>> => Head(ready) # current
    /\ ready # <<>> /\ SkipIdle => Chosen # current /\ Chosen # Idle
    /\ ready # <<>> /\ OnlyIdleWaits => current # Idle
    /\ \A q \in WaitQueue : ~IsElem(Idle, waitq[q])

\* A thread that does not run was switched out in schedule() or by the last
\* handler of its irq_sched(): it holds no fetched IRQ whose handler is still
\* to run (irq.c:57-64), and its next step is to read the mask again.
SuspendedClean ==
    \A t \in Thread \ {current} :
        mask[t] = {} /\ phase[t] \in {"code", "fetch"}

\* Idle does not keep the processor from a ready thread: while it runs with
\* another thread ready, the request to switch is pending or about to run.
IdleYields ==
    current = Idle /\ ready # <<>> =>
        IRQ_SCHED_SCHEDULE \in irq_sched_mask \union mask[Idle]

Ahead(t, s) == {u \in Thread \ {Idle} : \E i, j \in 1 .. Len(s) :
                    i < j /\ s[i] = u /\ s[j] = t}

\* No thread overtakes another on the ready queue; only idle is passed by.
NoOvertaking ==
    [][\A t \in Thread \ {Idle} :
          IsElem(t, ready) /\ IsElem(t, ready') =>
              Ahead(t, ready') \subseteq Ahead(t, ready)]_vars

\* Every ready thread runs again: idle never holds the processor for good,
\* and the queue serves every thread.
ReadyRuns == \A t \in Thread \ {Idle} : state[t] = "READY" ~> current = t
=============================================================================
