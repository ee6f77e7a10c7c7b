------------------------------- MODULE IoReq -------------------------------
(***************************************************************************)
(* A queue of I/O requests (kernel/ioreq.c) over the scheduler, with the   *)
(* driver it belongs to: the mailbox (dev/mbox.c) or the SD host           *)
(* controller (dev/sdhc.c).  Every step is a step of module Sched in which *)
(* the only device is the driver's.  Requests are synchronous and lie on   *)
(* the stacks of their threads, so a thread stands for its request, and    *)
(* the queue t is the ioc_wait of the request of t.                        *)
(***************************************************************************)
EXTENDS Sched

CONSTANTS NoReq,                \* NULL
          Driver                \* "mbox", "sdhc" or both

IRQ_SCHED_DEV == 0              \* IRQ_SCHED_MBOX or IRQ_SCHED_SDHC

ASSUME IoConstants == /\ IRQ_SCHED_SCHEDULE = 1
                      /\ WaitQueue = Thread
                      /\ NoReq \notin Thread
                      /\ Driver \subseteq {"mbox", "sdhc"}

VARIABLES
    driver,     \* the one that has the queue
    in,         \* the requests, the one under way at the head
    busy,       \* whether one is under way
    done,       \* request -> its done flag
    step,       \* thread -> "out", or in submit() or wait()
    start,      \* thread -> the request it is about to pass to the ioctl
    hw,         \* request -> "none", with the "device", or "answered"
    sc_int,     \* interrupts collected by sdhc_hard_irq()
    local_int,  \* sdhc_sched_irq()'s copy
    handler,    \* step of the driver's sched handler
    lost        \* history: the code has wiped out a completion, or its raise

ioVars  == <<driver, in, busy, done, step, start, hw, sc_int, local_int,
             handler, lost>>
queue   == <<in, busy, done>>
sdhc    == <<sc_int, local_int>>
allVars == <<vars, ioVars>>

IoInit == /\ Init
          /\ driver \in Driver
          /\ in = <<>> /\ busy = 0
          /\ done = [t \in Thread |-> 0]
          /\ step = [t \in Thread |-> "out"]
          /\ start = [t \in Thread |-> NoReq]
          /\ hw = [t \in Thread |-> "none"]
          /\ sc_int = {} /\ local_int = {}
          /\ handler = "idle" /\ lost = FALSE

Goto(p) == step' = [step EXCEPT ![current] = p]

\* Mutant: busy is not looked at.
NextAlways(q, b) == IF q # <<>> THEN Head(q) ELSE NoReq
\* Mutant: the last request is not started.
NextOfMore(q, b) == IF b = 0 /\ Len(q) > 1 THEN Head(q) ELSE NoReq
\* ioq_ior_next(): the request to start, still on the queue.
NextIor(q, b) == IF b = 0 /\ q # <<>> THEN Head(q) ELSE NoReq

\* Of the queue q with b under way, start the next request if there is one.
TakeNext(q, b) == /\ in' = q
                  /\ busy' = IF NextIor(q, b) = NoReq THEN b ELSE b + 1

-----------------------------------------------------------------------------
(* Threads: ioq_ior_submit() and ioq_ior_wait().                           *)

Submit ==
    /\ step[current] = "out"
    /\ Section
    /\ done' = [done EXCEPT ![current] = 0]
    /\ TakeNext(Append(in, current), busy)
    /\ start' = [start EXCEPT ![current] = NextIor(Append(in, current), busy)]
    /\ Goto(IF start'[current] = NoReq THEN "wait" ELSE "start")
    /\ UNCHANGED <<driver, hw, sdhc, handler, lost>>

\* ioq_ior_run(), mbox_ioctl(), sdhc_ioctl(): the device has the request.
Start ==
    /\ InCode /\ step[current] = "start"
    /\ hw' = [hw EXCEPT ![start[current]] = "device"]
    /\ start' = [start EXCEPT ![current] = NoReq]
    /\ Goto("wait")
    /\ UNCHANGED <<vars, driver, queue, sdhc, handler, lost>>

\* wait_event(ioc_wait, done == 1): the condition holds ...
WaitNot ==
    /\ step[current] = "wait" /\ done[current] = 1
    /\ Section
    /\ Goto("out")
    /\ UNCHANGED <<driver, queue, start, hw, sdhc, handler, lost>>

\* Mutant: wait_event() does not loop.
LeaveLoop == InCode /\ step[current] = "loop"
\* ... or holds after the thread has queued itself.
LoopEnds == InCode /\ step[current] = "loop" /\ done[current] = 1

WaitSleeps ==
    /\ step[current] = "wait" /\ done[current] = 0
    /\ Wait(current, "WAITING")
    /\ Goto("loop")
    /\ UNCHANGED <<driver, queue, start, hw, sdhc, handler, lost>>

\* schedule(), of wait_event()'s loop or of a thread that does something else.
IoYield ==
    /\ \/ step[current] = "out"
       \/ step[current] = "loop" /\ done[current] = 0
    /\ Yield
    /\ UNCHANGED ioVars

WaitEnds ==
    /\ LoopEnds
    /\ Goto("out")
    /\ UNCHANGED <<vars, driver, queue, start, hw, sdhc, handler, lost>>

-----------------------------------------------------------------------------
(* Interrupts: mbox_irq() and sdhc_hard_irq().                             *)

\* The device has answered the request r.
Answer(r) == hw[r] = "device" /\ hw' = [hw EXCEPT ![r] = "answered"]

\* An answer whose raise is not in the mask that the step leaves: it came
\* between the load and the store of another raise.
RaiseMayGo == lost' = (lost \/ (hw' # hw /\ IRQ_SCHED_DEV \notin irq_sched_mask'))

MboxAnswers(r) == driver = "mbox" /\ Answer(r) /\ UNCHANGED sc_int

\* The bits v of SDHC_INT: command complete, or another of the controller's.
SdhcAnswers(v) ==
    /\ driver = "sdhc" /\ v # {}
    /\ IF "CMD" \in v THEN \E r \in Thread : Answer(r) ELSE UNCHANGED hw
    /\ sc_int' = sc_int \union v

\* The two hard handlers, which also raise the driver's sched IRQ.
MboxIrq(r, k, late, timer) ==
    /\ MboxAnswers(r)
    /\ Irq(k, {IRQ_SCHED_DEV}, late, timer)
    /\ RaiseMayGo
    /\ UNCHANGED <<driver, queue, step, start, local_int, handler>>

SdhcIrq(v, k, late, timer) ==
    /\ SdhcAnswers(v)
    /\ Irq(k, {IRQ_SCHED_DEV}, late, timer)
    /\ RaiseMayGo
    /\ UNCHANGED <<driver, queue, step, start, local_int, handler>>

\* Either of them, while the soft handlers raise that excpt_irq() runs last.
IrqInLeave(late) ==
    /\ \/ \E r \in Thread : MboxAnswers(r)
       \/ \E v \in SUBSET {"CMD", "DATA"} : SdhcAnswers(v)
    /\ Leave({IRQ_SCHED_DEV}, late)
    /\ RaiseMayGo
    /\ UNCHANGED <<driver, queue, step, start, local_int, handler>>

OtherIrq(k, timer) == Irq(k, {}, {}, timer) /\ UNCHANGED ioVars

-----------------------------------------------------------------------------
(* The sched handlers: mbox_irq_sched() and sdhc_sched_irq().              *)

\* Mutant: the request done stays on the queue.
WithDone(q) == q
WithoutDone(q) == Tail(q)

\* ioq_ior_dequeue_sched() and ioq_ior_done_sched(), which starts the next.
Complete ==
    LET r    == Head(in)
        next == NextIor(WithoutDone(in), busy - 1)
    IN  /\ HandlerWake(r)
        /\ TakeNext(WithoutDone(in), busy - 1)
        /\ done' = [done EXCEPT ![r] = 1]
        /\ hw' = [t \in Thread |-> IF t = next THEN "device"
                                   ELSE IF t = r THEN "none" ELSE hw[t]]

MboxComplete ==
    /\ IsNext(IRQ_SCHED_DEV) /\ driver = "mbox" /\ handler = "idle"
    /\ Complete
    /\ handler' = "return"
    /\ UNCHANGED <<driver, step, start, sdhc, lost>>

SdhcRead ==
    /\ IsNext(IRQ_SCHED_DEV) /\ driver = "sdhc" /\ handler = "idle"
    /\ local_int' = sc_int
    /\ handler' = "clear"
    /\ UNCHANGED <<vars, driver, queue, step, start, hw, sc_int, lost>>

SdhcClear ==
    /\ handler = "clear"
    /\ lost' = (lost \/ "CMD" \in sc_int \ local_int)
    /\ sc_int' = {}
    /\ handler' = "test"
    /\ UNCHANGED <<vars, driver, queue, step, start, hw, local_int>>

\* Mutant: every interrupt completes the command, if there is one.
AnyInt == local_int # {} /\ in # <<>>
\* Mutant: the command must be all that the controller has to say.
OnlyCommand == local_int = {"CMD"}
\* The command-complete bit: another interrupt completes nothing.
CommandDone == "CMD" \in local_int

SdhcTest ==
    /\ handler = "test"
    /\ IF CommandDone THEN Complete ELSE UNCHANGED <<vars, queue, hw>>
    /\ handler' = "return"
    /\ local_int' = {}
    /\ UNCHANGED <<driver, step, start, sc_int, lost>>

DevReturn ==
    /\ handler = "return"
    /\ HandlerDone(IRQ_SCHED_DEV)
    /\ handler' = "idle"
    /\ UNCHANGED <<driver, queue, step, start, hw, sdhc, lost>>

\* irq_sched() clears the mask: a completion raised after its fetch is gone.
IoClear ==
    /\ Clear
    /\ lost' = (lost \/ IRQ_SCHED_DEV \in irq_sched_mask \ mask[current])
    /\ UNCHANGED <<driver, queue, step, start, hw, sdhc, handler>>

Rest == /\ \/ \E t \in Thread : step[current] = "out" /\ ThreadCreate(t)
           \/ Fetch \/ Leave({}, {}) \/ HandlerSchedule
        /\ UNCHANGED ioVars

ThreadStep == Submit \/ Start \/ WaitNot \/ WaitSleeps \/ WaitEnds \/ IoYield
HandlerStep == MboxComplete \/ SdhcRead \/ SdhcClear \/ SdhcTest \/ DevReturn
DeviceStep == \E k \in 0 .. MaxLag, timer \in BOOLEAN :
              \E late \in SUBSET {IRQ_SCHED_DEV} :
                  \/ \E r \in Thread : MboxIrq(r, k, late, timer)
                  \/ \E v \in SUBSET {"CMD", "DATA"} : SdhcIrq(v, k, late, timer)

IoNext == \/ ThreadStep \/ HandlerStep \/ DeviceStep \/ IoClear \/ Rest
          \/ \E late \in SUBSET {IRQ_SCHED_DEV} : IrqInLeave(late)
          \/ \E k \in 0 .. MaxLag, timer \in BOOLEAN : OtherIrq(k, timer)

IoSpec == IoInit /\ [][IoNext]_allVars

-----------------------------------------------------------------------------
(* Properties                                                              *)

\* The requests that somebody works on: a thread about to start one, or the
\* device and its interrupts.
Active == {start[t] : t \in {u \in Thread : start[u] # NoReq}}
              \union {r \in Thread : hw[r] # "none"}

\* busy "ensures that at most one instance is running" (ioreq.c:59-62):
\* while it is set exactly one request is worked on, once, and it is the head
\* of the queue; while it is clear there is none, and none waits.
OneUnderWay ==
    /\ busy \in {0, 1}
    /\ busy = 1 <=> in # <<>>
    /\ Active = IF busy = 1 THEN {Head(in)} ELSE {}
    /\ \A t \in Thread : start[t] # NoReq => hw[start[t]] = "none"

\* The driver completes a request only after the device has answered it.
Answered == [][\A r \in Thread : done[r] = 0 /\ done'[r] = 1 => hw[r] = "answered"]_allVars

\* A thread leaves ioq_ior_wait() with its request done, off the queue, out
\* of the device's hands, and its wait queue empty: all of them lie on the
\* stack frame that the thread is about to give up.
NothingLeftBehind ==
    \A t \in Thread : step[t] = "out" =>
        /\ ~IsElem(t, in) /\ hw[t] = "none" /\ waitq[t] = <<>>
        /\ \A u \in Thread : start[u] # t

\* The driver's handler is going to run for what has happened until now.
Raised == \/ IRQ_SCHED_DEV \in irq_sched_mask
          \/ IRQ_SCHED_DEV \in mask[current] /\ handler = "idle"

\* An answer of the device is on its way to the queue, through the sched mask,
\* sc_int and their copies, however the interrupts nest in irq_sched(), in
\* sdhc_sched_irq() and in the timer's soft handler: nothing drops it but the
\* clears of irq.c:48 and sdhc.c:131 and the store of irq.c:170.
CompletionKept ==
    \A r \in Thread : hw[r] = "answered" /\ ~lost =>
        IF driver = "mbox" THEN Raised
        ELSE "CMD" \in local_int \/ ("CMD" \in sc_int /\ Raised)

-----------------------------------------------------------------------------
(* Progress.  The device answers, the timer ticks, and irq_sched() goes on *)
(* and returns; of what runs again and again, a thread about to start a    *)
(* request does, and a thread that is not idle calls schedule().           *)

IoFairSpec ==
    /\ IoSpec
    /\ WF_allVars(HandlerStep \/ IoClear
                  \/ ((Fetch \/ Leave({}, {}) \/ HandlerSchedule) /\ UNCHANGED ioVars))
    /\ WF_allVars(DeviceStep /\ hw' # hw)
    /\ SF_allVars(\E k \in 0 .. MaxLag : OtherIrq(k, TRUE))
    /\ []<>(step[current] = "start") => []<><<Start>>_allVars
    /\ []<>(current # Idle) => []<><<IoYield>>_allVars

\* Every request is done in the end, unless the code has dropped a completion:
\* by a clear that comes after its read (irq.c:48, sdhc.c:131), or by the store
\* of a raise that its own raise falls into (irq.c:170).
RequestsDone ==
    \A t \in Thread : step[t] # "out" ~> (done[t] = 1 \/ lost)

\* What the comment in sdhc_sched_irq() says (sdhc.c:127-129): "An IRQ is not
\* raised for SDHC while its sched IRQ routine is running".  In particular no
\* command completes between the read of sc_int and the write that clears it,
\* which would wipe the completion out.
NoIrqWhileRunning == handler = "clear" => "CMD" \notin sc_int \ local_int
=============================================================================
