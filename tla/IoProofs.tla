------------------------------ MODULE IoProofs ------------------------------
(***************************************************************************)
(* Proofs about module IoReq: with any number of threads and requests, the *)
(* queue has one request under way, completes it once it is answered, and   *)
(* keeps nothing of it when its thread goes on.                             *)
(***************************************************************************)
EXTENDS IoReq, SchedProofs

request == <<in, busy, done, step, start, hw>>
device  == <<driver, sc_int, local_int, handler>>

RequestType ==
    /\ in \in Seq(Thread)
    /\ busy \in {0, 1}
    /\ done \in [Thread -> {0, 1}]
    /\ step \in [Thread -> {"out", "start", "wait", "loop"}]
    /\ start \in [Thread -> Thread \union {NoReq}]
    /\ hw \in [Thread -> {"none", "device", "answered"}]

\* A request is on the queue, once, from its submission until it is done.
Queued ==
    /\ Distinct(in)
    /\ \A t \in Thread : IsElem(t, in) <=> step[t] # "out" /\ done[t] = 0

\* A thread starts its own request only: another is started when busy drops.
OwnStart == \A t \in Thread : start[t] = IF step[t] = "start" THEN t ELSE NoReq

\* The head of the queue, and nothing else, is about to be started or with the
\* device, never both.
HeadUnderWay ==
    /\ busy = 1 <=> in # <<>>
    /\ \A t \in Thread : step[t] = "start" => in # <<>> /\ t = Head(in) /\ hw[t] = "none"
    /\ \A t \in Thread : hw[t] # "none" => in # <<>> /\ t = Head(in)
    /\ in # <<>> => step[Head(in)] = "start" \/ hw[Head(in)] # "none"

\* A thread is on the wait queue of its own request, which is not done.
OwnQueue ==
    \A q, t \in Thread : IsElem(t, waitq[q]) => t = q /\ step[t] = "loop" /\ done[t] = 0

RequestInv == RequestType /\ Queued /\ OwnStart /\ HeadUnderWay /\ OwnQueue

HeadAnswered == in # <<>> /\ hw[Head(in)] = "answered"

\* The driver's handler runs inside an irq_sched() that has fetched its IRQ.
HandlerInv ==
    /\ driver \in {"mbox", "sdhc"}
    /\ handler \in {"idle", "clear", "test", "return"}
    /\ handler # "idle" => phase[current] = "run" /\ IRQ_SCHED_DEV \in mask[current]

\* The mailbox: a sched IRQ that is raised or fetched means that the head is
\* answered, and once fetched and cleared it is not raised a second time.
MboxToken ==
    driver = "mbox" =>
        /\ sc_int = {} /\ local_int = {} /\ handler \in {"idle", "return"}
        /\ IRQ_SCHED_DEV \in irq_sched_mask => HeadAnswered
        /\ IRQ_SCHED_DEV \in mask[current] /\ handler = "idle" => HeadAnswered
        /\ IRQ_SCHED_DEV \in mask[current] /\ handler = "idle" /\ phase[current] = "run" =>
              IRQ_SCHED_DEV \notin irq_sched_mask

\* The SD host: the same of the command-complete bit, in sc_int and in its copy.
SdhcToken ==
    /\ "CMD" \in sc_int => HeadAnswered
    /\ "CMD" \in local_int => HeadAnswered /\ handler \in {"clear", "test"}
    /\ "CMD" \in local_int /\ handler = "test" => "CMD" \notin sc_int

DeviceInv == HandlerInv /\ MboxToken /\ SdhcToken

IoInv == RequestInv /\ DeviceInv

-----------------------------------------------------------------------------
(* Every step is a step of the scheduler.                                  *)

LEMMA DevIsDevice ==
    ASSUME IoConstants
    PROVE  /\ WaitQueue = Thread /\ NoReq \notin Thread
           /\ IRQ_SCHED_DEV \in Device /\ IRQ_SCHED_DEV \in SchedIrq
           /\ {IRQ_SCHED_DEV} \in SUBSET Device /\ {} \in SUBSET Device
           /\ IRQ_SCHED_DEV # IRQ_SCHED_SCHEDULE /\ ~(IRQ_SCHED_SCHEDULE <= IRQ_SCHED_DEV)
BY DEF IoConstants, IRQ_SCHED_DEV, Device, SchedIrq

\* What is done about the head is done of a thread's request.
LEMMA HeadIsRequest ==
    ASSUME RequestInv, in # <<>>
    PROVE  /\ Head(in) \in Thread /\ Tail(in) \in Seq(Thread)
           /\ \A t : IsElem(t, in) <=> t = Head(in) \/ IsElem(t, Tail(in))
           /\ Distinct(Tail(in)) /\ ~IsElem(Head(in), Tail(in))
BY TailElems DEF RequestInv, RequestType, Queued

\* A handler completes a request only after the device has answered the head.
LEMMA CompletesAnswered ==
    ASSUME DeviceInv, HandlerStep
    PROVE  \/ HeadAnswered
           \/ ~MboxComplete /\ ~(SdhcTest /\ CommandDone)
BY DEF DeviceInv, MboxToken, SdhcToken, MboxComplete, SdhcTest, CommandDone, IsNext

LEMMA IoStepIsSched ==
    ASSUME IoConstants, IoInv, current \in Thread, [IoNext]_allVars
    PROVE  [Next]_vars
<1> USE DEF IoInv
<1>1. /\ WaitQueue = Thread /\ IRQ_SCHED_DEV \in SchedIrq
      /\ {IRQ_SCHED_DEV} \in SUBSET Device /\ {} \in SUBSET Device
  BY DevIsDevice
<1>2. CASE Submit \/ WaitNot
  BY <1>2 DEF Submit, WaitNot, Next
<1>3. CASE Start \/ WaitEnds
  BY <1>3 DEF Start, WaitEnds
<1>4. CASE WaitSleeps
  <2>1. "WAITING" \in Waiting
    BY DEF Waiting
  <2>2. \E q \in WaitQueue, s \in Waiting : Wait(q, s)
    BY <1>1, <1>4, <2>1 DEF WaitSleeps
  <2> QED BY <2>2 DEF Next
<1>5. CASE IoYield
  BY <1>5 DEF IoYield, Next
<1>6. CASE MboxComplete \/ (SdhcTest /\ CommandDone)
  <2>1. in # <<>> /\ Head(in) \in Thread
    BY <1>6, CompletesAnswered, HeadIsRequest DEF HandlerStep, HeadAnswered
  <2>2. HandlerWake(Head(in))
    BY <1>6 DEF MboxComplete, SdhcTest, Complete
  <2>3. \E q \in WaitQueue : HandlerWake(q)
    BY <1>1, <2>1, <2>2
  <2> QED BY <2>3 DEF Next
<1>7. CASE SdhcRead \/ SdhcClear \/ (SdhcTest /\ ~CommandDone)
  BY <1>7 DEF SdhcRead, SdhcClear, SdhcTest
<1>8. CASE DevReturn
  <2>1. \E i \in SchedIrq : HandlerDone(i)
    BY <1>1, <1>8 DEF DevReturn
  <2> QED BY <2>1 DEF Next
<1>9. CASE DeviceStep \/ \E k \in 0 .. MaxLag, timer \in BOOLEAN : OtherIrq(k, timer)
  <2>1. \E k \in 0 .. MaxLag, timer \in BOOLEAN :
            \/ \E late \in SUBSET {IRQ_SCHED_DEV} : Irq(k, {IRQ_SCHED_DEV}, late, timer)
            \/ Irq(k, {}, {}, timer)
    BY <1>9 DEF DeviceStep, MboxIrq, SdhcIrq, OtherIrq
  <2>2. \E k \in 0 .. MaxLag, D \in SUBSET Device, timer \in BOOLEAN :
            \E late \in SUBSET D : Irq(k, D, late, timer)
    BY <1>1, <2>1
  <2> QED BY <2>2 DEF Next
<1>10. CASE IoClear
  BY <1>10 DEF IoClear, Next
<1>11. CASE Rest
  <2>1. Leave({}, {}) => \E D \in SUBSET Device : \E late \in SUBSET D : Leave(D, late)
    BY <1>1
  <2> QED BY <1>11, <2>1 DEF Rest, Next
<1>12. CASE \E late \in SUBSET {IRQ_SCHED_DEV} : IrqInLeave(late)
  <2>1. \E D \in SUBSET Device : \E late \in SUBSET D : Leave(D, late)
    BY <1>1, <1>12 DEF IrqInLeave
  <2> QED BY <2>1 DEF Next
<1>13. CASE UNCHANGED allVars
  BY <1>13 DEF allVars
<1> QED BY <1>2, <1>3, <1>4, <1>5, <1>6, <1>7, <1>8, <1>9, <1>10, <1>11, <1>12, <1>13
        DEF IoNext, ThreadStep, HandlerStep

-----------------------------------------------------------------------------
(* Steps that leave the requests, or the handler, alone.                   *)

\* No thread is queued by a step, and none is moved.
LEMMA RequestsAlone ==
    ASSUME RequestInv, UNCHANGED request,
           \A q, t \in Thread : IsElem(t, waitq'[q]) => IsElem(t, waitq[q])
    PROVE  RequestInv' /\ (HeadAnswered' <=> HeadAnswered)
BY DEF RequestInv, request, RequestType, Queued, OwnStart, HeadUnderWay, OwnQueue, HeadAnswered

\* The head stays answered, the driver's IRQ is neither raised nor fetched
\* but from what was raised, and its handler goes on.
LEMMA DeviceAlone ==
    ASSUME DeviceInv, UNCHANGED device, HeadAnswered => HeadAnswered',
           IRQ_SCHED_DEV \in irq_sched_mask' => IRQ_SCHED_DEV \in irq_sched_mask,
           IRQ_SCHED_DEV \in mask'[current'] =>
               IRQ_SCHED_DEV \in mask[current] \/ IRQ_SCHED_DEV \in irq_sched_mask,
           IRQ_SCHED_DEV \in mask'[current'] /\ phase'[current'] = "run" =>
               \/ IRQ_SCHED_DEV \in mask[current] /\ phase[current] = "run"
               \/ IRQ_SCHED_DEV \notin irq_sched_mask',
           handler # "idle" => phase'[current'] = "run" /\ IRQ_SCHED_DEV \in mask'[current']
    PROVE  DeviceInv'
<1> USE DEF DeviceInv, device
<1>1. HandlerInv'
  BY DEF HandlerInv
<1>2. MboxToken'
  BY DEF MboxToken
<1>3. SdhcToken'
  BY DEF SdhcToken
<1> QED BY <1>1, <1>2, <1>3

\* A thread's call, up to its preempt_enable(), does not touch the handler.
LEMMA CallKeepsDevice ==
    ASSUME Inv, DeviceInv, UNCHANGED device, HeadAnswered => HeadAnswered',
           InCode, PreemptEnable, UNCHANGED <<current, irq_sched_mask>>
    PROVE  DeviceInv'
<1>1. phase[current] = "code" /\ handler = "idle" /\ current \in Thread
  BY DEF InCode, DeviceInv, HandlerInv, Inv, QueueInv, QueueType
<1>2. mask' = mask /\ mask[current] = {}
  BY <1>1 DEF PreemptEnable, Inv, ControlInv
<1> QED BY <1>1, <1>2, DeviceAlone

\* A switch goes to a thread that has fetched nothing.
LEMMA SwitchFetchesNothing ==
    ASSUME SchedConstants, Inv, SchedulePreemptDisabled
    PROVE  /\ current' \in Thread /\ waitq' = waitq
           /\ current' # current => mask[current'] = {}
<1>1. ready # <<>> => Chosen \in Thread
  BY ChosenElems DEF Inv, QueueInv, QueueType, QueueDiscipline, SchedConstants
<1>2. current' \in Thread /\ waitq' = waitq
  BY <1>1 DEF SchedulePreemptDisabled, queues, Inv, QueueInv, QueueType
<1> QED BY <1>2 DEF Inv, ControlInv, SuspendedClean

\* schedule() in a thread.
LEMMA YieldKeepsDevice ==
    ASSUME SchedConstants, Inv, DeviceInv, UNCHANGED device,
           HeadAnswered => HeadAnswered', Yield
    PROVE  DeviceInv'
<1>1. phase[current] = "code" /\ handler = "idle" /\ current \in Thread
  BY DEF Yield, InCode, DeviceInv, HandlerInv, Inv, QueueInv, QueueType
<1>2. mask' = mask /\ irq_sched_mask' = irq_sched_mask /\ mask[current] = {}
  BY <1>1 DEF Yield, PreemptEnable, Inv, ControlInv
<1>3. mask'[current'] = {}
  BY <1>2, SwitchFetchesNothing DEF Yield
<1> QED BY <1>1, <1>2, <1>3, DeviceAlone

\* Interrupts of others: the timer's, or those that the device did not answer by.
LEMMA IrqKeepsDevice ==
    ASSUME SchedConstants, IoConstants, Inv, DeviceInv, UNCHANGED device,
           HeadAnswered => HeadAnswered',
           NEW k \in 0 .. MaxLag, NEW timer \in BOOLEAN, Irq(k, {}, {}, timer)
    PROVE  DeviceInv'
<1>1. current \in Thread /\ IRQ_SCHED_DEV # IRQ_SCHED_SCHEDULE
  BY DevIsDevice DEF Inv, QueueInv, QueueType
<1>2. UNCHANGED <<current, mask>>
  BY DEF Irq
<1>3. IRQ_SCHED_DEV \in irq_sched_mask' => IRQ_SCHED_DEV \in irq_sched_mask
  BY <1>1 DEF Irq, ChargeAndRaise, Raise
<1>4. phase'[current] # phase[current] => phase[current] = "code" /\ phase'[current] = "fetch"
  BY <1>1 DEF Irq, Inv, ControlInv, ControlType
<1> QED BY <1>1, <1>2, <1>3, <1>4, DeviceAlone DEF DeviceInv, HandlerInv

-----------------------------------------------------------------------------
(* Threads.                                                                *)

\* Submit at the end of the queue; the request is started if it is the first.
LEMMA SubmitInv ==
    ASSUME IoConstants, Inv, IoInv, Submit PROVE IoInv'
<1> USE DEF IoInv, RequestInv, RequestType
<1>1. /\ current \in Thread /\ NoReq \notin Thread /\ step[current] = "out"
      /\ UNCHANGED <<driver, hw, sdhc, handler, current, queues, irq_sched_mask>>
      /\ InCode /\ PreemptEnable
      /\ ~IsElem(current, in)
  BY DEF Submit, Section, Inv, QueueInv, QueueType, IoConstants, Queued
<1>2. /\ in' = Append(in, current) /\ in' \in Seq(Thread) /\ in' # <<>>
      /\ \A t : IsElem(t, in') <=> IsElem(t, in) \/ t = current
      /\ Distinct(in')
  BY <1>1, AppendElems DEF Submit, TakeNext, Queued
<1>3. IF in = <<>> THEN Head(in') = current ELSE Head(in') = Head(in)
  BY <1>1, <1>2, AppendProperties
<1>4. NextIor(in', busy) = IF in = <<>> THEN current ELSE NoReq
  BY <1>2, <1>3 DEF NextIor, HeadUnderWay
<1>5. /\ busy' = 1
      /\ start' = [start EXCEPT ![current] = IF in = <<>> THEN current ELSE NoReq]
      /\ step' = [step EXCEPT ![current] = IF in = <<>> THEN "start" ELSE "wait"]
      /\ done' = [done EXCEPT ![current] = 0]
  <2>1. /\ start' = [start EXCEPT ![current] = NextIor(in', busy)]
        /\ busy' = IF NextIor(in', busy) = NoReq THEN busy ELSE busy + 1
        /\ step' = [step EXCEPT ![current] = IF start'[current] = NoReq THEN "wait" ELSE "start"]
        /\ done' = [done EXCEPT ![current] = 0]
    BY <1>2 DEF Submit, TakeNext, Goto
  <2>2. start'[current] = IF in = <<>> THEN current ELSE NoReq
    BY <1>1, <1>4, <2>1
  <2>3. busy = IF in = <<>> THEN 0 ELSE 1
    BY DEF HeadUnderWay
  <2>4. CASE in = <<>>
    <3>1. start'[current] # NoReq /\ NextIor(in', busy) = current
      BY <1>1, <1>4, <2>2, <2>4
    <3>2. busy' = 1
      BY <1>1, <2>1, <2>3, <2>4, <3>1
    <3>3. step' = [step EXCEPT ![current] = "start"]
      BY <2>1, <3>1, Zenon
    <3>4. start' = [start EXCEPT ![current] = current]
      BY <2>1, <3>1
    <3> QED BY <2>1, <2>4, <3>2, <3>3, <3>4
  <2>5. CASE in # <<>>
    <3>1. start'[current] = NoReq /\ NextIor(in', busy) = NoReq
      BY <1>4, <2>2, <2>5
    <3> QED BY <2>1, <2>3, <2>5, <3>1
  <2> QED BY <2>4, <2>5
<1>6. RequestType'
  BY <1>1, <1>2, <1>5
<1>7. Queued' /\ OwnStart'
  BY <1>1, <1>2, <1>5 DEF Queued, OwnStart
<1>8. HeadUnderWay'
  BY <1>1, <1>2, <1>3, <1>5 DEF HeadUnderWay
<1>9. OwnQueue'
  BY <1>1, <1>5 DEF OwnQueue, queues
<1>10. HeadAnswered => HeadAnswered'
  BY <1>1, <1>2, <1>3 DEF HeadAnswered
<1>11. DeviceInv'
  BY <1>1, <1>10, CallKeepsDevice DEF device, sdhc
<1> QED BY <1>6, <1>7, <1>8, <1>9, <1>11

\* The request that a thread starts is its own, the head, and not yet with the
\* device.
LEMMA StartInv ==
    ASSUME IoConstants, Inv, IoInv, Start PROVE IoInv'
<1> USE DEF IoInv, RequestInv, RequestType
<1>1. /\ current \in Thread /\ NoReq \notin Thread
      /\ step[current] = "start" /\ start[current] = current
      /\ in # <<>> /\ current = Head(in) /\ hw[current] = "none"
      /\ hw' = [hw EXCEPT ![current] = "device"]
      /\ start' = [start EXCEPT ![current] = NoReq]
      /\ step' = [step EXCEPT ![current] = "wait"]
      /\ UNCHANGED <<vars, driver, queue, sdhc, handler>>
  BY DEF Start, Goto, Inv, QueueInv, QueueType, IoConstants, OwnStart, HeadUnderWay
<1>2. RequestType' /\ Queued' /\ OwnStart'
  BY <1>1 DEF queue, Queued, OwnStart
<1>3. HeadUnderWay'
  BY <1>1 DEF queue, HeadUnderWay
<1>4. OwnQueue'
  BY <1>1 DEF queue, vars, queues, OwnQueue
<1>5. ~HeadAnswered
  BY <1>1 DEF HeadAnswered
<1>6. phase[current] = "code" /\ handler = "idle"
  BY DEF Start, InCode, DeviceInv, HandlerInv
<1>7. DeviceInv'
  BY <1>1, <1>5, <1>6, DeviceAlone DEF device, sdhc, vars, control
<1> QED BY <1>2, <1>3, <1>4, <1>7

\* Steps of wait_event(): only the place of the thread changes, of one that is
\* neither about to start a request nor, if it leaves, on a wait queue.
LEMMA WaitingKeepsRequests ==
    ASSUME RequestInv, UNCHANGED <<queue, start, hw, waitq>>, NEW p \in {"out", "loop"},
           step[current] \in {"wait", "loop"}, Goto(p), current \in Thread,
           p = "out" => done[current] = 1
    PROVE  RequestInv' /\ (HeadAnswered' <=> HeadAnswered)
<1> USE DEF RequestInv, RequestType, Goto, queue
<1>1. RequestType' /\ Queued' /\ OwnStart'
  BY DEF Queued, OwnStart
<1>2. HeadUnderWay'
  BY DEF HeadUnderWay
<1>3. OwnQueue'
  BY DEF OwnQueue
<1> QED BY <1>1, <1>2, <1>3 DEF HeadAnswered

LEMMA WaitEventInv ==
    ASSUME SchedConstants, IoConstants, Inv, IoInv, WaitNot \/ WaitEnds PROVE IoInv'
<1>1. /\ current \in Thread /\ step[current] \in {"wait", "loop"} /\ done[current] = 1
      /\ Goto("out") /\ InCode
      /\ UNCHANGED <<driver, queue, start, hw, sdhc, handler>>
      /\ UNCHANGED <<current, waitq, irq_sched_mask>>
      /\ PreemptEnable \/ UNCHANGED control
  BY DEF WaitNot, WaitEnds, LoopEnds, Section, Inv, QueueInv, QueueType, vars, queues, control
<1>2. RequestInv' /\ (HeadAnswered' <=> HeadAnswered)
  BY <1>1, WaitingKeepsRequests DEF IoInv
<1>3. CASE PreemptEnable
  BY <1>1, <1>2, <1>3, CallKeepsDevice DEF IoInv, device, sdhc
<1>4. CASE UNCHANGED control
  <2>1. phase[current] = "code" /\ handler = "idle"
    BY <1>1 DEF InCode, IoInv, DeviceInv, HandlerInv
  <2> QED BY <1>1, <1>2, <1>4, <2>1, DeviceAlone DEF IoInv, device, sdhc, control
<1> QED BY <1>1, <1>2, <1>3, <1>4 DEF IoInv

\* A thread queues itself on its own request's wait queue while it is not done.
LEMMA WaitSleepsInv ==
    ASSUME SchedConstants, IoConstants, Inv, IoInv, WaitSleeps PROVE IoInv'
<1> USE DEF IoInv, RequestInv, RequestType
<1>1. /\ current \in Thread /\ step[current] = "wait" /\ done[current] = 0
      /\ waitq \in [Thread -> Seq(Thread)]
      /\ waitq' = [waitq EXCEPT ![current] = Append(@, current)]
      /\ step' = [step EXCEPT ![current] = "loop"]
      /\ UNCHANGED <<driver, queue, start, hw, sdhc, handler, current, irq_sched_mask>>
      /\ InCode /\ PreemptEnable
  BY DEF WaitSleeps, Wait, Goto, Inv, QueueInv, QueueType, IoConstants
<1>2. RequestType' /\ Queued' /\ OwnStart'
  BY <1>1 DEF queue, Queued, OwnStart
<1>3. HeadUnderWay' /\ (HeadAnswered' <=> HeadAnswered)
  BY <1>1 DEF queue, HeadUnderWay, HeadAnswered
<1>4. OwnQueue'
  <2>1. \A t : IsElem(t, waitq'[current]) <=> IsElem(t, waitq[current]) \/ t = current
    BY <1>1, AppendElems
  <2>2. \A q \in Thread \ {current} : waitq'[q] = waitq[q]
    BY <1>1
  <2> QED BY <1>1, <2>1, <2>2 DEF OwnQueue, queue
<1>5. DeviceInv'
  BY <1>1, <1>3, CallKeepsDevice DEF device, sdhc
<1> QED BY <1>2, <1>3, <1>4, <1>5

LEMMA IoYieldInv ==
    ASSUME SchedConstants, Inv, IoInv, IoYield PROVE IoInv'
<1>1. Yield /\ UNCHANGED request /\ UNCHANGED device
  BY DEF IoYield, ioVars, request, device
<1>2. RequestInv' /\ (HeadAnswered' <=> HeadAnswered)
  BY <1>1, SwitchFetchesNothing, RequestsAlone DEF Yield, IoInv
<1> QED BY <1>1, <1>2, YieldKeepsDevice DEF IoInv

-----------------------------------------------------------------------------
(* Interrupts.                                                             *)

LEMMA IrqKeepsThreads ==
    ASSUME Inv, DeviceInv, NEW k, NEW D, NEW late, NEW timer, Irq(k, D, late, timer)
    PROVE  /\ UNCHANGED <<current, mask, waitq>> /\ current \in Thread
           /\ handler # "idle" => phase'[current] = "run"
           /\ phase'[current] = "run" => phase[current] = "run"
<1>1. UNCHANGED <<current, mask, waitq>> /\ current \in Thread
  BY DEF Irq, queues, Inv, QueueInv, QueueType
<1>2. phase' = phase \/ phase' = [phase EXCEPT ![current] = "fetch"]
  BY DEF Irq
<1>3. phase[current] = "run" => ctx[current] # "proc"
  BY <1>1 DEF Inv, ControlInv
<1>4. phase[current] = "run" => phase' = phase
  BY <1>3 DEF Irq
<1>5. phase'[current] = "run" => phase[current] = "run"
  BY <1>1, <1>2 DEF Inv, ControlInv, ControlType
<1> QED BY <1>1, <1>4, <1>5 DEF DeviceInv, HandlerInv

\* What the device answers is the head of the queue.
LEMMA AnswerInv ==
    ASSUME RequestInv, NEW r \in Thread, Answer(r), UNCHANGED <<queue, step, start, waitq>>
    PROVE  RequestInv' /\ ~HeadAnswered /\ HeadAnswered'
<1> USE DEF RequestInv, RequestType, queue
<1>1. /\ in # <<>> /\ r = Head(in) /\ hw[r] = "device"
      /\ hw' = [hw EXCEPT ![r] = "answered"]
  BY DEF Answer, HeadUnderWay
<1>2. RequestType' /\ Queued' /\ OwnStart' /\ OwnQueue'
  BY <1>1 DEF Queued, OwnStart, OwnQueue
<1>3. HeadUnderWay'
  BY <1>1 DEF HeadUnderWay
<1> QED BY <1>1, <1>2, <1>3 DEF HeadAnswered

\* Whatever the interrupt does to the masks, the head is answered then.
LEMMA MboxAnswersInv ==
    ASSUME SchedConstants, IoConstants, Inv, IoInv, NEW r \in Thread, MboxAnswers(r),
           UNCHANGED <<current, mask, waitq, driver, queue, step, start, local_int, handler>>,
           handler # "idle" => phase'[current] = "run",
           phase'[current] = "run" => phase[current] = "run"
    PROVE  IoInv'
<1>1. driver = "mbox" /\ Answer(r) /\ UNCHANGED sdhc
  BY DEF MboxAnswers, sdhc
<1>2. RequestInv' /\ ~HeadAnswered /\ HeadAnswered'
  BY <1>1, AnswerInv DEF IoInv
<1>3. HandlerInv' /\ MboxToken' /\ SdhcToken'
  BY <1>1, <1>2 DEF IoInv, DeviceInv, HandlerInv, MboxToken, SdhcToken, sdhc
<1> QED BY <1>2, <1>3 DEF IoInv, DeviceInv

LEMMA SdhcAnswersInv ==
    ASSUME SchedConstants, IoConstants, Inv, IoInv, NEW v, SdhcAnswers(v),
           UNCHANGED <<current, mask, waitq, driver, queue, step, start, local_int, handler>>,
           handler # "idle" => phase'[current] = "run",
           phase'[current] = "run" => phase[current] = "run"
    PROVE  IoInv'
<1>1. driver = "sdhc" /\ sc_int' = sc_int \union v
  BY DEF SdhcAnswers
<1>2. HandlerInv' /\ MboxToken'
  BY <1>1 DEF IoInv, DeviceInv, HandlerInv, MboxToken
<1>3. CASE "CMD" \in v
  <2>1. \E r \in Thread : Answer(r)
    BY <1>3 DEF SdhcAnswers
  <2>2. RequestInv' /\ ~HeadAnswered /\ HeadAnswered'
    BY <2>1, AnswerInv DEF IoInv
  <2>3. SdhcToken'
    BY <1>1, <2>2 DEF IoInv, DeviceInv, SdhcToken
  <2> QED BY <1>2, <2>2, <2>3 DEF IoInv, DeviceInv
<1>4. CASE "CMD" \notin v
  <2>1. UNCHANGED request
    BY <1>4 DEF SdhcAnswers, request, queue
  <2>2. RequestInv' /\ (HeadAnswered' <=> HeadAnswered)
    BY <2>1, RequestsAlone DEF IoInv
  <2>3. SdhcToken'
    BY <1>1, <1>4, <2>2 DEF IoInv, DeviceInv, SdhcToken
  <2> QED BY <1>2, <2>2, <2>3 DEF IoInv, DeviceInv
<1> QED BY <1>3, <1>4

LEMMA MboxIrqInv ==
    ASSUME SchedConstants, IoConstants, Inv, IoInv, NEW r \in Thread, NEW k, NEW late,
           NEW timer, MboxIrq(r, k, late, timer)
    PROVE  IoInv'
<1>1. /\ MboxAnswers(r) /\ Irq(k, {IRQ_SCHED_DEV}, late, timer)
      /\ UNCHANGED <<driver, queue, step, start, local_int, handler>>
  BY DEF MboxIrq
<1>2. /\ UNCHANGED <<current, mask, waitq>>
      /\ handler # "idle" => phase'[current] = "run"
      /\ phase'[current] = "run" => phase[current] = "run"
  BY <1>1, IrqKeepsThreads DEF IoInv
<1> QED BY <1>1, <1>2, MboxAnswersInv

LEMMA SdhcIrqInv ==
    ASSUME SchedConstants, IoConstants, Inv, IoInv, NEW v, NEW k, NEW late, NEW timer,
           SdhcIrq(v, k, late, timer)
    PROVE  IoInv'
<1>1. /\ SdhcAnswers(v) /\ Irq(k, {IRQ_SCHED_DEV}, late, timer)
      /\ UNCHANGED <<driver, queue, step, start, local_int, handler>>
  BY DEF SdhcIrq
<1>2. /\ UNCHANGED <<current, mask, waitq>>
      /\ handler # "idle" => phase'[current] = "run"
      /\ phase'[current] = "run" => phase[current] = "run"
  BY <1>1, IrqKeepsThreads DEF IoInv
<1> QED BY <1>1, <1>2, SdhcAnswersInv

\* The same of an interrupt in the soft handlers that excpt_irq() runs last.
LEMMA IrqInLeaveInv ==
    ASSUME SchedConstants, IoConstants, Inv, IoInv, NEW late, IrqInLeave(late)
    PROVE  IoInv'
<1>1. /\ Leave({IRQ_SCHED_DEV}, late)
      /\ UNCHANGED <<driver, queue, step, start, local_int, handler>>
  BY DEF IrqInLeave
<1>2. current \in Thread /\ handler = "idle"
  BY <1>1 DEF Leave, Inv, QueueInv, QueueType, IoInv, DeviceInv, HandlerInv
<1>3. UNCHANGED <<current, mask, waitq>> /\ phase'[current] = "code"
  BY <1>1, <1>2 DEF Leave, queues, Inv, ControlInv, ControlType
<1>4. CASE \E r \in Thread : MboxAnswers(r)
  BY <1>1, <1>2, <1>3, <1>4, MboxAnswersInv
<1>5. CASE \E v \in SUBSET {"CMD", "DATA"} : SdhcAnswers(v)
  BY <1>1, <1>2, <1>3, <1>5, SdhcAnswersInv
<1> QED BY <1>4, <1>5 DEF IrqInLeave

LEMMA OtherIrqInv ==
    ASSUME SchedConstants, IoConstants, Inv, IoInv,
           NEW k \in 0 .. MaxLag, NEW timer \in BOOLEAN, OtherIrq(k, timer)
    PROVE  IoInv'
<1>1. Irq(k, {}, {}, timer) /\ UNCHANGED request /\ UNCHANGED device
  BY DEF OtherIrq, ioVars, request, device
<1>2. UNCHANGED waitq
  BY <1>1, IrqKeepsThreads DEF IoInv
<1>3. RequestInv' /\ (HeadAnswered' <=> HeadAnswered)
  BY <1>1, <1>2, RequestsAlone DEF IoInv
<1> QED BY <1>1, <1>3, IrqKeepsDevice DEF IoInv

-----------------------------------------------------------------------------
(* The driver's handler.                                                   *)

\* The head is done, leaves the queue, and the next becomes the head.
LEMMA CompleteRequests ==
    ASSUME IoConstants, Inv, RequestInv, HeadAnswered, Complete, UNCHANGED <<step, start>>
    PROVE  RequestInv'
<1> DEFINE r == Head(in)
           next == NextIor(WithoutDone(in), busy - 1)
<1> USE DEF RequestInv, RequestType
<1>1. /\ r \in Thread /\ Tail(in) \in Seq(Thread) /\ in # <<>> /\ busy = 1
      /\ \A t : IsElem(t, in) <=> t = r \/ IsElem(t, Tail(in))
      /\ Distinct(Tail(in)) /\ ~IsElem(r, Tail(in))
  BY HeadIsRequest DEF HeadAnswered, HeadUnderWay
<1>2. Tail(in) # <<>> => Head(Tail(in)) \in Thread /\ IsElem(Head(Tail(in)), Tail(in))
  BY <1>1, TailElems
<1>3. next = IF Tail(in) # <<>> THEN Head(Tail(in)) ELSE NoReq
  BY <1>1 DEF NextIor, WithoutDone
<1>4. next # NoReq <=> Tail(in) # <<>>
  BY <1>2, <1>3 DEF IoConstants
<1>5. /\ in' = Tail(in) /\ busy' = IF Tail(in) # <<>> THEN 1 ELSE 0
      /\ done' = [done EXCEPT ![r] = 1]
      /\ hw' = [t \in Thread |-> IF t = next THEN "device" ELSE IF t = r THEN "none" ELSE hw[t]]
      /\ waitq' = [waitq EXCEPT ![r] = <<>>]
  BY <1>1, <1>4 DEF Complete, TakeNext, WithoutDone, HandlerWake, Wake
<1> HIDE DEF r, next
<1>6. RequestType'
  BY <1>1, <1>5
<1>7. Queued' /\ OwnStart'
  BY <1>1, <1>5 DEF Queued, OwnStart
<1>8. \A t \in Thread : step[t] # "start" /\ (hw[t] # "none" => t = r)
  BY DEF HeadUnderWay, HeadAnswered, r
<1>9. HeadUnderWay'
  BY <1>1, <1>2, <1>3, <1>5, <1>8 DEF HeadUnderWay
<1>10. OwnQueue'
  <2>1. \A t : ~IsElem(t, <<>>)
    BY DEF IsElem
  <2>2. \A q \in Thread : waitq'[q] = IF q = r THEN <<>> ELSE waitq[q]
    BY <1>5 DEF Inv, QueueInv, QueueType, IoConstants
  <2> QED BY <1>5, <2>1, <2>2 DEF OwnQueue
<1> QED BY <1>6, <1>7, <1>9, <1>10

\* The wake-up of a completion raises no IRQ of the driver's.
LEMMA CompleteControl ==
    ASSUME IoConstants, Complete
    PROVE  /\ UNCHANGED <<current, control>>
           /\ IRQ_SCHED_DEV \in irq_sched_mask' => IRQ_SCHED_DEV \in irq_sched_mask
BY DevIsDevice DEF Complete, HandlerWake, Wake, RaiseFor

LEMMA MboxCompleteInv ==
    ASSUME IoConstants, Inv, IoInv, MboxComplete PROVE IoInv'
<1> USE DEF IoInv, DeviceInv
<1>1. /\ IsNext(IRQ_SCHED_DEV) /\ driver = "mbox" /\ handler = "idle" /\ Complete
      /\ handler' = "return" /\ UNCHANGED <<driver, step, start, sdhc>>
  BY DEF MboxComplete
<1>2. HeadAnswered /\ phase[current] = "run" /\ IRQ_SCHED_DEV \in mask[current]
      /\ IRQ_SCHED_DEV \notin irq_sched_mask
  BY <1>1 DEF IsNext, MboxToken
<1>3. RequestInv'
  BY <1>1, <1>2, CompleteRequests
<1>4. HandlerInv' /\ MboxToken' /\ SdhcToken'
  BY <1>1, <1>2, CompleteControl DEF control, HandlerInv, MboxToken, SdhcToken, sdhc
<1> QED BY <1>3, <1>4

LEMMA SdhcTestInv ==
    ASSUME IoConstants, Inv, IoInv, SdhcTest PROVE IoInv'
<1> USE DEF IoInv, DeviceInv
<1>1. /\ handler = "test" /\ handler' = "return" /\ local_int' = {}
      /\ UNCHANGED <<driver, step, start, sc_int>> /\ driver = "sdhc"
  BY DEF SdhcTest, HandlerInv, MboxToken
<1>2. CASE "CMD" \in local_int
  <2>1. Complete /\ HeadAnswered /\ "CMD" \notin sc_int
    BY <1>1, <1>2 DEF SdhcTest, CommandDone, SdhcToken
  <2>2. RequestInv'
    BY <1>1, <2>1, CompleteRequests
  <2>3. HandlerInv' /\ MboxToken' /\ SdhcToken'
    BY <1>1, <2>1, CompleteControl DEF control, HandlerInv, MboxToken, SdhcToken
  <2> QED BY <2>2, <2>3
<1>3. CASE "CMD" \notin local_int
  <2>1. UNCHANGED request /\ UNCHANGED vars
    BY <1>1, <1>3 DEF SdhcTest, CommandDone, request, queue
  <2>2. RequestInv' /\ (HeadAnswered' <=> HeadAnswered)
    BY <2>1, RequestsAlone DEF vars, queues
  <2>3. HandlerInv' /\ MboxToken' /\ SdhcToken'
    BY <1>1, <2>1, <2>2 DEF vars, control, HandlerInv, MboxToken, SdhcToken
  <2> QED BY <2>2, <2>3
<1> QED BY <1>2, <1>3

\* The read and the clear of sc_int.
LEMMA SdhcReadClearInv ==
    ASSUME IoInv, SdhcRead \/ SdhcClear PROVE IoInv'
<1> USE DEF IoInv, DeviceInv
<1>1. UNCHANGED request /\ UNCHANGED vars /\ driver' = driver
  BY DEF SdhcRead, SdhcClear, request, queue
<1>2. RequestInv' /\ (HeadAnswered' <=> HeadAnswered)
  BY <1>1, RequestsAlone DEF vars, queues
<1>3. CASE SdhcRead
  BY <1>1, <1>2, <1>3 DEF SdhcRead, IsNext, vars, control, HandlerInv, MboxToken, SdhcToken
<1>4. CASE SdhcClear
  BY <1>1, <1>2, <1>4 DEF SdhcClear, vars, control, HandlerInv, MboxToken, SdhcToken
<1> QED BY <1>3, <1>4

LEMMA DevReturnInv ==
    ASSUME IoConstants, Inv, IoInv, DevReturn PROVE IoInv'
<1> USE DEF IoInv, DeviceInv
<1>1. /\ handler = "return" /\ handler' = "idle" /\ UNCHANGED <<driver, sdhc>>
      /\ mask' = [mask EXCEPT ![current] = @ \ {IRQ_SCHED_DEV}]
      /\ UNCHANGED <<current, queues, irq_sched_mask>> /\ UNCHANGED request
      /\ current \in Thread
  BY DEF DevReturn, HandlerDone, request, queue, Inv, QueueInv, QueueType
<1>2. RequestInv' /\ (HeadAnswered' <=> HeadAnswered)
  BY <1>1, RequestsAlone DEF queues
<1>3. IRQ_SCHED_DEV \notin mask'[current']
  BY <1>1 DEF Inv, ControlInv, ControlType
<1>4. HandlerInv' /\ MboxToken' /\ SdhcToken'
  BY <1>1, <1>2, <1>3 DEF HandlerInv, MboxToken, SdhcToken, sdhc
<1> QED BY <1>2, <1>4

LEMMA IoClearInv ==
    ASSUME Inv, IoInv, IoClear PROVE IoInv'
<1>1. /\ phase[current] = "clear" /\ handler = "idle" /\ irq_sched_mask' = {}
      /\ UNCHANGED <<current, queues, mask>> /\ UNCHANGED request /\ UNCHANGED device
  BY DEF IoClear, Clear, request, queue, device, sdhc, IoInv, DeviceInv, HandlerInv
<1>2. RequestInv' /\ (HeadAnswered' <=> HeadAnswered)
  BY <1>1, RequestsAlone DEF IoInv, queues
<1> QED BY <1>1, <1>2, DeviceAlone DEF IoInv

\* Threads created, the fetch, the return and the scheduler's own handler.
LEMMA RestInv ==
    ASSUME SchedConstants, IoConstants, Inv, IoInv, Rest PROVE IoInv'
<1>1. UNCHANGED request /\ UNCHANGED device /\ current \in Thread
  BY DEF Rest, ioVars, request, device, Inv, QueueInv, QueueType
<1>2. CASE \E t \in Thread : step[current] = "out" /\ ThreadCreate(t)
  <2>1. InCode /\ PreemptEnable /\ UNCHANGED <<current, waitq, irq_sched_mask>>
    BY <1>2 DEF ThreadCreate
  <2>2. RequestInv' /\ (HeadAnswered' <=> HeadAnswered)
    BY <1>1, <2>1, RequestsAlone DEF IoInv
  <2> QED BY <1>1, <2>1, <2>2, CallKeepsDevice DEF IoInv
<1>3. CASE Fetch
  <2>1. /\ handler = "idle" /\ phase'[current] = "clear"
        /\ mask'[current] = irq_sched_mask
        /\ UNCHANGED <<current, queues, irq_sched_mask>>
    BY <1>1, <1>3 DEF Fetch, IoInv, DeviceInv, HandlerInv, Inv, ControlInv, ControlType
  <2>2. RequestInv' /\ (HeadAnswered' <=> HeadAnswered)
    BY <1>1, <2>1, RequestsAlone DEF IoInv, queues
  <2> QED BY <1>1, <2>1, <2>2, DeviceAlone DEF IoInv
<1>4. CASE Leave({}, {})
  <2>1. /\ handler = "idle" /\ phase'[current] = "code"
        /\ UNCHANGED <<current, queues, mask>>
    BY <1>1, <1>4 DEF Leave, IoInv, DeviceInv, HandlerInv, Inv, ControlInv, ControlType
  <2>2. IRQ_SCHED_DEV \in irq_sched_mask' => IRQ_SCHED_DEV \in irq_sched_mask
    BY <1>4, DevIsDevice DEF Leave, ChargeAndRaise, Raise
  <2>3. RequestInv' /\ (HeadAnswered' <=> HeadAnswered)
    BY <1>1, <2>1, RequestsAlone DEF IoInv, queues
  <2> QED BY <1>1, <2>1, <2>2, <2>3, DeviceAlone DEF IoInv
<1>5. CASE HandlerSchedule
  <2>1. IRQ_SCHED_DEV \notin mask[current]
    BY <1>5, DevIsDevice DEF HandlerSchedule, ScheduleIsNext, IsNext
  <2>2. handler = "idle"
    BY <2>1 DEF IoInv, DeviceInv, HandlerInv
  <2>3. /\ SchedulePreemptDisabled /\ irq_sched_mask' = irq_sched_mask
        /\ mask' = [mask EXCEPT ![current] = @ \ {IRQ_SCHED_SCHEDULE}]
    BY <1>5 DEF HandlerSchedule
  <2>4. /\ current' \in Thread /\ waitq' = waitq
        /\ current' # current => mask[current'] = {}
    BY <2>3, SwitchFetchesNothing
  <2>5. IRQ_SCHED_DEV \notin mask'[current']
    BY <1>1, <2>1, <2>3, <2>4 DEF Inv, ControlInv, ControlType
  <2>6. RequestInv' /\ (HeadAnswered' <=> HeadAnswered)
    BY <1>1, <2>4, RequestsAlone DEF IoInv
  <2> QED BY <1>1, <2>2, <2>3, <2>5, <2>6, DeviceAlone DEF IoInv
<1> QED BY <1>2, <1>3, <1>4, <1>5 DEF Rest

-----------------------------------------------------------------------------
(* The invariant, and what it says about the code.                         *)

LEMMA IoInitInv ==
    ASSUME SchedConstants, IoConstants, IoInit PROVE Inv /\ IoInv
<1>1. Inv
  BY InitInv DEF IoInit
<1>2. \A t : ~IsElem(t, <<>>)
  BY DEF IsElem
<1>3. Distinct(<<>>)
  BY DEF Distinct
<1>4. RequestType /\ Queued /\ OwnStart /\ HeadUnderWay
  BY <1>2, <1>3 DEF IoInit, RequestType, Queued, OwnStart, HeadUnderWay
<1>5. OwnQueue
  BY <1>2 DEF IoInit, Init, OwnQueue, IoConstants
<1>6. HandlerInv /\ MboxToken /\ SdhcToken
  BY DEF IoInit, Init, HandlerInv, MboxToken, SdhcToken, SchedConstants, IoConstants
<1> QED BY <1>1, <1>4, <1>5, <1>6 DEF IoInv, RequestInv, DeviceInv

LEMMA IoNextInv ==
    ASSUME SchedConstants, IoConstants, Inv, IoInv, [IoNext]_allVars
    PROVE  Inv' /\ IoInv'
<1>1. Inv'
  BY IoStepIsSched, NextInv DEF Inv, QueueInv, QueueType
<1>2. CASE ThreadStep
  BY <1>1, <1>2, SubmitInv, StartInv, WaitEventInv, WaitSleepsInv, IoYieldInv DEF ThreadStep
<1>3. CASE HandlerStep
  BY <1>1, <1>3, MboxCompleteInv, SdhcReadClearInv, SdhcTestInv, DevReturnInv DEF HandlerStep
<1>4. CASE DeviceStep
  BY <1>1, <1>4, MboxIrqInv, SdhcIrqInv DEF DeviceStep
<1>5. CASE IoClear \/ Rest \/ \E k \in 0 .. MaxLag, timer \in BOOLEAN : OtherIrq(k, timer)
  BY <1>1, <1>5, IoClearInv, RestInv, OtherIrqInv
<1>7. CASE \E late \in SUBSET {IRQ_SCHED_DEV} : IrqInLeave(late)
  BY <1>1, <1>7, IrqInLeaveInv
<1>6. CASE UNCHANGED allVars
  <2>1. UNCHANGED vars /\ UNCHANGED request /\ UNCHANGED device
    BY <1>6 DEF allVars, ioVars, request, device
  <2>2. RequestInv' /\ (HeadAnswered' <=> HeadAnswered)
    BY <2>1, RequestsAlone DEF IoInv, vars, queues
  <2> QED BY <1>1, <2>1, <2>2, DeviceAlone DEF IoInv, DeviceInv, HandlerInv, vars, control
<1> QED BY <1>1, <1>2, <1>3, <1>4, <1>5, <1>6, <1>7 DEF IoNext

THEOREM IoInvariance == IoSpec => [](Inv /\ IoInv)
BY IoInitInv, IoNextInv, SchedConstants, IoConstants, PTL DEF IoSpec

\* The queues of requests are used over the scheduler that module Sched
\* describes: what is proved of that holds for drivers and their callers.
THEOREM IoRunsOnSched == IoSpec => Spec
<1>1. IoInit => Init
  BY DEF IoInit
<1>2. Inv /\ IoInv /\ [IoNext]_allVars => [Next]_vars
  BY IoStepIsSched, IoConstants DEF Inv, QueueInv, QueueType
<1> QED BY <1>1, <1>2, IoInvariance, PTL DEF IoSpec, Spec

\* While busy is set exactly the head of the queue is worked on, once.
THEOREM OneRequestUnderWay == IoSpec => []OneUnderWay
<1>1. IoInv => OneUnderWay
  <2> SUFFICES ASSUME IoInv PROVE OneUnderWay
    OBVIOUS
  <2> USE DEF IoInv, RequestInv, RequestType
  <2>1. \A t \in Thread : start[t] # NoReq => start[t] = t /\ hw[t] = "none"
    BY DEF OwnStart, HeadUnderWay
  <2>2. ASSUME NEW r PROVE r \in Active <=> in # <<>> /\ r = Head(in)
    <3>1. CASE in = <<>>
      BY <2>1, <3>1 DEF Active, OwnStart, HeadUnderWay
    <3>2. CASE in # <<>>
      <4>1. Head(in) \in Thread
        BY <3>2, HeadIsRequest
      <4>2. r \in Active => r = Head(in)
        BY <2>1 DEF Active, OwnStart, HeadUnderWay
      <4>3. Head(in) \in Active
        <5>1. CASE hw[Head(in)] # "none"
          BY <4>1, <5>1 DEF Active
        <5>2. CASE step[Head(in)] = "start"
          <6>1. start[Head(in)] = Head(in) /\ Head(in) # NoReq
            BY <4>1, <5>2, IoConstants DEF OwnStart, IoConstants
          <6> QED BY <4>1, <6>1 DEF Active
        <5> QED BY <3>2, <5>1, <5>2 DEF HeadUnderWay
      <4> QED BY <3>2, <4>2, <4>3
    <3> QED BY <3>1, <3>2
  <2>3. Active = IF busy = 1 THEN {Head(in)} ELSE {}
    BY <2>2 DEF HeadUnderWay
  <2> QED BY <2>1, <2>3 DEF OneUnderWay, HeadUnderWay
<1> QED BY <1>1, IoInvariance, PTL

\* When a thread is out of ioq_ior_wait() nobody holds its request any more.
THEOREM RequestsLeaveNothing == IoSpec => []NothingLeftBehind
<1>1. Inv /\ IoInv => NothingLeftBehind
  <2> SUFFICES ASSUME Inv, IoInv, NEW t \in Thread, step[t] = "out"
               PROVE  /\ ~IsElem(t, in) /\ hw[t] = "none" /\ waitq[t] = <<>>
                      /\ \A u \in Thread : start[u] # t
    BY DEF NothingLeftBehind
  <2> USE DEF IoInv, RequestInv, RequestType
  <2>1. ~IsElem(t, in)
    BY DEF Queued
  <2>2. hw[t] = "none"
    <3>1. in # <<>> => IsElem(Head(in), in)
      BY HeadIsRequest
    <3> QED BY <2>1, <3>1 DEF HeadUnderWay
  <2>3. waitq[t] = <<>>
    <3>1. waitq[t] \in Seq(Thread)
      BY IoConstants DEF Inv, QueueInv, QueueType, IoConstants
    <3>2. waitq[t] # <<>> => Head(waitq[t]) \in Thread /\ IsElem(Head(waitq[t]), waitq[t])
      BY <3>1, TailElems
    <3> QED BY <3>2 DEF OwnQueue
  <2>4. \A u \in Thread : start[u] # t
    BY IoConstants DEF OwnStart, IoConstants
  <2> QED BY <2>1, <2>2, <2>3, <2>4
<1> QED BY <1>1, IoInvariance, PTL

\* No request is completed before the device has answered it.
THEOREM CompletionsAnswered == IoSpec => Answered
<1>1. ASSUME Inv, IoInv, [IoNext]_allVars
      PROVE  \A r \in Thread : done[r] = 0 /\ done'[r] = 1 => hw[r] = "answered"
  <2>1. CASE MboxComplete \/ (SdhcTest /\ CommandDone)
    <3>1. HeadAnswered /\ Complete
      BY <1>1, <2>1, CompletesAnswered DEF HandlerStep, IoInv, MboxComplete, SdhcTest
    <3>2. done' = [done EXCEPT ![Head(in)] = 1]
      BY <3>1 DEF Complete
    <3> QED BY <1>1, <3>1, <3>2 DEF HeadAnswered, IoInv, RequestInv, RequestType
  <2>2. CASE Submit
    BY <1>1, <2>2 DEF Submit, IoInv, RequestInv, RequestType
  <2>3. CASE ~MboxComplete /\ ~(SdhcTest /\ CommandDone) /\ ~Submit
    <3>1. done' = done
      BY <1>1, <2>3 DEF IoNext, ThreadStep, HandlerStep, DeviceStep, Rest, Start, WaitNot,
         WaitSleeps, WaitEnds, IoYield, SdhcRead, SdhcClear, SdhcTest, DevReturn, MboxIrq,
         SdhcIrq, OtherIrq, IrqInLeave, IoClear, allVars, ioVars, queue
    <3> QED BY <3>1
  <2> QED BY <2>1, <2>2, <2>3
<1> QED BY <1>1, IoInvariance, PTL DEF IoSpec, Answered

-----------------------------------------------------------------------------
(* Completions are kept.                                                   *)

\* A step keeps them that answers nothing, drops no IRQ and leaves the bits.
LEMMA KeptAlone ==
    ASSUME CompletionKept, UNCHANGED <<driver, sdhc>>, lost => lost',
           \A r \in Thread : hw'[r] = "answered" => hw[r] = "answered",
           Raised => Raised'
    PROVE  CompletionKept'
BY DEF CompletionKept, sdhc

\* The head has been answered: the others have not.
LEMMA OthersUnanswered ==
    ASSUME RequestInv, HeadAnswered, NEW r \in Thread, r # Head(in)
    PROVE  hw[r] # "answered"
BY DEF RequestInv, HeadUnderWay

LEMMA KeptByThreads ==
    ASSUME SchedConstants, Inv, IoInv, CompletionKept, ThreadStep
    PROVE  CompletionKept'
<1>1. InCode /\ current \in Thread
  BY DEF ThreadStep, Submit, Start, WaitNot, WaitSleeps, WaitEnds, LoopEnds, IoYield, Yield,
     Section, Wait, Inv, QueueInv, QueueType
<1>2. mask[current] = {}
  BY <1>1 DEF InCode, Inv, ControlInv
<1>3. UNCHANGED <<driver, sdhc, lost, irq_sched_mask>>
  BY DEF ThreadStep, Submit, Start, WaitNot, WaitSleeps, WaitEnds, IoYield, Yield, Section,
     Wait, vars, ioVars, sdhc
<1>4. \A r \in Thread : hw'[r] = "answered" => hw[r] = "answered"
  <2>1. CASE Start
    BY <2>1 DEF Start, IoInv, RequestInv, RequestType
  <2>2. CASE Submit \/ WaitNot \/ WaitSleeps \/ WaitEnds \/ IoYield
    BY <2>2 DEF Submit, WaitNot, WaitSleeps, WaitEnds, IoYield, ioVars
  <2> QED BY <2>1, <2>2 DEF ThreadStep
<1>5. Raised => Raised'
  BY <1>2, <1>3 DEF Raised
<1> QED BY <1>3, <1>4, <1>5, KeptAlone

LEMMA KeptByHandlers ==
    ASSUME IoConstants, Inv, IoInv, CompletionKept, HandlerStep
    PROVE  CompletionKept'
<1> USE DEF IoInv, DeviceInv
<1>1. CASE MboxComplete \/ (SdhcTest /\ CommandDone)
  <2>1. HeadAnswered /\ Complete
    BY <1>1, CompletesAnswered DEF MboxComplete, SdhcTest
  <2>2. \A r \in Thread : hw'[r] # "answered"
    BY <2>1, OthersUnanswered DEF Complete
  <2> QED BY <2>2 DEF CompletionKept
<1>2. CASE SdhcRead
  BY <1>2 DEF SdhcRead, vars, CompletionKept, SdhcToken, HandlerInv
<1>3. CASE SdhcClear
  BY <1>3 DEF SdhcClear, vars, CompletionKept, Raised, MboxToken
<1>4. CASE SdhcTest /\ ~CommandDone
  BY <1>4 DEF SdhcTest, CommandDone, vars, CompletionKept, Raised, MboxToken
<1>5. CASE DevReturn
  <2>1. handler # "idle" /\ UNCHANGED <<driver, sdhc, lost, hw, irq_sched_mask>>
    BY <1>5 DEF DevReturn, HandlerDone
  <2>2. Raised => Raised'
    BY <2>1 DEF Raised
  <2> QED BY <2>1, <2>2, KeptAlone
<1> QED BY <1>1, <1>2, <1>3, <1>4, <1>5 DEF HandlerStep

\* What the device has answered is raised for, or the raise is overwritten.
LEMMA KeptByAnswers ==
    ASSUME IoConstants, Inv, IoInv, CompletionKept, RaiseMayGo,
           (\E r : MboxAnswers(r)) \/ (\E v : SdhcAnswers(v)),
           irq_sched_mask \subseteq irq_sched_mask',
           UNCHANGED <<current, mask, driver, handler, local_int>>
    PROVE  CompletionKept'
<1> SUFFICES ASSUME NEW r \in Thread, hw'[r] = "answered", ~lost'
             PROVE  IF driver = "mbox" THEN Raised'
                    ELSE "CMD" \in local_int \/ ("CMD" \in sc_int' /\ Raised')
  BY DEF CompletionKept
<1>1. sc_int \subseteq sc_int' /\ ~lost
  BY DEF MboxAnswers, SdhcAnswers, RaiseMayGo
<1>2. Raised => Raised'
  BY DEF Raised
<1>3. CASE hw' = hw
  BY <1>1, <1>2, <1>3 DEF CompletionKept
<1>4. CASE hw' # hw
  <2>1. Raised'
    BY <1>4 DEF RaiseMayGo, Raised
  <2>2. driver = "mbox" \/ "CMD" \in sc_int'
    BY <1>4 DEF MboxAnswers, SdhcAnswers
  <2> QED BY <2>1, <2>2
<1> QED BY <1>3, <1>4

LEMMA KeptByInterrupts ==
    ASSUME SchedConstants, IoConstants, Inv, IoInv, CompletionKept,
           \/ DeviceStep
           \/ \E late \in SUBSET {IRQ_SCHED_DEV} : IrqInLeave(late)
           \/ \E k \in 0 .. MaxLag, timer \in BOOLEAN : OtherIrq(k, timer)
    PROVE  CompletionKept'
<1>1. /\ UNCHANGED <<current, mask>> /\ irq_sched_mask \subseteq irq_sched_mask'
      /\ UNCHANGED <<driver, handler, local_int>>
  BY DEF DeviceStep, MboxIrq, SdhcIrq, IrqInLeave, OtherIrq, Irq, Leave, ChargeAndRaise,
     Raise, ioVars, sdhc
<1>2. CASE DeviceStep \/ \E late \in SUBSET {IRQ_SCHED_DEV} : IrqInLeave(late)
  <2>1. RaiseMayGo /\ ((\E r : MboxAnswers(r)) \/ (\E v : SdhcAnswers(v)))
    BY <1>2 DEF DeviceStep, MboxIrq, SdhcIrq, IrqInLeave
  <2> QED BY <1>1, <2>1, KeptByAnswers
<1>3. CASE \E k \in 0 .. MaxLag, timer \in BOOLEAN : OtherIrq(k, timer)
  <2>1. UNCHANGED <<hw, lost, sdhc>>
    BY <1>3 DEF OtherIrq, ioVars, sdhc
  <2>2. Raised => Raised'
    BY <1>1 DEF Raised
  <2> QED BY <1>1, <2>1, <2>2, KeptAlone
<1> QED BY <1>2, <1>3

LEMMA KeptByOthers ==
    ASSUME SchedConstants, IoConstants, Inv, IoInv, CompletionKept, IoClear \/ Rest
    PROVE  CompletionKept'
<1> USE DEF IoInv, DeviceInv
<1>1. current \in Thread
  BY DEF Inv, QueueInv, QueueType
<1>2. CASE IoClear
  <2>1. /\ UNCHANGED <<driver, sdhc, hw, handler, current, mask>>
        /\ lost' = (lost \/ IRQ_SCHED_DEV \in irq_sched_mask \ mask[current])
    BY <1>2 DEF IoClear, Clear
  <2>2. handler = "idle"
    BY <1>2 DEF IoClear, Clear, HandlerInv
  <2>3. ~lost' /\ Raised => Raised'
    BY <2>1, <2>2 DEF Raised
  <2> QED BY <2>1, <2>3 DEF CompletionKept, sdhc
<1>3. CASE Rest
  <2>1. UNCHANGED <<driver, sdhc, hw, handler, lost>>
    BY <1>3 DEF Rest, ioVars, sdhc
  <2>2. Raised => Raised'
    <3>1. CASE \E t \in Thread : step[current] = "out" /\ ThreadCreate(t)
      BY <2>1, <3>1 DEF ThreadCreate, PreemptEnable, Raised
    <3>2. CASE Fetch
      BY <1>1, <2>1, <3>2 DEF Fetch, Raised, Inv, ControlInv, ControlType
    <3>3. CASE Leave({}, {})
      BY <2>1, <3>3 DEF Leave, ChargeAndRaise, Raise, Raised
    <3>4. CASE HandlerSchedule
      <4>1. IRQ_SCHED_DEV \notin mask[current]
        BY <3>4, DevIsDevice DEF HandlerSchedule, ScheduleIsNext, IsNext
      <4> QED BY <2>1, <3>4, <4>1 DEF HandlerSchedule, Raised
    <3> QED BY <1>3, <3>1, <3>2, <3>3, <3>4 DEF Rest
  <2> QED BY <2>1, <2>2, KeptAlone
<1> QED BY <1>2, <1>3

LEMMA KeptNext ==
    ASSUME SchedConstants, IoConstants, Inv, IoInv, CompletionKept, [IoNext]_allVars
    PROVE  CompletionKept'
<1>1. CASE ThreadStep \/ HandlerStep \/ IoClear \/ Rest
  BY <1>1, KeptByThreads, KeptByHandlers, KeptByOthers
<1>2. CASE \/ DeviceStep
           \/ \E late \in SUBSET {IRQ_SCHED_DEV} : IrqInLeave(late)
           \/ \E k \in 0 .. MaxLag, timer \in BOOLEAN : OtherIrq(k, timer)
  BY <1>2, KeptByInterrupts
<1>3. CASE UNCHANGED allVars
  BY <1>3 DEF allVars, vars, ioVars, CompletionKept, Raised
<1> QED BY <1>1, <1>2, <1>3 DEF IoNext

\* No answer of the device is dropped but in the windows in which the code clears
\* what it has not read, or stores a mask that it has read before the answer.
THEOREM CompletionsKept == IoSpec => []CompletionKept
<1>1. IoInit => CompletionKept
  BY DEF IoInit, CompletionKept
<1> QED BY <1>1, KeptNext, IoInvariance, SchedConstants, IoConstants, PTL DEF IoSpec
=============================================================================
