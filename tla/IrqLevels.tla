----------------------------- MODULE IrqLevels -----------------------------
(***************************************************************************)
(* The interrupt levels of the kernel: hard IRQs above soft IRQs above     *)
(* sched IRQs above thread code (kernel/irq.c, kernel/excptc.c, the        *)
(* disable/enable pairs of include/sched.h and the switch of               *)
(* kernel/sched.s), one step per access to a shared word.                  *)
(*                                                                         *)
(* A stack is a sequence of frames, its base frame the thread's own code.  *)
(* A frame records the function, where it is, the mask it works on, and    *)
(* how many irq_soft_disable()/irq_sched_disable() calls it has made and   *)
(* not yet undone: what the counters of struct thread must add up to.      *)
(* Masks are sets of IRQ numbers; handlers run lowest number first.        *)
(***************************************************************************)
EXTENDS Naturals, Sequences, FiniteSets, SequencesExt

CONSTANTS
    Thread,             \* the threads
    Boot,               \* the thread that booted the kernel
    IRQ_SOFT_MAX,       \* soft IRQs are 0 .. IRQ_SOFT_MAX - 1
    IRQ_SCHED_SCHEDULE, \* sched IRQs are 0 .. IRQ_SCHED_SCHEDULE
    MaxNest             \* bound: nesting of disables in one piece of code

ASSUME IrqConstants == /\ Boot \in Thread
                       /\ IRQ_SOFT_MAX \in Nat \ {0}
                       /\ IRQ_SCHED_SCHEDULE \in Nat \ {0}
                       /\ MaxNest \in Nat \ {0}

SoftIrq  == 0 .. IRQ_SOFT_MAX - 1
SchedIrq == 0 .. IRQ_SCHED_SCHEDULE

\* The deepest stack: a thread, its irq_sched(), a raise by a handler, the
\* primary excpt_irq() that interrupts it, its irq_soft(), a raise by that.
MaxFrames == 6

VARIABLES
    current,         \* the thread the counters are taken from
    sp,              \* the thread whose stack is in use
    stack,           \* thread -> sequence of frames
    irq_soft_count, irq_sched_count, in_irq_ctx,   \* fields of struct thread
    irq_soft_mask, irq_sched_mask                  \* raised, not yet fetched

vars == <<current, sp, stack, irq_soft_count, irq_sched_count, in_irq_ctx,
          irq_soft_mask, irq_sched_mask>>

counts == <<irq_soft_count, irq_sched_count, in_irq_ctx>>

Frame(fn, pc, mask, soft, sched) ==
    [fn |-> fn, pc |-> pc, mask |-> mask, soft |-> soft, sched |-> sched]

Top == Last(stack[sp])
\* Mutant: the scan of the mask starts at the other end.
HighestFirst(mask) == Max(mask)
\* The scans of irq_soft() and irq_sched(): lowest number first.
Lowest(mask) == Min(mask)

\* Replace the frame that runs by the frames fs.
Become(fs) == stack' = [stack EXCEPT ![sp] = Front(@) \o fs]
Goto(pc) == [Top EXCEPT !.pc = pc]

Init == /\ current = Boot
        /\ sp = Boot
        /\ stack = [t \in Thread |-> <<Frame("thread",
                        IF t = Boot THEN "code" ELSE "fresh", {}, 0, 0)>>]
        /\ irq_soft_count = [t \in Thread |-> 0]
        /\ irq_sched_count = [t \in Thread |-> 0]
        /\ in_irq_ctx = [t \in Thread |-> FALSE]
        /\ irq_soft_mask = {}
        /\ irq_sched_mask = {}

-----------------------------------------------------------------------------
(* The disable/enable pairs.  An increment or a decrement of a counter is  *)
(* one step: what interrupts it undoes its own changes before it returns.  *)

SoftFrame  == Frame("irq_soft", "fetch", {}, 0, 0)
SchedFrame == Frame("irq_sched", "fetch", {}, 0, 0)

\* irq_soft_enable() up to and including its call of irq_soft(): the count
\* drops only after the call returns.
\* Mutant: the nested enables call irq_soft() too.
CallSoftEnableNested ==
    IF irq_soft_count[current] >= 1
    THEN <<Goto("soft_dec"), SoftFrame>> ELSE <<Goto("soft_dec")>>
CallSoftEnable ==
    IF ~in_irq_ctx[current] /\ irq_soft_count[current] = 1
    THEN <<Goto("soft_dec"), SoftFrame>> ELSE <<Goto("soft_dec")>>

CallSchedEnable ==
    IF ~in_irq_ctx[current] /\ irq_sched_count[current] = 1
    THEN <<Goto("sched_dec"), SchedFrame>> ELSE <<Goto("sched_dec")>>

\* The code that may bracket a region with soft IRQs disabled: a thread, or
\* the handler of a sched IRQ other than SCHEDULE.
InCode == \/ Top.fn = "thread" /\ Top.pc = "code"
          \/ /\ Top.fn = "irq_sched" /\ Top.pc = "run"
             /\ Lowest(Top.mask) # IRQ_SCHED_SCHEDULE

SoftDisable ==
    /\ InCode /\ Top.soft < MaxNest
    /\ irq_soft_count' = [irq_soft_count EXCEPT ![current] = @ + 1]
    /\ Become(<<[Top EXCEPT !.soft = @ + 1]>>)
    /\ UNCHANGED <<current, sp, irq_sched_count, in_irq_ctx, irq_soft_mask,
                   irq_sched_mask>>

SoftEnable ==
    /\ InCode /\ Top.soft > 0
    /\ Become(CallSoftEnable)
    /\ UNCHANGED <<current, sp, counts, irq_soft_mask, irq_sched_mask>>

\* The decrement that ends irq_soft_enable(); excpt_irq() returns with it.
SoftDecrement ==
    /\ Top.pc = "soft_dec"
    /\ irq_soft_count' = [irq_soft_count EXCEPT ![current] = @ - 1]
    /\ LET back == [Top EXCEPT !.soft = @ - 1,
                        !.pc = IF Top.fn = "thread" THEN "code" ELSE "run"]
       IN  Become(IF Top.fn = "excpt_irq" THEN <<>> ELSE <<back>>)
    /\ UNCHANGED <<current, sp, irq_sched_count, in_irq_ctx, irq_soft_mask,
                   irq_sched_mask>>

PreemptDisable ==
    /\ Top.fn = "thread" /\ Top.pc = "code" /\ Top.sched < MaxNest
    /\ irq_sched_count' = [irq_sched_count EXCEPT ![current] = @ + 1]
    /\ Become(<<[Top EXCEPT !.sched = @ + 1]>>)
    /\ UNCHANGED <<current, sp, irq_soft_count, in_irq_ctx, irq_soft_mask,
                   irq_sched_mask>>

\* A thread does not enable preemption inside a region in which it has
\* disabled soft IRQs, nor call schedule() there: no caller in src/ does.
PreemptEnable ==
    /\ Top.fn = "thread" /\ Top.pc = "code" /\ Top.sched > 0 /\ Top.soft = 0
    /\ Become(CallSchedEnable)
    /\ UNCHANGED <<current, sp, counts, irq_soft_mask, irq_sched_mask>>

SchedDecrement ==
    /\ Top.pc = "sched_dec"
    /\ irq_sched_count' = [irq_sched_count EXCEPT ![current] = @ - 1]
    /\ Become(<<[Top EXCEPT !.sched = @ - 1,
                     !.pc = IF Top.fn = "thread" THEN "code" ELSE "exit"]>>)
    /\ UNCHANGED <<current, sp, irq_soft_count, in_irq_ctx, irq_soft_mask,
                   irq_sched_mask>>

-----------------------------------------------------------------------------
(* Hard IRQs: excpt_irq().                                                 *)

\* Mutants: the depth at which excpt_irq() turns back is off by one.
SoftNestedAtTwo  == irq_soft_count[current] + 1 > 2
SchedNestedAtTwo == irq_sched_count[current] + 1 > 2

\* depth > 1, after irq_soft_disable() and after irq_sched_disable().
SoftNested  == irq_soft_count[current] + 1 > 1
SchedNested == irq_sched_count[current] + 1 > 1

\* irq_hard() raises soft IRQs S and sched IRQs D (mbox_irq and
\* sdhc_hard_irq raise the latter).  With soft IRQs already disabled the
\* increment and the decrement of the count cancel; else this is the primary
\* context, which enables IRQs and calls irq_soft().
HardIrq(S, D) ==
    /\ irq_soft_mask' = irq_soft_mask \union S
    /\ irq_sched_mask' = irq_sched_mask \union D
    /\ IF SoftNested
       THEN UNCHANGED <<irq_soft_count, in_irq_ctx, stack>>
       ELSE /\ irq_soft_count' = [irq_soft_count EXCEPT ![current] = @ + 1]
            /\ in_irq_ctx' = [in_irq_ctx EXCEPT ![current] = TRUE]
            /\ Become(<<Top, Frame("excpt_irq", "sched", {}, 1, 0), SoftFrame>>)
    /\ UNCHANGED <<current, sp, irq_sched_count>>

\* irq_sched_disable() and, at depth 1, the call of irq_sched().
ExcptSched ==
    /\ Top.fn = "excpt_irq" /\ Top.pc = "sched"
    /\ irq_sched_count' = [irq_sched_count EXCEPT ![current] = @ + 1]
    /\ LET f == [Top EXCEPT !.sched = @ + 1, !.pc = "no_sched"]
       IN  Become(IF SchedNested THEN <<f>> ELSE <<f, SchedFrame>>)
    /\ UNCHANGED <<current, sp, irq_soft_count, in_irq_ctx, irq_soft_mask,
                   irq_sched_mask>>

\* irq_no_sched: irq_sched_enable().
ExcptNoSched ==
    /\ Top.fn = "excpt_irq" /\ Top.pc = "no_sched"
    /\ Become(CallSchedEnable)
    /\ UNCHANGED <<current, sp, counts, irq_soft_mask, irq_sched_mask>>

\* Mutant: in_irq_ctx stays set.
ExcptExitNoReset ==
    /\ Top.fn = "excpt_irq" /\ Top.pc = "exit"
    /\ Become(<<Goto("soft_dec")>>)
    /\ UNCHANGED <<current, sp, counts, irq_soft_mask, irq_sched_mask>>

\* set_current_irq_ctx(0) and irq_soft_enable(); hard IRQs are off until
\* irq_soft() enables them, so its first fetch sees what this step leaves.
ExcptExit ==
    /\ Top.fn = "excpt_irq" /\ Top.pc = "exit"
    /\ in_irq_ctx' = [in_irq_ctx EXCEPT ![current] = FALSE]
    /\ Become(IF irq_soft_count[current] = 1
              THEN <<Goto("soft_dec"), SoftFrame>> ELSE <<Goto("soft_dec")>>)
    /\ UNCHANGED <<current, sp, irq_soft_count, irq_sched_count,
                   irq_soft_mask, irq_sched_mask>>

-----------------------------------------------------------------------------
(* Soft IRQs: irq_soft().                                                  *)

\* The fetch and the clear happen with hard IRQs off.
SoftFetch ==
    /\ Top.fn = "irq_soft" /\ Top.pc = "fetch"
    /\ irq_soft_mask' = {}
    /\ Become(IF irq_soft_mask = {} THEN <<>>
              ELSE <<[Top EXCEPT !.mask = irq_soft_mask, !.pc = "run"]>>)
    /\ UNCHANGED <<current, sp, counts, irq_sched_mask>>

AfterHandler == LET rest == Top.mask \ {Lowest(Top.mask)}
                IN  [Top EXCEPT !.mask = rest,
                                !.pc = IF rest = {} THEN "fetch" ELSE "run"]

\* A handler returns, with the soft IRQs it disabled enabled again.
HandlerDone ==
    /\ Top.fn \in {"irq_soft", "irq_sched"} /\ Top.pc = "run" /\ Top.soft = 0
    /\ Top.fn = "irq_sched" => Lowest(Top.mask) # IRQ_SCHED_SCHEDULE
    /\ Become(<<AfterHandler>>)
    /\ UNCHANGED <<current, sp, counts, irq_soft_mask, irq_sched_mask>>

\* irq_sched_raise(i) below hard IRQ level is a load ...
RaiseLoad(i) ==
    /\ \/ Top.fn = "irq_soft" /\ Top.pc = "run"
       \/ /\ InCode /\ i = IRQ_SCHED_SCHEDULE
          /\ Top.fn = "thread" => Top.sched > 0
    /\ Become(<<Top, Frame("irq_sched_raise", "store",
                           irq_sched_mask \union {i}, 0, 0)>>)
    /\ UNCHANGED <<current, sp, counts, irq_soft_mask, irq_sched_mask>>

\* ... and a store.
RaiseStore ==
    /\ Top.fn = "irq_sched_raise"
    /\ irq_sched_mask' = Top.mask
    /\ Become(<<>>)
    /\ UNCHANGED <<current, sp, counts, irq_soft_mask>>

-----------------------------------------------------------------------------
(* Sched IRQs: irq_sched(), and the switch of threads.                     *)

SchedFetch ==
    /\ Top.fn = "irq_sched" /\ Top.pc = "fetch"
    /\ Become(<<[Top EXCEPT !.mask = irq_sched_mask, !.pc = "clear"]>>)
    /\ UNCHANGED <<current, sp, counts, irq_soft_mask, irq_sched_mask>>

SchedClear ==
    /\ Top.fn = "irq_sched" /\ Top.pc = "clear"
    /\ irq_sched_mask' = {}
    /\ Become(IF Top.mask = {} THEN <<>> ELSE <<Goto("run")>>)
    /\ UNCHANGED <<current, sp, counts, irq_soft_mask>>

\* schedule() in thread code: preempt_disable(), asserted to return 1.
Schedule ==
    /\ Top.fn = "thread" /\ Top.pc = "code" /\ Top.sched = 0 /\ Top.soft = 0
    /\ irq_sched_count' = [irq_sched_count EXCEPT ![current] = @ + 1]
    /\ Become(<<[Top EXCEPT !.sched = 1, !.pc = "schedule"]>>)
    /\ UNCHANGED <<current, sp, irq_soft_count, in_irq_ctx, irq_soft_mask,
                   irq_sched_mask>>

\* In schedule_preempt_disabled(), called by schedule() or as the handler of
\* IRQ_SCHED_SCHEDULE.
InSchedule == \/ Top.fn = "thread" /\ Top.pc = "schedule"
              \/ /\ Top.fn = "irq_sched" /\ Top.pc = "run"
                 /\ Lowest(Top.mask) = IRQ_SCHED_SCHEDULE

\* What runs when schedule_preempt_disabled() has returned.
Return == CASE Top.fn = "irq_sched" -> AfterHandler
            [] Top.pc = "fresh"     -> Goto("code")
            [] OTHER                -> Goto("enable")

\* schedule_preempt_disabled() returns without a switch.
KeepRunning ==
    /\ InSchedule
    /\ Become(<<Return>>)
    /\ UNCHANGED <<current, sp, counts, irq_soft_mask, irq_sched_mask>>

\* _schedule() leaves this stack for that of t.
SwitchStack(t) ==
    /\ InSchedule /\ t # sp
    /\ sp' = t
    /\ Become(<<Goto("switch")>>)
    /\ UNCHANGED <<current, counts, irq_soft_mask, irq_sched_mask>>

\* sched_switch() on the new stack; until then the counters of the thread
\* switched out are in use.
SchedSwitch ==
    /\ Top.pc \in {"switch", "fresh"}
    /\ current' = sp
    /\ Become(<<Return>>)
    /\ UNCHANGED <<sp, counts, irq_soft_mask, irq_sched_mask>>

\* schedule() ends with preempt_enable().
ScheduleEnd ==
    /\ Top.fn = "thread" /\ Top.pc = "enable"
    /\ Become(CallSchedEnable)
    /\ UNCHANGED <<current, sp, counts, irq_soft_mask, irq_sched_mask>>

Next ==
    \/ SoftDisable \/ SoftEnable \/ SoftDecrement
    \/ PreemptDisable \/ PreemptEnable \/ SchedDecrement
    \/ \E S \in SUBSET SoftIrq, D \in SUBSET (SchedIrq \ {IRQ_SCHED_SCHEDULE}) :
          HardIrq(S, D)
    \/ ExcptSched \/ ExcptNoSched \/ ExcptExit
    \/ SoftFetch \/ HandlerDone
    \/ \E i \in SchedIrq : RaiseLoad(i)
    \/ RaiseStore \/ SchedFetch \/ SchedClear \/ Schedule
    \/ KeepRunning \/ SchedSwitch \/ ScheduleEnd
    \/ \E t \in Thread : SwitchStack(t)

Spec == Init /\ [][Next]_vars

-----------------------------------------------------------------------------
(* Properties                                                              *)

\* d[1] + ... + d[n].
Total(d, n) == LET sum[i \in 0 .. n] == IF i = 0 THEN 0 ELSE sum[i - 1] + d[i]
               IN  sum[n]
SoftHeld(fs)  == Total([i \in 1 .. Len(fs) |-> fs[i].soft], Len(fs))
SchedHeld(fs) == Total([i \in 1 .. Len(fs) |-> fs[i].sched], Len(fs))

\* The frames whose disables are counted in the fields of t: those of its
\* stack, but between the two halves of a switch the interrupts that run on
\* the new stack count on the thread switched out.
FramesOf(t) ==
    LET top == stack[sp]
        sus == CHOOSE i \in 1 .. Len(top) : top[i].pc \in {"switch", "fresh"}
    IN  IF sp = current THEN stack[t]
        ELSE IF t = sp THEN SubSeq(top, 1, sus)
        ELSE IF t = current THEN stack[t] \o SubSeq(top, sus + 1, Len(top))
        ELSE stack[t]

FrameType ==
    [fn : {"thread", "excpt_irq", "irq_soft", "irq_sched", "irq_sched_raise"},
     pc : {"fresh", "code", "schedule", "switch", "enable", "sched", "no_sched",
           "exit", "fetch", "clear", "run", "store", "soft_dec", "sched_dec"},
     mask : SUBSET (SoftIrq \union SchedIrq),
     soft : 0 .. MaxNest, sched : 0 .. MaxNest]

\* Every variable has its type; in particular no thread accumulates counts
\* or interrupt frames, however interrupts nest and switches fall.
TypeOK ==
    /\ current \in Thread /\ sp \in Thread
    /\ \A t \in Thread : /\ Len(stack[t]) \in 1 .. MaxFrames
                         /\ \A i \in 1 .. Len(stack[t]) : stack[t][i] \in FrameType
    /\ irq_soft_count \in [Thread -> 0 .. MaxNest + 1]
    /\ irq_sched_count \in [Thread -> 0 .. MaxNest + 1]
    /\ in_irq_ctx \in [Thread -> BOOLEAN]
    /\ irq_soft_mask \subseteq SoftIrq
    /\ irq_sched_mask \subseteq SchedIrq

\* The counters of every thread are the disables its own frames have not yet
\* undone, and in_irq_ctx is set exactly while one of them is a primary
\* excpt_irq(): no interrupt, and no switch in the middle of one, leaks a
\* count from one thread to another (the enables and disables all go through
\* `current', which changes between them).
CountersMatch ==
    \A t \in Thread :
        /\ irq_soft_count[t] = SoftHeld(FramesOf(t))
        /\ irq_sched_count[t] = SchedHeld(FramesOf(t))
        /\ in_irq_ctx[t] <=> \E i \in 1 .. Len(FramesOf(t)) :
                                /\ FramesOf(t)[i].fn = "excpt_irq"
                                /\ FramesOf(t)[i].pc # "soft_dec"

\* Soft handlers are never entered recursively, never on two stacks at once,
\* and never inside a region that disabled soft IRQs: below an irq_soft()
\* there is the one disable of its caller ("recursive calls", irq.c:69-70).
SoftExclusive ==
    /\ Cardinality({f \in Thread \X (1 .. MaxFrames) :
            f[2] <= Len(stack[f[1]]) /\ stack[f[1]][f[2]].fn = "irq_soft"}) <= 1
    /\ \A t \in Thread : \A i \in 1 .. Len(stack[t]) :
          stack[t][i].fn = "irq_soft" =>
              /\ t = sp
              /\ i > 1 /\ stack[t][i - 1].soft = 1
              /\ SoftHeld(FramesOf(current)) = 1

\* Sched handlers never run inside a region that disabled preemption, so
\* what preempt_disable() protects (ready, the wait queues, mutex.lock) is
\* not touched halfway through an update; only one stack has an irq_sched()
\* that is not suspended in a switch, and the handlers fetched by one that is
\* suspended have all run: IRQ_SCHED_SCHEDULE is the last.
SchedExclusive ==
    \A t \in Thread : \A i \in 1 .. Len(stack[t]) :
        stack[t][i].fn = "irq_sched" =>
            /\ stack[t][i - 1].sched = 1
            /\ SchedHeld(stack[t]) =
                  1 + SchedHeld(SubSeq(stack[t], i + 1, Len(stack[t])))
            /\ t # sp => stack[t][i].mask = {IRQ_SCHED_SCHEDULE}

\* A thread is switched out only where its code has undone every disable but
\* the one of the schedule(), preempt_enable() or excpt_irq() that switches;
\* and interrupt code only resumes what it interrupted.
SwitchAtDepthOne ==
    [][sp' # sp => /\ SchedHeld(stack[sp]) = 1
                   /\ \A i \in 1 .. Len(stack[sp]) :
                         stack[sp][i].fn # "excpt_irq" => stack[sp][i].soft = 0
                   /\ Last(stack[sp']).pc \in {"switch", "fresh"}]_vars

\* What the comment in irq_sched() says (irq.c:41-45): nothing modifies the
\* mask between the fetch and the clear.  What the clear is about to wipe is
\* then what the fetch took, and no raised sched IRQ is lost.
FetchTookAll ==
    \A i \in 1 .. Len(stack[sp]) :
        stack[sp][i].fn = "irq_sched" /\ stack[sp][i].pc = "clear" =>
            irq_sched_mask \subseteq stack[sp][i].mask
=============================================================================
