# Verification of the x01 kernel

x01 is a small uniprocessor kernel for the Raspberry Pi 1 (and the QRPI2 board
of QEMU): three interrupt levels, a preemptive scheduler, mutexes, timers, I/O
request queues for two drivers, and a physical and virtual memory allocator.
This directory holds TLA+ models of it, TLC configurations, and TLAPS proofs.
Paths below are relative to the repository (`src/src/...` of the mapped lines).

## The system

| part | state it keeps | operations | used by |
|---|---|---|---|
| interrupt levels (`kernel/irq.c`, `kernel/excptc.c`, `include/sched.h`) | `irq_soft_mask`, `irq_sched_mask`; per thread `irq_soft_count`, `irq_sched_count`, `in_irq_ctx` | `excpt_irq`, `irq_soft`, `irq_sched`, the raises, `irq_soft_disable/enable`, `preempt_disable/enable` | everything |
| scheduler (`kernel/schedc.c`, `kernel/sched.s`) | `ready`, `current`, `idle`, wait queues, per thread `state`, `ticks` | `schedule`, `wait`, `wait_event`, `wake_up`, `sched_thread_create`, the handler of IRQ_SCHED_SCHEDULE | mutexes, timers, I/O, work |
| mutex (`kernel/schedc.c`) | `m.lock`, `m.wq` | `mutex_lock`, `mutex_unlock` | memory |
| timer wheel (`kernel/schedc.c`, `dev/timer.c`) | `timer_heads[32]`, `timer_req_mask`, `timer_recv_mask`, `timer_ticks`, `ticks` | `msleep`, `sched_timer_tick_soft`, `sched_irq_timer` | threads, SD driver |
| I/O queues (`kernel/ioreq.c`) | `in`, `busy`, per request `done` | `ioq_ior_submit`, `ioq_ior_wait`, `ioq_ior_dequeue_sched`, `ioq_ior_done_sched` | mailbox, SD driver |
| work queue (`kernel/work.c`) | `workq`, `waitq`, `cond` | `wq_work_add`, `wq_worker` | asynchronous I/O (no user yet) |
| mailbox, SD host (`dev/mbox.c`, `dev/sdhc.c`) | device registers, `sc_int` | hard IRQ, sched IRQ, ioctl | framebuffer, boot |
| pages (`kernel/bdy.c`, `kernel/pm.c`) | buddy bitmap, `ram_map` | `pm_ram_alloc`, `pm_ram_free`, `pm_ram_get_page` | slub, boot |
| virtual ranges (`kernel/vm.c`) | `vm_areas` | `vm_alloc`, `vm_free` | slub |
| objects (`kernel/slub.c`) | slabs on `free`, `part`, `busy`, `slub_16byte_free`, whole pages | `kmalloc`, `kfree`, `mmu_slub_alloc/free` | everything |
| page tables (`kernel/mmu.c`) | `k_pd`, page tables | `mmu_map`, `mmu_unmap`, `mmu_va_to_pa` | slub, framebuffer, I/O mapping |

How they interact. A hard IRQ (`excpt_irq`) runs the hard handlers with IRQs off.
They mark soft and sched IRQs. If soft IRQs are enabled the same call runs them
with hard IRQs on (`irq_soft`), and if preemption is enabled it then runs the
sched handlers (`irq_sched`), the last of which is the scheduler: a switch
happens in the middle of that call, on the interrupted thread's stack. The same
two functions run when a region that disabled them is left. Device drivers
complete requests in sched handlers, which wake threads; timers do the same.
The hard behaviour is all there: what runs between two statements of a thread.

What makes each part correct:
  - levels: counters and handlers stay with their thread and level, no raised
    IRQ is lost;
  - scheduler: a thread is on the one queue of its state, no ready thread is
    left behind, no thread overtakes another;
  - mutex: one holder, nobody asleep on a free lock;
  - timers: fire once, at their tick, and never from a dead stack frame;
  - I/O: each request is started once, completed once, in order, and its owner
    returns only after the queue has let go of it;
  - memory: no page or object is given out twice or lost, free space merges,
    ranges and mappings do not meet, nobody waits for a lock it holds.

## The modules

| module | models | composed with |
|---|---|---|
| `IrqLevels` | the three levels, one step per access to a shared word, with whole call stacks | - |
| `Sched` | the scheduler and the steps of `irq_sched()` around which interrupts matter | - |
| `Mutex` | `mutex_lock/unlock` | extends `Sched`; implements `Lock` |
| `Lock` | what a mutex promises: the abstract specification | - |
| `Sleep` | `msleep` and the timer wheel | extends `Sched` |
| `IoReq` | the I/O queue with the mailbox's or the SD host's handlers | extends `Sched` |
| `Buddy` | the buddy bitmap, as operators | - |
| `PageAlloc` | the allocator of physical pages | extends `Buddy`; implements `Blocks` |
| `Blocks` | what a page allocator promises: the abstract specification | - |
| `Slub` | objects, ranges of virtual memory and page tables, with every call they make of each other | - |
| `SchedProofs` | TLAPS proofs about `Sched` | extends `Sched` |
| `MutexProofs` | TLAPS proofs about `Mutex`, its refinement of `Lock` included | extends `Mutex`, `SchedProofs` |
| `SleepProofs` | TLAPS proofs about `Sleep` | extends `Sleep`, `SchedProofs` |
| `IoProofs` | TLAPS proofs about `IoReq` | extends `IoReq`, `SchedProofs` |
| `IrqProofs` | TLAPS proofs about `IrqLevels` | extends `IrqLevels` |
| `PageProofs` | TLAPS proofs about `PageAlloc`, its refinement of `Blocks` included | extends `PageAlloc` |
| `SlubProofs` | TLAPS proofs about `Slub`: stacks of calls, locks, ranges; the invariant of the heap, and the steps of `kmalloc()` and `vm_find_seg()` that keep it | extends `Slub` |
| `HeapProofs` | TLAPS proofs about `Slub`: so do the other steps and the state of boot; what follows, and the mappings | extends `SlubProofs` |
| `MC*` | sets of model values, symmetry, state constraints for TLC | - |

**IrqLevels.** A thread's stack is a sequence of frames (the thread's code,
`excpt_irq`, `irq_soft`, `irq_sched`, a raise between its load and its store). A
frame records where the function is, the mask it works on and how many disables
it has made and not undone. The three counters of `struct thread` are separate
variables that the code changes through `current`, and `current` is not always
the thread whose stack is in use (`sp`): `_schedule` changes the stack and
`sched_switch` the pointer. `CountersMatch` says that they nevertheless add up.

**Sched.** A thread runs its code, or is in an `irq_sched()` (`phase`, with its
local `mask`) called by `preempt_enable()` or by `excpt_irq()` (`ctx`). Regions
with preemption disabled are one step, which `SchedExclusive` and
`SoftExclusive` of IrqLevels justify: no sched handler and no switch can run
inside them. An interrupt may come at every step. The callers are the most
general: any thread creates threads, waits, wakes any queue or yields at any
time, and device handlers wake any queue. `irq_sched_raise()` (`irq.c:170`) is a load
and a store: where it runs with hard IRQs on (`Raising`: the timer's soft handler,
`schedc.c:62,78`, and a wake-up for idle, `schedc.c:247`), an interrupt may come in between,
and what it raises is overwritten (`late`). `IrqLevels` has the two accesses as steps of their own. `Mutex`, `Sleep` and `IoReq` restrict
exactly these: each of their steps is a step of `Sched` conjoined with their own state.

**Sleep.** The timer of a thread lives on its stack, so the thread's name stands
for it, and its wait queue is the queue of that name. `left` is a history
variable: the ticks until the timer is due.

**IoReq.** Every caller in the repository makes synchronous requests on its own
stack, so a thread stands for its request. The steps of `ioq_ior_submit()` (the
locked part, then the ioctl) and of `wait_event()` are separate, because the
handlers run in between; the SD host's handler is three steps, because
`sdhc_hard_irq()` runs between its read of `sc_int` and its store. The device
answers a request at any time after the ioctl; the SD host also raises
interrupts that complete nothing. `lost` records that a completion was wiped: by one
of the two clears that come after their read (`irq.c:48`, `sdhc.c:131`), or because its
raise fell between the load and the store of another (`RaiseMayGo`). For the mailbox, whose completion
runs in the sched handler, `mbox_ioctl()` of the next request there looks up an
address and so takes the mutex `ram_map_lock` (`mbox.c:87`), which a sched handler must not
wait for; the model leaves that lock out.

**Buddy, PageAlloc.** The bitmap is the set of its set bits; a bit of a level stands
for `Span[level]` pages, `1 << level` in the code. `bdy_alloc` and
`bdy_free` are operators with the loops of the code as sets of ancestors and
descendants. `pm_ram_alloc` and `pm_ram_free` hold `ram_map_lock` from end to
end, so each is one step. `out` and `asked` are history variables, and the
refinement mapping to `Blocks` is the identity on them: what callers hold and what
they asked for is all that `Blocks` speaks of.

**Slub.** `kmalloc()` takes its own structures from `kmalloc()`, a page from
`kmalloc_fullpages()`, the range of the page from `vm_alloc()` (which takes the
segment's structure from `kmalloc()` again), the frame from `pm_ram_alloc()` and, if the
page lies in a part of the address space that has no page table, one from
`mmu_slub_alloc()`, which refills itself the same way. A thread's call is the list
`todo` of the steps it has still to take; a step that calls puts the callee's steps in front, and
`vals` holds the results the outer calls keep in local variables. A section under a
mutex or with preemption disabled that calls nothing is one step; locks that are
held over calls (the list locks over a refill, `vm_areas_lock` over the
allocation of the segment, `ram_map_lock` over that of the frame) are taken by one step and
given back by another, with `owner` in between. A structure is known by the
object it lies in, so that the structures' own objects are accounted for like
any others. `fb_init()` may come at any time. `stopped` names the assertion
of the code that failed; the machine then does nothing more. `raced` records
that a page table has replaced another.

`kfree()` asserts only that its page is mapped and that the entry of the frame has SLUB_LEADER
(`Refuses`); what the entry says then decides (`Dispatch`). For a page of a refilled list that is
`kfree_fullpages()`, whose steps are `Unlink` (`list_del()`, under no lock), `FreeStructure`,
`FreeFrame` and `FreeRange`, and between which every other thread may run, another `kfree()` of the same page
included: the structure is then unlinked and put on its chain twice, and the frame may be given
back a second time or when it is in use again. `misfreed` records that `kfree()` has
taken such a page for a whole one. Two things are cruder than the code. `Unlink` of a structure takes any set of slabs of its
size off the lists, which covers a lost update and the repeated `list_del()` with stale neighbours;
and where the words of a freed structure are followed (`WalkOn`, and an `Unlink` after
another has freed the structure), the model takes the data abort that a free object's words lead to.
`live` is a set, so of an object that has been handed out twice only one `kfree()` follows.

## The runs

| run | question | expect |
|---|---|---|
| `irq_levels` | do counters, handlers and switches stay within their level? | pass |
| `irq_sched_lost` | does nothing change the mask between fetch and clear (comment, `irq.c:41-45`)? | violated |
| `sched` | do the queues, assertions and requests to switch hold under every interleaving? | pass |
| `mutex` | mutual exclusion, no lost waiter, refinement of `Lock` with its liveness | pass |
| `sleep` | wheel masks and lists agree, timers are neither late nor dangling | pass |
| `sleep_lost` | does the wake-up between queuing and waiting work (comment, `schedc.c:423-425`)? | violated |
| `io` | is one request under way at a time, completed once answered, forgotten when its thread returns, and is no answer dropped but in the three known windows? | pass |
| `io_live` | is every request done in the end, and does every ready thread run again? | pass |
| `pages` | does the bitmap say exactly what is free, and does a call fail only when it must? | pass |
| `sdhc_lost` | does no completion arrive while the SD handler runs (comment, `sdhc.c:127-129`)? | violated |
| `slub` | has every object one owner, do ranges stay apart, is nothing mapped over, and who waits for himself? | pass |
| `slub_kfree` | does `kfree()` leave the page of other objects alone (comment, `slub.c:156`)? | violated |

The four violations are real disagreements between a comment and the code; each
is described under "findings" in PROJECT.json. In short: `irq_sched()` reads and
clears its mask in two accesses with IRQs on, so a sched IRQ can be lost;
`msleep()` uses `wait()` where its comment says `wait_event()`, so a timer that
fires first leaves the thread asleep; `sdhc_sched_irq()` clears completions it
has not read; and a refilled page has two sizes or-ed into its entry, so that
`kfree()` of one of its objects takes it for a whole page and gives it back. From there
on the allocators keep none of their promises: a second `kfree()` on the same page, which nothing
prevents, puts the structure of the slab on its chain twice, so that two callers may get it,
repeats the `list_del()`, and gives back a frame that may be in use again. The properties of `slub`
therefore speak of the runs before that (`~misfreed`), and `slub_kfree` is where they end.

The passing runs allow for what the code does elsewhere, and say so in
their properties:

  - `current->ticks` (`schedc.c:60`) is an unsigned `char` from which several
    ticks are taken at once, so it can pass zero and stay large for a while: the
    thread keeps the processor longer, and nothing else depends on it.
  - `OnlyRefillsBlock` names the two ways in which a thread waits for a lock it
    holds: a refill of 16-byte objects at the low water mark (`slub.c:374-377`),
    which takes its structures from the list it refills, against the comment
    `slub.c:93-97`; and a refill of page tables when none is left.
  - A thread that runs while IRQ_SCHED_TIMER is pending may call `msleep()` for a
    full turn of the wheel: its timer joins the slot of the present, which is due,
    and fires at once. `NeverMissed` says that no timer is late, not that none is
    early.
  - `slub_16byte_free` is counted down by `kmalloc()` and never up by `kfree()`, so
    that the refill comes earlier than needed: `NeverDry` is an inequality.
  - `lost`: `CompletionKept` and `RequestsDone` allow for a completion that a clear
    wipes (`irq_sched_lost`, `sdhc_lost`) and for one whose raise is overwritten by
    the store of another at `irq.c:170`.
  - `misfreed`: see above.
  - `stopped = "schedule"`: the look-up of a page table takes `ram_map_lock` with
    preemption disabled, and if another thread holds it `mutex_lock()` calls
    `schedule()`, which asserts that preemption is enabled.
  - `raced`: two threads that find no page table for the same part of the address space both
    allocate one, and the second replaces the first (`mmu.c:224-227`).

### Bounds

| configuration | bounds |
|---|---|
| `MCIrqLevels`, `_lost` | the booting thread and two more (symmetric), one soft IRQ, one device sched IRQ and IRQ_SCHED_SCHEDULE, `MaxNest` = 2: interrupts nested two deep |
| `MCSched` | four threads with idle (the two created ones symmetric), one wait queue, one device, quota 1, `CHAR_MOD` = 3, `MaxLag` = 1 |
| `MCMutex` | three threads and idle, no device, quota 1, `CHAR_MOD` = 2, `MaxLag` = 1 |
| `MCSleep` | two threads and idle, a wheel of 3 slots, `MaxLag` = 3 ticks taken at once (1 in `_lost`, whose trace is short) |
| `MCIoReq` | two threads and idle, both drivers, quota 1, `MaxLag` = 1; `_live` the mailbox only, `_sdhc` the SD host only |
| `MCPageAlloc` | 8 pages, blocks of 1, 2 and 4 pages, three pages kept by the kernel, up to 2 blocks in a call |
| `MCSlub`, `_kfree` | two threads (symmetric in the first configuration), sizes 8 and 16 with 2 and 10 objects in a page, 3 page tables in a page, `LowWater` = 2, an area of 8 pages with 2 entries in a page table, a framebuffer of 4 pages of which one section is mapped, 7 frames, calls for 8 and 16 bytes and for a whole page (`Want`) |

`MaxNest` bounds how deep interrupts nest: a second interrupt in a handler
already runs with soft IRQs disabled, as does every deeper one, so two depths
show all the cases of `excpt_irq()`. `MaxLag` bounds how many ticks a late timer
interrupt may find; the hardware has no bound, but more than a wheel's turn
cannot be told apart by a mask of its slots, and a tick between the one that
uses up a quota and the switch shows the wrap. `CHAR_MOD` replaces 256: the code
only compares `ticks` with zero. A wheel of three slots has a next slot, a last
one and one in between. Three threads besides idle are the least for one that
holds a mutex, one that waits and one that is woken with it and loses the race;
two requests are the least for one under way and one that its completion starts.
Three levels of the buddy bitmap have a block that is whole at the top, one that
is split twice and one whose free half must not merge. In `Slub`, a page of 2
objects is free, partly used, full and refilled within a few calls; 10 objects
of 16 bytes leave room to pass the low water mark after the structures that boot
takes; two entries in a page table make every second page need a new one; 7
frames are few enough to run out. Two `kfree()` of objects of one page of a grown list, and what they do
to each other, are within these bounds (`slub_kfree` stops at the first frame given back); that the
structure of such a page lies on another one is not, as it needs a second page of 16-byte objects, so that
branch of `FreeStructure` is there for completeness. Two threads are enough for one that holds each
lock while the other meets it, and for a circular wait.

### Fairness

  - `MutexFairSpec` asks that a thread which runs again and again gets to the
    next step of `mutex_lock()` (a quota is far longer than an `irq_sched()`),
    that a holder unlocks in the end and that running threads call `schedule()`.
    It does not ask anybody to lock.
  - `IoFairSpec` asks that a device answers, that the timer goes on ticking, that
    `irq_sched()` goes on and returns, and that a running thread gets to its
    ioctl and to `schedule()`. Without the tick a sched IRQ raised after the last
    fetch of an `irq_sched()` would wait for ever, since only the next interrupt
    looks at the mask again: the run showed that `RequestsDone` needs it. The
    same conditions give `ReadyRuns`: the switch that the tick or `schedule()`
    asks for comes, and the ready queue is served in order.

`Sched`, `Sleep`, `PageAlloc` and `Slub` state no fairness: they are run for safety only.

## Proofs

All theorems hold for any number of threads and queues, any quota, any number of
soft and sched IRQs, any depth of nested interrupts, any bound on ticks, RAM
of any number of pages and levels, and any object sizes and area of virtual memory. What is assumed of the constants:
`SchedConstants` (idle and the booting thread differ, the quota fits the
counter), `MutexConstants` (the mutex has a wait queue), `SleepConstants` and
`IoConstants` (one device IRQ, as the modules' configurations have it, and a
wait queue for each thread; the wheel has at least one slot; the owners of the
queue are the two drivers), `IrqConstants` (the booting thread is one of the
threads, there is a soft IRQ and a sched IRQ), `BdyConstants` and `RamConstants`
(there is a page and a level; RAM is a multiple of the largest block, as the
128MB to which `pm_init()` cuts it are; a call asks for at most as many blocks
as there are pages; the kernel's own pages lie in the blocks it reserves), and
`SlubConstants` (there are two sizes or more, two objects or more in a page and three page tables
or more, the first page of 16-byte objects has room for
the structures of boot and stays above the low water mark then, as `slub_init()` asserts;
the area of vm.c is a multiple of what one page table maps and of the framebuffer).

| module | theorem | property |
|---|---|---|
| `SchedProofs` | `TypesOK` | `TypeOK` |
| | `QueuesHold` | `QueueDiscipline` |
| | `AssertionsNeverFail` | `AssertionsHold` |
| | `SuspendedThreadsClean` | `SuspendedClean` |
| | `IdleAlwaysYields` | `IdleYields` |
| | `NobodyOvertakes` | `NoOvertaking`, an action property |
| `MutexProofs` | `MutexRunsOnSched` | `MutexSpec => Spec` of the scheduler |
| | `MutualExclusion` | `LockMatchesHolder` |
| | `NoWaiterIsForgotten` | `NoWaiterForgotten` |
| | `MutexImplementsLock` | the safety part of `ImplementsLock` |
| `SleepProofs` | `SleepRunsOnSched` | `SleepSpec => Spec` of the scheduler |
| | `MasksMatchWheel` | `WheelExact` |
| | `TimersNeverDangle` | `NoDanglingTimer` |
| | `TimersNeverMissed` | `NeverMissed` |
| `IoProofs` | `IoRunsOnSched` | `IoSpec => Spec` of the scheduler |
| | `OneRequestUnderWay` | `OneUnderWay` |
| | `RequestsLeaveNothing` | `NothingLeftBehind` |
| | `CompletionsAnswered` | `Answered` |
| | `CompletionsKept` | `CompletionKept` |
| `IrqProofs` | `Invariance` | `IInv`, from which the others follow |
| | `CountersAreFrames` | `CountersMatch` |
| | `TypeCorrect` | `TypeOK` |
| | `SoftHandlersExclusive` | `SoftExclusive` |
| | `SchedHandlersExclusive` | `SchedExclusive` |
| | `SwitchedAtDepthOne` | `SwitchAtDepthOne`, an action property |
| `PageProofs` | `Invariance` | `IInv`, from which the others follow |
| | `BitmapExact` | `BitsExact` |
| | `EntriesKept` | `EntriesMatch` |
| | `KeepsPromise` | `ImplementsBlocks` |
| `HeapProofs` | `SlubInvFollows` | `SlubInv`, from which the others follow |
| | `NoOtherCircle` | `OnlyRefillsBlock` |
| | `RangesNeverMeet` | `RangesApart` |
| | `OneOwnerAlways` | `OneOwner` |
| | `ListsAlwaysMatch` | `ListsMatch` |
| | `NeverOut` | `NeverDry` |
| | `MappedAlways` | `MappingsKept` |
| | `NeverMappedOver` | `NothingMappedOver` |

**SchedProofs.** The inductive invariant `Inv` is a conjunction of four parts.
`QueueInv` adds to `QueueDiscipline` that the current thread is RUNNING or
waiting (never READY or not yet created) and that idle is RUNNING or READY:
without the first, a thread could be put back on `ready` by a switch while it is
there already; without the second, idle could be on a wait queue. `TickType`
keeps `ticks` in a byte. `ControlInv` says that a thread out of `irq_sched()` has
no mask and one that reached IRQ_SCHED_SCHEDULE has nothing else left in it,
which is why a switch leaves a clean thread. `IdleInv` is `IdleYields` with the
place where the request to switch is pending, and needs the queue part to know
that `schedule` never leaves idle running with a ready thread. Lemmas on
`Append`, `Tail`, `\o` and `RemoveAt` say which elements they yield and that
they keep a sequence free of duplicates; there is one lemma per action and
`NextInv` collects them. `NobodyOvertakes` looks at the ready queue before and after
each step: it grows at its end and shrinks at its head.

The three modules over the scheduler are proved the same way. Each of their
steps is a step of `Sched` or leaves its variables alone (the `*StepIsSched`
lemmas), so each specification implies that of the scheduler, and `Inv` and
everything above carry over. The modules' own invariants are then inductive
together with `Inv`.

**MutexProofs.** `MutexInv` is `MutexType`, `LockMatchesHolder` and
`NoWaiterForgotten`, which are inductive as they stand. The
refinement compares each step with `Lock`: a try that succeeds or an unlock is
`Lock`'s own step, all others stutter. Its fairness is TLC's (`ImplementsLock`).

**SleepProofs.** `SleepInv` strengthens `WheelExact` by five facts: the handler's
copy of the mask is disjoint from the slots that are still waited for, so a slot
that fires is not marked twice (`FiringInv`); a timer is queued once
(`QueuedOnce`); whoever has a timer is about to wait or waits, which is why the
timer's stack frame is there (`SleeperInv`); a timer's queue is its thread's
alone (`OwnQueue`); and a timer that is not due lies `left` slots ahead of
the present (`LeftInv`). The last is the heart of `NeverMissed`: the ticks taken
at once move the present, and the rotated mask covers exactly the slots passed.
The lemmas `ModSmall`, `ModOnce` and `TickKeepsDistance` are its arithmetic.

**IoProofs.** `RequestInv` says that a request is on the queue from its submission
until it is done, and that the head alone is about to be started or with the
device. `DeviceInv` follows the answer of the device as a token: an
interrupt that is raised, fetched or (SD host) copied from `sc_int` is there only
while the head is answered, and in one place at a time. That is why a second pass
of the handler cannot complete the next request with the answer of the last.
`CompletionKept` is the converse, and is inductive over the rest: while the head is
answered there is such a token, unless one of the two clears (`irq.c:48`,
`sdhc.c:131`) has wiped it or the store of another raise (`irq.c:170`) has, which `lost` records.

**IrqProofs.** The counters belong to threads and the frames to stacks, and
between the two halves of a switch the frames on the new stack still run with the
old thread's counters. `IInv` therefore speaks of `View`, the frames as each
thread's counters see them (which is `FramesOf`), and says of every thread that
its frames are stacked as the calls of the kernel allow (`StackInv`: what each
function can be called from, what it has disabled, how far from the bottom it can
be) and that its three counters are the totals over them (`Match`). `Switched`
says where a stack that is not in use ends: in one suspended frame. A step of the
frame that runs is then a step at the end of one sequence of frames, and
`MatchReplace`, `MatchPop` and `MatchPush` treat the three kinds there are; only
the two halves of a switch themselves (`SwitchStackKeeps`, `SchedSwitchKeeps`)
move frames from one thread to another. Exclusion follows from the totals: a
soft handler's frame holds a disable, so no other frame under it does.

**PageProofs.** A page belongs to one bit of each level, that of its number
divided by `Span[level]` (`PageOf`, `DivDiv`). `IInv` is that the set bits are
those with a page in use, that blocks in use do not meet, and what `ram_map` says
of each block. `AllocBits` then says that `bdy_alloc()` sets exactly the bits that
share a page with the new block (`Relatives`). `Climb` is the heart: going up
from a freed block, the first level whose sibling is set is the first whose parent
still has a page in use, so `bdy_free()` stops where it must. `NbitsExact` is why RAM
has to be a multiple of the largest block: no bit then stands for pages beyond its
end. `AllocUpToGets`, `FreeAllBits` and `RollbackBits` are the loops of
`_pm_ram_alloc()` and `pm_ram_free()`. The refinement compares each call with
`Blocks`: an allocation takes blocks that are free there, one that fails finds fewer
than were asked for (`FewFree`: each turn of the loop used one up), a free is a
return, and an owner's store to its entry is a stutter.

**SlubProofs, HeapProofs.** Once `kfree()` has taken a page of objects for a whole page there is
nothing to prove, so the invariant `SlubInv` is `~misfreed => Good`, and `misfreed` never becomes
false again (`NotMisfreedBefore`). Until then nobody is in `kfree_fullpages()` (`NoFrees`) and `kfree()` is its
other half (`FreeCases`). The theorems are about such runs: they say that the allocators have no other fault than that
one and those named in the properties. `Good` has three parts:
`LockInv` (where each thread is in its calls, and the locks it holds), `RangeInv`
(segments) and `HeapInv` (objects, lists, frames, page tables). Each action is shown to keep
the first two with the first two, and the third with all three.

The model of the allocators is a stack machine, so the first thing to
know is what a stack can look like. `Shape` says it of a thread's pending steps `todo`, its
results `vals` and the locks it holds together: `todo` is a series of tails of the bodies
of `kmalloc()`, `mmu_slub_alloc()`, `vm_alloc()` and the two refills, one inside the other
(`Grows`, `Ranges`, `Inner`, `Outer`), each of which knows the locks that its callers hold and
how many results it will find. `At` says the same by the step at the front. `LockInv` is `Shape`
for each thread; there is a lemma for each kind of step (`AllocKeeps`,
`FindKeeps`, ...) that finds the shape of what is left. `HoldsThenNeeds` reads the order of
the locks off the shapes: size lists before the list of page tables before `vm_areas_lock`
before `ram_map_lock` and the list of 16 bytes (`Rank`). A thread that holds a lock needs only later ones,
except in the two refills that `OnlyRefillsBlock` names. The last thread of a circle, by that
rank, would have to wait for itself, and `NoOtherCircle` follows (`LocksOrdered`).
For `RangesNeverMeet`, `RangeHeld` says that while a thread holds `vm_areas_lock` over the allocation of
its segment (and has not gone into the 16-byte refill, from where it does not come
back) the range it has found is clear of all segments. The others cannot add one without
the lock, and nobody reaches `vm_free()`, so none disappears. `MeetsExact` is what the
four comparisons of `vm_find_seg()` amount to.

`HeapInv` is what `OneOwner`, `ListsMatch` and `NeverDry` need together, because objects, lists
and entries lean on one another: a structure that was handed out twice would put a slab on
two lists, and an object goes back to the right slab only if the entry of its frame is its own.
Its parts, all of them checked with TLC before they were proved, are:

  - `TokensOk`: `Has` is the relation of who has what (a result of a thread, an object of a
    caller, the structure of a slab, of a segment or of a whole page, a page table, a link
    of a chain). Whatever is at a pointer has one owner (`Own`), every object of a slab
    has one (`NoneLost`), and while a page is not given out nobody has an object in it
    (`PageAlone`). A step moves a token, adds one or takes one away; `TokensMoved`,
    `TokensAdded` and `TokensDropped` treat the three.
  - `SlabsOk`, `ListsOk`: no two slabs have one page, and each is on the list that its free objects
    ask for, once. Only the first slab of 16 bytes ever has that size: its refill takes the structure
    from the list that the thread itself has locked, so it never completes. All structures
    therefore lie in that slab's page.
  - `LowOk`: `slub_16byte_free` is at most that slab's `nfree`, at least `LowWater`, and above it
    while nobody holds the list. That is `NeverDry`.
  - `FramesOk`: the entries of the frames of boot never change, and an entry of any other frame is
    empty or says "whole page" too. So an object goes back only to a slab of boot, and `kfree()` of any
    other is the fault of `slub_kfree`.
  - `TablesOk`, `MapsOk`: only a page table in frame 1 passes the look-up's assertion on the entry, no
    two PDEs share one, and the pages that slabs and calls under way have are mapped to different
    frames, each with the entry of its own slab.
  - `KnownOk`: every page in use lies in a segment or in the range that the holder of
    `vm_areas_lock` is about to record, so a new range is of pages that nobody has.
  - `ThreadsOk`, `LiveOk`, `StructsOk`: what the next step of a thread, callers and segments rely on.

`OneOwner` counts. `OwnersAre` writes the six cardinalities of `Owners` as those of the six kinds
of `Has`, and `OwnersOne` says that one of them is 1 and the others 0, unless
the object is on its slab's chain. `FoldOfOne` is the sum of `NeverDry` over a set of one slab.

The two properties of the mappings follow the page of a call through its steps, which `HeapInv`
leaves out. Both are invariants over `SlubInv`:

  - `MappedInv`, for `MappingsKept`: until a page table has been replaced, the pages of slabs, the
    objects of callers and the page of a call between the step that maps it (`Map`) and the one that
    gives it out are mapped (`InMap`). No step undoes a mapping: `EntriesStay` says of the two levels
    of page tables that entries are added only, `MapsStay` what that means for a page, and `MapFills` that `mmu_map()`
    adds just the page of its call. The exception is `Install` over a table that is
    there already, and it sets `raced`. That an entry leads to the slab of its
    page is `MapsOk` again.
  - `ApartInv`, for `NothingMappedOver`. From `vm_find_seg()` to `mmu_map_pages()` the page of a call is not
    mapped (`Unmapped` in `PlacedOk`), and it has a segment of one page as soon as that is recorded
    (`PagesPlaced`). An entry of the first level is a page table only if a segment of
    one page, or boot's, is in what it maps, and a section only if all of it lies in a segment of the
    framebuffer's size (`PdesPlaced`). Segments never meet (`RangesApart`), so a page that is about to be
    mapped is not under a section, and the sections of the framebuffer meet neither a page table nor
    another section; the range of `fb_init()` begins where a page table's does (`Aligned`), because
    `vm_alloc()` aligns a range to its size. That `NSizes` is at least two and at most `NPte` tells the
    segment of the framebuffer from that of a page. The other entry that `mmu_map_pages()` asserts, that
    of the second level, is empty because the page has no frame.

That no page is mapped twice needs no exception for `raced`: a table that was replaced takes mappings away
and never brings one back.

**Induction.** What a loop or a sum computes needs induction over data. The library's
theorems for it take an operator as a parameter and cannot be used here; `IrqProofs` and `PageProofs`
derive induction over *sets* of naturals from the fact that `<` is well founded
on them (`NatInduct`), and `PageProofs` with it that a recursive function of a bounded argument exists
(`Recursion`). The models define such functions (`Total`, `Span`, `nbits`,
the loops of `PageAlloc`) rather than recursive operators for that reason.

Only model-checked: liveness (`ReadyRuns`, `RequestsDone` and the fairness part of
`ImplementsLock`), which the proof system cannot treat. Each safety property of a passing run is
a theorem.

## Not modelled

Boot code, the interrupt controller, timer and UART registers, `io.c` and `lib/`
are straight-line register code or pure helpers (of `fb.c`, `Slub` has the range and
its sections, not the mailbox messages); `dev/sdhost.c` is compiled out.
Registration of handlers happens once, before interrupts are on, and is part of
the initial states. Data aborts and other exceptions loop for
ever in the code; the only ones in the models are those that follow the fault of
`slub_kfree`, where the machine stops (`stopped = "abort"`).

  - The work queue and asynchronous requests. No request in the repository is
    asynchronous and nobody else submits work. `wq_init()` does not initialise
    the list that `wq_work_add()` adds to (`work.c:54-57`), and the worker copies
    the head of the list by value (`work.c:40`): what a submitter would get is
    not a behaviour of the program yet.
  - `kernel/list.c`: circular lists are sequences in the modules.
  - `mmu_unmap()`, `mmu_slub_free()`, the large pages of `mmu_map()` and
    `kfree()` of whole pages have no caller. Caches, attributes and the TLB
    are not modelled.
  - The identification of the SD card (`sdhc_init()`) is a fixed sequence of
    requests, each one an ordinary request of `IoReq`. Its loop of four ACMD41, which
    goes on with a card that is still busy, and the divisor of the SD clock are not
    modelled.
  - `msleep()` has no liveness run: with the ticks bounded as in `MCSleep` the
    state graph is too large for the temporal checker. `NeverMissed` and
    `NoDanglingTimer` say the same in terms of safety, but for the finding of
    `sleep_lost`.

Nine hazards have no property; PROJECT.json says why at each. Five are modelled and
happen, without a comment that denies it, so that the other properties allow for them: the wrap of
`current->ticks`, the two refills that wait for their own lock, the page table that
replaces another (`raced`), and the look-up of a page table that takes a mutex with
preemption disabled. The walk of `vm_free()` on from a freed segment is reached only through the fault of
`slub_kfree`. The others are ticks that come while the timer's soft handler takes
them (taken and reset with IRQs off, and not told apart by the model), an SD interrupt with the error bit alone (a
matter of the controller), and a buddy level with an odd number of bits (not a size of a
supported board).

## Plan

Done: `IrqLevels`, `Sched`, `Mutex`/`Lock`, `Sleep`, `IoReq`, `Buddy`,
`PageAlloc`/`Blocks`, `Slub`, and the proofs about all of them. Left:

  - The work queue and asynchronous requests, once the code submits some.
