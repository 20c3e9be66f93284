# A TLA+ model of the kernel

This directory specifies the kernel in `src/kernel` and `src/aarch`: an seL4 kernel in its
mixed-criticality configuration (MCS) with an ARM back end. The modules are translated from the C
code. `PROJECT.json` gives, for each definition, the lines it stands for, and lists the hazards,
each at the line where it bites.

## The system

The kernel runs on every core of a multiprocessor under one big lock. Between taking and releasing
it a core handles one system call, fault or interrupt to completion; long deletions and memory
resets poll for interrupts and stop half-way (preemption points). User threads communicate through
endpoints (rendezvous), notifications (asynchronous signals) and reply objects (the right to
answer a call). Time is a resource: a thread runs only on a scheduling context, a budget per
period kept as a queue of refills, which travels with calls to passive servers and back with the
answers. Everything is named by capabilities, kept in slots and in one list that encodes which was
derived from which; the last capability to an object takes the object with it, and memory is
reused when no capability to it is left.

| part | code | modules |
|---|---|---|
| kernel lock, IPIs | `smp/lock.c`, `smp/ipi.c`, `include/smp/lock.h`, `aarch/smp/ipi.c` | KernelLock |
| endpoints | `object/endpoint.c` | Endpoint |
| notifications | `object/notification.c` | Notification |
| reply objects | `object/reply.c` | Reply |
| scheduling contexts | `object/schedcontext.c`, `object/schedcontrol.c` | SchedContext |
| threads, faults | `kernel/thread.c`, `object/tcb.c`, `kernel/faulthandler.c` | KernelState, Thread |
| system calls | `api/syscall.c`, `model/preemption.c` | Kernel, composing the five above |
| refills | `kernel/sporadic.c` | Sporadic, over the queue of RefillQueue and RefillRing |
| ready queues, domains | `kernel/thread.c`, `object/tcb.c`, `object/domain.c` | Scheduler |
| capabilities | `object/cnode.c`, `object/objecttype.c` | CSpace, Deletion |
| interrupt objects | `object/interrupt.c` | Interrupts |
| untyped memory | `object/untyped.c` | Untyped, composed with the two above in Capabilities |
| address spaces, ASIDs, TLB | `aarch/64/kernel/vspace.c`, `aarch/64/object/objecttype.c` | VSpace |

## Modules

**KernelLock.** One step is one access of a core to shared memory. `Pend`, `Swap`, `Enter`,
`SpinIPI` are `clh_lock_acquire`; `Grant`, `Take` are `clh_lock_release`; `doRemoteMaskOp`,
`Flag`, `Send` start a remote call; `Load`, `Check`, `Exec`, `Clear` serve one; `WaitRead` to
`Wait` are the sense-reversing barrier `ipi_wait`. What the kernel does under the lock is reduced
to the remote calls it makes. Memory is sequentially consistent: the acquire and release fences of
the code are taken as given.

**KernelState, SchedContext, Reply, Notification, Endpoint, Thread, Kernel**, each extending the
one before. Since an entry runs to completion under the lock, the state is one record `k`, every C
function is an operator from records to records under its C name, and every kernel entry is one
action of `Kernel`: the handler, then `leave`, which is `schedule` and `activateThread`. An
assertion of the code that fails records its function in `k.failed` and the code goes on. The
constant `Ops` lists the operations of an instance. Abstractions: one core and one domain;
messages, registers and capability lookup are left out (an invocation names its object); the ready
queues are sets. The release queue is a sequence in order of release times, as `tcbReleaseEnqueue`
keeps it, and `awaken` looks at its head only. Of a context's refills the time until the head may
be used is kept (`rTime`, 0: ready), and of the timer the time until its `deadline`, which
`setNextInterrupt` programs. Both are relative to now and at most `MaxDelay`; `TimePasses` lowers
them. Of amounts nothing is kept: the budget of the current context may end at any entry. The
theorem `HeadIsUsable` about Sporadic is why that is enough: an active context always has a
sufficient head. Loops over queues (`cancelAllIPC`, `cancelAllSignals`) are folds in queue order.

**Sporadic.** One context with its refills, and the life of the thread on it: running, preempted,
blocked, yielding, out of budget, reconfigured. The functions of `sporadic.c` are operators over a
sequence of refills; `commitTime`, `chargeBudget` and `endTimeslice` drive them. Time is in ticks
up to `MAX_RELEASE_TIME`, which the kernel itself requires. `late` bounds how late the timer
interrupt comes (0: punctual). `ran` is history: the ticks of the longest period past in which the
thread ran, since the context was configured.

**RefillQueue, RefillRing.** The bounded sequence Sporadic is written over, and the circular
buffer of the code that implements it, by a refinement mapping that does not use the code's own
`refill_next`.

**Scheduler.** The ready queue of every domain and priority, the two levels of bitmaps that
summarise them, `ksSchedulerAction`, and the domain schedule with its start index and end markers.
Any thread may become ready, wait or block at any kernel entry: what Kernel leaves open is exact
here and the other way round. `inKernel` separates the handler from the `schedule` that follows
it. `k.moved` is history, the threads `SetDomain` moved into the current domain since the queues
were last looked at.

**CSpace, Interrupts, Deletion, Untyped, Capabilities**, each extending the one before. A slot is
an address in units of one slot, so a CNode is a range of addresses and every slot that can ever
exist is one. The derivation tree is what the code has of it: a list through `mdbPrev` and
`mdbNext` with two flags. `finaliseSlot`, `reduceZombie`, `cteDelete` and `cteRevoke` call each
other and return a set of outcomes, one for every way the preemption points can answer. `Untyped`
retypes and resets memory, the reset chunk by chunk. `TCBSetSpace` installs fault handler, CSpace
root and VSpace root in the TCB's own slots, in this order; a deletion for one may take the source
of the next. Of the architecture's capabilities there is only that to a VSpace root. `k.par` (the slot a capability was derived
from) and `k.dirty` (memory used since it was cleared) are history.

**VSpace.** The AArch64 configuration with hypervisor support, which `root/build_sdk.py` builds.
An address is the sequence of its table indices. Besides the kernel's tables, pools and
capabilities, `k` holds what the processor has: the root and hardware ASID (VMID) loaded last, and
the TLB, which may take in any translation of the loaded root at any moment. One core. The global
root is loaded with VMID 0, which an address space may own as well, so a translation is judged by
the address space that owns its hardware ASID. `VSpaceSteps` states what the operations do to each
other's part of the state; only the proofs use it.

The `MC*` modules give the constants for TLC.

## Runs

| run | instance | shows |
|---|---|---|
| `lock` | 2 cores, two functions, 2 remote calls | exclusion; remote calls run under the caller's lock and are complete when it goes on; a stalled core is not stalled again; the inductive invariant of the proofs |
| `lock_fair` | 2 cores, 2 stalls, fair | every entry finishes, stalled cores schedule again |
| `lock_stale_call` | 2 cores, 2 calls | *violation*, see findings |
| `kernel_ipc` | 3 threads (one passive), 2 replies, 2 contexts | queues and their order, call stacks, context links, lent contexts return with the answer, faults kept until answered, no failing assertion |
| `kernel_budget` | 3 threads, 1 reply, budgets end at any time, refills up to 2 units away, fair | no thread lost, none runs or blocks without budget, yielders wait, the timer is programmed in time for every waiting thread, the release queue drains |
| `kernel_signal` | 2 threads, 1 notification, bound or with a context, preempted revocations | no signal lost, bindings agree on both sides, only the assertion of `sendSignal` can fail |
| `kernel_preempt_signal` | a part of it | *violation*, see findings |
| `sporadic` | 15 ticks, 2 budgets and 2 periods, punctual or arbitrarily late timer | sum and order of refills, sufficient head, no overflow, budget per sliding window of a period, release within a period |
| `refill_ring` | 4 slots, 2 refills | the buffer implements the sequence |
| `scheduler` | 3 threads, 2 domains, 3 priorities over 2 bitmap words, a schedule of 3 entries | queues, bitmaps and flags agree; a thread of the highest priority runs; the schedule stays inside its bounds and out of empty rounds |
| `capabilities` | slots 8 to 21: 8 of untyped memory, a full root CNode of 4; a VSpace root, 1 interrupt, 3 operations | the list is a derivation tree, objects go with their last capability, memory has one use and is clear when free, no capability is stranded, interrupt states follow their handlers |
| `vspace` | 2 roots, 2 tables, 2 frames, 1 pool, 3 levels, 1 hardware ASID, 2 threads, 6 operations | no stale translation, every mapping has a capability, hardware ASIDs agree |

**Bounds.** Two contexts, two replies and three threads are the least with which a context is lent
through an intermediate, passive server and its call stack cut in the middle. One endpoint
suffices: operations on different endpoints touch each other only through threads, replies and
contexts, which are shared. The `kernel_*` runs differ in their `Ops`, so that each stays small
while every pair of operations a property relates is in some run. Endpoint capabilities come in
two kinds, one badge with the grant right and another without (`kernel_budget` has only the
first). `MaxDelay` is 2 in `kernel_budget` and `kernel_signal`: three different release times, so
the order of the release queue matters; in `kernel_ipc`, which is about other things, it is 1. In
`sporadic` 15 ticks are more than two periods of 6 and three of 4, with steps long
enough to pass a whole head refill. In `scheduler` two of three priorities share a bitmap word, so
both levels matter. In `vspace` one hardware ASID for two address spaces means that it is taken
away at every switch; a large frame (`f2`, mapped in the root) and a small one share addresses. In
`capabilities` the root CNode starts full, so that slots are freed and used again, and the memory
holds a TCB beside a CNode and smaller objects. Three operations are enough to copy, retype and
install, and to delete any of it at every preemption point; longer chains, such as copies of a
badged copy of a badged original, are not reached.
`MaxOps` bounds the operations that make or move capabilities (`capabilities`, `vspace`), the
configuring ones (`scheduler`) and the remote calls (`lock`); memory accesses, switches,
preemptions, time and ready queues are not counted.

`CHECK_DEADLOCK FALSE` is set for `sporadic`, where time stops at its bound, and for
`capabilities`, where the operations do.

**Fairness.** `lock_fair`: a core in the kernel keeps executing and leaves it, a core in user mode
takes the interrupts that are pending. Nothing forces a user thread to enter the kernel.
`kernel_budget`: time passes (`TimePasses`), and a timer interrupt whose programmed deadline has
come is taken (`TimerInterrupt`). Nothing is assumed about when the timer is programmed, or for
what: that is left to `setNextInterrupt`, and `awaken` releases from the head of the queue only.

## Findings

* `lock_stale_call`: `handleIPI` loads the remote call and its arguments before the pending flag
  is checked, although `lock.h` says the data is accessed only when the flag is set.
* `kernel_preempt_signal`: the assertion of `sendSignal` that a woken thread is not on the current
  context fails when an interrupt follows, in the same kernel entry, a preempted revocation that
  deleted the running thread. Only debug builds notice; the code after it allows for it.

## Proofs

Everything below is proved for all values of the constants that satisfy the named assumptions of
the module. `USE ZenonT(60)` or `USE SMTT(60)` at the top of a module names the prover of the
leaves that name none. Where TLC and a theorem state the same property, the run shows that the
property can be exercised (its mutants break it), the theorem that the bounds of the run hide
nothing.

**KernelLockProofs** (`Cores` finite, `Spare` not a core's, `MaxOps` a number). `TypeCorrect`;
then `QueueInvariant`, from which `Exclusion` follows; then `BarrierInvariant`, from which
`CallsExclude`, `CallsComplete` and `StallsDoNotNest` follow. Mutual exclusion is not inductive.
`QueueInv` adds the shape of the queue: exactly one request is owned by no core in the queue and
is free, requests watched by different cores differ, and the state of a request matches its
owner's position, so two holders would both watch the one free request. `BarrierInv` says who has
been asked, who has arrived and how many the barrier has counted, and separates the waiters of
this call from those an earlier one has released but who have not run since. `LockInvariant` is
the two together, which TLC checks in run `lock`.

**RefillProofs, SporadicProofs** (the constants are numbers, the periods have a maximum, a context
has at least `MIN_REFILLS` refills). `RefillsAreSane`, `HeadIsUsable`, `ReleaseTimesInRange`,
`WaitersAreReleased`, however late the timer is (the last: for a punctual one). The inductive
invariant `SporadicInv` adds that no refill is empty, that none begins more than a period after
the head (without it `schedule_used` would append out of order), that the time consumed has passed
since the head began, and that the head begins less than a period after `MAX_RELEASE_TIME`.
RefillProofs has the lemmas about the functions of `sporadic.c`. Loops are recursive functions; a
lemma about one takes the first round at which its claim would fail. Sums over refills are treated
in the same way. SporadicProofs has the invariant, and `RingImplementsQueue` (`N >= 2`): initial
states of the circular buffer map to initial states of the sequence, and every operation on the
buffer to the operation on the sequence, for every buffer and every size a context is configured
with.

**BandwidthProofs.** `BandwidthIsBounded`: with a punctual timer, a thread of constant bandwidth
(not sporadic, not round robin) runs for at most its budget in every window as long as its period.
The property counts ticks that were run; the state holds refills still to come. `BandwidthInv`
links them: for every moment `x`, the ticks run from `x` on, up to the time charged for, are at
most what the refills hold from `x` plus a period on. Charging keeps it, because what is used
comes back a period later (`Pays`). Merging, delaying and unblocking keep it, because they only
move refills later (`Later`), and reconfiguring starts a new count. As all refills together are
the budget, the window of the last period holds at most that much. A late timer lets a thread
overrun, and a sporadic context preempted while its refill is ready keeps the release time it had,
by design; so the hypotheses cannot be dropped.

**SchedulerProofs** (at least one domain, one priority and two schedule entries; threads finite;
the initial priorities are priorities). `SchedulerInvariant`, and from it `ReadyQueuesSound`,
`SchedulerPicksHighest`, `DomainScheduleStaysSound`. The invariant has two forms. Between kernel
entries (`Inv`) the current thread is ready, is of the highest priority, and every other ready
thread is in its queue. Within one (`Mid`) the candidate of `possibleSwitchTo` is in no queue and
the current thread may have blocked. Every handler leads from `Inv` to `Mid`, and `schedule` back.
`getHighestPrio` is shown to find the highest priority from the two bitmap levels for every word
size.

**ASIDProofs, WalkProofs, VSpaceProofs** (at least one level, pool and hardware ASID; the objects
of different kinds differ; the initial tables are as boot leaves them). `HardwareASIDs`,
`NoStaleTranslation`, `NoStrayMapping`, for tables of any depth. `ASIDInv` says that pools and
ASID table agree, that the two tables of hardware ASIDs are inverse to each other, and that the
loaded root belongs to an ASID in use. `VInv` says that the tables of every ASID in use are a tree
as the capabilities tell it: no table is reached at two levels or from two places (`LevelsInv`,
`TablesInv`), every page entry has a capability (`PagesInv`), objects without a mapping are empty
(`CapsInv`), and every TLB entry is what a walk gives now (`TLBInv`). A stale translation takes
several of them to exclude: unmapping finds the entry through the capability, and the flush goes
to the hardware ASID that the ASID has at that moment. WalkProofs shows which walks a changed
entry can change, ASIDProofs what an operation does to ASIDs, and VSpaceProofs combines them
action by action.

### Only model-checked

* Liveness: `EntriesFinish`, `StalledCoreReschedules`, `ReleaseQueueDrains`. Fairness and ENABLED
  are out of the prover's reach. That every domain gets its turn is not checked at all.
* The properties of Kernel. Its handlers are long chains of updates of one record over seven
  modules, and each proof needs a frame lemma for every operator.
* The properties of Capabilities. Deletion and revocation are mutually recursive operators, which
  the prover cannot work with, and that deletion ends is an induction over data.

## Not modelled

`PROJECT.json` gives the reason for each part.

* Fast paths: they should refine `SysCall` and `SysReplyRecv` of Kernel.
* Virtual CPUs, SMMU, FPU ownership; the 32-bit ARM, RISC-V and x86 back ends.
* Boot, except that the initial states follow it; drivers and platform code.
* The Microkit runtime, monitor, loader and tool, the system call stubs, the SDK build.
* Capability lookup (guards and depths), access rights, message contents, device memory, cache
  maintenance.
* Several cores at once beyond the lock and the remote calls. Sporadic, Scheduler, Capabilities
  and VSpace are separate from Kernel: each leaves open, as a choice at every step, what the
  others decide.
