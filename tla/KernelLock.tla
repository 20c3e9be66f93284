----------------------------- MODULE KernelLock -----------------------------
(***************************************************************************)
(* The big kernel lock and the remote-call IPIs of the multiprocessor      *)
(* kernel: include/smp/lock.h (a CLH queue lock), smp/lock.c, smp/ipi.c    *)
(* and the handleRemoteCall of the architecture (aarch/smp/ipi.c), with    *)
(* the kernel entry and exit paths that use them (aarch/c_traps.c,         *)
(* api/syscall.c handleInterruptEntry).                                    *)
(*                                                                         *)
(* A step of the model is one access of a core to shared memory.  Accesses *)
(* are sequentially consistent: the code orders them with acquire/release  *)
(* fences, which the model takes as given.  What the kernel does while it  *)
(* holds the lock is abstracted to what the lock and the IPIs can see: the *)
(* remote calls it makes and whether the core leaves for the idle thread.  *)
(***************************************************************************)
EXTENDS Naturals, FiniteSets

CONSTANTS Cores,     \* the CONFIG_MAX_NUM_NODES cores
          Spare,     \* names request[CONFIG_MAX_NUM_NODES]; request[c] is named c
          Funcs,     \* the IpiRemoteCall_t values the run uses
          MaxOps     \* bound on the remote calls of a behaviour

ASSUME SpareAssumption == Spare \notin Cores

ASSUME CoresAssumption == IsFiniteSet(Cores)

ASSUME BoundAssumption == MaxOps \in Nat

Requests == Cores \cup {Spare}

VARIABLES
  reqState,         \* clh_req_t.state of each request
  tail,             \* big_kernel_lock.tail
  watch, myreq,     \* clh_node_t.watch and .myreq of each core
  ipi,              \* clh_node_t.ipi, the software flag of a blocking IPI
  remoteCall,       \* ipi_state_t.remoteCall and args: the function and its data
  totalCoreBarrier, count, globalsense,  \* the rest of ipi_state_t
  hw,               \* IPIs the interrupt controller holds pending for a core
  ksIdle,           \* is ksCurThread of the core its idle thread?
  ipiReschedulePending,  \* ARCH_NODE_STATE(ipiReschedulePending) of each core
  pc,               \* where the core is
  irqPath,          \* argument of clh_lock_acquire and handleIPI
  call,             \* remoteCall and args as handleIPI loaded them
  cores, localsense,\* locals of ipi_wait
  mask, target_cores, \* cores the call has still to flag, and to interrupt
  ret,              \* where ipi_wait returns to
  ops               \* remote calls made so far

lockVars == <<reqState, tail, watch, myreq>>
barrierVars == <<totalCoreBarrier, count, globalsense>>
ipiVars == <<ipi, remoteCall, barrierVars, hw>>
waitVars == <<cores, localsense>>
maskVars == <<mask, target_cores>>
localVars == <<irqPath, call, waitVars, maskVars, ret>>
nodeVars == <<ksIdle, ipiReschedulePending>>
vars == <<lockVars, ipiVars, localVars, nodeVars, pc, ops>>

NoCall == [func |-> "None", id |-> 0]
Calls == [func : Funcs, id : 1..MaxOps]

(* Program points: in the lock queue, in the critical section, in ipi_wait,  *)
(* in handleIPI; and the points outside of all these.                        *)
Waiting   == {"Spin", "StallSpin"}
Holding   == {"Hold", "Flag", "Send", "Grant"}
InIpiWait == {"WaitRead", "WaitAdd", "Reset", "Flip", "Wait"}
InHandler == {"Load", "Check", "Exec", "Clear"}
PCs == {"User", "Pend", "Swap", "Take"} \cup Waiting \cup Holding
          \cup InIpiWait \cup InHandler

goto(c, l) == pc' = [pc EXCEPT ![c] = l]

(* Return from handleIPI or ipi_wait; the locals go out of scope. *)
return(c) ==
  /\ goto(c, ret[c])
  /\ ret' = [ret EXCEPT ![c] = "User"]
  /\ call' = [call EXCEPT ![c] = NoCall]

-----------------------------------------------------------------------------
(* clh_lock_init; every core starts in user mode on a thread of its own.     *)
Init ==
  /\ reqState = [r \in Requests |-> "Granted"]
  /\ tail = Spare
  /\ myreq = [c \in Cores |-> c]
  /\ watch = [c \in Cores |-> Spare]
  /\ ipi = [c \in Cores |-> FALSE]
  /\ remoteCall = NoCall
  /\ totalCoreBarrier = 0 /\ count = 0 /\ globalsense = 0
  /\ hw = [c \in Cores |-> {}]
  /\ ksIdle = [c \in Cores |-> FALSE]
  /\ ipiReschedulePending = [c \in Cores |-> {}]
  /\ pc = [c \in Cores |-> "User"]
  /\ irqPath = [c \in Cores |-> FALSE]
  /\ call = [c \in Cores |-> NoCall]
  /\ cores = [c \in Cores |-> 0]
  /\ localsense = [c \in Cores |-> 0]
  /\ mask = [c \in Cores |-> {}] /\ target_cores = [c \in Cores |-> {}]
  /\ ret = [c \in Cores |-> "User"]
  /\ ops = 0

(* A system call or a fault: NODE_LOCK_SYS.  The idle thread makes none.     *)
SysEntry(c) ==
  /\ pc[c] = "User" /\ ~ksIdle[c]
  /\ irqPath' = [irqPath EXCEPT ![c] = FALSE]
  /\ goto(c, "Pend")
  /\ UNCHANGED <<lockVars, ipiVars, nodeVars, call, waitVars, maskVars, ret,
                 ops>>

(* An interrupt other than the remote-call IPI: a device, the timer, or the  *)
(* reschedule IPI the controller holds; NODE_LOCK_IRQ.                       *)
IrqEntry(c) ==
  /\ pc[c] = "User"
  /\ irqPath' = [irqPath EXCEPT ![c] = TRUE]
  /\ goto(c, "Pend")
  /\ UNCHANGED <<lockVars, ipiVars, nodeVars, call, waitVars, maskVars, ret,
                 ops>>

(* The remote-call IPI is handled without taking the lock.                   *)
RemoteCallEntry(c) ==
  /\ pc[c] = "User" /\ "remoteCall" \in hw[c]
  /\ hw' = [hw EXCEPT ![c] = @ \ {"remoteCall"}]
  /\ irqPath' = [irqPath EXCEPT ![c] = TRUE]
  /\ ret' = [ret EXCEPT ![c] = "User"]
  /\ goto(c, "Load")
  /\ UNCHANGED <<lockVars, ipi, remoteCall, barrierVars, nodeVars, call,
                 waitVars, maskVars, ops>>

(* Mutant: the request is queued without being marked pending. *)
Pend_unmarked(c) ==
  /\ pc[c] = "Pend"
  /\ goto(c, "Swap")
  /\ UNCHANGED <<lockVars, ipiVars, localVars, nodeVars, ops>>

(* clh_lock_acquire, first access: tell the successor to wait.               *)
Pend(c) ==
  /\ pc[c] = "Pend"
  /\ reqState' = [reqState EXCEPT ![myreq[c]] = "Pending"]
  /\ goto(c, "Swap")
  /\ UNCHANGED <<tail, watch, myreq, ipiVars, localVars, nodeVars, ops>>

(* clh_lock_acquire, the atomic exchange of the tail.                        *)
Swap(c) ==
  /\ pc[c] = "Swap"
  /\ watch' = [watch EXCEPT ![c] = tail]
  /\ tail' = myreq[c]
  /\ goto(c, "Spin")
  /\ UNCHANGED <<reqState, myreq, ipiVars, localVars, nodeVars, ops>>

(* The spin loops of clh_lock_acquire and of ipiStallCoreCallback leave when *)
(* the predecessor grants.  A stalled core only activates its idle thread    *)
(* and releases; any other runs the kernel.                                  *)
Enter(c) ==
  /\ pc[c] \in Waiting
  /\ reqState[watch[c]] = "Granted"
  /\ goto(c, IF pc[c] = "Spin" THEN "Hold" ELSE "Grant")
  /\ UNCHANGED <<lockVars, ipiVars, localVars, nodeVars, ops>>

(* Mutant: a core waiting for the lock serves no IPI. *)
SpinIPI_ignored(c) ==
  /\ pc[c] = "Spin" /\ ipi[c] /\ irqPath[c]
  /\ reqState[watch[c]] # "Granted"
  /\ UNCHANGED vars

(* The spin loops handle a blocking IPI as soon as clh_is_ipi_pending.       *)
SpinIPI(c) ==
  /\ pc[c] \in Waiting
  /\ reqState[watch[c]] # "Granted"
  /\ ipi[c]
  /\ ret' = [ret EXCEPT ![c] = pc[c]]
  /\ goto(c, "Load")
  /\ UNCHANGED <<lockVars, ipiVars, nodeVars, irqPath, call, waitVars,
                 maskVars, ops>>

(* handleIPI loads remoteCall and the arguments before handleRemoteCall      *)
(* checks the flag.                                                          *)
Load(c) ==
  /\ pc[c] = "Load"
  /\ call' = [call EXCEPT ![c] = remoteCall]
  /\ goto(c, "Check")
  /\ UNCHANGED <<lockVars, ipiVars, nodeVars, irqPath, waitVars, maskVars, ret,
                 ops>>

(* handleRemoteCall guards against spurious IPIs.                            *)
Check(c) ==
  /\ pc[c] = "Check"
  /\ IF ipi[c] THEN goto(c, "Exec") /\ UNCHANGED <<call, ret>> ELSE return(c)
  /\ UNCHANGED <<lockVars, ipiVars, nodeVars, irqPath, waitVars, maskVars, ops>>

clh_is_self_in_queue(c) == reqState[myreq[c]] = "Pending"

(* The switch of handleRemoteCall.  ipiStallCoreCallback puts the core on    *)
(* its idle thread; in the queue on the system call path it goes on waiting  *)
(* in a loop of its own and never returns to the interrupted entry.          *)
Exec(c) ==
  /\ pc[c] = "Exec"
  /\ IF call[c].func = "Stall"
       THEN /\ ksIdle' = [ksIdle EXCEPT ![c] = TRUE]
            /\ ret' = IF clh_is_self_in_queue(c) /\ ~irqPath[c]
                        THEN [ret EXCEPT ![c] = "StallSpin"] ELSE ret
       ELSE UNCHANGED <<ksIdle, ret>>
  /\ goto(c, "Clear")
  /\ UNCHANGED <<lockVars, ipiVars, ipiReschedulePending, irqPath, call,
                 waitVars, maskVars, ops>>

(* node->ipi = 0, then ipi_wait.                                             *)
Clear(c) ==
  /\ pc[c] = "Clear"
  /\ ipi' = [ipi EXCEPT ![c] = FALSE]
  /\ goto(c, "WaitRead")
  /\ UNCHANGED <<lockVars, remoteCall, barrierVars, hw, localVars, nodeVars,
                 ops>>

WaitRead(c) ==
  /\ pc[c] = "WaitRead"
  /\ cores' = [cores EXCEPT ![c] = totalCoreBarrier]
  /\ localsense' = [localsense EXCEPT ![c] = globalsense]
  /\ goto(c, "WaitAdd")
  /\ UNCHANGED <<lockVars, ipiVars, nodeVars, irqPath, call, maskVars, ret,
                 ops>>

(* Mutant: the barrier does not count the core that made the call. *)
WaitAdd_early(c) ==
  /\ pc[c] = "WaitAdd"
  /\ count' = count + 1
  /\ goto(c, IF count + 1 = cores[c] THEN "Reset" ELSE "Wait")
  /\ UNCHANGED <<lockVars, ipi, remoteCall, totalCoreBarrier, globalsense, hw,
                 localVars, nodeVars, ops>>

(* __atomic_fetch_add(count, 1) == cores                                     *)
WaitAdd(c) ==
  /\ pc[c] = "WaitAdd"
  /\ count' = count + 1
  /\ goto(c, IF count = cores[c] THEN "Reset" ELSE "Wait")
  /\ UNCHANGED <<lockVars, ipi, remoteCall, totalCoreBarrier, globalsense, hw,
                 localVars, nodeVars, ops>>

Reset(c) ==
  /\ pc[c] = "Reset"
  /\ count' = 0
  /\ goto(c, "Flip")
  /\ UNCHANGED <<lockVars, ipi, remoteCall, totalCoreBarrier, globalsense, hw,
                 localVars, nodeVars, ops>>

Flip(c) ==
  /\ pc[c] = "Flip"
  /\ globalsense' = globalsense + 1
  /\ goto(c, "Wait")
  /\ UNCHANGED <<lockVars, ipi, remoteCall, totalCoreBarrier, count, hw,
                 localVars, nodeVars, ops>>

(* while (localsense == ipi->globalsense)                                    *)
Wait(c) ==
  /\ pc[c] = "Wait"
  /\ localsense[c] # globalsense
  /\ return(c)
  /\ cores' = [cores EXCEPT ![c] = 0]
  /\ localsense' = [localsense EXCEPT ![c] = 0]
  /\ UNCHANGED <<lockVars, ipiVars, nodeVars, irqPath, maskVars, ops>>

-----------------------------------------------------------------------------
(* Mutant: remoteTCBStall does not look at what the core runs. *)
doRemoteMaskOp_anyTarget(c) ==
  /\ pc[c] = "Hold" /\ ops < MaxOps
  /\ \E f \in Funcs, m \in SUBSET (Cores \ {c}) :
       /\ m # {}
       /\ f = "Stall" => \E d \in m : m = {d}
       /\ remoteCall' = [func |-> f, id |-> ops + 1]
       /\ totalCoreBarrier' = Cardinality(m)
       /\ mask' = [mask EXCEPT ![c] = m]
       /\ target_cores' = [target_cores EXCEPT ![c] = m]
       /\ ipiReschedulePending' = IF f = "Stall"
             THEN [ipiReschedulePending EXCEPT ![c] = @ \cup m]
             ELSE ipiReschedulePending
  /\ ops' = ops + 1
  /\ goto(c, "Flag")
  /\ UNCHANGED <<lockVars, ipi, count, globalsense, hw, ksIdle, irqPath, call,
                 waitVars, ret>>

(* Mutant: remoteTCBStall asks for no reschedule of the stalled core. *)
doRemoteMaskOp_noReschedule(c) ==
  /\ pc[c] = "Hold" /\ ops < MaxOps
  /\ \E f \in Funcs, m \in SUBSET (Cores \ {c}) :
       /\ m # {}
       /\ f = "Stall" => \E d \in m : m = {d} /\ ~ksIdle[d]
       /\ remoteCall' = [func |-> f, id |-> ops + 1]
       /\ totalCoreBarrier' = Cardinality(m)
       /\ mask' = [mask EXCEPT ![c] = m]
       /\ target_cores' = [target_cores EXCEPT ![c] = m]
  /\ ops' = ops + 1
  /\ goto(c, "Flag")
  /\ UNCHANGED <<lockVars, ipi, count, globalsense, hw, nodeVars, irqPath,
                 call, waitVars, ret>>

(* doRemoteMaskOp, up to the first flag.  remoteTCBStall stalls one other    *)
(* core, when a thread runs there, and asks for a reschedule of it.          *)
doRemoteMaskOp(c) ==
  /\ pc[c] = "Hold" /\ ops < MaxOps
  /\ \E f \in Funcs, m \in SUBSET (Cores \ {c}) :
       /\ m # {}
       /\ f = "Stall" => \E d \in m : m = {d} /\ ~ksIdle[d]
       /\ remoteCall' = [func |-> f, id |-> ops + 1]
       /\ totalCoreBarrier' = Cardinality(m)
       /\ mask' = [mask EXCEPT ![c] = m]
       /\ target_cores' = [target_cores EXCEPT ![c] = m]
       /\ ipiReschedulePending' = IF f = "Stall"
             THEN [ipiReschedulePending EXCEPT ![c] = @ \cup m]
             ELSE ipiReschedulePending
  /\ ops' = ops + 1
  /\ goto(c, "Flag")
  /\ UNCHANGED <<lockVars, ipi, count, globalsense, hw, ksIdle, irqPath, call,
                 waitVars, ret>>

(* generic_ipi_send_mask: first the flag of every target ...                 *)
Flag(c) ==
  /\ pc[c] = "Flag"
  /\ \E d \in mask[c] :
       /\ ipi' = [ipi EXCEPT ![d] = TRUE]
       /\ mask' = [mask EXCEPT ![c] = @ \ {d}]
       /\ goto(c, IF mask[c] = {d} THEN "Send" ELSE "Flag")
  /\ UNCHANGED <<lockVars, remoteCall, barrierVars, hw, nodeVars, irqPath,
                 call, cores, target_cores, localsense, ret, ops>>

(* Mutant: the call does not wait for its targets. *)
Send_noWait(c) ==
  /\ pc[c] = "Send"
  /\ \E d \in target_cores[c] :
       /\ hw' = [hw EXCEPT ![d] = @ \cup {"remoteCall"}]
       /\ target_cores' = [target_cores EXCEPT ![c] = @ \ {d}]
       /\ goto(c, IF target_cores[c] = {d} THEN "Hold" ELSE "Send")
  /\ UNCHANGED <<lockVars, ipi, remoteCall, barrierVars, nodeVars, irqPath,
                 call, cores, mask, localsense, ret, ops>>

(* ... then the interrupts, then ipi_wait.                                   *)
Send(c) ==
  /\ pc[c] = "Send"
  /\ \E d \in target_cores[c] :
       /\ hw' = [hw EXCEPT ![d] = @ \cup {"remoteCall"}]
       /\ target_cores' = [target_cores EXCEPT ![c] = @ \ {d}]
       /\ goto(c, IF target_cores[c] = {d} THEN "WaitRead" ELSE "Send")
  /\ ret' = [ret EXCEPT ![c] = "Hold"]
  /\ UNCHANGED <<lockVars, ipi, remoteCall, barrierVars, nodeVars, irqPath,
                 call, cores, mask, localsense, ops>>

(* The end of an entry: checkInterrupt on the interrupt path consumes one    *)
(* interrupt; schedule() picks a thread or the idle thread and sends the     *)
(* reschedule IPIs; restore_user_context releases the lock.                  *)
Exit(c) ==
  /\ pc[c] = "Hold"
  /\ \E idle \in BOOLEAN : ksIdle' = [ksIdle EXCEPT ![c] = idle]
  /\ \E i \in IF irqPath[c] /\ hw[c] # {} THEN hw[c] ELSE {"device"} :
       hw' = [d \in Cores |-> IF d = c THEN hw[c] \ {i}
                              ELSE IF d \in ipiReschedulePending[c]
                              THEN hw[d] \cup {"reschedule"}
                              ELSE hw[d]]
  /\ ipiReschedulePending' = [ipiReschedulePending EXCEPT ![c] = {}]
  /\ goto(c, "Grant")
  /\ UNCHANGED <<lockVars, ipi, remoteCall, barrierVars, localVars, ops>>

(* clh_lock_release: pass the lock on, then take over the watched request.   *)
Grant(c) ==
  /\ pc[c] = "Grant"
  /\ reqState' = [reqState EXCEPT ![myreq[c]] = "Granted"]
  /\ goto(c, "Take")
  /\ UNCHANGED <<tail, watch, myreq, ipiVars, localVars, nodeVars, ops>>

(* Mutant: the core reuses its own request, which its successor still watches. *)
Take_own(c) ==
  /\ pc[c] = "Take"
  /\ irqPath' = [irqPath EXCEPT ![c] = FALSE]
  /\ goto(c, "User")
  /\ UNCHANGED <<lockVars, ipiVars, nodeVars, call, waitVars, maskVars, ret,
                 ops>>

(* Take ownership of the watched request, to use it for the next acquire.    *)
Take(c) ==
  /\ pc[c] = "Take"
  /\ myreq' = [myreq EXCEPT ![c] = watch[c]]
  /\ irqPath' = [irqPath EXCEPT ![c] = FALSE]
  /\ goto(c, "User")
  /\ UNCHANGED <<reqState, tail, watch, ipiVars, nodeVars, call, waitVars,
                 maskVars, ret, ops>>

-----------------------------------------------------------------------------
(* Steps a core takes without being asked by its user-level program.         *)
Progress(c) ==
  \/ Pend(c) \/ Swap(c) \/ Enter(c) \/ SpinIPI(c)
  \/ Load(c) \/ Check(c) \/ Exec(c) \/ Clear(c)
  \/ WaitRead(c) \/ WaitAdd(c) \/ Reset(c) \/ Flip(c) \/ Wait(c)
  \/ Flag(c) \/ Send(c) \/ Grant(c) \/ Take(c)

Next == \E c \in Cores :
  \/ SysEntry(c) \/ IrqEntry(c) \/ RemoteCallEntry(c)
  \/ Progress(c) \/ doRemoteMaskOp(c) \/ Exit(c)

Spec == Init /\ [][Next]_vars

(* A core executes its kernel code, the kernel ends every entry, and the     *)
(* interrupt controller delivers what it holds to a core in user mode.       *)
Fairness == \A c \in Cores :
  /\ WF_vars(Progress(c))
  /\ WF_vars(Exit(c))
  /\ WF_vars(RemoteCallEntry(c))
  /\ WF_vars("reschedule" \in hw[c] /\ IrqEntry(c))

FairSpec == Spec /\ Fairness
-----------------------------------------------------------------------------
(* The lock is held from the grant to the release, the remote calls of the   *)
(* holder included.                                                          *)
HoldsLock(c) == pc[c] \in Holding \/ (pc[c] \in InIpiWait /\ ret[c] = "Hold")

(* Every variable has its C type: the pointers of a node point to requests,  *)
(* the program point of a core and its locals are consistent.                *)
TypeOK ==
  /\ reqState \in [Requests -> {"Granted", "Pending"}]
  /\ tail \in Requests
  /\ watch \in [Cores -> Requests] /\ myreq \in [Cores -> Requests]
  /\ ipi \in [Cores -> BOOLEAN]
  /\ remoteCall \in Calls \cup {NoCall}
  /\ totalCoreBarrier \in Nat /\ count \in Nat /\ globalsense \in Nat
  /\ hw \in [Cores -> SUBSET {"remoteCall", "reschedule"}]
  /\ ksIdle \in [Cores -> BOOLEAN]
  /\ ipiReschedulePending \in [Cores -> SUBSET Cores]
  /\ pc \in [Cores -> PCs]
  /\ irqPath \in [Cores -> BOOLEAN]
  /\ call \in [Cores -> Calls \cup {NoCall}]
  /\ cores \in [Cores -> Nat] /\ localsense \in [Cores -> Nat]
  /\ mask \in [Cores -> SUBSET Cores] /\ target_cores \in [Cores -> SUBSET Cores]
  /\ ret \in [Cores -> {"User", "Spin", "StallSpin", "Hold"}]
  /\ ops \in 0..MaxOps

(* Mutual exclusion of clh_lock_acquire/clh_lock_release: two cores are      *)
(* never both between acquiring and releasing the big kernel lock.           *)
MutualExclusion == \A c, d \in Cores : HoldsLock(c) /\ HoldsLock(d) => c = d

(* A core runs the body of a remote call (ipiStallCoreCallback changes the   *)
(* core's ksCurThread and ready queues without owning the lock) only while   *)
(* the core that asked for it holds the lock and stays inside                *)
(* doRemoteMaskOp, so nothing else runs in the kernel.                       *)
RemoteCallExclusive ==
  \A c \in Cores : pc[c] = "Exec" =>
     /\ \E h \in Cores : HoldsLock(h) /\ pc[h] \in {"Flag", "Send"} \cup InIpiWait
     /\ ~HoldsLock(c)

(* "Return when target cores have all executed the function" (smp/ipi.h):    *)
(* a holder that is not inside doRemoteMaskOp has no call outstanding        *)
(* anywhere, and the barrier is ready for the next call.                     *)
RemoteCallComplete ==
  (\E h \in Cores : pc[h] \in {"Hold", "Grant"}) =>
     /\ \A d \in Cores : ~ipi[d] /\ pc[d] \notin {"Exec", "Clear", "WaitRead", "WaitAdd"}
     /\ count = 0

(* assert(remoteCall != IpiRemoteCall_Stall) in ipiStallCoreCallback: a core *)
(* stalled in the lock queue is not asked to stall again before it leaves.   *)
NoNestedStall ==
  \A c \in Cores : pc[c] = "StallSpin" /\ ipi[c] => remoteCall.func # "Stall"

(* "Assure IPI data is accessed only when this flag is set" (smp/lock.h):    *)
(* the function and data a core executes are those of the call in progress.  *)
CallIsCurrent == \A c \in Cores : pc[c] = "Exec" => call[c] = remoteCall

(* Lock and barrier never wait for each other: every core that waits for the *)
(* lock gets it, whatever remote calls it has to serve meanwhile, and every  *)
(* remote call returns to the core that made it.                             *)
EntriesFinish ==
  \A c \in Cores : /\ pc[c] \in Waiting ~> pc[c] \in Holding
                   /\ pc[c] = "Flag" ~> pc[c] = "Hold"

(* A core stalled in the lock queue does not idle for ever: the core that    *)
(* stalled it has it enter the kernel again and schedule.                    *)
StalledCoreReschedules == \A c \in Cores : pc[c] = "StallSpin" ~> pc[c] = "Hold"

-----------------------------------------------------------------------------
(* Why the lock excludes.  Each core owns one request and one is free; a     *)
(* core in the queue has put its own request behind it and watches another.  *)
(* Releasing swaps the roles of the two before the core knows it has.        *)
Own(c) == IF pc[c] = "Take" THEN watch[c] ELSE myreq[c]

Enqueued(c) ==
  \/ pc[c] \in Waiting \cup Holding
  \/ pc[c] \in InHandler \cup InIpiWait /\ ret[c] # "User"

Free(r) == \A c \in Cores : Own(c) # r

(* No request has two owners. *)
OwnersDistinct == \A c, d \in Cores : Own(c) = Own(d) => c = d

(* The tail and the watched requests belong to no core outside the queue. *)
OutsideUnwatched ==
  \A e \in Cores : ~Enqueued(e) =>
     /\ tail # Own(e)
     /\ \A c \in Cores : Enqueued(c) => watch[c] # Own(e)

(* No two cores watch the same request and none watches the tail. *)
WatchedDistinct ==
  \A c \in Cores : Enqueued(c) =>
     /\ tail # watch[c]
     /\ \A d \in Cores : Enqueued(d) /\ watch[c] = watch[d] => c = d

OneFree == \A r, q \in Requests : Free(r) /\ Free(q) => r = q

(* Requests in the queue are pending, the others granted. *)
StatesMatch ==
  \A c \in Cores :
     reqState[Own(c)] = IF Enqueued(c) \/ pc[c] = "Swap" THEN "Pending" ELSE "Granted"

HolderGranted == \A c \in Cores : HoldsLock(c) => reqState[watch[c]] = "Granted"

HandlerReturns == \A c \in Cores : pc[c] \in InHandler => ret[c] # "Hold"

(* The inductive invariant behind MutualExclusion: the queue that the        *)
(* requests of clh_lock_acquire and clh_lock_release form.                   *)
QueueInv ==
  /\ OwnersDistinct /\ OutsideUnwatched /\ WatchedDistinct /\ OneFree
  /\ StatesMatch /\ HolderGranted /\ HandlerReturns

-----------------------------------------------------------------------------
(* Why a remote call is complete when doRemoteMaskOp returns.  The members   *)
(* of a call are the core that makes it and its targets; a member is due     *)
(* until it counts itself in ipi_wait, then it has arrived until the last    *)
(* one flips globalsense.  A core that was released may still be in the loop *)
(* of ipi_wait when the next call, of which it can be a target, begins.      *)
Initiates(c) == pc[c] \in {"Flag", "Send"} \/ (pc[c] \in InIpiWait /\ ret[c] = "Hold")

ToFlag(c) == \E h \in Cores : c \in mask[h]

Asked(c) == ipi[c] \/ ToFlag(c)

Due == {c \in Cores : Asked(c) \/ pc[c] \in {"Flag", "Send", "WaitRead", "WaitAdd"}}

Arrived == {c \in Cores : pc[c] \in {"Reset", "Flip"} \/ (pc[c] = "Wait" /\ localsense[c] = globalsense)}

Members == Due \cup Arrived

(* A target is asked once, and while it is asked it is not in the barrier. *)
AskedOnce ==
  /\ \A c \in Cores : mask[c] # {} => pc[c] = "Flag"
  /\ \A c \in Cores : ToFlag(c) => ~ipi[c]
  /\ \A c \in Cores : pc[c] \in {"Exec", "Clear"} => ipi[c]
  /\ \A c \in Cores : Asked(c) => ~Initiates(c) /\ pc[c] \notin {"WaitRead", "WaitAdd"} /\ c \notin Arrived

(* The locals of ipi_wait are those of the barrier the core takes part in. *)
LocalsCurrent ==
  /\ \A c \in Cores : pc[c] = "WaitAdd" => cores[c] = totalCoreBarrier
  /\ \A c \in Cores : pc[c] \in {"WaitAdd", "Reset", "Flip"} => localsense[c] = globalsense
  /\ \A c \in Cores : pc[c] = "Wait" => localsense[c] <= globalsense

(* The barrier counts the members, and the last of them ends it. *)
BarrierCounts ==
  /\ Members # {} => /\ Cardinality(Members) = totalCoreBarrier + 1
                     /\ \E h \in Members : Initiates(h)
  /\ count = IF \E c \in Cores : pc[c] = "Flip" THEN 0 ELSE Cardinality(Arrived)
  /\ \A c, d \in Cores : pc[c] \in {"Reset", "Flip"} /\ pc[d] \in {"Reset", "Flip"} => c = d
  /\ \A c \in Cores : pc[c] \in {"Reset", "Flip"} => Due = {}

(* A core stalled in the lock queue is on its idle thread until it has the   *)
(* lock, and a core that is asked to stall is not.                           *)
StalledIdle ==
  \A c \in Cores :
    /\ (pc[c] = "StallSpin" \/ (pc[c] \in InHandler \cup InIpiWait /\ ret[c] = "StallSpin")) => ksIdle[c]
    /\ (Asked(c) /\ remoteCall.func = "Stall" /\ pc[c] # "Clear") => ~ksIdle[c]

(* The inductive invariant behind RemoteCallExclusive, RemoteCallComplete    *)
(* and NoNestedStall.                                                        *)
BarrierInv == AskedOnce /\ LocalsCurrent /\ BarrierCounts /\ StalledIdle

(* The requests of clh_lock_acquire form a queue, and the barrier of ipi_wait *)
(* counts who has arrived: what every step of the lock and of the remote      *)
(* calls keeps, and what the other properties follow from.                    *)
LockInv == QueueInv /\ BarrierInv
=============================================================================
