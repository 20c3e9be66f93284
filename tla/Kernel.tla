------------------------------- MODULE Kernel -------------------------------
(***************************************************************************)
(* The kernel entries (api/syscall.c) over the objects of KernelState: one *)
(* action per system call or per invocation of a capability, faults,       *)
(* interrupts, and the passing of time.  Every action runs the handler,    *)
(* the scheduler and activateThread, as the code does before it returns to *)
(* user level.  Any thread may hold any capability, endpoint caps with the *)
(* rights of EPCaps; an invocation that fails its decode checks changes    *)
(* nothing, so the checks are guards.                                      *)
(***************************************************************************)
EXTENDS Thread

CONSTANTS
  Ops,            \* the operations user level performs in this instance
  EPCaps,         \* badge and grant right of the endpoint caps in use
  initSC, initPrio, initBound, initNtfnSC

ASSUME InitConstants ==
  /\ EPCaps \subseteq [badge: Badges, grant: BOOLEAN]
  /\ initSC \in [Threads -> Opt(SCs)]
  /\ initPrio \in [Threads -> Prios]
  /\ initBound \in [Threads -> Opt(Ntfns)]
  /\ initNtfnSC \in [Ntfns -> Opt(SCs)]

VARIABLE k

\* The x with f[x] = y, or Null
preimage(f, y) ==
  IF \E x \in DOMAIN f : f[x] = y THEN CHOOSE x \in DOMAIN f : f[x] = y ELSE Null

\* After boot and the system initialiser: threads with a scheduling context
\* have been started, the others are as created.
booted ==
  LET all(x) == [t \in TCBs |-> x]
      only(f, x) == [t \in TCBs |-> IF t = idle THEN x ELSE f[t]]
      none == [s \in AllSCs |-> Null]
  IN [ tsType |-> only([t \in Threads |-> IF initSC[t] # Null THEN "Restart" ELSE "Inactive"],
                       "IdleThreadState"),
       blockingObject |-> all(Null), replyObject |-> all(Null), blockingIPC |-> all(Null),
       tcbFault |-> all("NullFault"), tcbSchedContext |-> only(initSC, idleSC),
       tcbPriority |-> only(initPrio, 0), tcbYieldTo |-> all(Null),
       tcbBoundNotification |-> only(initBound, Null),
       queued |-> {t \in Threads : initSC[t] # Null}, release |-> <<>>,
       epState |-> [e \in EPs |-> "Idle"], epQueue |-> [e \in EPs |-> <<>>],
       ntfnState |-> [n \in Ntfns |-> "Idle"], ntfnQueue |-> [n \in Ntfns |-> <<>>],
       ntfnBoundTCB |-> [n \in Ntfns |-> preimage(initBound, n)],
       ntfnSchedContext |-> initNtfnSC,
       replyTCB |-> [r \in Replies |-> Null], replyPrev |-> [r \in Replies |-> Null],
       replyNext |-> [r \in Replies |-> Null],
       scTcb |-> [s \in AllSCs |-> IF s = idleSC THEN idle ELSE preimage(initSC, s)],
       scReply |-> none, scNotification |-> [s \in AllSCs |-> preimage(initNtfnSC, s)],
       scYieldFrom |-> none, active |-> [s \in AllSCs |-> TRUE],
       rTime |-> [s \in AllSCs |-> 0], sporadic |-> [s \in AllSCs |-> s # idleSC],
       roundRobin |-> [s \in AllSCs |-> FALSE],
       ksCurThread |-> idle, ksSchedulerAction |-> "Choose", ksCurSC |-> idleSC,
       ksReprogram |-> TRUE, deadline |-> Null, failed |-> {} ]

Init == k \in leave(booted)

-----------------------------------------------------------------------------
(* Entries *)

cur == k.ksCurThread

User(op) == op \in Ops /\ cur # idle

\* Every invocation first sets the invoker to Restart; if it still is when the
\* invocation is done, the call has succeeded and it goes on.
begin(kk) == setThreadState(kk, cur, "Restart")

finish(kk) == IF kk.tsType[cur] = "Restart" THEN setThreadState(kk, cur, "Running") ELSE kk

Enter(kk) == k' \in leave(kk)

Invoke(kk) == Enter(finish(kk))

Messages(isCall) ==
  {[badge |-> c.badge, isCall |-> isCall, grant |-> c.grant] : c \in EPCaps}

SysSend ==
  /\ User("Send")
  /\ \E e \in EPs, m \in Messages(FALSE) : Invoke(sendIPC(begin(k), TRUE, m, FALSE, cur, e))

SysNBSend ==
  /\ User("NBSend")
  /\ \E e \in EPs, m \in Messages(FALSE) : Invoke(sendIPC(begin(k), FALSE, m, FALSE, cur, e))

SysCall ==
  /\ User("Call")
  /\ \E e \in EPs, m \in Messages(TRUE) : Invoke(sendIPC(begin(k), TRUE, m, TRUE, cur, e))

Signal ==
  /\ User("Signal")
  /\ \E n \in Ntfns : Invoke(sendSignal(begin(k), n))

Answer ==
  /\ User("Reply")
  /\ \E r \in Replies, restarts \in BOOLEAN : Invoke(doReplyTransfer(begin(k), r, restarts))

\* The outcomes of handleRecv.  The first is a failed capability lookup, or a
\* notification that is bound to another thread.
handleRecv(kk, isBlocking, replies) ==
  {handleFault(kk, cur)}
  \cup {receiveIPC(kk, cur, e, isBlocking, r) : e \in EPs, r \in replies}
  \cup {receiveSignal(kk, cur, n, isBlocking) :
         n \in {x \in Ntfns : kk.ntfnBoundTCB[x] \in {Null, cur}}}

SysRecv ==
  /\ User("Recv")
  /\ \E kk \in handleRecv(k, TRUE, Replies) : Enter(kk)

SysNBRecv ==
  /\ User("NBRecv")
  /\ \E kk \in handleRecv(k, FALSE, Replies) : Enter(kk)

SysWait ==
  /\ User("Wait")
  /\ \E kk \in handleRecv(k, TRUE, {Null}) : Enter(kk)

SysNBWait ==
  /\ User("NBWait")
  /\ \E kk \in handleRecv(k, FALSE, {Null}) : Enter(kk)

SysReplyRecv ==
  /\ User("ReplyRecv")
  /\ \E r \in Replies, restarts \in BOOLEAN :
       \E kk \in handleRecv(finish(doReplyTransfer(begin(k), r, restarts)), TRUE, {r}) : Enter(kk)

\* The first phase of NBSendRecv and NBSendWait: a send that may donate, a
\* signal, or an invocation that fails; a reply is SysReplyRecv.
firstPhase ==
  {finish(sendIPC(begin(k), FALSE, m, TRUE, cur, e)) : e \in EPs, m \in Messages(FALSE)}
  \cup {finish(sendSignal(begin(k), n)) : n \in Ntfns}
  \cup {k}

SysNBSendRecv ==
  /\ User("NBSendRecv")
  /\ \E k1 \in firstPhase : \E kk \in handleRecv(k1, TRUE, Replies) : Enter(kk)

SysNBSendWait ==
  /\ User("NBSendWait")
  /\ \E k1 \in firstPhase : \E kk \in handleRecv(k1, TRUE, {Null}) : Enter(kk)

Fault ==
  /\ User("Fault")
  /\ Enter(handleFault(k, cur))

\* The current budget, given away or used up, and the time until the next refill
SysYield ==
  /\ User("Yield")
  /\ \E delay \in Delays : Enter(chargeBudget(k, delay, FALSE))

OutOfBudget ==
  /\ User("Time")
  /\ \E delay \in Delays : Enter(exhaustedRestart(k, delay))

-----------------------------------------------------------------------------
(* Invocations of thread capabilities.  The guards are the decode checks. *)

TCB_Suspend ==
  /\ User("Suspend")
  /\ \E t \in Threads : Invoke(suspend(begin(k), t))

TCB_Resume ==
  /\ User("Resume")
  /\ \E t \in Threads : Invoke(restart(begin(k), t))

\* Only the registers are written, which are not modelled, and the resume
TCB_WriteRegisters ==
  /\ User("WriteRegisters")
  /\ \E t \in Threads, resume \in BOOLEAN :
       LET k1 == IF resume THEN restart(begin(k), t) ELSE begin(k)
       IN Invoke(IF t = cur THEN rescheduleRequired(k1) ELSE k1)

TCB_SetPriority ==
  /\ User("SetPriority")
  /\ \E t \in Threads, p \in Prios : Invoke(setPriority(begin(k), t, p))

\* s may become the context of t: it is already, or both are free; and a
\* blocked thread only gets a context with budget to leave the kernel with
mayBind(t, s) ==
  /\ k.tcbSchedContext[t] # s => k.tcbSchedContext[t] = Null /\ k.scTcb[s] = Null
  /\ isBlocked(k, t) => sc_released(k, s)

TCB_SetSchedParams ==
  /\ User("SetSchedParams")
  /\ \E t \in Threads, p \in Prios, s \in Opt(SCs) :
       LET k1 == setPriority(begin(k), t, p)
       IN /\ IF s = Null THEN t # cur ELSE mayBind(t, s)
          /\ Invoke(IF s = k.tcbSchedContext[t] THEN k1
                    ELSE IF s = Null THEN schedContext_unbindTCB(k1, k.tcbSchedContext[t])
                    ELSE schedContext_bindTCB(k1, s, t))

TCB_BindNotification ==
  /\ User("BindNotification")
  /\ \E t \in Threads, n \in Ntfns :
       /\ k.tcbBoundNotification[t] = Null
       /\ k.ntfnQueue[n] = <<>> /\ k.ntfnBoundTCB[n] = Null
       /\ Invoke(bindNotification(begin(k), t, n))

TCB_UnbindNotification ==
  /\ User("UnbindNotification")
  /\ \E t \in Threads :
       /\ k.tcbBoundNotification[t] # Null
       /\ Invoke(unbindNotification(begin(k), t))

-----------------------------------------------------------------------------
(* Invocations of scheduling contexts and of the scheduling control cap *)

SchedContext_Bind ==
  /\ User("SCBind")
  /\ \/ \E s \in SCs, t \in Threads :
          /\ k.tcbSchedContext[t] # s /\ mayBind(t, s)
          /\ Invoke(schedContext_bindTCB(begin(k), s, t))
     \/ \E s \in SCs, n \in Ntfns :
          /\ k.scNotification[s] = Null /\ k.ntfnSchedContext[n] = Null
          /\ Invoke(schedContext_bindNtfn(begin(k), s, n))

SchedContext_UnbindObject ==
  /\ User("SCUnbindObject")
  /\ \E s \in SCs :
       \/ /\ k.scTcb[s] \notin {Null, cur}
          /\ Invoke(schedContext_unbindTCB(begin(k), s))
       \/ /\ k.scNotification[s] # Null
          /\ Invoke(schedContext_unbindNtfn(begin(k), s))

SchedContext_Unbind ==
  /\ User("SCUnbind")
  /\ \E s \in SCs :
       /\ k.scTcb[s] # cur
       /\ Invoke(invokeSchedContext_Unbind(begin(k), s))

\* Priorities never exceed the invoker's maximum controlled priority here
SchedContext_YieldTo ==
  /\ User("SCYieldTo")
  /\ \E s \in SCs :
       LET k1 == assert(k, k.tcbYieldTo[cur] = Null, "decodeSchedContext_YieldTo")
       IN /\ k.scTcb[s] \notin {Null, cur}
          /\ Invoke(invokeSchedContext_YieldTo(begin(k1), s))

SchedControl_ConfigureFlags ==
  /\ User("SCConfigure")
  /\ \E s \in SCs, rr, sporadic \in BOOLEAN :
       Invoke(invokeSchedControl_ConfigureFlags(begin(k), s, rr, sporadic))

-----------------------------------------------------------------------------
(* Deletion of the last capability to an object *)

\* The object is as good as new once nothing refers to it any more
finaliseCap(kk, o) ==
  LET t  == kk.replyTCB[o]
      s  == kk.tcbSchedContext[o]
      k1 == unbindNotification(kk, o)
      k2 == IF s = Null THEN k1 ELSE completeYielder(schedContext_unbindTCB(k1, s), s)
      k3 == completeYielder(invokeSchedContext_Unbind(kk, o), o)
  IN CASE o \in EPs -> cancelAllIPC(kk, o)
       [] o \in Ntfns ->
            cancelAllSignals(unbindMaybeNotification(schedContextMaybeUnbindNtfn(kk, o), o), o)
       [] o \in Replies ->
            IF t = Null THEN kk
            ELSE IF kk.tsType[t] = "BlockedOnReply" THEN reply_remove(kk, o, t)
            ELSE cancelIPC(assert(kk, kk.tsType[t] = "BlockedOnReceive", "finaliseCap"), t)
       [] o \in Threads -> suspend(k2, o)
       [] o \in SCs -> [k3 EXCEPT !.active[o] = FALSE, !.sporadic[o] = FALSE]

Objects == EPs \cup Ntfns \cup Replies \cup Threads \cup SCs

CNode_Delete ==
  /\ User("Delete")
  /\ \E o \in Objects : Invoke(finaliseCap(begin(k), o))

CNode_CancelBadgedSends ==
  /\ User("CancelBadgedSends")
  /\ \E e \in EPs, b \in Badges : Invoke(cancelBadgedSends(begin(k), e, b))

handleTimerIRQ(kk) == [kk EXCEPT !.ksReprogram = TRUE]

\* What checkInterrupt finds: nothing, the timer, or an interrupt of a device
\* that signals a notification
checkInterrupt(kk) ==
  {kk, handleTimerIRQ(kk)} \cup {sendSignal(kk, n) : n \in {x \in Ntfns : "Irq" \in Ops}}

mcsPreemptionPoint(kk) ==
  IF isSchedulable(kk, cur) THEN {kk} \cup {exhausted(kk, delay) : delay \in Delays}
  ELSE IF kk.active[kk.ksCurSC] THEN {chargeBudget(kk, delay, FALSE) : delay \in Delays}
  ELSE {kk}

\* A long revocation or deletion that gives way to an interrupt after one object
CNode_RevokePreempted ==
  /\ User("Preempted")
  /\ \E o \in Objects :
       \E k1 \in mcsPreemptionPoint(finaliseCap(begin(k), o)) :
         \E kk \in checkInterrupt(k1) : Enter(kk)

-----------------------------------------------------------------------------
\* checkBudget: the budget covers the time consumed, or it does not
checkBudget == {k} \cup {exhausted(k, delay) : delay \in {d \in Delays : "Time" \in Ops}}

Interrupt == \E k1 \in checkBudget : \E kk \in checkInterrupt(k1) : Enter(kk)

less(d) == IF d \in 1 .. MaxDelay THEN d - 1 ELSE d

\* Time passes: the refills and the timer's deadline come closer
TimePasses ==
  /\ \E s \in SCs : k.rTime[s] > 0
  /\ k' = [k EXCEPT !.rTime = [s \in AllSCs |-> less(@[s])], !.deadline = less(@)]

Next ==
  \/ SysSend \/ SysNBSend \/ SysCall \/ Signal \/ Answer
  \/ SysRecv \/ SysNBRecv \/ SysWait \/ SysNBWait
  \/ SysReplyRecv \/ SysNBSendRecv \/ SysNBSendWait
  \/ Fault \/ SysYield \/ OutOfBudget
  \/ TCB_Suspend \/ TCB_Resume \/ TCB_WriteRegisters \/ TCB_SetPriority \/ TCB_SetSchedParams
  \/ TCB_BindNotification \/ TCB_UnbindNotification
  \/ SchedContext_Bind \/ SchedContext_UnbindObject \/ SchedContext_Unbind
  \/ SchedContext_YieldTo \/ SchedControl_ConfigureFlags
  \/ CNode_Delete \/ CNode_CancelBadgedSends \/ CNode_RevokePreempted
  \/ Interrupt
  \/ TimePasses

Spec == Init /\ [][Next]_k

\* The interrupt of the timer once the deadline it was programmed for has passed
TimerInterrupt == k.deadline = 0 /\ \E k1 \in checkBudget : Enter(handleTimerIRQ(k1))

\* That interrupt is pending, and does something
timerPending == k.deadline = 0 /\ leave(handleTimerIRQ(k)) # {k}

\* Time does pass, and an interrupt that is pending is taken (weak fairness of
\* TimerInterrupt).  Nothing is assumed of when the timer is programmed, or for what:
\* that is setNextInterrupt's business.
FairSpec ==
  /\ Spec
  /\ WF_k(TimePasses)
  /\ []<>~timerPending \/ []<><<TimerInterrupt>>_k

-----------------------------------------------------------------------------
(* Properties *)

\* No assertion of the handlers, the scheduler or the objects' operations fails
\* in any sequence of kernel entries
NoAssertionFails == k.failed = {}

\* The same where a preempted revocation may have deleted the running thread
\* before an interrupt is handled, but for the assertion of sendSignal
OnlySignalAssertionFails == k.failed \subseteq {"sendSignal"}

waiters(states, o) == {t \in Threads : k.tsType[t] \in states /\ k.blockingObject[t] = o}

isQueueOf(q, W) == ToSet(q) = W /\ Len(q) = Cardinality(W)

\* A thread is in the queue of an object exactly while it is blocked there, once,
\* and the state word of the object says which kind of thread waits; the queues are
\* in order of priority whatever priorities change while the threads wait
WaitQueues ==
  /\ \A e \in EPs :
       /\ isQueueOf(k.epQueue[e], waiters({"BlockedOnSend", "BlockedOnReceive"}, e))
       /\ waiters({"BlockedOnSend"}, e) # {} => k.epState[e] = "Send"
       /\ waiters({"BlockedOnReceive"}, e) # {} => k.epState[e] = "Recv"
       /\ k.epQueue[e] = <<>> => k.epState[e] = "Idle"
  /\ \A n \in Ntfns :
       /\ isQueueOf(k.ntfnQueue[n], waiters({"BlockedOnNotification"}, n))
       /\ k.ntfnState[n] = "Waiting" <=> k.ntfnQueue[n] # <<>>
  /\ \A q \in Range(k.epQueue) \cup Range(k.ntfnQueue) : \A i, j \in DOMAIN q :
       i < j => k.tcbPriority[q[i]] >= k.tcbPriority[q[j]]

\* A reply object and the thread that may be answered through it point to each
\* other, and the call stack of a scheduling context is a doubly linked list
\* without cycles, of replies whose callers all still wait
CallStacks ==
  /\ \A r \in Replies, t \in Threads : k.replyTCB[r] = t <=> k.replyObject[t] = r
  /\ \A t \in Threads :
       /\ k.replyObject[t] # Null => k.tsType[t] \in {"BlockedOnReceive", "BlockedOnReply"}
       /\ k.tsType[t] = "BlockedOnReply" => k.replyObject[t] # Null
  /\ \A r \in Replies, s \in SCs : k.scReply[s] = r <=> k.replyNext[r] = s
  /\ \A r, q \in Replies : k.replyPrev[r] = q <=> k.replyNext[q] = r
  /\ \A r \in Replies : k.replyNext[r] # Null \/ k.replyPrev[r] # Null =>
       k.replyTCB[r] # Null /\ k.tsType[k.replyTCB[r]] = "BlockedOnReply"
  /\ ~ \E R \in SUBSET Replies : R # {} /\ \A r \in R : k.replyPrev[r] \in R

\* However contexts are lent, returned, bound and unbound, no two threads run on
\* the same one and no link is left on one side only
ContextOwnership ==
  \A s \in AllSCs, t \in TCBs : k.scTcb[s] = t <=> k.tcbSchedContext[t] = s

\* The pointers between a notification and the thread and the context bound to it
\* agree on both sides, in whatever order the three are unbound and deleted
BindingsAgree ==
  /\ \A n \in Ntfns, t \in Threads : k.ntfnBoundTCB[n] = t <=> k.tcbBoundNotification[t] = n
  /\ \A n \in Ntfns, s \in SCs : k.ntfnSchedContext[n] = s <=> k.scNotification[s] = n

\* A thread that could run is running or in the ready queues when the kernel
\* returns, the ready queues hold no other, and no thread has a higher priority
\* than the one that runs
NoThreadLost ==
  /\ \A t \in Threads : isSchedulable(k, t) <=> t = cur \/ t \in k.queued
  /\ cur \notin k.queued
  /\ cur = idle => k.queued = {}
  /\ \A t \in k.queued : cur # idle => k.tcbPriority[t] <= k.tcbPriority[cur]

\* A thread runs on a context with a ready refill, and one that waits for its
\* refill is in the release queue, runnable and not in the ready queues.  A thread is
\* not made to wait for a partner on a context that has run out, except to deliver its
\* timeout fault: whoever wakes it does not check
BudgetRespected ==
  /\ k.ksCurSC = k.tcbSchedContext[cur]
  /\ \A t \in k.queued \cup {cur} : sc_released(k, k.tcbSchedContext[t])
  /\ \A t \in ToSet(k.release) : isRunnable(k, t) /\ k.active[k.tcbSchedContext[t]]
  /\ \A t \in Threads : isBlocked(k, t) /\ k.tcbSchedContext[t] # Null
       => refill_ready(k, k.tcbSchedContext[t]) \/ k.tcbFault[t] = "Timeout"

\* A thread with an unhandled fault never executes
FaultsHold == \A t \in Threads : isRunnable(k, t) => k.tcbFault[t] = "NullFault"

\* A thread that yielded to a context is runnable, has not run since, has not been
\* given a new state, and the context knows it
YieldersWait ==
  /\ \A s \in SCs, t \in Threads : k.scYieldFrom[s] = t <=> k.tcbYieldTo[t] = s
  /\ \A t \in Threads : k.tcbYieldTo[t] # Null => k.tsType[t] = "Running" /\ t # cur

\* A thread that waits for messages while its bound notification holds a signal
deaf(kk, t) ==
  LET n == kk.tcbBoundNotification[t]
  IN kk.tsType[t] = "BlockedOnReceive" /\ n # Null /\ kk.ntfnState[n] = "Active"

\* No interleaving of signals and receives leaves a signal behind that the bound
\* thread waits for: only decodeBindNotification, on a thread that waits already
\* and a notification that holds a signal already, leads there
SignalNotLost ==
  [][\A t \in Threads : deaf(k', t) =>
       deaf(k, t) \/ k.tcbBoundNotification[t] # k'.tcbBoundNotification[t]]_k

\* A caller that lent its context gets that context back with the answer, which is
\* what makes it Running: restarting it without an answer makes it Restart
ContextReturns ==
  [][\A t \in Threads : LET r == k.replyObject[t] IN
       /\ k.tsType[t] = "BlockedOnReply" /\ isHead(k, r) /\ k.tcbSchedContext[t] = Null
       /\ k'.tsType[t] = "Running"
       => k'.tcbSchedContext[t] = k.replyNext[r]]_k

\* The timer is never programmed for later than the refill of a thread that waits in
\* the release queue, wherever in it the thread is and whatever threads were put into
\* it, taken out of it, reconfigured, unbound or deleted since, with no budget to end
\* first.  The kernel looks at the head only, so that the queue must stay in order
TimerInTime ==
  \A t \in ToSet(k.release) : k.deadline # Null /\ k.deadline <= tcbReadyTime(k, t)

\* A thread that waits for its refill is let go once time has passed, by the interrupts
\* that the kernel programs itself and the loop that takes threads from the head of
\* the release queue, whatever else happens in the kernel entries meanwhile
ReleaseQueueDrains ==
  \A t \in Threads : tcbInReleaseQueue(k, t) ~> ~tcbInReleaseQueue(k, t)
=============================================================================
