------------------------------- MODULE Thread -------------------------------
(***************************************************************************)
(* Threads (kernel/thread.c, kernel/faulthandler.c): faults, replies,      *)
(* suspending and restarting, budget charges, and the scheduler.  schedule *)
(* returns the SET of the states it may end in, because the order within a *)
(* ready queue is abstracted.                                              *)
(***************************************************************************)
EXTENDS Endpoint

\* The handler caps carry send and grant rights (validFaultHandler); their
\* badge is one of the badges.
faultMessage == [badge |-> CHOOSE b \in Badges : TRUE, isCall |-> FALSE, grant |-> TRUE]

sendFaultIPC(k, t, e, fault, canDonate) ==
  sendIPC([k EXCEPT !.tcbFault[t] = fault], TRUE, faultMessage, canDonate, t, e)

\* handleNoFaultHandler makes the thread Inactive
handleFault(k, t) ==
  IF faultEP[t] # Null
  THEN sendFaultIPC(k, t, faultEP[t], "UserFault", k.tcbSchedContext[t] # Null)
  ELSE setThreadState(k, t, "Inactive")

validTimeoutHandler(t) == timeoutEP[t] # Null

handleTimeout(k, t) ==
  LET k1 == assert(k, validTimeoutHandler(t), "handleTimeout")
  IN sendFaultIPC(k1, t, timeoutEP[t], "Timeout", FALSE)

\* Mutant: a suspended thread still counts as yielding
suspend_yieldKept(k, t) ==
  setThreadState(tcbReleaseRemove(tcbSchedDequeue(cancelIPC(k, t), t), t), t, "Inactive")

suspend(k, t) ==
  LET k1 == tcbReleaseRemove(tcbSchedDequeue(cancelIPC(k, t), t), t)
  IN setThreadState(schedContext_cancelYieldTo(k1, t), t, "Inactive")

restart(k, t) ==
  LET k1 == setThreadState(cancelIPC(k, t), t, "Restart")
      k2 == schedContext_resume(k1, k.tcbSchedContext[t])
  IN IF isStopped(k, t) THEN switchIfSchedulable(k2, t) ELSE k

\* Mutant: the receiver gets to run whether its context is ready or not
runReplied_early(k, t, fault) ==
  IF k.tcbSchedContext[t] # Null /\ isRunnable(k, t) THEN possibleSwitchTo(k, t) ELSE k

\* The thread runs if its context is ready; otherwise its timeout handler hears
\* of it, or it waits for the next refill.  fault: the one that was answered.
runReplied(k, t, fault) ==
  LET s == k.tcbSchedContext[t]
  IN IF s = Null \/ ~isRunnable(k, t) THEN k
     ELSE IF refill_ready(k, s) THEN possibleSwitchTo(k, t)
     ELSE IF validTimeoutHandler(t) /\ fault # "Timeout" THEN handleTimeout(k, t)
     ELSE postpone(k, s)

\* restarts: what handleFaultReply makes of the fault handler's answer
doReplyTransfer(k, r, restarts) ==
  LET t     == k.replyTCB[r]
      fault == k.tcbFault[t]
      answered(kk) ==
        [assert(kk, kk.tsType[t] = "Inactive" /\ kk.replyTCB[r] = Null, "doReplyTransfer")
           EXCEPT !.tcbFault[t] = "NullFault"]
      ts    == IF fault = "NullFault" THEN "Running" ELSE IF restarts THEN "Restart" ELSE "Inactive"
  IN IF t = Null \/ k.tsType[t] # "BlockedOnReply" THEN k
     ELSE runReplied(setThreadState(answered(reply_remove(k, r, t)), t, ts), t, fault)

\* Mutant: a blocked thread keeps its place in the queue it waits in
setPriority_unordered(k, t, prio) ==
  LET k1 == [tcbSchedDequeue(k, t) EXCEPT !.tcbPriority[t] = prio]
  IN IF isRunnable(k, t) /\ (t \in k.queued \/ t = k.ksCurThread)
     THEN rescheduleRequired(tcbSchedEnqueue(k1, t))
     ELSE [k EXCEPT !.tcbPriority[t] = prio]

setPriority(k, t, prio) ==
  LET k1 == [k EXCEPT !.tcbPriority[t] = prio]
      o  == k.blockingObject[t]
  IN CASE isRunnable(k, t) /\ (t \in k.queued \/ t = k.ksCurThread) ->
            rescheduleRequired(tcbSchedEnqueue(tcbSchedDequeue(k1, t), t))
       [] k.tsType[t] \in {"BlockedOnReceive", "BlockedOnSend"} -> reorderEP(k1, o, t)
       [] k.tsType[t] = "BlockedOnNotification" -> reorderNTFN(k1, o, t)
       [] OTHER -> k1

-----------------------------------------------------------------------------
(* Budget *)

endTimeslice(k, canTimeoutFault) ==
  LET t  == k.ksCurThread
      s  == k.ksCurSC
      k1 == assert(k, t \notin k.queued, "endTimeslice")
  IN IF canTimeoutFault /\ ~k.roundRobin[s] /\ validTimeoutHandler(t) THEN handleTimeout(k, t)
     ELSE IF refill_ready(k, s) THEN tcbSchedAppend(k1, t)
     ELSE postpone(k, s)

\* delay: how long it takes until the head refill is ready after the charge
chargeBudget(k, delay, canTimeoutFault) ==
  LET s  == k.ksCurSC
      k1 == IF s # idleSC /\ ~k.roundRobin[s] THEN [k EXCEPT !.rTime[s] = delay] ELSE k
      k2 == assert(k1, k.tcbSchedContext[k.ksCurThread] = s, "chargeBudget")
  IN IF isSchedulable(k, k.ksCurThread)
     THEN [rescheduleRequired(endTimeslice(k2, canTimeoutFault)) EXCEPT !.ksReprogram = TRUE]
     ELSE k1

\* The budget of the current context does not cover the time consumed
exhausted(k, delay) ==
  chargeBudget(assert(k, refill_ready(k, k.ksCurSC), "checkBudget"), delay, TRUE)

restartIfRunnable(k, t) == IF isRunnable(k, t) THEN setThreadState(k, t, "Restart") ELSE k

exhaustedRestart(k, delay) ==
  LET k1 == assert(k, isRunnable(k, k.ksCurThread), "checkBudgetRestart")
  IN restartIfRunnable(exhausted(k1, delay), k.ksCurThread)

-----------------------------------------------------------------------------
(* The scheduler *)

release_q_non_empty_and_ready(k) ==
  k.release # <<>> /\ refill_ready(k, k.tcbSchedContext[Head(k.release)])

tcbReleaseDequeue(k) ==
  LET t  == Head(k.release)
      k1 == assert(k, t # k.ksCurThread /\ ~k.roundRobin[k.tcbSchedContext[t]], "tcbReleaseDequeue")
  IN possibleSwitchTo(tcbReleaseRemove(k1, t), t)

\* Mutant: only a thread that would preempt the current one is let go
awaken_higher(k) ==
  LET round(kk, t) ==
        IF /\ release_q_non_empty_and_ready(kk)
           /\ kk.tcbPriority[Head(kk.release)] > kk.tcbPriority[kk.ksCurThread]
        THEN tcbReleaseDequeue(kk)
        ELSE kk
  IN FoldLeft(round, k, k.release)

\* The loop ends at the first thread that is not ready: no later round has an effect
awaken(k) ==
  LET round(kk, t) == IF release_q_non_empty_and_ready(kk) THEN tcbReleaseDequeue(kk) ELSE kk
  IN FoldLeft(round, k, k.release)

switchToThread(k, t) ==
  LET s  == k.tcbSchedContext[t]
      k1 == assert(k, s # Null /\ ~tcbInReleaseQueue(k, t) /\ refill_ready(k, s), "switchToThread")
  IN [tcbSchedDequeue(k1, t) EXCEPT !.ksCurThread = t]

highest(k, p) == \A t \in k.queued : k.tcbPriority[t] <= p

chooseThread(k) ==
  LET k1 == assert(k, \A t \in k.queued : highest(k, k.tcbPriority[t])
                                            => isSchedulable(k, t), "chooseThread")
  IN IF k.queued = {} THEN {[k EXCEPT !.ksCurThread = idle]}
     ELSE {switchToThread(k1, t) : t \in {u \in k.queued : highest(k, k.tcbPriority[u])}}

\* The candidate runs at once unless a thread in the ready queues, or the
\* current thread, should run instead
switchToCandidate(k, c, was_runnable) ==
  LET cur == k.ksCurThread
      k1  == assert(k, isSchedulable(k, c), "schedule")
      fastfail == cur = idle \/ k.tcbPriority[c] < k.tcbPriority[cur]
  IN IF fastfail /\ ~highest(k, k.tcbPriority[c]) THEN chooseThread(tcbSchedEnqueue(k1, c))
     ELSE IF was_runnable /\ k.tcbPriority[c] = k.tcbPriority[cur]
     THEN chooseThread(tcbSchedAppend(k1, c))
     ELSE {switchToThread(assert(k1, c # cur, "schedule"), c)}

switchSchedContext(k) ==
  LET s  == k.tcbSchedContext[k.ksCurThread]
      k1 == assert(k, k.ksCurSC # s => refill_ready(k, s), "switchSchedContext")
  IN [k1 EXCEPT !.ksCurSC = s, !.ksSchedulerAction = "Resume",
                !.ksReprogram = @ \/ k.ksCurSC # s]

\* The end of the current budget, for which the timer is programmed too if it comes
\* first, is an Interrupt at any time
setNextInterrupt(k) ==
  [k EXCEPT !.deadline = IF k.release = <<>> THEN Null ELSE tcbReadyTime(k, Head(k.release)),
            !.ksReprogram = FALSE]

programTimer(k) == IF k.ksReprogram THEN setNextInterrupt(k) ELSE k

\* Mutant: the thread that was running is not put back into the ready queues
actOnAction_dropsCurrent(k) ==
  IF k.ksSchedulerAction = "Resume" THEN {k}
  ELSE IF k.ksSchedulerAction = "Choose" THEN chooseThread(k)
  ELSE switchToCandidate(k, k.ksSchedulerAction, FALSE)

actOnAction(k) ==
  LET was_runnable == isSchedulable(k, k.ksCurThread)
      k1 == IF was_runnable THEN tcbSchedEnqueue(k, k.ksCurThread) ELSE k
  IN IF k.ksSchedulerAction = "Resume" THEN {k}
     ELSE IF k.ksSchedulerAction = "Choose" THEN chooseThread(k1)
     ELSE switchToCandidate(k1, k.ksSchedulerAction, was_runnable)

schedule(k) == {programTimer(switchSchedContext(x)) : x \in actOnAction(awaken(k))}

activateThread(k) ==
  LET cur == k.ksCurThread
      k1  == assert(schedContext_completeYieldTo(k, cur), k.tsType[cur] = "Running",
                    "activateThread")
      k2  == IF k.tcbYieldTo[cur] # Null THEN k1 ELSE k
      k3  == assert(k2, ~isStopped(k2, cur), "activateThread")
  IN IF k.tsType[cur] = "Restart" THEN setThreadState(k3, cur, "Running") ELSE k3

\* The end of every kernel entry
leave(k) == {activateThread(x) : x \in schedule(k)}
=============================================================================
