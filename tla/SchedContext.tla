--------------------------- MODULE SchedContext ----------------------------
(***************************************************************************)
(* Scheduling contexts (object/schedcontext.c, object/schedcontrol.c): the *)
(* links of a context with the thread that runs on it, with a notification *)
(* that lends it, with the call stack of replies above which it was lent   *)
(* and with a thread that yielded to it.  refill_unblock_check moves the   *)
(* head refill of a ready context to the present, which changes nothing    *)
(* here, and has the timer programmed once more, with the same head of the *)
(* release queue: it is left out.                                          *)
(***************************************************************************)
EXTENDS KernelState

schedContext_resume(k, s) ==
  IF s = Null THEN k
  ELSE LET t  == k.scTcb[s]
           k1 == assert(k, t # Null, "schedContext_resume")
           k2 == assert(k1, t \notin k.queued, "schedContext_resume")
       IN IF t # Null /\ isSchedulable(k, t) /\ ~refill_ready(k, s)
          THEN postpone(k2, s)
          ELSE k1

\* SCHED_ENQUEUE and reschedule, if the thread can run
enqueueSchedulable(k, t) ==
  IF isSchedulable(k, t) THEN rescheduleRequired(tcbSchedEnqueue(k, t)) ELSE k

schedContext_bindTCB(k, s, t) ==
  LET k1 == assert(k, k.scTcb[s] = Null /\ k.tcbSchedContext[t] = Null, "schedContext_bindTCB")
      k2 == [k1 EXCEPT !.tcbSchedContext[t] = s, !.scTcb[s] = t]
  IN enqueueSchedulable(schedContext_resume(k2, s), t)

schedContext_unbindTCB(k, s) ==
  LET t  == k.scTcb[s]
      k1 == assert(k, t # Null, "schedContext_unbindTCB")
      k2 == IF t = k.ksCurThread THEN rescheduleRequired(k1) ELSE k1
      k3 == tcbReleaseRemove(tcbSchedDequeue(k2, t), t)
  IN [k3 EXCEPT !.tcbSchedContext[t] = Null, !.scTcb[s] = Null]

schedContext_unbindAllTCBs(k, s) ==
  IF k.scTcb[s] # Null THEN schedContext_unbindTCB(k, s) ELSE k

\* Mutant: the thread that loses the context keeps its pointer to it
schedContext_donate_shared(k, s, to) ==
  [k EXCEPT !.scTcb[s] = to, !.tcbSchedContext[to] = s]

schedContext_donate(k, s, to) ==
  LET from == k.scTcb[s]
      k1 == assert(k, s # Null /\ k.tcbSchedContext[to] = Null, "schedContext_donate")
      k2 == tcbReleaseRemove(tcbSchedDequeue(k1, from), from)
      k3 == [k2 EXCEPT !.tcbSchedContext[from] = Null]
      k4 == IF from = k.ksCurThread \/ from \in candidate(k) THEN rescheduleRequired(k3) ELSE k3
      k5 == IF from # Null THEN k4 ELSE k1
  IN [k5 EXCEPT !.scTcb[s] = to, !.tcbSchedContext[to] = s]

schedContext_bindNtfn(k, s, n) ==
  [k EXCEPT !.ntfnSchedContext[n] = s, !.scNotification[s] = n]

schedContext_unbindNtfn(k, s) ==
  LET n == k.scNotification[s]
  IN IF n # Null THEN [k EXCEPT !.ntfnSchedContext[n] = Null, !.scNotification[s] = Null] ELSE k

schedContextMaybeUnbindNtfn(k, n) ==
  IF k.ntfnSchedContext[n] # Null THEN schedContext_unbindNtfn(k, k.ntfnSchedContext[n]) ELSE k

\* isHead(replyNext): it points to a scheduling context, not to a reply
isHead(k, r) == k.replyNext[r] \in SCs

schedContext_unbindReply(k, s) ==
  LET r  == k.scReply[s]
      k1 == assert(k, isHead(k, r), "schedContext_unbindReply")
  IN IF r # Null THEN [k1 EXCEPT !.replyNext[r] = Null, !.scReply[s] = Null] ELSE k

schedContext_cancelYieldTo(k, t) ==
  LET s == k.tcbYieldTo[t]
  IN IF s # Null THEN [k EXCEPT !.scYieldFrom[s] = Null, !.tcbYieldTo[t] = Null] ELSE k

\* The consumed time it also writes to the yielder's message is left out
schedContext_completeYieldTo(k, t) == schedContext_cancelYieldTo(k, t)

completeYielder(k, s) ==
  IF k.scYieldFrom[s] # Null THEN schedContext_completeYieldTo(k, k.scYieldFrom[s]) ELSE k

-----------------------------------------------------------------------------
(* The invocations, after their decode checks *)

invokeSchedContext_Unbind(k, s) ==
  schedContext_unbindReply(schedContext_unbindNtfn(schedContext_unbindAllTCBs(k, s), s), s)

\* tcb of lower priority, or not schedulable: return at once.  Otherwise the
\* caller waits in the ready queue and remembers whom it yielded to.
yieldOrReturn(k, s) ==
  LET cur == k.ksCurThread
      t   == k.scTcb[s]
      k1  == assert(k, k.scYieldFrom[s] = Null, "invokeSchedContext_YieldTo")
      k2  == [k1 EXCEPT !.tcbYieldTo[cur] = s, !.scYieldFrom[s] = cur]
  IN IF ~isSchedulable(k, t) THEN setThreadState(k1, cur, "Running")
     ELSE IF k.tcbPriority[t] < k.tcbPriority[cur]
     THEN setThreadState(tcbSchedEnqueue(tcbSchedDequeue(k1, t), t), cur, "Running")
     ELSE rescheduleRequired(tcbSchedEnqueue(tcbSchedEnqueue(tcbSchedDequeue(k2, t), cur), t))

invokeSchedContext_YieldTo(k, s) ==
  yieldOrReturn(schedContext_resume(completeYielder(k, s), s), s)

\* The head refill after configuration: refill_new starts a fresh one, ready
\* now; refill_update keeps the time of the old one.
refillTime(k, s, rr) ==
  LET t == k.scTcb[s]
  IN IF ~rr /\ k.active[s] /\ t # Null /\ isRunnable(k, t) THEN k.rTime[s] ELSE 0

\* The bound thread, once its context has the new parameters
reconfigured(k, t) ==
  IF t = k.ksCurThread THEN rescheduleRequired(k)
  ELSE IF isRunnable(k, t) THEN possibleSwitchTo(k, t)
  ELSE k

invokeSchedControl_ConfigureFlags(k, s, rr, sporadic) ==
  LET t  == k.scTcb[s]
      k1 == IF t # Null THEN tcbSchedDequeue(tcbReleaseRemove(k, t), t) ELSE k
      k2 == [k1 EXCEPT !.rTime[s] = refillTime(k, s, rr), !.roundRobin[s] = rr,
                       !.active[s] = TRUE]
  IN [(IF t # Null THEN reconfigured(schedContext_resume(k2, s), t) ELSE k2)
        EXCEPT !.sporadic[s] = sporadic]
=============================================================================
