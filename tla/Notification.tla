---------------------------- MODULE Notification ----------------------------
(***************************************************************************)
(* Notifications (object/notification.c), but for sendSignal, which may    *)
(* have to cancel a receive and is in module Endpoint.  Of the accumulated *)
(* badge word only its presence is kept: state Active.                     *)
(***************************************************************************)
EXTENDS Reply

maybeDonateSchedContext(k, t, n) ==
  LET s == k.ntfnSchedContext[n]
  IN IF k.tcbSchedContext[t] = Null /\ s # Null /\ k.scTcb[s] = Null
     THEN schedContext_resume(schedContext_donate(k, s, t), s)
     ELSE k

\* Mutant: the thread keeps its pointer to the context it gives back
maybeReturnSchedContext_half(k, n, t) ==
  LET s == k.ntfnSchedContext[n]
  IN IF s # Null /\ s = k.tcbSchedContext[t] THEN [k EXCEPT !.scTcb[s] = Null] ELSE k

maybeReturnSchedContext(k, n, t) ==
  LET s  == k.ntfnSchedContext[n]
      k1 == [k EXCEPT !.tcbSchedContext[t] = Null, !.scTcb[s] = Null]
  IN IF s # Null /\ s = k.tcbSchedContext[t]
     THEN IF t = k.ksCurThread THEN rescheduleRequired(k1) ELSE k1
     ELSE k

\* maybeDonateSchedContext; possibleSwitchTo if the thread can now run
doIfSC(k, t, n) == switchIfSchedulable(maybeDonateSchedContext(k, t, n), t)

receiveSignal(k, t, n, isBlocking) ==
  LET k1 == scheduleTCB([k EXCEPT !.tsType[t] = "BlockedOnNotification",
                                  !.blockingObject[t] = n], t)
      k2 == [k1 EXCEPT !.ntfnQueue[n] = tcbEPAppend(k1, t, @), !.ntfnState[n] = "Waiting"]
  IN IF k.ntfnState[n] = "Active"
     THEN maybeDonateSchedContext([k EXCEPT !.ntfnState[n] = "Idle"], t, n)
     ELSE IF isBlocking THEN maybeReturnSchedContext(k2, n, t)
     ELSE k

\* Take thread t out of the queue of notification n
ntfnDequeue(k, t, n) ==
  LET q == tcbEPDequeue(t, k.ntfnQueue[n])
  IN [k EXCEPT !.ntfnQueue[n] = q, !.ntfnState[n] = IF q = <<>> THEN "Idle" ELSE @]

cancelSignal(k, t, n) ==
  LET k1 == assert(k, k.ntfnState[n] = "Waiting", "cancelSignal")
  IN setThreadState(ntfnDequeue(k1, t, n), t, "Inactive")

completeSignal(k, t, n) ==
  LET k1 == assert(k, k.ntfnState[n] = "Active", "completeSignal")
  IN maybeDonateSchedContext([k1 EXCEPT !.ntfnState[n] = "Idle"], t, n)

\* One round of the loops that restart every thread of a queue
restart_thread(k, t) ==
  possibleSwitchTo(assertNotCurSC(setThreadState(k, t, "Restart"), t, "restart_thread"), t)

cancelAllSignals(k, n) ==
  LET k1 == [k EXCEPT !.ntfnState[n] = "Idle", !.ntfnQueue[n] = <<>>]
  IN IF k.ntfnState[n] = "Waiting"
     THEN rescheduleRequired(FoldLeft(restart_thread, k1, k.ntfnQueue[n]))
     ELSE k

\* Mutant: the thread keeps its pointer to the notification
unbindMaybeNotification_half(k, n) == [k EXCEPT !.ntfnBoundTCB[n] = Null]

unbindMaybeNotification(k, n) ==
  LET t == k.ntfnBoundTCB[n]
  IN IF t # Null THEN [k EXCEPT !.ntfnBoundTCB[n] = Null, !.tcbBoundNotification[t] = Null] ELSE k

unbindNotification(k, t) ==
  LET n == k.tcbBoundNotification[t]
  IN IF n # Null THEN [k EXCEPT !.ntfnBoundTCB[n] = Null, !.tcbBoundNotification[t] = Null] ELSE k

bindNotification(k, t, n) ==
  [k EXCEPT !.ntfnBoundTCB[n] = t, !.tcbBoundNotification[t] = n]

reorderNTFN(k, n, t) ==
  [k EXCEPT !.ntfnQueue[n] = tcbEPAppend(k, t, tcbEPDequeue(t, @))]
=============================================================================
