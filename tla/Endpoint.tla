------------------------------ MODULE Endpoint ------------------------------
(***************************************************************************)
(* Endpoint IPC (object/endpoint.c) and signalling a notification, which   *)
(* may cancel the receive of the thread it is bound to.                    *)
(***************************************************************************)
EXTENDS Notification

\* Take thread t out of the queue of endpoint e
epDequeue(k, t, e) ==
  LET q == tcbEPDequeue(t, k.epQueue[e])
  IN [k EXCEPT !.epQueue[e] = q, !.epState[e] = IF q = <<>> THEN "Idle" ELSE @]

cancelIPC(k, t) ==
  LET k1 == [k EXCEPT !.tcbFault[t] = "NullFault"]
      e  == k.blockingObject[t]
      k2 == epDequeue(assert(k1, k.epState[e] # "Idle", "cancelIPC"), t, e)
      k3 == IF k.tsType[t] = "BlockedOnReceive" /\ k.replyObject[t] # Null
            THEN reply_unlink(k2, k.replyObject[t], t)
            ELSE k2
  IN CASE k.tsType[t] \in {"BlockedOnSend", "BlockedOnReceive"} -> setThreadState(k3, t, "Inactive")
       [] k.tsType[t] = "BlockedOnNotification" -> cancelSignal(k1, t, e)
       [] k.tsType[t] = "BlockedOnReply" -> reply_remove_tcb(k1, t)
       [] OTHER -> k1

\* m: badge, isCall and grant of the message
blockOnSend(k, t, e, m) ==
  LET k1 == scheduleTCB([k EXCEPT !.tsType[t] = "BlockedOnSend", !.blockingObject[t] = e,
                                  !.blockingIPC[t] = m], t)
  IN [k1 EXCEPT !.epQueue[e] = tcbEPAppend(k1, t, @), !.epState[e] = "Send"]

\* The sender waits for a reply, stops if it can get none, or lends its context
handOver(k, t, dest, r, m, canDonate) ==
  IF m.isCall \/ k.tcbFault[t] # "NullFault"
  THEN IF r # Null /\ m.grant
       THEN reply_push(k, t, dest, r, canDonate)
       ELSE setThreadState(k, t, "Inactive")
  ELSE IF canDonate /\ k.tcbSchedContext[dest] = Null
  THEN schedContext_donate(k, k.tcbSchedContext[t], dest)
  ELSE k

\* The receiver goes on, on a context that is ready
runReceiver(k, dest) ==
  LET s == k.tcbSchedContext[dest]
  IN possibleSwitchTo(assert(k, s = Null \/ refill_ready(k, s), "sendIPC"), dest)

sendIPC(k, blocking, m, canDonate, t, e) ==
  LET dest == Head(k.epQueue[e])
      r    == k.replyObject[dest]
      k1   == epDequeue(assert(k, k.epQueue[e] # <<>>, "sendIPC"), dest, e)
      k2   == IF r # Null THEN reply_unlink(k1, r, dest) ELSE k1
      k3   == handOver(k2, t, dest, r, m, canDonate)
  IN IF k.epState[e] # "Recv"
     THEN IF blocking THEN blockOnSend(k, t, e, m) ELSE k
     ELSE runReceiver(setThreadState(k3, dest, "Running"), dest)

blockOnReceive(k, t, e, r) ==
  LET k1 == scheduleTCB([k EXCEPT !.tsType[t] = "BlockedOnReceive", !.blockingObject[t] = e,
                                  !.replyObject[t] = r], t)
      k2 == IF r # Null THEN [k1 EXCEPT !.replyTCB[r] = t] ELSE k1
  IN [k2 EXCEPT !.epQueue[e] = tcbEPAppend(k2, t, @), !.epState[e] = "Recv"]

\* Receive from the head of a queue of senders
receiveFromSender(k, t, e, r) ==
  LET sender == Head(k.epQueue[e])
      m  == k.blockingIPC[sender]
      k1 == epDequeue(assert(k, k.epQueue[e] # <<>>, "receiveIPC"), sender, e)
      k2 == assertNotCurSC(k1, sender, "receiveIPC")
      canDonate == k.tcbSchedContext[sender] # Null /\ k.tcbFault[sender] # "Timeout"
  IN IF m.isCall \/ k.tcbFault[sender] # "NullFault"
     THEN IF m.grant /\ r # Null
          THEN reply_push(k2, sender, t, r, canDonate)
          ELSE setThreadState(k2, sender, "Inactive")
     ELSE possibleSwitchTo(setThreadState(k2, sender, "Running"), sender)

receiveOrBlock(k, t, e, isBlocking, r) ==
  IF k.epState[e] = "Send" THEN receiveFromSender(k, t, e, r)
  ELSE IF isBlocking THEN blockOnReceive(k, t, e, r)
  ELSE k

\* Mutant: a pending signal of the bound notification is not looked at
receiveFreed_signalIgnored(k, t, e, isBlocking, r) == receiveOrBlock(k, t, e, isBlocking, r)

\* A pending signal of the bound notification comes before the endpoint
receiveFreed(k, t, e, isBlocking, r) ==
  LET n  == k.tcbBoundNotification[t]
      k1 == IF n # Null /\ isBlocking THEN maybeReturnSchedContext(k, n, t) ELSE k
  IN IF n # Null /\ k.ntfnState[n] = "Active" THEN completeSignal(k, t, n)
     ELSE receiveOrBlock(k1, t, e, isBlocking, r)

\* A reply object in use is first taken from the thread that uses it
receiveIPC(k, t, e, isBlocking, r) ==
  LET other == k.replyTCB[r]
      k1 == IF r # Null /\ other # Null /\ other # t THEN cancelIPC(k, other) ELSE k
  IN receiveFreed(k1, t, e, isBlocking, r)

restart_thread_if_no_fault(k, t) ==
  IF k.tcbFault[t] = "NullFault" THEN restart_thread(k, t) ELSE setThreadState(k, t, "Inactive")

\* A thread that was receiving first gives its reply object back
unlinkReceiver(k, t) ==
  IF k.tsType[t] = "BlockedOnReceive" /\ k.replyObject[t] # Null
  THEN reply_unlink(k, k.replyObject[t], t)
  ELSE k

epEmptied(k, e) == [k EXCEPT !.epState[e] = "Idle", !.epQueue[e] = <<>>]

\* Mutant: threads blocked with a fault are restarted too
cancelAllIPC_faults(k, e) ==
  LET round(kk, t) == restart_thread(unlinkReceiver(kk, t), t)
  IN IF k.epState[e] = "Idle" THEN k
     ELSE rescheduleRequired(FoldLeft(round, epEmptied(k, e), k.epQueue[e]))

cancelAllIPC(k, e) ==
  LET round(kk, t) == restart_thread_if_no_fault(unlinkReceiver(kk, t), t)
  IN IF k.epState[e] = "Idle" THEN k
     ELSE rescheduleRequired(FoldLeft(round, epEmptied(k, e), k.epQueue[e]))

\* The threads with another badge stay in the queue
cancelBadgedSends(k, e, badge) ==
  LET q == k.epQueue[e]
      round(kk, t) ==
        LET k1 == assert(kk, kk.tsType[t] = "BlockedOnSend", "cancelBadgedSends")
        IN IF kk.blockingIPC[t].badge = badge THEN restart_thread_if_no_fault(k1, t) ELSE k1
      rest == SelectSeq(q, LAMBDA t : k.blockingIPC[t].badge # badge)
      k2 == [FoldLeft(round, epEmptied(k, e), q) EXCEPT
               !.epQueue[e] = rest, !.epState[e] = IF rest = <<>> THEN "Idle" ELSE "Send"]
  IN IF k.epState[e] # "Send" THEN k ELSE rescheduleRequired(k2)

reorderEP(k, e, t) == [k EXCEPT !.epQueue[e] = tcbEPAppend(k, t, tcbEPDequeue(t, @))]

\* The thread that gets the signal goes on, on the notification's context if it has none
wakeForSignal(k, t, n) ==
  assertNotCurSC(doIfSC(setThreadState(k, t, "Running"), t, n), t, "sendSignal")

sendSignal(k, n) ==
  LET b    == k.ntfnBoundTCB[n]
      dest == Head(k.ntfnQueue[n])
      k1   == assert(k, k.ntfnQueue[n] # <<>>, "sendSignal dest")
  IN CASE k.ntfnState[n] = "Idle" ->
            IF b # Null /\ k.tsType[b] = "BlockedOnReceive"
            THEN wakeForSignal(cancelIPC(k, b), b, n)
            ELSE [k EXCEPT !.ntfnState[n] = "Active"]
       [] k.ntfnState[n] = "Waiting" -> wakeForSignal(ntfnDequeue(k1, dest, n), dest, n)
       [] k.ntfnState[n] = "Active" -> k
=============================================================================
