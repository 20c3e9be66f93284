---------------------------- MODULE KernelState ----------------------------
(***************************************************************************)
(* The objects of the MCS kernel that IPC and scheduling touch (thread     *)
(* control blocks, endpoints, notifications, reply objects, scheduling     *)
(* contexts, the per-core scheduler state) and the primitives of           *)
(* kernel/thread.c and object/tcb.c that every other operation is made of. *)
(*                                                                         *)
(* A kernel entry runs to completion under the kernel lock (KernelLock),   *)
(* so the whole state is one record k and every C function is an operator  *)
(* from states to states; a C statement sequence is a chain of LETs.  The  *)
(* entries themselves, the only steps, are the actions of module Kernel.   *)
(*                                                                         *)
(* Abstractions of data.  One core and one scheduling domain.  Messages    *)
(* and registers are left out.  The ready queues are the set k.queued:     *)
(* their order is that of Scheduler.  Of a refill queue only rTime of the  *)
(* head is kept: an active context always has a sufficient head            *)
(* (Sporadic).  Times are relative to the present: k.rTime[s] is how long  *)
(* it takes until the head of s is ready, k.deadline how long until the    *)
(* interrupt the timer is programmed for.  Fields of a thread state that   *)
(* the code no longer reads are Null.                                      *)
(***************************************************************************)
EXTENDS Integers, FiniteSets, SequencesExt

CONSTANTS
  Threads,        \* TCBs of user threads
  idle,           \* ksIdleThread
  EPs, Ntfns, Replies,
  SCs,            \* scheduling contexts that user level can hold
  idleSC,         \* ksIdleSC
  Prios, Badges,
  faultEP,        \* the endpoint of a thread's tcbFaultHandler cap, or Null
  timeoutEP,      \* the endpoint of its tcbTimeoutHandler cap, or Null
  MaxDelay,       \* bound: the longest time until the next refill of a context
  Null

ASSUME KernelConstants ==
  /\ Null \notin Threads \cup EPs \cup Ntfns \cup Replies \cup SCs \cup {idle, idleSC}
  /\ idle \notin Threads
  /\ idleSC \notin SCs
  /\ SCs \cap Replies = {}
  /\ {"Resume", "Choose"} \cap (Threads \cup {idle}) = {}
  /\ Prios \subseteq Nat
  /\ MaxDelay \in Nat
  /\ faultEP \in [Threads -> EPs \cup {Null}]
  /\ timeoutEP \in [Threads -> EPs \cup {Null}]

Opt(S) == S \cup {Null}
TCBs == Threads \cup {idle}
AllSCs == SCs \cup {idleSC}
Delays == 0 .. MaxDelay

Runnable == {"Running", "Restart"}
Blocked == {"BlockedOnReceive", "BlockedOnSend", "BlockedOnReply", "BlockedOnNotification"}
ThreadStates == Runnable \cup Blocked \cup {"Inactive", "IdleThreadState"}

\* What a thread blocked on a send has stored in its thread state.  grant is
\* blockingIPCCanGrant \/ blockingIPCCanGrantReply: the code only tests both.
SendInfo == [badge: Badges, isCall: BOOLEAN, grant: BOOLEAN]

State ==
  [ tsType: [TCBs -> ThreadStates], blockingObject: [TCBs -> Opt(EPs \cup Ntfns)],
    replyObject: [TCBs -> Opt(Replies)], blockingIPC: [TCBs -> Opt(SendInfo)],
    tcbFault: [TCBs -> {"NullFault", "UserFault", "Timeout"}],
    tcbSchedContext: [TCBs -> Opt(AllSCs)], tcbPriority: [TCBs -> Nat],
    queued: SUBSET TCBs, release: Seq(Threads),
    tcbYieldTo: [TCBs -> Opt(SCs)], tcbBoundNotification: [TCBs -> Opt(Ntfns)],
    epState: [EPs -> {"Idle", "Send", "Recv"}], epQueue: [EPs -> Seq(Threads)],
    ntfnState: [Ntfns -> {"Idle", "Waiting", "Active"}], ntfnQueue: [Ntfns -> Seq(Threads)],
    ntfnBoundTCB: [Ntfns -> Opt(Threads)], ntfnSchedContext: [Ntfns -> Opt(SCs)],
    replyTCB: [Replies -> Opt(Threads)], replyPrev: [Replies -> Opt(Replies)],
    replyNext: [Replies -> Opt(Replies \cup SCs)],
    scTcb: [AllSCs -> Opt(TCBs)], scReply: [AllSCs -> Opt(Replies)],
    scNotification: [AllSCs -> Opt(Ntfns)], scYieldFrom: [AllSCs -> Opt(Threads)],
    active: [AllSCs -> BOOLEAN], rTime: [AllSCs -> Delays],
    sporadic: [AllSCs -> BOOLEAN], roundRobin: [AllSCs -> BOOLEAN],
    ksCurThread: TCBs, ksSchedulerAction: TCBs \cup {"Resume", "Choose"},
    ksCurSC: AllSCs, ksReprogram: BOOLEAN, deadline: Opt(Delays),
    failed: SUBSET STRING ]

-----------------------------------------------------------------------------
\* assert(cond): a debug kernel stops.  The model records the function the
\* assertion is in and goes on, as a release kernel does.
assert(k, cond, where) == IF cond THEN k ELSE [k EXCEPT !.failed = @ \cup {where}]

isRunnable(k, t) == k.tsType[t] \in Runnable

isBlocked(k, t) == k.tsType[t] \in Blocked

isStopped(k, t) == k.tsType[t] \in Blocked \cup {"Inactive"}

sc_sporadic(k, s) == s # Null /\ k.sporadic[s]

refill_ready(k, s) == k.rTime[s] = 0

sc_released(k, s) == k.active[s] /\ refill_ready(k, s)

tcbInReleaseQueue(k, t) == Contains(k.release, t)

isSchedulable(k, t) ==
  /\ isRunnable(k, t)
  /\ k.tcbSchedContext[t] # Null
  /\ k.active[k.tcbSchedContext[t]]
  /\ ~tcbInReleaseQueue(k, t)

\* assert(thread's sc # ksCurSC) of the operations that unblock a sporadic sc
assertNotCurSC(k, t, where) ==
  assert(k, sc_sporadic(k, k.tcbSchedContext[t]) => k.tcbSchedContext[t] # k.ksCurSC, where)

-----------------------------------------------------------------------------
(* The ready and release queues *)

tcbSchedEnqueue(k, t) ==
  [assert(k, isSchedulable(k, t), "tcbSchedEnqueue") EXCEPT !.queued = @ \cup {t}]

tcbSchedAppend(k, t) ==
  [assert(k, isSchedulable(k, t) /\ refill_ready(k, k.tcbSchedContext[t]), "tcbSchedAppend")
     EXCEPT !.queued = @ \cup {t}]

tcbSchedDequeue(k, t) == [k EXCEPT !.queued = @ \ {t}]

\* The head tells when the timer has to come: without it, it is programmed anew
tcbReleaseRemove(k, t) ==
  IF tcbInReleaseQueue(k, t)
  THEN [k EXCEPT !.release = Remove(@, t), !.ksReprogram = @ \/ Head(k.release) = t]
  ELSE k

tcbReadyTime(k, t) == k.rTime[k.tcbSchedContext[t]]

\* Where a thread that is ready at new_time goes: in front of the head, behind the
\* end, or in front of the first thread that is ready later
releasePosition(k, new_time) ==
  LET q == k.release
  IN IF q = <<>> \/ new_time < tcbReadyTime(k, Head(q)) THEN 1
     ELSE IF tcbReadyTime(k, Last(q)) <= new_time THEN Len(q) + 1
     ELSE SelectInSeq(q, LAMBDA u : new_time < tcbReadyTime(k, u))

\* Mutant: a thread goes behind those that wait already, whenever it is ready
tcbReleaseEnqueue_unsorted(k, t) ==
  [k EXCEPT !.release = Append(@, t), !.ksReprogram = @ \/ k.release = <<>>]

tcbReleaseEnqueue(k, t) ==
  LET p == releasePosition(k, tcbReadyTime(k, t))
  IN [assert(k, ~tcbInReleaseQueue(k, t) /\ t \notin k.queued, "tcbReleaseEnqueue")
        EXCEPT !.release = InsertAt(@, p, t), !.ksReprogram = @ \/ p = 1]

postpone(k, s) ==
  LET t  == k.scTcb[s]
      k1 == assert(k, t # Null, "postpone")
  IN [tcbReleaseEnqueue(tcbSchedDequeue(k1, t), t) EXCEPT !.ksReprogram = TRUE]

\* The thread in ksSchedulerAction, as a set: empty for the other two actions
candidate(k) == {k.ksSchedulerAction} \cap TCBs

rescheduleRequired(k) ==
  LET Kept == {t \in candidate(k) : isSchedulable(k, t)}
      k1   == assert(k, \A t \in Kept : refill_ready(k, k.tcbSchedContext[t]), "rescheduleRequired")
  IN [k1 EXCEPT !.queued = @ \cup Kept, !.ksSchedulerAction = "Choose"]

scheduleTCB(k, t) ==
  IF t = k.ksCurThread /\ k.ksSchedulerAction = "Resume" /\ ~isSchedulable(k, t)
  THEN [k EXCEPT !.ksSchedulerAction = "Choose"]
  ELSE k

\* Set tsType to a state that is not blocked: what was stored for the block is dead
setThreadState(k, t, ts) ==
  scheduleTCB([k EXCEPT !.tsType[t] = ts, !.blockingObject[t] = Null,
                        !.replyObject[t] = Null, !.blockingIPC[t] = Null], t)

setThreadStateBlockedOnReply(k, t, r) ==
  scheduleTCB([k EXCEPT !.tsType[t] = "BlockedOnReply", !.blockingObject[t] = Null,
                        !.replyObject[t] = r, !.blockingIPC[t] = Null], t)

possibleSwitchTo(k, t) ==
  IF k.tcbSchedContext[t] = Null \/ tcbInReleaseQueue(k, t) THEN k
  ELSE IF k.ksSchedulerAction # "Resume" THEN tcbSchedEnqueue(rescheduleRequired(k), t)
  ELSE [k EXCEPT !.ksSchedulerAction = t]

switchIfSchedulable(k, t) == IF isSchedulable(k, t) THEN possibleSwitchTo(k, t) ELSE k

-----------------------------------------------------------------------------
(* The queues of endpoints and notifications, ordered by priority *)

\* From the back, past the threads of lower priority
tcbEPAppend(k, t, q) ==
  InsertAt(q, SelectLastInSeq(q, LAMBDA u : k.tcbPriority[u] >= k.tcbPriority[t]) + 1, t)

tcbEPDequeue(t, q) == Remove(q, t)
=============================================================================
