----------------------------- MODULE Scheduler ------------------------------
(***************************************************************************)
(* Choosing the next thread (kernel/thread.c, object/tcb.c,                *)
(* include/kernel/thread.h): the ready queues of every domain and          *)
(* priority, the two levels of bitmaps that summarise them, and the domain *)
(* schedule (object/domain.c).  One core.                                  *)
(*                                                                         *)
(* Module Kernel tells which threads become ready, wait for budget or      *)
(* block, and leaves the order of the ready queues open; here any thread   *)
(* may do so at any kernel entry, and the queues are exact.  A thread is   *)
(* Ready (isSchedulable), Waiting (in the release queue) or Blocked (in    *)
(* any state that is not runnable).  A word of a bitmap is the set of its  *)
(* bits.  k.moved is history: the threads SetDomain put into the ready     *)
(* queues of the current domain since the queues were last looked at.      *)
(***************************************************************************)
EXTENDS Integers, Sequences, FiniteSets

CONSTANTS
  Threads, idle, initThread,
  numDomains,
  CONFIG_NUM_PRIORITIES,
  wordBits,
  domScheduleLength,     \* CONFIG_NUM_DOMAIN_SCHEDULES
  DSCHED_MAX_DURATION,
  MIN_BUDGET,
  InitPriorities,        \* the priorities the threads are made with
  Steps,                 \* ticks between two kernel entries
  MaxOps                 \* bound: invocations that configure scheduling

Domains == 0 .. numDomains - 1

Priorities == 0 .. CONFIG_NUM_PRIORITIES - 1

L2_BITMAP_SIZE == (CONFIG_NUM_PRIORITIES + wordBits - 1) \div wordBits

Indices == 0 .. domScheduleLength - 1

Resume == "Resume"
Choose == "Choose"

ASSUME SchedulerConstants ==
  /\ IsFiniteSet(Threads) /\ idle \notin Threads /\ initThread \in Threads
  /\ Threads \cap {Resume, Choose} = {}
  /\ numDomains \in Nat \ {0} /\ CONFIG_NUM_PRIORITIES \in Nat \ {0}
  /\ wordBits \in Nat \ {0} /\ domScheduleLength \in Nat \ {0, 1}
  /\ DSCHED_MAX_DURATION \in Nat \ {0} /\ MIN_BUDGET \in Nat /\ Steps \subseteq Nat
  /\ InitPriorities \subseteq [Threads -> Priorities]
  /\ MaxOps \in Nat

VARIABLES
  k,         \* the state of the scheduler
  inKernel,  \* a handler is done, and schedule is still to be called
  ops        \* invocations that configured scheduling

vars == <<k, inKernel, ops>>

\* A schedule entry; all zero is an end marker
dschedule_make(domain, duration) == [domain |-> domain, duration |-> duration]

endMarker == dschedule_make(0, 0)

isEndMarker(kk, i) == kk.ksDomSchedule[i] = endMarker

\* The initial thread runs in domain 0, which has all of the time; the others have
\* been made and given priorities but not been started
Init ==
  /\ ops = 0 /\ inKernel = FALSE
  /\ \E prio \in InitPriorities :
       k = [ tcbState              |-> [t \in Threads |-> IF t = initThread THEN "Ready" ELSE "Blocked"],
             tcbDomain             |-> [t \in Threads |-> 0],
             tcbPriority           |-> prio,
             tcbQueued             |-> [t \in Threads |-> FALSE],
             ksReadyQueues         |-> [i \in 0 .. numDomains * CONFIG_NUM_PRIORITIES - 1 |-> <<>>],
             ksReadyQueuesL1Bitmap |-> [d \in Domains |-> {}],
             ksReadyQueuesL2Bitmap |-> [d \in Domains |-> [i \in 0 .. L2_BITMAP_SIZE - 1 |-> {}]],
             ksCurThread           |-> initThread,
             ksSchedulerAction     |-> Resume,
             ksCurDomain           |-> 0,
             ksDomainTime          |-> DSCHED_MAX_DURATION,
             ksDomScheduleIdx      |-> 0,
             ksDomScheduleStart    |-> 0,
             ksDomSchedule         |-> [i \in Indices |-> IF i = 0 THEN dschedule_make(0, DSCHED_MAX_DURATION)
                                                          ELSE endMarker],
             moved                 |-> {} ]

-----------------------------------------------------------------------------
(* Ready queues and bitmaps *)

ready_queues_index(dom, prio) == dom * CONFIG_NUM_PRIORITIES + prio

prio_to_l1index(prio) == prio \div wordBits

l1index_to_prio(l1index) == l1index * wordBits

invert_l1index(l1index) == L2_BITMAP_SIZE - 1 - l1index

addToBitmap(kk, dom, prio) ==
  [kk EXCEPT !.ksReadyQueuesL1Bitmap[dom] = @ \cup {prio_to_l1index(prio)},
             !.ksReadyQueuesL2Bitmap[dom][invert_l1index(prio_to_l1index(prio))] =
                 @ \cup {prio % wordBits}]

\* Mutant: the first level is cleared though the word has other priorities
removeFromBitmap_both(kk, dom, prio) ==
  LET l1index == prio_to_l1index(prio)
  IN [kk EXCEPT !.ksReadyQueuesL2Bitmap[dom][invert_l1index(l1index)] = @ \ {prio % wordBits},
                !.ksReadyQueuesL1Bitmap[dom] = @ \ {l1index}]

removeFromBitmap(kk, dom, prio) ==
  LET l1index == prio_to_l1index(prio)
      word    == kk.ksReadyQueuesL2Bitmap[dom][invert_l1index(l1index)] \ {prio % wordBits}
  IN [kk EXCEPT !.ksReadyQueuesL2Bitmap[dom][invert_l1index(l1index)] = word,
                !.ksReadyQueuesL1Bitmap[dom] = IF word = {} THEN @ \ {l1index} ELSE @]

tcb_queue_prepend(queue, t) == <<t>> \o queue

tcb_queue_append(queue, t) == Append(queue, t)

tcb_queue_remove(queue, t) ==
  LET i == CHOOSE j \in 1 .. Len(queue) : queue[j] = t
  IN [j \in 1 .. Len(queue) - 1 |-> IF j < i THEN queue[j] ELSE queue[j + 1]]

queueIndex(kk, t) == ready_queues_index(kk.tcbDomain[t], kk.tcbPriority[t])

\* The queue of a thread that is put into it, and the bits of that queue
queued(kk, t, queue) ==
  LET k1 == IF kk.ksReadyQueues[queueIndex(kk, t)] = <<>>
            THEN addToBitmap(kk, kk.tcbDomain[t], kk.tcbPriority[t]) ELSE kk
  IN [k1 EXCEPT !.ksReadyQueues[queueIndex(kk, t)] = queue, !.tcbQueued[t] = TRUE]

tcbSchedEnqueue(kk, t) ==
  IF kk.tcbQueued[t] THEN kk
  ELSE queued(kk, t, tcb_queue_prepend(kk.ksReadyQueues[queueIndex(kk, t)], t))

tcbSchedAppend(kk, t) ==
  IF kk.tcbQueued[t] THEN kk
  ELSE queued(kk, t, tcb_queue_append(kk.ksReadyQueues[queueIndex(kk, t)], t))

tcbSchedDequeue(kk, t) ==
  LET new_queue == tcb_queue_remove(kk.ksReadyQueues[queueIndex(kk, t)], t)
      k1 == [kk EXCEPT !.ksReadyQueues[queueIndex(kk, t)] = new_queue, !.tcbQueued[t] = FALSE]
  IN IF ~kk.tcbQueued[t] THEN kk
     ELSE IF new_queue = <<>> THEN removeFromBitmap(k1, kk.tcbDomain[t], kk.tcbPriority[t])
     ELSE k1

\* wordBits - 1 - clzl(word)
highestBit(word) == CHOOSE b \in word : \A c \in word : c <= b

getHighestPrio(kk, dom) ==
  LET l1index == highestBit(kk.ksReadyQueuesL1Bitmap[dom])
  IN l1index_to_prio(l1index)
       + highestBit(kk.ksReadyQueuesL2Bitmap[dom][invert_l1index(l1index)])

isHighestPrio(kk, dom, prio) ==
  kk.ksReadyQueuesL1Bitmap[dom] = {} \/ prio >= getHighestPrio(kk, dom)

-----------------------------------------------------------------------------
(* Who runs next *)

isSchedulable(kk, t) == t \in Threads /\ kk.tcbState[t] = "Ready"

rescheduleRequired(kk) ==
  LET k1 == IF isSchedulable(kk, kk.ksSchedulerAction)
            THEN tcbSchedEnqueue(kk, kk.ksSchedulerAction) ELSE kk
  IN [k1 EXCEPT !.ksSchedulerAction = Choose]

possibleSwitchTo(kk, t) ==
  IF kk.ksCurDomain # kk.tcbDomain[t] THEN tcbSchedEnqueue(kk, t)
  ELSE IF kk.ksSchedulerAction # Resume THEN tcbSchedEnqueue(rescheduleRequired(kk), t)
  ELSE [kk EXCEPT !.ksSchedulerAction = t]

setThreadState(kk, t, ts) ==
  LET k1 == [kk EXCEPT !.tcbState[t] = ts]
  IN IF t = kk.ksCurThread /\ kk.ksSchedulerAction = Resume /\ ~isSchedulable(k1, t)
     THEN [k1 EXCEPT !.ksSchedulerAction = Choose] ELSE k1

setDomain(kk, t, dom) ==
  LET k1 == [tcbSchedDequeue(kk, t) EXCEPT !.tcbDomain[t] = dom,
               !.moved = IF dom = kk.ksCurDomain THEN @ \cup {t} ELSE @ \ {t}]
      k2 == IF isSchedulable(kk, t) THEN tcbSchedEnqueue(k1, t) ELSE k1
  IN IF t = kk.ksCurThread THEN rescheduleRequired(k2) ELSE k2

\* Mutant: a reschedule only if the current thread is changed
setPriority_current(kk, t, prio) ==
  LET k1 == [tcbSchedDequeue(kk, t) EXCEPT !.tcbPriority[t] = prio]
      k2 == tcbSchedEnqueue(k1, t)
  IN IF isSchedulable(kk, t) /\ (kk.tcbQueued[t] \/ t = kk.ksCurThread)
     THEN IF t = kk.ksCurThread THEN rescheduleRequired(k2) ELSE k2
     ELSE [kk EXCEPT !.tcbPriority[t] = prio]

setPriority(kk, t, prio) ==
  LET k1 == [tcbSchedDequeue(kk, t) EXCEPT !.tcbPriority[t] = prio]
  IN IF isSchedulable(kk, t) /\ (kk.tcbQueued[t] \/ t = kk.ksCurThread)
     THEN rescheduleRequired(tcbSchedEnqueue(k1, t))
     ELSE [kk EXCEPT !.tcbPriority[t] = prio]

switchToThread(kk, t) == [tcbSchedDequeue(kk, t) EXCEPT !.ksCurThread = t]

chooseThread(kk) ==
  LET dom == IF numDomains > 1 THEN kk.ksCurDomain ELSE 0
      k1  == [kk EXCEPT !.moved = {}]
  IN IF kk.ksReadyQueuesL1Bitmap[dom] = {} THEN [k1 EXCEPT !.ksCurThread = idle]
     ELSE switchToThread(k1, Head(kk.ksReadyQueues[ready_queues_index(dom, getHighestPrio(kk, dom))]))

nextDomain(kk) ==
  LET next == kk.ksDomScheduleIdx + 1
      i    == IF isEndMarker(kk, next) THEN kk.ksDomScheduleStart ELSE next
  IN [kk EXCEPT !.ksDomScheduleIdx = i, !.ksCurDomain = kk.ksDomSchedule[i].domain,
                !.ksDomainTime = kk.ksDomSchedule[i].duration]

scheduleChooseNewThread(kk) == chooseThread(IF kk.ksDomainTime = 0 THEN nextDomain(kk) ELSE kk)

isCurDomainExpired(kk) == numDomains > 1 /\ kk.ksDomainTime = 0

checkDomainTime(kk) == IF isCurDomainExpired(kk) THEN rescheduleRequired(kk) ELSE kk

switchToCandidate(kk, t, was_runnable) ==
  LET cur == kk.ksCurThread
      fastfail == cur = idle \/ kk.tcbPriority[t] < kk.tcbPriority[cur]
  IN IF fastfail /\ ~isHighestPrio(kk, kk.ksCurDomain, kk.tcbPriority[t])
     THEN scheduleChooseNewThread(tcbSchedEnqueue(kk, t))
     ELSE IF was_runnable /\ kk.tcbPriority[t] = kk.tcbPriority[cur]
     THEN scheduleChooseNewThread(tcbSchedAppend(kk, t))
     ELSE switchToThread(kk, t)

\* schedule, but for awaken.  A thread that runs, is not ready or was moved away is no
\* longer one that was moved here.
schedule(kk) ==
  LET k1 == checkDomainTime(kk)
      was_runnable == isSchedulable(k1, k1.ksCurThread)
      k2 == IF was_runnable THEN tcbSchedEnqueue(k1, k1.ksCurThread) ELSE k1
      k3 == IF k1.ksSchedulerAction = Resume THEN k1
            ELSE IF k1.ksSchedulerAction = Choose THEN scheduleChooseNewThread(k2)
            ELSE switchToCandidate(k2, k1.ksSchedulerAction, was_runnable)
  IN [k3 EXCEPT !.ksSchedulerAction = Resume,
                !.moved = {t \in @ : k3.tcbQueued[t] /\ k3.tcbDomain[t] = k3.ksCurDomain}]

-----------------------------------------------------------------------------
(* Kernel entries *)

\* Time passed before the entry
updateTimestamp(kk, consumed) ==
  IF numDomains = 1 THEN kk
  ELSE [kk EXCEPT !.ksDomainTime = IF consumed + MIN_BUDGET >= @ THEN 0 ELSE @ - consumed]

\* The end of a handler.  What follows is awaken, thread by thread, and schedule.
leave(kk) == k' = kk /\ inKernel' = TRUE

\* A system call, made by the current thread.  If the time of the domain is over,
\* checkBudgetRestart makes it do nothing but enter the scheduler, as Interrupt may.
checkBudgetRestart(kk) == kk.ksCurThread # idle /\ ~isCurDomainExpired(kk)

Syscall(Handler(_)) ==
  \E c \in Steps :
    LET k1 == updateTimestamp(k, c)
    IN ~inKernel /\ checkBudgetRestart(k1) /\ Handler(k1)

\* A thread that becomes runnable has budget, or has to wait for it
wake(kk, t) ==
  {possibleSwitchTo([kk EXCEPT !.tcbState[t] = "Ready"], t), [kk EXCEPT !.tcbState[t] = "Waiting"]}

\* The current thread blocks; if it calls or faults and a thread waits for the
\* message, it blocks before that thread is woken (sendIPC)
block(kk) ==
  LET k1 == setThreadState(kk, kk.ksCurThread, "Blocked")
  IN {k1} \cup UNION {wake(k1, t) : t \in {u \in Threads : kk.tcbState[u] = "Blocked"}}

Block ==
  /\ Syscall(LAMBDA kk : \E x \in block(kk) : leave(x))
  /\ UNCHANGED ops

\* A signal, a send or a reply
Wake(t) ==
  /\ k.tcbState[t] = "Blocked"
  /\ Syscall(LAMBDA kk : \E x \in wake(kk, t) : leave(x))
  /\ UNCHANGED ops

\* A reply or a send followed by a receive: the current thread blocks last
ReplyRecv(t) ==
  /\ k.tcbState[t] = "Blocked"
  /\ Syscall(LAMBDA kk : \E x \in wake(kk, t) : leave(setThreadState(x, kk.ksCurThread, "Blocked")))
  /\ UNCHANGED ops

Suspend(t) ==
  /\ k.tcbState[t] # "Blocked"
  /\ Syscall(LAMBDA kk : leave(setThreadState(tcbSchedDequeue(kk, t), t, "Blocked")))
  /\ UNCHANGED ops

\* The thread yields or its budget ends (chargeBudget, endTimeslice): it goes to the
\* end of its queue or to the release queue, or faults
EndTimeslice ==
  /\ ~inKernel /\ k.ksCurThread # idle
  /\ \E c \in Steps :
       LET k1 == updateTimestamp(k, c)
           t  == k.ksCurThread
       IN \/ leave(rescheduleRequired(tcbSchedAppend(k1, t)))
          \/ leave(rescheduleRequired([tcbSchedDequeue(k1, t) EXCEPT !.tcbState[t] = "Waiting"]))
          \/ \E x \in block(k1) : leave(rescheduleRequired(x))
  /\ UNCHANGED ops

\* An interrupt may wake a thread; the timer's only ends the time of the domain
Interrupt ==
  /\ ~inKernel
  /\ \E c \in Steps :
       LET k1 == updateTimestamp(k, c)
       IN \/ leave(k1)
          \/ \E t \in Threads : k.tcbState[t] = "Blocked" /\ \E x \in wake(k1, t) : leave(x)
  /\ UNCHANGED ops

configures == ops < MaxOps /\ ops' = ops + 1

SetPriority(t, prio) ==
  /\ Syscall(LAMBDA kk : leave(setPriority(kk, t, prio)))
  /\ configures

invokeDomainSetSet(t, dom) ==
  /\ Syscall(LAMBDA kk : leave(setDomain(kk, t, dom)))
  /\ configures

\* Mutant: the first entry of a round may become an end marker
mayConfigure_start(index, domain, duration) ==
  index < domScheduleLength - 1 /\ (duration = 0 => domain = 0)

\* The checks of decodeDomainScheduleConfigure
mayConfigure(index, domain, duration) ==
  /\ index < domScheduleLength - 1
  /\ duration = 0 => domain = 0 /\ index # k.ksDomScheduleStart

invokeDomainScheduleConfigure(index, domain, duration) ==
  /\ mayConfigure(index, domain, duration)
  /\ Syscall(LAMBDA kk : leave([kk EXCEPT !.ksDomSchedule[index] = dschedule_make(domain, duration)]))
  /\ configures

invokeDomainScheduleSetStart(index) ==
  /\ ~isEndMarker(k, index)
  /\ Syscall(LAMBDA kk : leave(rescheduleRequired(
                 [kk EXCEPT !.ksDomScheduleStart = index, !.ksDomainTime = 0,
                            !.ksDomScheduleIdx = domScheduleLength - 2])))
  /\ configures

\* A thread leaves the release queue.  Whose turn it is, is not modelled.
awaken(t) ==
  /\ inKernel /\ t # k.ksCurThread /\ k.tcbState[t] = "Waiting"
  /\ k' = possibleSwitchTo([k EXCEPT !.tcbState[t] = "Ready"], t)
  /\ UNCHANGED <<inKernel, ops>>

Exit ==
  /\ inKernel /\ inKernel' = FALSE
  /\ k' = schedule(k)
  /\ UNCHANGED ops

Next ==
  \/ Exit \/ \E t \in Threads : awaken(t)
  \/ Block \/ EndTimeslice \/ Interrupt
  \/ \E t \in Threads : Wake(t) \/ ReplyRecv(t) \/ Suspend(t)
  \/ \E t \in Threads, prio \in Priorities : SetPriority(t, prio)
  \/ \E t \in Threads, dom \in Domains : invokeDomainSetSet(t, dom)
  \/ \E index \in Indices, dom \in Domains, duration \in 0 .. DSCHED_MAX_DURATION :
       invokeDomainScheduleConfigure(index, dom, duration)
  \/ \E index \in Indices : invokeDomainScheduleSetStart(index)

Spec == Init /\ [][Next]_vars

-----------------------------------------------------------------------------
(* Properties *)

InQueue(queue, t) == \E j \in 1 .. Len(queue) : queue[j] = t

Distinct(queue) == \A i, j \in 1 .. Len(queue) : queue[i] = queue[j] => i = j

\* The bits of the queue of a domain and priority, and the threads in it
QueueAgrees(kk, d, p) ==
  LET i     == prio_to_l1index(p)
      queue == kk.ksReadyQueues[ready_queues_index(d, p)]
  IN /\ p % wordBits \in kk.ksReadyQueuesL2Bitmap[d][invert_l1index(i)] <=> queue # <<>>
     /\ i \in kk.ksReadyQueuesL1Bitmap[d] <=> kk.ksReadyQueuesL2Bitmap[d][invert_l1index(i)] # {}
     /\ \A t \in Threads : InQueue(queue, t) =>
          kk.tcbQueued[t] /\ kk.tcbDomain[t] = d /\ kk.tcbPriority[t] = p
     /\ Distinct(queue)

(* The bitmaps say which queues have threads in them, the first level which *)
(* words of the second are not zero, and tcbQueued which threads are in the *)
(* queue of the domain and priority they have now, once.  So chooseThread   *)
(* finds a thread at the priority getHighestPrio gives, and an idle         *)
(* processor has nothing to run.                                            *)
ReadyQueuesAgree ==
  /\ \A d \in Domains, p \in Priorities : QueueAgrees(k, d, p)
  /\ \A t \in Threads : k.tcbQueued[t] => InQueue(k.ksReadyQueues[queueIndex(k, t)], t)

(* Between kernel entries the thread that runs is ready, of the current     *)
(* domain, in no queue, and of the highest priority in it; but a thread that *)
(* SetDomain moved into the domain waits for the next reschedule, as        *)
(* setDomain asks for none.  No ready thread is in no queue, and the idle   *)
(* thread runs only if the domain has no other.                             *)
HighestRuns ==
  LET cur == k.ksCurThread
      Here == {t \in Threads : isSchedulable(k, t) /\ k.tcbDomain[t] = k.ksCurDomain}
  IN ~inKernel =>
     /\ \A t \in Threads : isSchedulable(k, t) <=> k.tcbQueued[t] \/ t = cur
     /\ cur # idle => cur \in Here /\ ~k.tcbQueued[cur]
     /\ \A t \in Here \ k.moved : cur # idle /\ k.tcbPriority[t] <= k.tcbPriority[cur]

(* The index never leaves the schedule, whose last entry stays an end       *)
(* marker; the start is never one, so every round of the schedule has an    *)
(* entry with some time in it, and after a kernel entry the current domain  *)
(* has time left.                                                           *)
DomainScheduleSound ==
  /\ k.ksDomScheduleIdx \in 0 .. domScheduleLength - 2
  /\ isEndMarker(k, domScheduleLength - 1) /\ ~isEndMarker(k, k.ksDomScheduleStart)
  /\ \A i \in Indices : k.ksDomSchedule[i].duration = 0 => isEndMarker(k, i)
  /\ ~inKernel => k.ksDomainTime > 0
=============================================================================
