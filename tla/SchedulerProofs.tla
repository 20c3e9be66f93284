-------------------------- MODULE SchedulerProofs ---------------------------
(***************************************************************************)
(* The ready queues of the scheduler: the indices of queues and bitmaps,   *)
(* the agreement QueuesInv of the queues, the two levels of the bitmap and *)
(* tcbQueued, and that tcbSchedEnqueue, tcbSchedAppend and tcbSchedDequeue *)
(* keep it.  Then what the handlers of Scheduler leave to schedule: Pre    *)
(* and Mid say what holds within a kernel entry, when the candidate of     *)
(* possibleSwitchTo is in no queue and the current thread may have         *)
(* blocked; every handler ends in a state of Mid.  Then the choice of the  *)
(* thread to run: getHighestPrio finds the highest priority that has a     *)
(* thread, and what scheduleChooseNewThread and the switch to a candidate  *)
(* run is of that priority (Chosen).  So schedule turns what a handler     *)
(* leaves behind (Mid) into a state of the invariant Inv, which holds      *)
(* between kernel entries, and the properties of Scheduler follow.         *)
(***************************************************************************)
EXTENDS Scheduler, TLAPS

\* ready_queues_index stays within ksReadyQueues
LEMMA QueueIndex ==
  ASSUME NEW d \in Domains, NEW p \in Priorities
  PROVE  ready_queues_index(d, p) \in 0 .. numDomains * CONFIG_NUM_PRIORITIES - 1
<1> DEFINE P == CONFIG_NUM_PRIORITIES
<1>1. /\ d \in Int /\ 0 <= d /\ d + 1 <= numDomains /\ numDomains \in Int
      /\ p \in Int /\ 0 <= p /\ p < P /\ P \in Int
  BY SchedulerConstants DEF Domains, Priorities
<1> HIDE DEF P
<1>2. (d + 1) * P <= numDomains * P
  BY <1>1, SMT
<1>3. (d + 1) * P = d * P + P /\ d * P \in Int /\ 0 <= d * P /\ numDomains * P \in Int
  BY <1>1, SMT
<1>4. d * P + p \in 0 .. numDomains * P - 1
  BY <1>1, <1>2, <1>3, SMT
<1> QED
  BY <1>4, Zenon DEF ready_queues_index, P

\* No two pairs of domain and priority share a ready queue
LEMMA QueueIndexInjective ==
  ASSUME NEW d \in Domains, NEW p \in Priorities, NEW e \in Domains, NEW q \in Priorities,
         ready_queues_index(d, p) = ready_queues_index(e, q)
  PROVE  d = e /\ p = q
<1> DEFINE P == CONFIG_NUM_PRIORITIES
<1>1. /\ d \in Int /\ e \in Int
      /\ p \in Int /\ 0 <= p /\ p < P /\ q \in Int /\ 0 <= q /\ q < P /\ P \in Int
  BY SchedulerConstants DEF Domains, Priorities
<1>2. d * P + p = e * P + q
  BY Zenon DEF ready_queues_index
<1> HIDE DEF P
<1>3. ~(d < e)
  <2> SUFFICES ASSUME d < e PROVE FALSE
    OBVIOUS
  <2>1. (d + 1) * P <= e * P
    BY <1>1, SMT
  <2>2. (d + 1) * P = d * P + P /\ d * P \in Int /\ e * P \in Int
    BY <1>1, SMT
  <2> QED BY <1>1, <1>2, <2>1, <2>2, SMT
<1>4. ~(e < d)
  <2> SUFFICES ASSUME e < d PROVE FALSE
    OBVIOUS
  <2>1. (e + 1) * P <= d * P
    BY <1>1, SMT
  <2>2. (e + 1) * P = e * P + P /\ d * P \in Int /\ e * P \in Int
    BY <1>1, SMT
  <2> QED BY <1>1, <1>2, <2>1, <2>2, SMT
<1>5. d = e
  BY <1>1, <1>3, <1>4, SMT
<1>6. d * P \in Int
  BY <1>1, SMT
<1> QED BY <1>1, <1>2, <1>5, <1>6, SMT

\* prio_to_l1index, l1index_to_prio and the inverted index of the second level
\* (thread.h) fit together and stay within the bitmaps
LEMMA BitmapIndex ==
  ASSUME NEW p \in Priorities
  PROVE  /\ prio_to_l1index(p) \in 0 .. L2_BITMAP_SIZE - 1
         /\ invert_l1index(prio_to_l1index(p)) \in 0 .. L2_BITMAP_SIZE - 1
         /\ p % wordBits \in 0 .. wordBits - 1
         /\ p = l1index_to_prio(prio_to_l1index(p)) + (p % wordBits)
<1> DEFINE w == wordBits
           q == p \div w
           r == p % w
           m == (CONFIG_NUM_PRIORITIES + w - 1) \div w
           mr == (CONFIG_NUM_PRIORITIES + w - 1) % w
<1>1. /\ p \in Int /\ 0 <= p /\ p <= CONFIG_NUM_PRIORITIES - 1
      /\ CONFIG_NUM_PRIORITIES \in Int /\ w \in Int /\ w > 0
  BY SchedulerConstants DEF Priorities
<1>2. q \in Int /\ r \in Int /\ 0 <= r /\ r < w /\ p = w * q + r
  BY <1>1, SMT
<1>3. m \in Int /\ mr \in Int /\ 0 <= mr /\ mr < w /\ CONFIG_NUM_PRIORITIES + w - 1 = w * m + mr
  BY <1>1, SMT
<1> HIDE DEF w, q, r, m, mr
<1>4. 0 <= q
  BY <1>1, <1>2, SMT
<1>5. q < m
  <2> SUFFICES ASSUME m <= q PROVE FALSE
    BY <1>2, <1>3, SMT
  <2>1. w * m <= w * q /\ w * m \in Int /\ w * q \in Int
    BY <1>1, <1>2, <1>3, SMT
  <2> QED BY <1>1, <1>2, <1>3, <2>1, SMT
<1>6. q \in 0 .. m - 1 /\ m - 1 - q \in 0 .. m - 1 /\ r \in 0 .. w - 1
  BY <1>1, <1>2, <1>3, <1>4, <1>5, SMT
<1>7. w * q = q * w
  BY <1>1, <1>2, SMT
<1> QED
  BY <1>2, <1>6, <1>7, Zenon DEF w, q, r, m, prio_to_l1index, invert_l1index, L2_BITMAP_SIZE,
     l1index_to_prio
-----------------------------------------------------------------------------

Entry == [domain : Domains, duration : Nat]

State ==
  [ tcbState              : [Threads -> {"Ready", "Waiting", "Blocked"}],
    tcbDomain             : [Threads -> Domains],
    tcbPriority           : [Threads -> Priorities],
    tcbQueued             : [Threads -> BOOLEAN],
    ksReadyQueues         : [0 .. numDomains * CONFIG_NUM_PRIORITIES - 1 -> Seq(Threads)],
    ksReadyQueuesL1Bitmap : [Domains -> SUBSET (0 .. L2_BITMAP_SIZE - 1)],
    ksReadyQueuesL2Bitmap : [Domains -> [0 .. L2_BITMAP_SIZE - 1 -> SUBSET (0 .. wordBits - 1)]],
    ksCurThread           : Threads \cup {idle},
    ksSchedulerAction     : Threads \cup {Resume, Choose},
    ksCurDomain           : Domains,
    ksDomainTime          : Nat,
    ksDomScheduleIdx      : Indices,
    ksDomScheduleStart    : Indices,
    ksDomSchedule         : [Indices -> Entry],
    moved                 : SUBSET Threads ]

\* No bit is set but those of priorities
BitsOfPriorities(kk) ==
  \A d \in Domains :
    /\ \A i \in kk.ksReadyQueuesL1Bitmap[d] : \E p \in Priorities : i = prio_to_l1index(p)
    /\ \A v \in 0 .. L2_BITMAP_SIZE - 1 : \A b \in kk.ksReadyQueuesL2Bitmap[d][v] :
         \E p \in Priorities : v = invert_l1index(prio_to_l1index(p)) /\ b = p % wordBits

QueuesInv(kk) ==
  /\ kk \in State
  /\ BitsOfPriorities(kk)
  /\ \A d \in Domains, p \in Priorities : QueueAgrees(kk, d, p)
  /\ \A t \in Threads : kk.tcbQueued[t] => InQueue(kk.ksReadyQueues[queueIndex(kk, t)], t)

\* Nothing but the queues and their bitmaps differs
SameThreads(kk, r) ==
  /\ r.tcbState = kk.tcbState /\ r.tcbDomain = kk.tcbDomain /\ r.tcbPriority = kk.tcbPriority
  /\ r.ksCurThread = kk.ksCurThread /\ r.ksSchedulerAction = kk.ksSchedulerAction
  /\ r.ksCurDomain = kk.ksCurDomain /\ r.ksDomainTime = kk.ksDomainTime
  /\ r.ksDomScheduleIdx = kk.ksDomScheduleIdx /\ r.ksDomScheduleStart = kk.ksDomScheduleStart
  /\ r.ksDomSchedule = kk.ksDomSchedule /\ r.moved = kk.moved

\* r is kk with t in the given queue and the bits of its priority set
QueuedIn(kk, t, queue, r) ==
  LET d == kk.tcbDomain[t]
      i == prio_to_l1index(kk.tcbPriority[t])
  IN /\ r \in State /\ SameThreads(kk, r)
     /\ r.tcbQueued = [kk.tcbQueued EXCEPT ![t] = TRUE]
     /\ r.ksReadyQueues = [kk.ksReadyQueues EXCEPT ![queueIndex(kk, t)] = queue]
     /\ r.ksReadyQueuesL1Bitmap = [kk.ksReadyQueuesL1Bitmap EXCEPT ![d] = @ \cup {i}]
     /\ r.ksReadyQueuesL2Bitmap =
          [kk.ksReadyQueuesL2Bitmap EXCEPT ![d] =
             [kk.ksReadyQueuesL2Bitmap[d] EXCEPT ![invert_l1index(i)] =
                @ \cup {kk.tcbPriority[t] % wordBits}]]

\* The queues and bitmaps that tcbSchedEnqueue and tcbSchedAppend leave behind
LEMMA QueuedEffect ==
  ASSUME NEW kk \in State, NEW t \in Threads, NEW queue \in Seq(Threads),
         QueueAgrees(kk, kk.tcbDomain[t], kk.tcbPriority[t])
  PROVE  QueuedIn(kk, t, queue, queued(kk, t, queue))
<1> DEFINE d == kk.tcbDomain[t]
           p == kk.tcbPriority[t]
           i == prio_to_l1index(p)
           v == invert_l1index(i)
           x == queueIndex(kk, t)
<1>1. d \in Domains /\ p \in Priorities
  BY Zenon DEF State
<1>2. i \in 0 .. L2_BITMAP_SIZE - 1 /\ v \in 0 .. L2_BITMAP_SIZE - 1 /\ p % wordBits \in 0 .. wordBits - 1
  BY <1>1, BitmapIndex, Zenon
<1>3. x \in 0 .. numDomains * CONFIG_NUM_PRIORITIES - 1
  BY <1>1, QueueIndex, Zenon DEF queueIndex
<1> DEFINE r  == queued(kk, t, queue)
           l1 == [kk.ksReadyQueuesL1Bitmap EXCEPT ![d] = @ \cup {i}]
           w2 == [kk.ksReadyQueuesL2Bitmap[d] EXCEPT ![v] = @ \cup {p % wordBits}]
           l2 == [kk.ksReadyQueuesL2Bitmap EXCEPT ![d] = w2]
           qs == [kk.ksReadyQueues EXCEPT ![x] = queue]
           tq == [kk.tcbQueued EXCEPT ![t] = TRUE]
<1>4. r = [kk EXCEPT !.ksReadyQueuesL1Bitmap = l1, !.ksReadyQueuesL2Bitmap = l2,
                     !.ksReadyQueues = qs, !.tcbQueued = tq]
  <2>1. CASE kk.ksReadyQueues[x] = <<>>
    BY <2>1, Zenon DEF queued, addToBitmap, State
  <2>2. CASE kk.ksReadyQueues[x] # <<>>
    <3>1. r = [kk EXCEPT !.ksReadyQueues = qs, !.tcbQueued = tq]
      BY <2>2, Zenon DEF queued, State
    <3>2. p % wordBits \in kk.ksReadyQueuesL2Bitmap[d][v] /\ i \in kk.ksReadyQueuesL1Bitmap[d]
      BY <2>2, Zenon DEF QueueAgrees, queueIndex
    <3>3. l1 = kk.ksReadyQueuesL1Bitmap
      BY <1>1, <3>2 DEF State
    <3>4. l2 = kk.ksReadyQueuesL2Bitmap
      <4>1. kk.ksReadyQueuesL2Bitmap[d] \in [0 .. L2_BITMAP_SIZE - 1 -> SUBSET (0 .. wordBits - 1)]
        BY <1>1, Zenon DEF State
      <4>2. w2 = kk.ksReadyQueuesL2Bitmap[d]
        BY <1>2, <3>2, <4>1, Zenon
      <4> HIDE DEF w2
      <4> QED BY <1>1, <4>2, Zenon DEF State
    <3> HIDE DEF r, l1, l2, qs, tq
    <3> QED BY <3>1, <3>3, <3>4, Zenon DEF State
  <2> QED BY <2>1, <2>2, Zenon
<1>5. l1 \in [Domains -> SUBSET (0 .. L2_BITMAP_SIZE - 1)]
  BY <1>1, <1>2, Zenon DEF State
<1>6. l2 \in [Domains -> [0 .. L2_BITMAP_SIZE - 1 -> SUBSET (0 .. wordBits - 1)]]
  <2>1. w2 \in [0 .. L2_BITMAP_SIZE - 1 -> SUBSET (0 .. wordBits - 1)]
    <3>1. kk.ksReadyQueuesL2Bitmap[d] \in [0 .. L2_BITMAP_SIZE - 1 -> SUBSET (0 .. wordBits - 1)]
      BY <1>1, Zenon DEF State
    <3> QED BY <1>2, <3>1, Zenon
  <2> HIDE DEF w2
  <2> QED BY <1>1, <2>1, Zenon DEF State
<1>7. /\ qs \in [0 .. numDomains * CONFIG_NUM_PRIORITIES - 1 -> Seq(Threads)]
      /\ tq \in [Threads -> BOOLEAN]
  BY <1>3, Zenon DEF State
<1> HIDE DEF r, l1, l2, qs, tq
<1>8. /\ r.ksReadyQueuesL1Bitmap = l1 /\ r.ksReadyQueuesL2Bitmap = l2
      /\ r.ksReadyQueues = qs /\ r.tcbQueued = tq /\ SameThreads(kk, r)
  BY <1>4, Zenon DEF State, SameThreads
<1>9. r \in State
  BY <1>4, <1>5, <1>6, <1>7, Zenon DEF State
<1> QED BY <1>8, <1>9, Zenon DEF r, l1, l2, qs, tq, QueuedIn

\* Two priorities with the same word and the same bit are the same
LEMMA BitInjective ==
  ASSUME NEW p \in Priorities, NEW q \in Priorities
  PROVE  /\ prio_to_l1index(p) = prio_to_l1index(q) /\ p % wordBits = q % wordBits => p = q
         /\ invert_l1index(prio_to_l1index(p)) = invert_l1index(prio_to_l1index(q))
              => prio_to_l1index(p) = prio_to_l1index(q)
<1> DEFINE lp == prio_to_l1index(p)
           lq == prio_to_l1index(q)
           rp == p % wordBits
           rq == q % wordBits
<1>1. p = l1index_to_prio(lp) + rp /\ q = l1index_to_prio(lq) + rq
  BY BitmapIndex, Zenon
<1>2. lp \in Int /\ lq \in Int /\ L2_BITMAP_SIZE \in Int
  <2>1. L2_BITMAP_SIZE \in Int
    BY SchedulerConstants DEF L2_BITMAP_SIZE
  <2> QED BY <2>1, BitmapIndex
<1> HIDE DEF lp, lq, rp, rq
<1>3. lp = lq /\ rp = rq => p = q
  BY <1>1, Zenon
<1>4. invert_l1index(lp) = invert_l1index(lq) => lp = lq
  BY <1>2 DEF invert_l1index
<1> QED BY <1>3, <1>4, Zenon DEF lp, lq, rp, rq

\* A thread that is in no queue may be put into its own, at either end
LEMMA QueuedInv ==
  ASSUME NEW kk, QueuesInv(kk), NEW t \in Threads, ~kk.tcbQueued[t],
         NEW queue \in Seq(Threads), queue # <<>>, Distinct(queue),
         \A u \in Threads : InQueue(queue, u) <=> u = t \/ InQueue(kk.ksReadyQueues[queueIndex(kk, t)], u)
  PROVE  /\ QueuesInv(queued(kk, t, queue)) /\ SameThreads(kk, queued(kk, t, queue))
         /\ queued(kk, t, queue).tcbQueued = [kk.tcbQueued EXCEPT ![t] = TRUE]
<1> DEFINE r == queued(kk, t, queue)
           d == kk.tcbDomain[t]
           p == kk.tcbPriority[t]
           i == prio_to_l1index(p)
           v == invert_l1index(i)
           Q(e, q) == kk.ksReadyQueues[ready_queues_index(e, q)]
           L2(e, q) == kk.ksReadyQueuesL2Bitmap[e][invert_l1index(prio_to_l1index(q))]
<1>1. kk \in State /\ d \in Domains /\ p \in Priorities
  BY Zenon DEF QueuesInv, State
<1>2. /\ r \in State /\ SameThreads(kk, r)
      /\ r.tcbQueued = [kk.tcbQueued EXCEPT ![t] = TRUE]
      /\ r.ksReadyQueues = [kk.ksReadyQueues EXCEPT ![queueIndex(kk, t)] = queue]
      /\ r.ksReadyQueuesL1Bitmap = [kk.ksReadyQueuesL1Bitmap EXCEPT ![d] = @ \cup {i}]
      /\ r.ksReadyQueuesL2Bitmap =
           [kk.ksReadyQueuesL2Bitmap EXCEPT ![d] =
              [kk.ksReadyQueuesL2Bitmap[d] EXCEPT ![v] = @ \cup {p % wordBits}]]
  <2>1. QueueAgrees(kk, d, p)
    BY <1>1, Zenon DEF QueuesInv
  <2>2. QueuedIn(kk, t, queue, r)
    BY <1>1, <2>1, QueuedEffect, Zenon
  <2> QED BY <2>2, Zenon DEF QueuedIn
<1> HIDE DEF r
<1>3. ASSUME NEW e \in Domains, NEW q \in Priorities
      PROVE  QueueAgrees(r, e, q)
  <2> DEFINE j == prio_to_l1index(q)
             u == invert_l1index(j)
  <2>1. QueueAgrees(kk, e, q)
    BY Zenon DEF QueuesInv
  <2>2. j \in 0 .. L2_BITMAP_SIZE - 1 /\ u \in 0 .. L2_BITMAP_SIZE - 1 /\ v \in 0 .. L2_BITMAP_SIZE - 1
    BY <1>1, BitmapIndex, Zenon
  <2>3. (j = i /\ q % wordBits = p % wordBits => q = p) /\ (u = v => j = i)
    BY <1>1, BitInjective, Zenon
  <2>4. r.ksReadyQueues[ready_queues_index(e, q)] = IF e = d /\ q = p THEN queue ELSE Q(e, q)
    <3>1. ready_queues_index(e, q) \in 0 .. numDomains * CONFIG_NUM_PRIORITIES - 1
      BY QueueIndex, Zenon
    <3>2. ready_queues_index(e, q) = queueIndex(kk, t) <=> e = d /\ q = p
      BY <1>1, QueueIndexInjective DEF queueIndex
    <3>3. kk.ksReadyQueues \in [0 .. numDomains * CONFIG_NUM_PRIORITIES - 1 -> Seq(Threads)]
      BY <1>1, Zenon DEF State
    <3> QED BY <1>2, <3>1, <3>2, <3>3, Zenon
  <2>5. r.ksReadyQueuesL1Bitmap[e] = kk.ksReadyQueuesL1Bitmap[e] \cup (IF e = d THEN {i} ELSE {})
    BY <1>1, <1>2 DEF State
  <2>6. r.ksReadyQueuesL2Bitmap[e][u] = L2(e, q) \cup (IF e = d /\ u = v THEN {p % wordBits} ELSE {})
    <3>1. kk.ksReadyQueuesL2Bitmap[e] \in [0 .. L2_BITMAP_SIZE - 1 -> SUBSET (0 .. wordBits - 1)]
      BY <1>1, Zenon DEF State
    <3>2. r.ksReadyQueuesL2Bitmap[e] =
            IF e = d THEN [kk.ksReadyQueuesL2Bitmap[e] EXCEPT ![v] = @ \cup {p % wordBits}]
            ELSE kk.ksReadyQueuesL2Bitmap[e]
      <4> DEFINE W == [kk.ksReadyQueuesL2Bitmap[d] EXCEPT ![v] = @ \cup {p % wordBits}]
      <4>1. r.ksReadyQueuesL2Bitmap = [kk.ksReadyQueuesL2Bitmap EXCEPT ![d] = W]
        BY <1>2, Zenon
      <4>2. DOMAIN kk.ksReadyQueuesL2Bitmap = Domains
        BY <1>1, Zenon DEF State
      <4> HIDE DEF W
      <4>3. r.ksReadyQueuesL2Bitmap[e] = IF e = d THEN W ELSE kk.ksReadyQueuesL2Bitmap[e]
        BY <4>1, <4>2, Zenon
      <4> QED BY <4>3, Zenon DEF W
    <3> QED BY <2>2, <3>1, <3>2, Zenon
  <2>7. \A s \in Threads : r.tcbQueued[s] <=> s = t \/ kk.tcbQueued[s]
    <3>1. kk.tcbQueued \in [Threads -> BOOLEAN]
      BY <1>1, Zenon DEF State
    <3> QED BY <1>2, <3>1, Zenon
  <2>8. /\ q % wordBits \in L2(e, q) <=> Q(e, q) # <<>>
        /\ j \in kk.ksReadyQueuesL1Bitmap[e] <=> L2(e, q) # {}
        /\ \A s \in Threads : InQueue(Q(e, q), s) =>
             kk.tcbQueued[s] /\ kk.tcbDomain[s] = e /\ kk.tcbPriority[s] = q
        /\ Distinct(Q(e, q))
    BY <2>1, Zenon DEF QueueAgrees
  <2> DEFINE R == r.ksReadyQueues[ready_queues_index(e, q)]
  <2>9. q % wordBits \in r.ksReadyQueuesL2Bitmap[e][u] <=> R # <<>>
    BY <2>3, <2>4, <2>6, <2>8, Zenon
  <2>10. j \in r.ksReadyQueuesL1Bitmap[e] <=> r.ksReadyQueuesL2Bitmap[e][u] # {}
    BY <2>3, <2>5, <2>6, <2>8, Zenon
  <2>11. ASSUME NEW s \in Threads, InQueue(R, s)
         PROVE  r.tcbQueued[s] /\ r.tcbDomain[s] = e /\ r.tcbPriority[s] = q
    <3>1. r.tcbDomain = kk.tcbDomain /\ r.tcbPriority = kk.tcbPriority
      BY <1>2, Zenon DEF SameThreads
    <3>2. CASE e = d /\ q = p
      <4>1. s = t \/ InQueue(Q(e, q), s)
        BY <2>4, <2>11, <3>2, Zenon DEF queueIndex
      <4> QED BY <2>7, <2>8, <3>1, <3>2, <4>1, Zenon
    <3>3. CASE ~(e = d /\ q = p)
      BY <2>4, <2>7, <2>8, <2>11, <3>1, <3>3, Zenon
    <3> QED BY <3>2, <3>3, Zenon
  <2>12. Distinct(R)
    BY <2>4, <2>8, Zenon
  <2> HIDE DEF R
  <2> QED BY <2>9, <2>10, <2>11, <2>12, Zenon DEF QueueAgrees, R
<1>4. ASSUME NEW s \in Threads, r.tcbQueued[s]
      PROVE  InQueue(r.ksReadyQueues[queueIndex(r, s)], s)
  <2>1. queueIndex(r, s) = queueIndex(kk, s)
    BY <1>2, Zenon DEF queueIndex, SameThreads
  <2>2. queueIndex(kk, s) \in 0 .. numDomains * CONFIG_NUM_PRIORITIES - 1
    BY <1>1, QueueIndex, Zenon DEF queueIndex, State
  <2>3. s = t \/ InQueue(kk.ksReadyQueues[queueIndex(kk, s)], s)
    BY <1>1, <1>2, <1>4 DEF QueuesInv, State
  <2>4. r.ksReadyQueues[queueIndex(kk, s)] =
          IF queueIndex(kk, s) = queueIndex(kk, t) THEN queue ELSE kk.ksReadyQueues[queueIndex(kk, s)]
    <3>1. kk.ksReadyQueues \in [0 .. numDomains * CONFIG_NUM_PRIORITIES - 1 -> Seq(Threads)]
      BY <1>1, Zenon DEF State
    <3> QED BY <1>2, <2>2, <3>1, Zenon
  <2> QED BY <2>1, <2>3, <2>4, Zenon
<1>5. BitsOfPriorities(r)
  <2> SUFFICES ASSUME NEW e \in Domains
               PROVE  /\ \A j \in r.ksReadyQueuesL1Bitmap[e] : \E q \in Priorities : j = prio_to_l1index(q)
                      /\ \A u \in 0 .. L2_BITMAP_SIZE - 1 : \A b \in r.ksReadyQueuesL2Bitmap[e][u] :
                           \E q \in Priorities : u = invert_l1index(prio_to_l1index(q)) /\ b = q % wordBits
    BY Zenon DEF BitsOfPriorities
  <2>1. \A j \in r.ksReadyQueuesL1Bitmap[e] : j \in kk.ksReadyQueuesL1Bitmap[e] \/ j = i
    BY <1>1, <1>2 DEF State
  <2>2. ASSUME NEW u \in 0 .. L2_BITMAP_SIZE - 1, NEW b \in r.ksReadyQueuesL2Bitmap[e][u]
        PROVE  b \in kk.ksReadyQueuesL2Bitmap[e][u] \/ (u = v /\ b = p % wordBits)
    <3> DEFINE W == [kk.ksReadyQueuesL2Bitmap[d] EXCEPT ![v] = @ \cup {p % wordBits}]
    <3>1. r.ksReadyQueuesL2Bitmap = [kk.ksReadyQueuesL2Bitmap EXCEPT ![d] = W]
      BY <1>2, Zenon
    <3>2. DOMAIN kk.ksReadyQueuesL2Bitmap = Domains /\ DOMAIN kk.ksReadyQueuesL2Bitmap[d] = 0 .. L2_BITMAP_SIZE - 1
      BY <1>1, Zenon DEF State
    <3>3. W[u] = kk.ksReadyQueuesL2Bitmap[d][u] \cup (IF u = v THEN {p % wordBits} ELSE {})
      BY <3>2, Zenon
    <3> HIDE DEF W
    <3>4. r.ksReadyQueuesL2Bitmap[e] = IF e = d THEN W ELSE kk.ksReadyQueuesL2Bitmap[e]
      BY <3>1, <3>2, Zenon
    <3> QED BY <2>2, <3>3, <3>4, Zenon
  <2> QED BY <1>1, <2>1, <2>2, Zenon DEF QueuesInv, BitsOfPriorities
<1> QED BY <1>2, <1>3, <1>4, <1>5, Zenon DEF QueuesInv, r

\* What putting a thread into its queue does, seen from outside the queues
LEMMA Enqueued ==
  ASSUME NEW kk, QueuesInv(kk), NEW t \in Threads,
         NEW r \in {tcbSchedEnqueue(kk, t), tcbSchedAppend(kk, t)}
  PROVE  QueuesInv(r) /\ SameThreads(kk, r) /\ r.tcbQueued = [kk.tcbQueued EXCEPT ![t] = TRUE]
<1> DEFINE old == kk.ksReadyQueues[queueIndex(kk, t)]
<1>1. kk \in State /\ kk.tcbDomain[t] \in Domains /\ kk.tcbPriority[t] \in Priorities
  BY Zenon DEF QueuesInv, State
<1>2. CASE kk.tcbQueued[t]
  <2>1. r = kk
    BY <1>2, Zenon DEF tcbSchedEnqueue, tcbSchedAppend
  <2>2. [kk.tcbQueued EXCEPT ![t] = TRUE] = kk.tcbQueued
    BY <1>1, <1>2, Zenon DEF State
  <2> QED BY <2>1, <2>2, Zenon DEF SameThreads
<1>3. CASE ~kk.tcbQueued[t]
  <2>1. old \in Seq(Threads) /\ Distinct(old) /\ ~InQueue(old, t)
    <3>1. QueueAgrees(kk, kk.tcbDomain[t], kk.tcbPriority[t])
      BY <1>1, Zenon DEF QueuesInv
    <3>2. queueIndex(kk, t) \in 0 .. numDomains * CONFIG_NUM_PRIORITIES - 1
      BY <1>1, QueueIndex, Zenon DEF queueIndex
    <3>3. old \in Seq(Threads)
      BY <1>1, <3>2, Zenon DEF State
    <3> QED BY <1>3, <3>1, <3>3, Zenon DEF QueueAgrees, queueIndex
  <2>2. PICK queue \in {tcb_queue_prepend(old, t), tcb_queue_append(old, t)} : r = queued(kk, t, queue)
    BY <1>3, Zenon DEF tcbSchedEnqueue, tcbSchedAppend
  <2> HIDE DEF old
  <2>3. /\ queue \in Seq(Threads) /\ queue # <<>> /\ Distinct(queue)
        /\ \A u \in Threads : InQueue(queue, u) <=> u = t \/ InQueue(old, u)
    <3>1. CASE queue = tcb_queue_append(old, t)
      <4>1. /\ queue \in Seq(Threads) /\ Len(queue) = Len(old) + 1
            /\ queue[Len(old) + 1] = t /\ \A j \in 1 .. Len(old) : queue[j] = old[j]
        BY <2>1, <3>1 DEF tcb_queue_append
      <4> QED BY <2>1, <4>1 DEF Distinct, InQueue
    <3>2. CASE queue = tcb_queue_prepend(old, t)
      <4>1. /\ queue \in Seq(Threads) /\ Len(queue) = Len(old) + 1
            /\ queue[1] = t /\ \A j \in 2 .. Len(queue) : queue[j] = old[j - 1]
        BY <2>1, <3>2 DEF tcb_queue_prepend
      <4>2. Len(old) \in Nat
        BY <2>1
      <4>3. \A j \in 1 .. Len(old) : queue[j + 1] = old[j]
        BY <4>1, <4>2
      <4>4. \A u \in Threads : InQueue(queue, u) <=> u = t \/ InQueue(old, u)
        <5> TAKE u \in Threads
        <5>1. ASSUME InQueue(queue, u) PROVE u = t \/ InQueue(old, u)
          <6>1. PICK j \in 1 .. Len(queue) : queue[j] = u
            BY <5>1, Zenon DEF InQueue
          <6>2. CASE j = 1
            BY <4>1, <6>1, <6>2, Zenon
          <6>3. CASE j # 1
            <7>1. j - 1 \in 1 .. Len(old) /\ old[j - 1] = u
              BY <4>1, <4>2, <6>1, <6>3
            <7> QED BY <7>1, Zenon DEF InQueue
          <6> QED BY <6>2, <6>3, Zenon
        <5>2. ASSUME u = t PROVE InQueue(queue, u)
          BY <4>1, <4>2, <5>2 DEF InQueue
        <5>3. ASSUME InQueue(old, u) PROVE InQueue(queue, u)
          <6>1. PICK j \in 1 .. Len(old) : old[j] = u
            BY <5>3, Zenon DEF InQueue
          <6>2. j + 1 \in 1 .. Len(queue) /\ queue[j + 1] = u
            BY <4>1, <4>2, <4>3, <6>1
          <6> QED BY <6>2, Zenon DEF InQueue
        <5> QED BY <5>1, <5>2, <5>3, Zenon
      <4>5. Distinct(queue)
        <5> SUFFICES ASSUME NEW i \in 1 .. Len(queue), NEW j \in 1 .. Len(queue), queue[i] = queue[j]
                     PROVE  i = j
          BY Zenon DEF Distinct
        <5>1. \A m \in 1 .. Len(old) : old[m] # t
          BY <2>1, Zenon DEF InQueue
        <5>2. CASE i # 1 /\ j # 1
          <6>1. i - 1 \in 1 .. Len(old) /\ j - 1 \in 1 .. Len(old) /\ old[i - 1] = old[j - 1]
            BY <4>1, <4>2, <5>2
          <6>2. i - 1 = j - 1
            BY <2>1, <6>1, Zenon DEF Distinct
          <6> QED BY <6>2
        <5>3. CASE i = 1 \/ j = 1
          BY <4>1, <4>2, <5>1, <5>3
        <5> QED BY <5>2, <5>3, Zenon
      <4> QED BY <4>1, <4>2, <4>4, <4>5
    <3> QED BY <2>2, <3>1, <3>2, Zenon
  <2> QED BY <1>3, <2>2, <2>3, QueuedInv, Zenon DEF old
<1> QED BY <1>2, <1>3, Zenon
-----------------------------------------------------------------------------
(* tcbSchedDequeue *)

\* A queue without one of its threads
LEMMA Removed ==
  ASSUME NEW queue \in Seq(Threads), NEW t \in Threads, Distinct(queue), InQueue(queue, t)
  PROVE  /\ tcb_queue_remove(queue, t) \in Seq(Threads) /\ Distinct(tcb_queue_remove(queue, t))
         /\ \A u \in Threads : InQueue(tcb_queue_remove(queue, t), u) <=> InQueue(queue, u) /\ u # t
<1> DEFINE i == CHOOSE j \in 1 .. Len(queue) : queue[j] = t
           r == tcb_queue_remove(queue, t)
           n == Len(queue)
<1>1. i \in 1 .. n /\ queue[i] = t
  BY Zenon DEF InQueue
<1>2. r = [j \in 1 .. n - 1 |-> IF j < i THEN queue[j] ELSE queue[j + 1]]
  BY Zenon DEF tcb_queue_remove
<1>3. n \in Nat /\ \A j \in 1 .. n : queue[j] \in Threads
  OBVIOUS
<1> HIDE DEF i, r
<1>4. n - 1 \in Nat
  BY <1>1, <1>3
<1>5. \A j \in 1 .. n - 1 : r[j] = IF j < i THEN queue[j] ELSE queue[j + 1]
  BY <1>2, Zenon
<1>6. r \in Seq(Threads) /\ Len(r) = n - 1
  <2>1. \A j \in 1 .. n - 1 : (IF j < i THEN queue[j] ELSE queue[j + 1]) \in Threads
    BY <1>1, <1>3
  <2>2. r \in [1 .. n - 1 -> Threads]
    BY <1>2, <2>1, Zenon
  <2> QED BY <1>4, <2>2
<1>7. Distinct(r)
  <2> SUFFICES ASSUME NEW a \in 1 .. n - 1, NEW b \in 1 .. n - 1, r[a] = r[b]
               PROVE  a = b
    BY <1>6, Zenon DEF Distinct
  <2>1. \A x, y \in 1 .. n : queue[x] = queue[y] => x = y
    BY Zenon DEF Distinct
  <2> QED BY <1>1, <1>3, <1>5, <2>1
<1>8. ASSUME NEW u \in Threads
      PROVE  InQueue(r, u) <=> InQueue(queue, u) /\ u # t
  <2>1. \A x, y \in 1 .. n : queue[x] = queue[y] => x = y
    BY Zenon DEF Distinct
  <2>2. ASSUME InQueue(r, u) PROVE InQueue(queue, u) /\ u # t
    <3>1. PICK j \in 1 .. n - 1 : r[j] = u
      BY <1>6, <2>2, Zenon DEF InQueue
    <3>2. PICK m \in 1 .. n : m # i /\ queue[m] = u
      BY <1>1, <1>3, <1>5, <3>1
    <3> QED BY <1>1, <2>1, <3>2, Zenon DEF InQueue
  <2>3. ASSUME InQueue(queue, u), u # t PROVE InQueue(r, u)
    <3>1. PICK m \in 1 .. n : queue[m] = u
      BY <2>3, Zenon DEF InQueue
    <3>2. m # i
      BY <1>1, <2>3, <3>1, Zenon
    <3>3. CASE m < i
      <4>1. m \in 1 .. n - 1 /\ r[m] = u
        BY <1>1, <1>3, <1>5, <3>1, <3>3
      <4> QED BY <1>6, <4>1, Zenon DEF InQueue
    <3>4. CASE m > i
      <4>1. m - 1 \in 1 .. n - 1 /\ r[m - 1] = u
        BY <1>1, <1>3, <1>5, <3>1, <3>4
      <4> QED BY <1>6, <4>1, Zenon DEF InQueue
    <3> QED BY <1>1, <3>1, <3>2, <3>3, <3>4
  <2> QED BY <2>2, <2>3, Zenon
<1> QED BY <1>6, <1>7, <1>8, Zenon DEF r

\* The queues and bitmaps that tcbSchedDequeue leaves behind
LEMMA DequeuedEffect ==
  ASSUME NEW kk \in State, NEW t \in Threads, kk.tcbQueued[t],
         tcb_queue_remove(kk.ksReadyQueues[queueIndex(kk, t)], t) \in Seq(Threads)
  PROVE  LET r    == tcbSchedDequeue(kk, t)
             d    == kk.tcbDomain[t]
             i    == prio_to_l1index(kk.tcbPriority[t])
             new  == tcb_queue_remove(kk.ksReadyQueues[queueIndex(kk, t)], t)
             word == kk.ksReadyQueuesL2Bitmap[d][invert_l1index(i)]
                       \ (IF new = <<>> THEN {kk.tcbPriority[t] % wordBits} ELSE {})
         IN /\ r \in State /\ SameThreads(kk, r)
            /\ r.tcbQueued = [kk.tcbQueued EXCEPT ![t] = FALSE]
            /\ r.ksReadyQueues = [kk.ksReadyQueues EXCEPT ![queueIndex(kk, t)] = new]
            /\ r.ksReadyQueuesL1Bitmap =
                 [kk.ksReadyQueuesL1Bitmap EXCEPT ![d] = @ \ (IF new = <<>> /\ word = {} THEN {i} ELSE {})]
            /\ r.ksReadyQueuesL2Bitmap =
                 [kk.ksReadyQueuesL2Bitmap EXCEPT ![d] =
                    [kk.ksReadyQueuesL2Bitmap[d] EXCEPT ![invert_l1index(i)] = word]]
<1> DEFINE d == kk.tcbDomain[t]
           p == kk.tcbPriority[t]
           i == prio_to_l1index(p)
           v == invert_l1index(i)
           x == queueIndex(kk, t)
           new == tcb_queue_remove(kk.ksReadyQueues[x], t)
           word == kk.ksReadyQueuesL2Bitmap[d][v] \ (IF new = <<>> THEN {p % wordBits} ELSE {})
           r  == tcbSchedDequeue(kk, t)
           l1 == [kk.ksReadyQueuesL1Bitmap EXCEPT ![d] = @ \ (IF new = <<>> /\ word = {} THEN {i} ELSE {})]
           w2 == [kk.ksReadyQueuesL2Bitmap[d] EXCEPT ![v] = word]
           l2 == [kk.ksReadyQueuesL2Bitmap EXCEPT ![d] = w2]
           qs == [kk.ksReadyQueues EXCEPT ![x] = new]
           tq == [kk.tcbQueued EXCEPT ![t] = FALSE]
<1>1. d \in Domains /\ p \in Priorities
  BY Zenon DEF State
<1>2. i \in 0 .. L2_BITMAP_SIZE - 1 /\ v \in 0 .. L2_BITMAP_SIZE - 1 /\ p % wordBits \in 0 .. wordBits - 1
  BY <1>1, BitmapIndex, Zenon
<1>3. x \in 0 .. numDomains * CONFIG_NUM_PRIORITIES - 1
  BY <1>1, QueueIndex, Zenon DEF queueIndex
<1>4. kk.ksReadyQueuesL2Bitmap[d] \in [0 .. L2_BITMAP_SIZE - 1 -> SUBSET (0 .. wordBits - 1)]
  BY <1>1, Zenon DEF State
<1> HIDE DEF new
<1>5. r = [kk EXCEPT !.ksReadyQueuesL1Bitmap = l1, !.ksReadyQueuesL2Bitmap = l2,
                     !.ksReadyQueues = qs, !.tcbQueued = tq]
  <2>1. CASE new = <<>>
    <3>1. r = removeFromBitmap([kk EXCEPT !.ksReadyQueues[x] = new, !.tcbQueued[t] = FALSE], d, p)
      BY <2>1, Zenon DEF tcbSchedDequeue, new
    <3> DEFINE k1 == [kk EXCEPT !.ksReadyQueues = qs, !.tcbQueued = tq]
    <3>2. k1.ksReadyQueuesL1Bitmap = kk.ksReadyQueuesL1Bitmap /\ k1.ksReadyQueuesL2Bitmap = kk.ksReadyQueuesL2Bitmap
      BY Zenon DEF State
    <3>3. r = removeFromBitmap(k1, d, p)
      BY <3>1, Zenon
    <3> HIDE DEF k1, qs, tq, r
    <3>4. word = k1.ksReadyQueuesL2Bitmap[d][v] \ {p % wordBits}
      BY <2>1, <3>2, Zenon
    <3>5. r = [k1 EXCEPT !.ksReadyQueuesL2Bitmap[d][v] = word,
                         !.ksReadyQueuesL1Bitmap[d] = IF word = {} THEN @ \ {i} ELSE @]
      BY <3>3, <3>4, Zenon DEF removeFromBitmap
    <3>6. l1 = [kk.ksReadyQueuesL1Bitmap EXCEPT ![d] = IF word = {} THEN @ \ {i} ELSE @]
      <4> HIDE DEF word
      <4> QED BY <1>1, <2>1, Zenon DEF State
    <3>7. r = [k1 EXCEPT !.ksReadyQueuesL2Bitmap = l2, !.ksReadyQueuesL1Bitmap = l1]
      <4> HIDE DEF word
      <4> QED BY <3>2, <3>5, <3>6, Zenon DEF State, k1
    <3> HIDE DEF l1, l2
    <3> QED BY <3>7, Zenon DEF State, k1
  <2>2. CASE new # <<>>
    <3>1. r = [kk EXCEPT !.ksReadyQueues = qs, !.tcbQueued = tq]
      BY <2>2, Zenon DEF tcbSchedDequeue, State, new
    <3>3. l1 = kk.ksReadyQueuesL1Bitmap
      BY <1>1, <2>2, Zenon DEF State
    <3>4. l2 = kk.ksReadyQueuesL2Bitmap
      <4>1. word = kk.ksReadyQueuesL2Bitmap[d][v]
        BY <2>2, Zenon
      <4>2. w2 = kk.ksReadyQueuesL2Bitmap[d]
        BY <1>2, <1>4, <4>1, Zenon
      <4> HIDE DEF w2
      <4> QED BY <1>1, <4>2, Zenon DEF State
    <3> HIDE DEF r, l1, l2, qs, tq
    <3> QED BY <3>1, <3>3, <3>4, Zenon DEF State
  <2> QED BY <2>1, <2>2, Zenon
<1>6. l1 \in [Domains -> SUBSET (0 .. L2_BITMAP_SIZE - 1)]
  BY <1>1, <1>2, Zenon DEF State
<1>7. l2 \in [Domains -> [0 .. L2_BITMAP_SIZE - 1 -> SUBSET (0 .. wordBits - 1)]]
  <2>1. w2 \in [0 .. L2_BITMAP_SIZE - 1 -> SUBSET (0 .. wordBits - 1)]
    BY <1>2, <1>4, Zenon
  <2> HIDE DEF w2
  <2> QED BY <1>1, <2>1, Zenon DEF State
<1>8. /\ qs \in [0 .. numDomains * CONFIG_NUM_PRIORITIES - 1 -> Seq(Threads)]
      /\ tq \in [Threads -> BOOLEAN]
  BY <1>3, Zenon DEF State, new
<1> HIDE DEF r, l1, l2, qs, tq
<1>9. /\ r.ksReadyQueuesL1Bitmap = l1 /\ r.ksReadyQueuesL2Bitmap = l2
      /\ r.ksReadyQueues = qs /\ r.tcbQueued = tq /\ SameThreads(kk, r)
  BY <1>5, Zenon DEF State, SameThreads
<1>10. r \in State
  BY <1>5, <1>6, <1>7, <1>8, Zenon DEF State
<1> QED BY <1>9, <1>10, Zenon DEF r, l1, l2, qs, tq, new

\* What taking a thread out of its queue does, seen from outside the queues
LEMMA Dequeued ==
  ASSUME NEW kk, QueuesInv(kk), NEW t \in Threads
  PROVE  /\ QueuesInv(tcbSchedDequeue(kk, t)) /\ SameThreads(kk, tcbSchedDequeue(kk, t))
         /\ tcbSchedDequeue(kk, t).tcbQueued = [kk.tcbQueued EXCEPT ![t] = FALSE]
<1> DEFINE r == tcbSchedDequeue(kk, t)
           d == kk.tcbDomain[t]
           p == kk.tcbPriority[t]
           i == prio_to_l1index(p)
           v == invert_l1index(i)
           x == queueIndex(kk, t)
           new == tcb_queue_remove(kk.ksReadyQueues[x], t)
           word == kk.ksReadyQueuesL2Bitmap[d][v] \ (IF new = <<>> THEN {p % wordBits} ELSE {})
           Q(e, q) == kk.ksReadyQueues[ready_queues_index(e, q)]
           L2(e, q) == kk.ksReadyQueuesL2Bitmap[e][invert_l1index(prio_to_l1index(q))]
<1>1. kk \in State /\ d \in Domains /\ p \in Priorities
  BY Zenon DEF QueuesInv, State
<1>2. CASE ~kk.tcbQueued[t]
  <2>1. r = kk
    BY <1>2, Zenon DEF tcbSchedDequeue
  <2>2. [kk.tcbQueued EXCEPT ![t] = FALSE] = kk.tcbQueued
    BY <1>1, <1>2, Zenon DEF State
  <2> QED BY <2>1, <2>2, Zenon DEF SameThreads
<1>3. CASE kk.tcbQueued[t]
  <2>1. /\ kk.ksReadyQueues \in [0 .. numDomains * CONFIG_NUM_PRIORITIES - 1 -> Seq(Threads)]
        /\ x \in 0 .. numDomains * CONFIG_NUM_PRIORITIES - 1
        /\ kk.tcbQueued \in [Threads -> BOOLEAN]
    BY <1>1, QueueIndex, Zenon DEF queueIndex, State
  <2>2. /\ new \in Seq(Threads) /\ Distinct(new)
        /\ \A u \in Threads : InQueue(new, u) <=> InQueue(kk.ksReadyQueues[x], u) /\ u # t
    <3>1. InQueue(kk.ksReadyQueues[x], t)
      BY <1>3, Zenon DEF QueuesInv
    <3>2. QueueAgrees(kk, d, p)
      BY <1>1, Zenon DEF QueuesInv
    <3>3. Distinct(kk.ksReadyQueues[x])
      BY <3>2, Zenon DEF QueueAgrees, queueIndex
    <3> QED BY <2>1, <3>1, <3>3, Removed, Zenon
  <2>3. /\ r \in State /\ SameThreads(kk, r)
        /\ r.tcbQueued = [kk.tcbQueued EXCEPT ![t] = FALSE]
        /\ r.ksReadyQueues = [kk.ksReadyQueues EXCEPT ![x] = new]
        /\ r.ksReadyQueuesL1Bitmap =
             [kk.ksReadyQueuesL1Bitmap EXCEPT ![d] = @ \ (IF new = <<>> /\ word = {} THEN {i} ELSE {})]
        /\ r.ksReadyQueuesL2Bitmap =
             [kk.ksReadyQueuesL2Bitmap EXCEPT ![d] = [kk.ksReadyQueuesL2Bitmap[d] EXCEPT ![v] = word]]
    BY <1>1, <1>3, <2>2, DequeuedEffect, Zenon
  <2> HIDE DEF r, new
  <2>4. ASSUME NEW e \in Domains, NEW q \in Priorities
        PROVE  QueueAgrees(r, e, q)
    <3> DEFINE j == prio_to_l1index(q)
               u == invert_l1index(j)
               R == r.ksReadyQueues[ready_queues_index(e, q)]
    <3>1. QueueAgrees(kk, e, q)
      BY Zenon DEF QueuesInv
    <3>2. j \in 0 .. L2_BITMAP_SIZE - 1 /\ u \in 0 .. L2_BITMAP_SIZE - 1 /\ v \in 0 .. L2_BITMAP_SIZE - 1
      BY <1>1, BitmapIndex, Zenon
    <3>3. (j = i /\ q % wordBits = p % wordBits => q = p) /\ (u = v => j = i)
      BY <1>1, BitInjective, Zenon
    <3>4. R = IF e = d /\ q = p THEN new ELSE Q(e, q)
      <4>1. ready_queues_index(e, q) \in 0 .. numDomains * CONFIG_NUM_PRIORITIES - 1
        BY QueueIndex, Zenon
      <4>2. ready_queues_index(e, q) = x <=> e = d /\ q = p
        BY <1>1, QueueIndexInjective DEF queueIndex
      <4> HIDE DEF x
      <4> QED BY <2>1, <2>3, <4>1, <4>2, Zenon
    <3>5. r.ksReadyQueuesL2Bitmap[e][u] = IF e = d /\ u = v THEN word ELSE L2(e, q)
      <4> DEFINE W == [kk.ksReadyQueuesL2Bitmap[d] EXCEPT ![v] = word]
      <4>1. r.ksReadyQueuesL2Bitmap = [kk.ksReadyQueuesL2Bitmap EXCEPT ![d] = W]
        BY <2>3, Zenon
      <4>2. DOMAIN kk.ksReadyQueuesL2Bitmap = Domains
        BY <1>1, Zenon DEF State
      <4> HIDE DEF W
      <4>3. r.ksReadyQueuesL2Bitmap[e] = IF e = d THEN W ELSE kk.ksReadyQueuesL2Bitmap[e]
        BY <4>1, <4>2, Zenon
      <4>4. kk.ksReadyQueuesL2Bitmap[d] \in [0 .. L2_BITMAP_SIZE - 1 -> SUBSET (0 .. wordBits - 1)]
        BY <1>1, Zenon DEF State
      <4>5. W[u] = IF u = v THEN word ELSE kk.ksReadyQueuesL2Bitmap[d][u]
        <5> HIDE DEF word
        <5> QED BY <3>2, <4>4, Zenon DEF W
      <4> QED BY <4>3, <4>5, Zenon
    <3>6. r.ksReadyQueuesL1Bitmap[e] =
            kk.ksReadyQueuesL1Bitmap[e] \ (IF e = d /\ new = <<>> /\ word = {} THEN {i} ELSE {})
      <4> HIDE DEF word
      <4> QED BY <1>1, <2>3 DEF State
    <3>7. \A s \in Threads : r.tcbQueued[s] <=> s # t /\ kk.tcbQueued[s]
      BY <2>1, <2>3, Zenon
    <3>8. /\ q % wordBits \in L2(e, q) <=> Q(e, q) # <<>>
          /\ j \in kk.ksReadyQueuesL1Bitmap[e] <=> L2(e, q) # {}
          /\ \A s \in Threads : InQueue(Q(e, q), s) =>
               kk.tcbQueued[s] /\ kk.tcbDomain[s] = e /\ kk.tcbPriority[s] = q
          /\ Distinct(Q(e, q))
      BY <3>1, Zenon DEF QueueAgrees
    <3>9. e = d /\ u = v => L2(e, q) = kk.ksReadyQueuesL2Bitmap[d][v]
      OBVIOUS
    <3>10. e = d /\ q = p => Q(e, q) = kk.ksReadyQueues[x] /\ Q(e, q) # <<>>
      <4>1. InQueue(kk.ksReadyQueues[x], t)
        BY <1>3, Zenon DEF QueuesInv
      <4> QED BY <2>1, <4>1 DEF InQueue, queueIndex
    <3>11. q % wordBits \in r.ksReadyQueuesL2Bitmap[e][u] <=> R # <<>>
      BY <3>3, <3>4, <3>5, <3>8, <3>9, <3>10, Zenon
    <3>12. j \in r.ksReadyQueuesL1Bitmap[e] <=> r.ksReadyQueuesL2Bitmap[e][u] # {}
      <4>1. CASE e = d /\ u = v
        BY <3>3, <3>5, <3>6, <3>8, <3>9, <4>1, Zenon
      <4>2. CASE ~(e = d /\ u = v)
        BY <3>5, <3>6, <3>8, <4>2, Zenon
      <4> QED BY <4>1, <4>2, Zenon
    <3>13. ASSUME NEW s \in Threads, InQueue(R, s)
           PROVE  r.tcbQueued[s] /\ r.tcbDomain[s] = e /\ r.tcbPriority[s] = q
      <4>1. r.tcbDomain = kk.tcbDomain /\ r.tcbPriority = kk.tcbPriority
        BY <2>3, Zenon DEF SameThreads
      <4>2. CASE e = d /\ q = p
        <5>1. InQueue(Q(e, q), s) /\ s # t
          BY <2>2, <3>4, <3>10, <3>13, <4>2, Zenon
        <5> QED BY <3>7, <3>8, <4>1, <5>1, Zenon
      <4>3. CASE ~(e = d /\ q = p)
        <5>1. InQueue(Q(e, q), s)
          BY <3>4, <3>13, <4>3, Zenon
        <5> QED BY <3>7, <3>8, <4>1, <4>3, <5>1, Zenon
      <4> QED BY <4>2, <4>3, Zenon
    <3>14. Distinct(R)
      BY <2>2, <3>4, <3>8, Zenon
    <3> HIDE DEF R
    <3> QED BY <3>11, <3>12, <3>13, <3>14, Zenon DEF QueueAgrees, R
  <2>5. ASSUME NEW s \in Threads, r.tcbQueued[s]
        PROVE  InQueue(r.ksReadyQueues[queueIndex(r, s)], s)
    <3>1. queueIndex(r, s) = queueIndex(kk, s)
      BY <2>3, Zenon DEF queueIndex, SameThreads
    <3>2. queueIndex(kk, s) \in 0 .. numDomains * CONFIG_NUM_PRIORITIES - 1
      BY <1>1, QueueIndex, Zenon DEF queueIndex, State
    <3>3. s # t /\ kk.tcbQueued[s]
      BY <2>1, <2>3, <2>5, Zenon
    <3>4. InQueue(kk.ksReadyQueues[queueIndex(kk, s)], s)
      BY <3>3, Zenon DEF QueuesInv
    <3>5. r.ksReadyQueues[queueIndex(kk, s)] =
            IF queueIndex(kk, s) = x THEN new ELSE kk.ksReadyQueues[queueIndex(kk, s)]
      BY <2>1, <2>3, <3>2, Zenon
    <3> QED BY <2>2, <3>1, <3>3, <3>4, <3>5, Zenon
  <2>6. BitsOfPriorities(r)
    <3> SUFFICES ASSUME NEW e \in Domains
                 PROVE  /\ \A j \in r.ksReadyQueuesL1Bitmap[e] : \E q \in Priorities : j = prio_to_l1index(q)
                        /\ \A u \in 0 .. L2_BITMAP_SIZE - 1 : \A b \in r.ksReadyQueuesL2Bitmap[e][u] :
                             \E q \in Priorities : u = invert_l1index(prio_to_l1index(q)) /\ b = q % wordBits
      BY Zenon DEF BitsOfPriorities
    <3>1. \A j \in r.ksReadyQueuesL1Bitmap[e] : j \in kk.ksReadyQueuesL1Bitmap[e]
      <4> HIDE DEF word
      <4> QED BY <1>1, <2>3 DEF State
    <3>2. ASSUME NEW u \in 0 .. L2_BITMAP_SIZE - 1, NEW b \in r.ksReadyQueuesL2Bitmap[e][u]
          PROVE  b \in kk.ksReadyQueuesL2Bitmap[e][u]
      <4> DEFINE W == [kk.ksReadyQueuesL2Bitmap[d] EXCEPT ![v] = word]
      <4>1. r.ksReadyQueuesL2Bitmap = [kk.ksReadyQueuesL2Bitmap EXCEPT ![d] = W]
        BY <2>3, Zenon
      <4>2. DOMAIN kk.ksReadyQueuesL2Bitmap = Domains /\ DOMAIN kk.ksReadyQueuesL2Bitmap[d] = 0 .. L2_BITMAP_SIZE - 1
        BY <1>1, Zenon DEF State
      <4>3. W[u] = IF u = v THEN word ELSE kk.ksReadyQueuesL2Bitmap[d][u]
        <5> HIDE DEF word
        <5> QED BY <4>2, Zenon
      <4> HIDE DEF W
      <4>4. r.ksReadyQueuesL2Bitmap[e] = IF e = d THEN W ELSE kk.ksReadyQueuesL2Bitmap[e]
        BY <4>1, <4>2, Zenon
      <4> QED BY <3>2, <4>3, <4>4, Zenon
    <3> QED BY <3>1, <3>2, Zenon DEF QueuesInv, BitsOfPriorities
  <2> QED BY <2>3, <2>4, <2>5, <2>6, Zenon DEF QueuesInv, r
<1> QED BY <1>2, <1>3, Zenon

-----------------------------------------------------------------------------
(* Handlers *)

QueuedReady(kk) == \A t \in Threads : kk.tcbQueued[t] => kk.tcbState[t] = "Ready"

Covered(kk, X) == \A t \in Threads : kk.tcbState[t] = "Ready" => kk.tcbQueued[t] \/ t \in X

CurRuns(kk) ==
  kk.ksCurThread # idle =>
    /\ kk.tcbState[kk.ksCurThread] = "Ready" /\ ~kk.tcbQueued[kk.ksCurThread]
    /\ kk.tcbDomain[kk.ksCurThread] = kk.ksCurDomain

CurTop(kk) ==
  \A t \in Threads : kk.tcbQueued[t] /\ kk.tcbDomain[t] = kk.ksCurDomain /\ t \notin kk.moved =>
    kk.ksCurThread # idle /\ kk.tcbPriority[t] <= kk.tcbPriority[kk.ksCurThread]

ScheduleOK(kk) ==
  /\ kk.ksDomScheduleIdx \in 0 .. domScheduleLength - 2
  /\ isEndMarker(kk, domScheduleLength - 1) /\ ~isEndMarker(kk, kk.ksDomScheduleStart)
  /\ \A i \in Indices : kk.ksDomSchedule[i].duration = 0 => isEndMarker(kk, i)

CandidateOK(kk) ==
  kk.ksSchedulerAction \in Threads =>
    /\ kk.tcbState[kk.ksSchedulerAction] = "Ready"
    /\ kk.tcbDomain[kk.ksSchedulerAction] = kk.ksCurDomain

\* Within a kernel entry, while the threads of X are on their way to a queue
Pre(kk, X) ==
  /\ QueuesInv(kk) /\ QueuedReady(kk) /\ CandidateOK(kk) /\ ScheduleOK(kk)
  /\ Covered(kk, X \cup {kk.ksCurThread, kk.ksSchedulerAction})

\* At the end of a handler
Mid(kk) ==
  /\ Pre(kk, {})
  /\ kk.ksSchedulerAction = Resume => CurRuns(kk)
  /\ kk.ksSchedulerAction # Choose => CurTop(kk)
  /\ kk.ksDomainTime = 0 => numDomains > 1 \/ kk.ksSchedulerAction = Choose

\* When a thread has been chosen
Chosen(kk) ==
  /\ QueuesInv(kk) /\ QueuedReady(kk) /\ ScheduleOK(kk) /\ Covered(kk, {kk.ksCurThread})
  /\ CurRuns(kk) /\ CurTop(kk) /\ kk.ksDomainTime > 0

Inv(kk) == Chosen(kk) /\ kk.ksSchedulerAction = Resume

\* The queues do not depend on the other fields
SameQueues(kk, r) ==
  /\ r.ksReadyQueues = kk.ksReadyQueues /\ r.tcbQueued = kk.tcbQueued
  /\ r.ksReadyQueuesL1Bitmap = kk.ksReadyQueuesL1Bitmap
  /\ r.ksReadyQueuesL2Bitmap = kk.ksReadyQueuesL2Bitmap
  /\ r.tcbDomain = kk.tcbDomain /\ r.tcbPriority = kk.tcbPriority

\* A step of the kernel that assigns none of the fields tcbSchedEnqueue and
\* tcbSchedDequeue maintain keeps queues and bitmaps in agreement
LEMMA QueuesKept ==
  ASSUME NEW kk, QueuesInv(kk), NEW r \in State, SameQueues(kk, r)
  PROVE  QueuesInv(r)
<1>1. ASSUME NEW d \in Domains, NEW p \in Priorities PROVE QueueAgrees(r, d, p)
  <2>1. QueueAgrees(kk, d, p)
    BY Zenon DEF QueuesInv
  <2> QED BY <2>1, Zenon DEF QueueAgrees, SameQueues
<1>2. BitsOfPriorities(r)
  BY Zenon DEF QueuesInv, BitsOfPriorities, SameQueues
<1>3. ASSUME NEW t \in Threads, r.tcbQueued[t] PROVE InQueue(r.ksReadyQueues[queueIndex(r, t)], t)
  BY <1>3, Zenon DEF QueuesInv, SameQueues, queueIndex
<1> QED BY <1>1, <1>2, <1>3, Zenon DEF QueuesInv

\* A thread that is in no queue may be given another domain or priority
LEMMA QueuesMoved ==
  ASSUME NEW kk, QueuesInv(kk), NEW t \in Threads, ~kk.tcbQueued[t], NEW r \in State,
         r.ksReadyQueues = kk.ksReadyQueues, r.tcbQueued = kk.tcbQueued,
         r.ksReadyQueuesL1Bitmap = kk.ksReadyQueuesL1Bitmap,
         r.ksReadyQueuesL2Bitmap = kk.ksReadyQueuesL2Bitmap,
         \A u \in Threads \ {t} : r.tcbDomain[u] = kk.tcbDomain[u] /\ r.tcbPriority[u] = kk.tcbPriority[u]
  PROVE  QueuesInv(r)
<1>1. ASSUME NEW d \in Domains, NEW p \in Priorities PROVE QueueAgrees(r, d, p)
  <2>1. QueueAgrees(kk, d, p)
    BY Zenon DEF QueuesInv
  <2>2. \A u \in Threads : InQueue(kk.ksReadyQueues[ready_queues_index(d, p)], u) => u # t
    BY <2>1, Zenon DEF QueueAgrees
  <2> QED BY <2>1, <2>2, Zenon DEF QueueAgrees
<1>2. BitsOfPriorities(r)
  BY Zenon DEF QueuesInv, BitsOfPriorities
<1>3. ASSUME NEW u \in Threads, r.tcbQueued[u] PROVE InQueue(r.ksReadyQueues[queueIndex(r, u)], u)
  <2>1. u # t /\ kk.tcbQueued[u]
    BY <1>3, Zenon
  <2>2. queueIndex(r, u) = queueIndex(kk, u)
    BY <2>1, Zenon DEF queueIndex
  <2> QED BY <2>1, <2>2, Zenon DEF QueuesInv
<1> QED BY <1>1, <1>2, <1>3, Zenon DEF QueuesInv

\* A field that is assigned a value of its type
LEMMA SetAction ==
  ASSUME NEW kk \in State, NEW a \in Threads \cup {Resume, Choose}
  PROVE  LET r == [kk EXCEPT !.ksSchedulerAction = a]
         IN /\ r \in State
            /\ SameQueues(kk, r) /\ r.ksSchedulerAction = a /\ r.tcbState = kk.tcbState
            /\ r.ksCurThread = kk.ksCurThread /\ r.ksCurDomain = kk.ksCurDomain
            /\ r.ksDomainTime = kk.ksDomainTime /\ r.ksDomScheduleIdx = kk.ksDomScheduleIdx
            /\ r.ksDomScheduleStart = kk.ksDomScheduleStart /\ r.ksDomSchedule = kk.ksDomSchedule
            /\ r.moved = kk.moved
<1> DEFINE r == [kk EXCEPT !.ksSchedulerAction = a]
<1>1. r \in State
  BY Zenon DEF State
<1>2. SameQueues(kk, r)
  BY Zenon DEF State, SameQueues
<1>3. /\ r.ksSchedulerAction = a /\ r.tcbState = kk.tcbState
            /\ r.ksCurThread = kk.ksCurThread /\ r.ksCurDomain = kk.ksCurDomain
            /\ r.ksDomainTime = kk.ksDomainTime /\ r.ksDomScheduleIdx = kk.ksDomScheduleIdx
            /\ r.ksDomScheduleStart = kk.ksDomScheduleStart /\ r.ksDomSchedule = kk.ksDomSchedule
            /\ r.moved = kk.moved
  BY Zenon DEF State
<1> QED BY <1>1, <1>2, <1>3, Zenon

\* Enqueueing a ready thread, and asking for a reschedule, within an entry
LEMMA PreEnqueue ==
  ASSUME NEW kk, NEW X, Pre(kk, X), NEW t \in Threads, kk.tcbState[t] = "Ready",
         NEW r \in {tcbSchedEnqueue(kk, t), tcbSchedAppend(kk, t)}
  PROVE  /\ Pre(r, X \ {t}) /\ SameThreads(kk, r)
         /\ \A u \in Threads : r.tcbQueued[u] <=> u = t \/ kk.tcbQueued[u]
<1>1. QueuesInv(r) /\ SameThreads(kk, r) /\ r.tcbQueued = [kk.tcbQueued EXCEPT ![t] = TRUE]
  BY Enqueued DEF Pre
<1>2. \A u \in Threads : r.tcbQueued[u] <=> u = t \/ kk.tcbQueued[u]
  <2>1. kk.tcbQueued \in [Threads -> BOOLEAN]
    BY Zenon DEF Pre, QueuesInv, State
  <2> QED BY <1>1, <2>1, Zenon
<1>3. QueuedReady(r)
  BY <1>1, <1>2 DEF QueuedReady, Pre, SameThreads
<1>4. CandidateOK(r) /\ ScheduleOK(r)
  BY <1>1, Zenon DEF CandidateOK, ScheduleOK, isEndMarker, Pre, SameThreads
<1>5. Covered(r, (X \ {t}) \cup {r.ksCurThread, r.ksSchedulerAction})
  BY <1>1, <1>2, Zenon DEF Covered, Pre, SameThreads
<1> QED BY <1>1, <1>2, <1>3, <1>4, <1>5, Zenon DEF Pre

\* rescheduleRequired puts a ready candidate back into its queue
LEMMA Reschedule ==
  ASSUME NEW kk, NEW X, Pre(kk, X)
  PROVE  /\ Pre(rescheduleRequired(kk), X)
         /\ rescheduleRequired(kk).ksSchedulerAction = Choose
         /\ rescheduleRequired(kk).tcbState = kk.tcbState
         /\ rescheduleRequired(kk).ksCurThread = kk.ksCurThread
         /\ rescheduleRequired(kk).ksDomainTime = kk.ksDomainTime
<1> DEFINE a  == kk.ksSchedulerAction
           k1 == IF isSchedulable(kk, a) THEN tcbSchedEnqueue(kk, a) ELSE kk
           r  == [k1 EXCEPT !.ksSchedulerAction = Choose]
<1>1. Pre(k1, X) /\ SameThreads(kk, k1) /\ (a \in Threads => k1.tcbQueued[a])
  <2>1. CASE a \in Threads
    <3>1. kk.tcbState[a] = "Ready"
      BY <2>1, Zenon DEF Pre, CandidateOK
    <3>2. Pre(k1, X \ {a}) /\ SameThreads(kk, k1) /\ k1.tcbQueued[a]
      BY <2>1, <3>1, PreEnqueue, Zenon DEF isSchedulable
    <3> QED BY <3>2, Zenon DEF Pre, Covered
  <2>2. CASE a \notin Threads
    BY <2>2, Zenon DEF isSchedulable, SameThreads
  <2> QED BY <2>1, <2>2, Zenon
<1>2. r = rescheduleRequired(kk)
  BY Zenon DEF rescheduleRequired
<1> HIDE DEF k1
<1>3. k1 \in State
  BY <1>1, Zenon DEF Pre, QueuesInv
<1>4. /\ r \in State /\ SameQueues(k1, r) /\ r.ksSchedulerAction = Choose /\ r.tcbState = k1.tcbState
      /\ r.ksCurThread = k1.ksCurThread /\ r.ksDomainTime = k1.ksDomainTime
      /\ r.ksDomScheduleIdx = k1.ksDomScheduleIdx /\ r.ksDomScheduleStart = k1.ksDomScheduleStart
      /\ r.ksDomSchedule = k1.ksDomSchedule
  BY <1>3, SetAction, Zenon
<1> HIDE DEF r
<1>5. QueuesInv(r)
  BY <1>1, <1>4, QueuesKept, Zenon DEF Pre
<1>6. QueuedReady(r) /\ ScheduleOK(r)
  BY <1>1, <1>4 DEF Pre, QueuedReady, ScheduleOK, isEndMarker, SameQueues
<1>7. CandidateOK(r)
  BY <1>4, SchedulerConstants, Zenon DEF CandidateOK
<1>8. Covered(r, X \cup {r.ksCurThread, r.ksSchedulerAction})
  BY <1>1, <1>4, Zenon DEF Pre, Covered, SameQueues, SameThreads
<1>9. r.tcbState = kk.tcbState /\ r.ksCurThread = kk.ksCurThread /\ r.ksDomainTime = kk.ksDomainTime
  BY <1>1, <1>4, Zenon DEF SameThreads
<1> QED BY <1>2, <1>4, <1>5, <1>6, <1>7, <1>8, <1>9, Zenon DEF Pre

\* A handler may end with rescheduleRequired
LEMMA RescheduleMid ==
  ASSUME NEW kk, Pre(kk, {})
  PROVE  Mid(rescheduleRequired(kk))
BY Reschedule, Zenon DEF Mid, Resume, Choose

\* A thread other than the current one becomes ready, or has to wait
LEMMA PossibleSwitch ==
  ASSUME NEW kk, Mid(kk), NEW t \in Threads, kk.tcbState[t] # "Ready", t # kk.ksCurThread
  PROVE  LET r == possibleSwitchTo([kk EXCEPT !.tcbState[t] = "Ready"], t)
         IN /\ Mid(r) /\ r.ksCurThread = kk.ksCurThread
            /\ kk.ksSchedulerAction = Resume =>
                 \A u \in Threads : r.tcbQueued[u] \/ r.ksSchedulerAction = u => u = t \/ kk.tcbQueued[u]
<1> DEFINE k1 == [kk EXCEPT !.tcbState[t] = "Ready"]
           r  == possibleSwitchTo(k1, t)
<1> SUFFICES /\ Mid(r) /\ r.ksCurThread = kk.ksCurThread
             /\ kk.ksSchedulerAction = Resume =>
                  \A u \in Threads : r.tcbQueued[u] \/ r.ksSchedulerAction = u => u = t \/ kk.tcbQueued[u]
  OBVIOUS
<1> HIDE DEF r
<1>1. kk \in State /\ Pre(kk, {})
  BY Zenon DEF Mid, Pre, QueuesInv
<1>2. k1 \in State
  <2>1. [kk.tcbState EXCEPT ![t] = "Ready"] \in [Threads -> {"Ready", "Waiting", "Blocked"}]
    BY <1>1, Zenon DEF State
  <2> QED BY <1>1, <2>1, Zenon DEF State
<1>3. /\ SameQueues(kk, k1) /\ k1.ksSchedulerAction = kk.ksSchedulerAction
      /\ k1.ksCurThread = kk.ksCurThread /\ k1.ksCurDomain = kk.ksCurDomain
      /\ k1.ksDomainTime = kk.ksDomainTime /\ k1.ksDomScheduleIdx = kk.ksDomScheduleIdx
      /\ k1.ksDomScheduleStart = kk.ksDomScheduleStart /\ k1.ksDomSchedule = kk.ksDomSchedule
      /\ k1.moved = kk.moved
  BY <1>1, Zenon DEF State, SameQueues
<1>4. \A u \in Threads : k1.tcbState[u] = IF u = t THEN "Ready" ELSE kk.tcbState[u]
  BY <1>1, Zenon DEF State
<1> HIDE DEF k1
<1>5. Pre(k1, {t})
  <2>1. QueuesInv(k1)
    BY <1>1, <1>2, <1>3, QueuesKept, Zenon DEF Pre
  <2>2. QueuedReady(k1)
    BY <1>1, <1>3, <1>4, Zenon DEF Pre, QueuedReady, SameQueues
  <2>3. CandidateOK(k1) /\ ScheduleOK(k1)
    BY <1>1, <1>3, <1>4, ZenonT(60) DEF Pre, CandidateOK, ScheduleOK, isEndMarker, SameQueues
  <2>4. Covered(k1, {t} \cup {k1.ksCurThread, k1.ksSchedulerAction})
    BY <1>1, <1>3, <1>4, Zenon DEF Pre, Covered, SameQueues
  <2> QED BY <2>1, <2>2, <2>3, <2>4, Zenon DEF Pre
<1>6. k1.tcbState[t] = "Ready" /\ ~kk.tcbQueued[t]
  BY <1>1, <1>4, Zenon DEF Pre, QueuedReady
<1>7. CASE k1.ksCurDomain # k1.tcbDomain[t]
  <2>1. r = tcbSchedEnqueue(k1, t)
    BY <1>7, Zenon DEF possibleSwitchTo, r
  <2>2. /\ Pre(r, {t} \ {t}) /\ SameThreads(k1, r)
        /\ \A u \in Threads : r.tcbQueued[u] <=> u = t \/ k1.tcbQueued[u]
    BY <1>5, <1>6, <2>1, PreEnqueue
  <2>3. {t} \ {t} = {}
    OBVIOUS
  <2>4. r.ksSchedulerAction = Resume => CurRuns(r)
    <3>1. kk.ksCurThread \in Threads \cup {idle}
      BY <1>1, Zenon DEF State
    <3> QED BY <1>3, <1>4, <2>2, <3>1 DEF Mid, CurRuns, SameThreads, SameQueues
  <2>5. r.ksSchedulerAction # Choose => CurTop(r)
    BY <1>3, <1>7, <2>2 DEF Mid, CurTop, SameThreads, SameQueues
  <2>6. r.ksDomainTime = 0 => numDomains > 1 \/ r.ksSchedulerAction = Choose
    BY <1>3, <2>2, Zenon DEF Mid, SameThreads
  <2>7. Mid(r)
    BY <2>2, <2>3, <2>4, <2>5, <2>6, Zenon DEF Mid
  <2>8. Resume \notin Threads
    BY SchedulerConstants, Zenon
  <2> QED BY <1>3, <2>2, <2>7, <2>8, Zenon DEF SameThreads, SameQueues
<1>8. CASE k1.ksCurDomain = k1.tcbDomain[t] /\ k1.ksSchedulerAction # Resume
  <2> DEFINE k2 == rescheduleRequired(k1)
  <2>1. r = tcbSchedEnqueue(k2, t)
    BY <1>8, Zenon DEF possibleSwitchTo, r
  <2>2. Pre(k2, {t}) /\ k2.ksSchedulerAction = Choose /\ k2.tcbState = k1.tcbState /\ k2.ksCurThread = k1.ksCurThread
    BY <1>5, Reschedule, Zenon
  <2> HIDE DEF k2
  <2>3. Pre(r, {t} \ {t}) /\ SameThreads(k2, r)
    BY <1>6, <2>1, <2>2, PreEnqueue, Zenon
  <2>4. {t} \ {t} = {}
    OBVIOUS
  <2>5. r.ksSchedulerAction = Choose /\ r.ksCurThread = kk.ksCurThread /\ Choose # Resume
    BY <1>3, <2>2, <2>3, Zenon DEF SameThreads, Choose, Resume
  <2> QED BY <1>3, <1>8, <2>3, <2>4, <2>5, Zenon DEF Mid
<1>9. CASE k1.ksCurDomain = k1.tcbDomain[t] /\ k1.ksSchedulerAction = Resume
  <2>1. r = [k1 EXCEPT !.ksSchedulerAction = t]
    BY <1>9, Zenon DEF possibleSwitchTo, r
  <2>2. /\ r \in State
        /\ SameQueues(k1, r) /\ r.ksSchedulerAction = t /\ r.tcbState = k1.tcbState
        /\ r.ksCurThread = k1.ksCurThread /\ r.ksCurDomain = k1.ksCurDomain
        /\ r.ksDomainTime = k1.ksDomainTime /\ r.ksDomScheduleIdx = k1.ksDomScheduleIdx
        /\ r.ksDomScheduleStart = k1.ksDomScheduleStart /\ r.ksDomSchedule = k1.ksDomSchedule
        /\ r.moved = k1.moved
    BY <1>2, <2>1, SetAction, ZenonT(60)
  <2>3. QueuesInv(r)
    BY <1>5, <2>2, QueuesKept, Zenon DEF Pre
  <2>4. QueuedReady(r) /\ ScheduleOK(r)
    BY <1>5, <2>2, ZenonT(60) DEF Pre, QueuedReady, ScheduleOK, isEndMarker, SameQueues
  <2>5. CandidateOK(r)
    BY <1>6, <1>9, <2>2, Zenon DEF CandidateOK, SameQueues
  <2>6. Resume \notin Threads /\ Choose \notin Threads /\ Resume # Choose
    BY SchedulerConstants, Zenon DEF Resume, Choose
  <2>7. Covered(r, {} \cup {r.ksCurThread, r.ksSchedulerAction})
    BY <1>5, <1>9, <2>2, <2>6, Zenon DEF Pre, Covered, SameQueues
  <2>8. CurTop(r)
    BY <1>3, <1>9, <2>2, <2>6 DEF Mid, CurTop, SameQueues
  <2>9. r.ksDomainTime = 0 => numDomains > 1
    BY <1>3, <1>9, <2>2, <2>6, Zenon DEF Mid
  <2>10. Mid(r)
    BY <2>2, <2>3, <2>4, <2>5, <2>6, <2>7, <2>8, <2>9, Zenon DEF Mid, Pre
  <2> QED BY <1>3, <2>2, <2>10, Zenon DEF SameQueues
<1> QED BY <1>7, <1>8, <1>9, Zenon

SameEntry(kk, r) ==
  /\ r.ksCurThread = kk.ksCurThread /\ r.ksCurDomain = kk.ksCurDomain
  /\ r.ksDomainTime = kk.ksDomainTime /\ r.ksDomScheduleIdx = kk.ksDomScheduleIdx
  /\ r.ksDomScheduleStart = kk.ksDomScheduleStart /\ r.ksDomSchedule = kk.ksDomSchedule

Restate(kk, t, ts) == [kk EXCEPT !.tcbState[t] = ts]

Restated(kk, t, ts, r) ==
  /\ r \in State /\ SameQueues(kk, r) /\ SameEntry(kk, r)
  /\ r.ksSchedulerAction = kk.ksSchedulerAction /\ r.moved = kk.moved
  /\ \A u \in Threads : r.tcbState[u] = IF u = t THEN ts ELSE kk.tcbState[u]

\* An assignment to tcbState, as setThreadState makes it, changes nothing else
LEMMA SetState ==
  ASSUME NEW kk \in State, NEW t \in Threads, NEW ts \in {"Ready", "Waiting", "Blocked"}
  PROVE  Restated(kk, t, ts, Restate(kk, t, ts))
<1> DEFINE r == [kk EXCEPT !.tcbState[t] = ts]
<1>1. [kk.tcbState EXCEPT ![t] = ts] \in [Threads -> {"Ready", "Waiting", "Blocked"}]
  BY Zenon DEF State
<1>2. r \in State
  BY <1>1, Zenon DEF State
<1>3. SameQueues(kk, r) /\ SameEntry(kk, r)
  BY Zenon DEF State, SameQueues, SameEntry
<1>4. /\ r.ksSchedulerAction = kk.ksSchedulerAction /\ r.moved = kk.moved
      /\ \A u \in Threads : r.tcbState[u] = IF u = t THEN ts ELSE kk.tcbState[u]
  BY Zenon DEF State
<1> QED BY <1>2, <1>3, <1>4, Zenon DEF Restate, Restated

\* The scheduler actions and the idle thread are none of the threads
LEMMA Constants ==
  /\ idle \notin Threads /\ Resume \notin Threads /\ Choose \notin Threads /\ Resume # Choose
BY SchedulerConstants, Zenon DEF Resume, Choose

\* The current thread blocks
LEMMA BlockCurrent ==
  ASSUME NEW kk, Mid(kk), kk.ksCurThread \in Threads, ~kk.tcbQueued[kk.ksCurThread],
         kk.ksSchedulerAction # kk.ksCurThread
  PROVE  LET r == setThreadState(kk, kk.ksCurThread, "Blocked")
         IN /\ Mid(r) /\ r.ksCurThread = kk.ksCurThread
            /\ \A u \in Threads : u # kk.ksCurThread => r.tcbState[u] = kk.tcbState[u]
<1> DEFINE t  == kk.ksCurThread
           k1 == [kk EXCEPT !.tcbState[t] = "Blocked"]
           r  == setThreadState(kk, t, "Blocked")
<1> SUFFICES Mid(r) /\ r.ksCurThread = t /\ \A u \in Threads : u # t => r.tcbState[u] = kk.tcbState[u]
  OBVIOUS
<1>1. kk \in State /\ Pre(kk, {})
  BY Zenon DEF Mid, Pre, QueuesInv
<1>2. /\ k1 \in State /\ SameQueues(kk, k1) /\ SameEntry(kk, k1)
      /\ k1.ksSchedulerAction = kk.ksSchedulerAction /\ k1.moved = kk.moved
      /\ \A u \in Threads : k1.tcbState[u] = IF u = t THEN "Blocked" ELSE kk.tcbState[u]
  <2>1. k1 = Restate(kk, t, "Blocked")
    BY Zenon DEF Restate
  <2> HIDE DEF k1
  <2>2. Restated(kk, t, "Blocked", k1)
    BY <1>1, <2>1, SetState, Zenon
  <2> QED BY <2>2, Zenon DEF Restated
<1>3. r = IF kk.ksSchedulerAction = Resume THEN [k1 EXCEPT !.ksSchedulerAction = Choose] ELSE k1
  BY <1>2 DEF setThreadState, isSchedulable
<1> HIDE DEF k1, r
<1>4. QueuesInv(k1) /\ QueuedReady(k1) /\ ScheduleOK(k1) /\ CandidateOK(k1)
  <2>1. QueuesInv(k1)
    BY <1>1, <1>2, QueuesKept, Zenon DEF Pre
  <2> QED BY <1>1, <1>2, <2>1 DEF Pre, QueuedReady, ScheduleOK, isEndMarker, CandidateOK,
             SameQueues, SameEntry
<1>5. Covered(k1, {k1.ksSchedulerAction})
  BY <1>1, <1>2, Zenon DEF Pre, Covered, SameQueues, SameEntry
<1>6. CASE kk.ksSchedulerAction = Resume
  <2>1. /\ r \in State /\ SameQueues(k1, r) /\ r.ksSchedulerAction = Choose /\ r.tcbState = k1.tcbState
        /\ r.ksCurThread = k1.ksCurThread /\ r.ksCurDomain = k1.ksCurDomain
        /\ r.ksDomainTime = k1.ksDomainTime /\ r.ksDomScheduleIdx = k1.ksDomScheduleIdx
        /\ r.ksDomScheduleStart = k1.ksDomScheduleStart /\ r.ksDomSchedule = k1.ksDomSchedule
        /\ r.moved = k1.moved
    BY <1>2, <1>3, <1>6, SetAction
  <2>2. QueuesInv(r)
    BY <1>4, <2>1, QueuesKept, Zenon
  <2>3. QueuedReady(r) /\ ScheduleOK(r) /\ CandidateOK(r)
    BY <1>4, <2>1, Constants, Zenon DEF QueuedReady, ScheduleOK, isEndMarker, CandidateOK,
       SameQueues
  <2>4. Covered(r, {} \cup {r.ksCurThread, r.ksSchedulerAction})
    BY <1>2, <1>5, <1>6, <2>1, Constants, Zenon DEF Covered, SameQueues
  <2> QED BY <1>2, <2>1, <2>2, <2>3, <2>4, Constants, Zenon DEF Mid, Pre, SameEntry
<1>7. CASE kk.ksSchedulerAction # Resume
  <2>1. r = k1
    BY <1>3, <1>7, Zenon
  <2>2. Covered(k1, {} \cup {k1.ksCurThread, k1.ksSchedulerAction})
    BY <1>5, Zenon DEF Covered
  <2>3. k1.ksSchedulerAction # Choose => CurTop(k1)
    BY <1>2, Zenon DEF Mid, CurTop, SameQueues, SameEntry
  <2>4. k1.ksDomainTime = 0 => numDomains > 1 \/ k1.ksSchedulerAction = Choose
    BY <1>2, Zenon DEF Mid, SameEntry
  <2> QED BY <1>2, <1>4, <1>7, <2>1, <2>2, <2>3, <2>4, Zenon DEF Mid, Pre, SameEntry
<1> QED BY <1>6, <1>7, Zenon

\* A thread that is not ready begins to wait for budget
LEMMA BeginsToWait ==
  ASSUME NEW kk, Mid(kk), NEW t \in Threads, kk.tcbState[t] # "Ready"
  PROVE  LET r == [kk EXCEPT !.tcbState[t] = "Waiting"]
         IN /\ Mid(r) /\ r.ksCurThread = kk.ksCurThread /\ r.ksSchedulerAction = kk.ksSchedulerAction
            /\ r.tcbQueued = kk.tcbQueued
<1> DEFINE r == [kk EXCEPT !.tcbState[t] = "Waiting"]
<1>1. kk \in State /\ Pre(kk, {}) /\ kk.ksCurThread \in Threads \cup {idle}
  BY Zenon DEF Mid, Pre, QueuesInv, State
<1>2. /\ r \in State /\ SameQueues(kk, r) /\ SameEntry(kk, r)
      /\ r.ksSchedulerAction = kk.ksSchedulerAction /\ r.moved = kk.moved
      /\ \A u \in Threads : r.tcbState[u] = IF u = t THEN "Waiting" ELSE kk.tcbState[u]
  <2>1. r = Restate(kk, t, "Waiting")
    BY Zenon DEF Restate
  <2> HIDE DEF r
  <2>2. Restated(kk, t, "Waiting", r)
    BY <1>1, <2>1, SetState, Zenon
  <2> QED BY <2>2, Zenon DEF Restated
<1> HIDE DEF r
<1>3. QueuesInv(r)
  BY <1>1, <1>2, QueuesKept, Zenon DEF Pre
<1>4. QueuedReady(r) /\ ScheduleOK(r) /\ CandidateOK(r)
  BY <1>1, <1>2 DEF Pre, QueuedReady, ScheduleOK, isEndMarker, CandidateOK, SameQueues, SameEntry
<1>5. Covered(r, {} \cup {r.ksCurThread, r.ksSchedulerAction})
  BY <1>1, <1>2, Zenon DEF Pre, Covered, SameQueues, SameEntry
<1>6. r.ksSchedulerAction = Resume => CurRuns(r)
  BY <1>1, <1>2, Zenon DEF Mid, CurRuns, SameQueues, SameEntry
<1>7. r.ksSchedulerAction # Choose => CurTop(r)
  BY <1>2, Zenon DEF Mid, CurTop, SameQueues, SameEntry
<1>8. r.ksDomainTime = 0 => numDomains > 1 \/ r.ksSchedulerAction = Choose
  BY <1>2, Zenon DEF Mid, SameEntry
<1>9. Mid(r)
  BY <1>3, <1>4, <1>5, <1>6, <1>7, <1>8, Zenon DEF Mid, Pre
<1> QED BY <1>2, <1>9, Zenon DEF SameQueues, SameEntry, r

\* Between the time stamp of an entry and its handler
Start(kk) == Mid(kk) /\ kk.ksSchedulerAction = Resume

\* tcbSchedDequeue takes one thread out of its queue, and no other
LEMMA DequeuedAt ==
  ASSUME NEW kk, QueuesInv(kk), NEW t \in Threads
  PROVE  /\ QueuesInv(tcbSchedDequeue(kk, t)) /\ SameThreads(kk, tcbSchedDequeue(kk, t))
         /\ \A u \in Threads : tcbSchedDequeue(kk, t).tcbQueued[u] <=> u # t /\ kk.tcbQueued[u]
<1> DEFINE r == tcbSchedDequeue(kk, t)
<1>1. QueuesInv(r) /\ SameThreads(kk, r) /\ r.tcbQueued = [kk.tcbQueued EXCEPT ![t] = FALSE]
  BY Dequeued, Zenon
<1>2. kk.tcbQueued \in [Threads -> BOOLEAN]
  BY Zenon DEF QueuesInv, State
<1> HIDE DEF r
<1>3. \A u \in Threads : r.tcbQueued[u] <=> u # t /\ kk.tcbQueued[u]
  BY <1>1, <1>2, Zenon
<1> QED BY <1>1, <1>3, Zenon DEF r

\* suspend: a thread blocks and leaves its queue, and may be the current one
LEMMA SuspendMid ==
  ASSUME NEW kk, Start(kk), NEW t \in Threads
  PROVE  Mid(setThreadState(tcbSchedDequeue(kk, t), t, "Blocked"))
<1> DEFINE k1 == tcbSchedDequeue(kk, t)
           k2 == Restate(k1, t, "Blocked")
           r  == setThreadState(k1, t, "Blocked")
<1> SUFFICES Mid(r)
  OBVIOUS
<1>1. QueuesInv(kk) /\ Pre(kk, {}) /\ kk.ksCurThread \in Threads \cup {idle}
  BY Zenon DEF Start, Mid, Pre, QueuesInv, State
<1>2. /\ QueuesInv(k1) /\ SameThreads(kk, k1)
      /\ \A u \in Threads : k1.tcbQueued[u] <=> u # t /\ kk.tcbQueued[u]
  BY <1>1, DequeuedAt, Zenon
<1> HIDE DEF k1
<1>3. Restated(k1, t, "Blocked", k2)
  BY <1>2, SetState, Zenon DEF QueuesInv
<1>4. r = IF t = kk.ksCurThread THEN [k2 EXCEPT !.ksSchedulerAction = Choose] ELSE k2
  <2>1. k2.tcbState[t] # "Ready"
    BY <1>3, Zenon DEF Restated
  <2>2. k1.ksSchedulerAction = Resume /\ k1.ksCurThread = kk.ksCurThread
    BY <1>2, Zenon DEF Start, SameThreads
  <2> QED BY <2>1, <2>2, Zenon DEF setThreadState, isSchedulable, Restate
<1> HIDE DEF k2, r
<1>5. /\ r \in State /\ SameQueues(k1, r) /\ SameEntry(k1, r) /\ r.moved = k1.moved
      /\ r.ksSchedulerAction = IF t = kk.ksCurThread THEN Choose ELSE Resume
      /\ \A u \in Threads : r.tcbState[u] = IF u = t THEN "Blocked" ELSE k1.tcbState[u]
  <2>1. CASE t = kk.ksCurThread
    <3>1. k2 \in State
      BY <1>3, Zenon DEF Restated
    <3>2. r = [k2 EXCEPT !.ksSchedulerAction = Choose]
      BY <1>4, <2>1, Zenon
    <3>3. /\ r \in State
          /\ SameQueues(k2, r) /\ r.ksSchedulerAction = Choose /\ r.tcbState = k2.tcbState
          /\ r.ksCurThread = k2.ksCurThread /\ r.ksCurDomain = k2.ksCurDomain
          /\ r.ksDomainTime = k2.ksDomainTime /\ r.ksDomScheduleIdx = k2.ksDomScheduleIdx
          /\ r.ksDomScheduleStart = k2.ksDomScheduleStart /\ r.ksDomSchedule = k2.ksDomSchedule
          /\ r.moved = k2.moved
      BY <3>1, <3>2, SetAction, ZenonT(60)
    <3> QED BY <1>3, <2>1, <3>3, Zenon DEF Restated, SameQueues, SameEntry
  <2>2. CASE t # kk.ksCurThread
    BY <1>2, <1>3, <1>4, <2>2, Zenon DEF Restated, Start, SameThreads
  <2> QED BY <2>1, <2>2, Zenon
<1>6. QueuesInv(r)
  BY <1>2, <1>5, QueuesKept, Zenon
<1>7. QueuedReady(r)
  BY <1>1, <1>2, <1>5 DEF Pre, QueuedReady, SameThreads, SameQueues
<1>8. ScheduleOK(r) /\ CandidateOK(r)
  BY <1>1, <1>2, <1>5, Constants DEF Pre, ScheduleOK, isEndMarker, CandidateOK, SameThreads,
     SameQueues, SameEntry
<1>9. Covered(r, {} \cup {r.ksCurThread, r.ksSchedulerAction})
  BY <1>1, <1>2, <1>5, Constants, Zenon DEF Pre, Start, Covered, SameThreads, SameQueues,
     SameEntry
<1>10. r.ksSchedulerAction = Resume => CurRuns(r)
  BY <1>1, <1>2, <1>5, Constants DEF Start, Mid, CurRuns, SameThreads, SameQueues, SameEntry
<1>11. CurTop(r)
  BY <1>2, <1>5, Constants DEF Start, Mid, CurTop, SameThreads, SameQueues, SameEntry
<1>12. r.ksDomainTime = 0 => numDomains > 1
  BY <1>2, <1>5, Constants, Zenon DEF Start, Mid, SameThreads, SameEntry
<1> QED BY <1>6, <1>7, <1>8, <1>9, <1>10, <1>11, <1>12, Zenon DEF Mid, Pre

\* The budget of the current thread ends
LEMMA PostponeMid ==
  ASSUME NEW kk, Start(kk), NEW t \in Threads, t = kk.ksCurThread
  PROVE  Mid(rescheduleRequired([tcbSchedDequeue(kk, t) EXCEPT !.tcbState[t] = "Waiting"]))
<1> DEFINE k1 == tcbSchedDequeue(kk, t)
           r  == Restate(k1, t, "Waiting")
<1>1. kk \in State /\ Pre(kk, {})
  BY Zenon DEF Start, Mid, Pre, QueuesInv
<1>2. /\ QueuesInv(k1) /\ SameThreads(kk, k1)
      /\ \A u \in Threads : k1.tcbQueued[u] <=> u # t /\ kk.tcbQueued[u]
  BY <1>1, DequeuedAt, Zenon DEF Pre
<1> HIDE DEF k1
<1>3. k1 \in State
  BY <1>2, Zenon DEF QueuesInv
<1>4. Restated(k1, t, "Waiting", r)
  BY <1>3, SetState, Zenon
<1>5. r = [k1 EXCEPT !.tcbState[t] = "Waiting"]
  BY Zenon DEF Restate
<1> HIDE DEF r
<1>6. QueuesInv(r)
  BY <1>2, <1>4, QueuesKept, Zenon DEF Restated
<1>7. QueuedReady(r)
  BY <1>1, <1>2, <1>4 DEF Pre, QueuedReady, Restated, SameThreads, SameQueues
<1>8. ScheduleOK(r) /\ CandidateOK(r)
  BY <1>1, <1>2, <1>4, Constants
     DEF Pre, Start, ScheduleOK, isEndMarker, CandidateOK, Restated, SameThreads, SameQueues, SameEntry
<1>9. Covered(r, {} \cup {r.ksCurThread, r.ksSchedulerAction})
  BY <1>1, <1>2, <1>4 DEF Pre, Covered, Restated, SameThreads, SameQueues, SameEntry
<1>10. Mid(rescheduleRequired(r))
  BY <1>6, <1>7, <1>8, <1>9, RescheduleMid, Zenon DEF Pre
<1> QED BY <1>5, <1>10, Zenon DEF k1

\* The time slice of the current thread ends
LEMMA AppendMid ==
  ASSUME NEW kk, Start(kk), NEW t \in Threads, t = kk.ksCurThread
  PROVE  Mid(rescheduleRequired(tcbSchedAppend(kk, t)))
<1>1. Pre(kk, {}) /\ kk.tcbState[t] = "Ready"
  BY Constants, Zenon DEF Start, Mid, CurRuns
<1>2. Pre(tcbSchedAppend(kk, t), {} \ {t})
  BY <1>1, PreEnqueue, Zenon
<1>3. {} \ {t} = {}
  OBVIOUS
<1> QED BY <1>2, <1>3, RescheduleMid, Zenon
-----------------------------------------------------------------------------
(* setDomain *)

Redomain(kk, t, dom, m) == [kk EXCEPT !.tcbDomain[t] = dom, !.moved = m]

Redomained(kk, t, dom, m, r) ==
  /\ r \in State /\ SameEntry(kk, r) /\ r.ksSchedulerAction = kk.ksSchedulerAction
  /\ r.ksReadyQueues = kk.ksReadyQueues /\ r.tcbQueued = kk.tcbQueued /\ r.tcbState = kk.tcbState
  /\ r.ksReadyQueuesL1Bitmap = kk.ksReadyQueuesL1Bitmap
  /\ r.ksReadyQueuesL2Bitmap = kk.ksReadyQueuesL2Bitmap
  /\ r.tcbPriority = kk.tcbPriority /\ r.moved = m
  /\ \A u \in Threads : r.tcbDomain[u] = IF u = t THEN dom ELSE kk.tcbDomain[u]

\* The assignment of setDomain to tcbDomain changes nothing else
LEMMA SetTcbDomain ==
  ASSUME NEW kk \in State, NEW t \in Threads, NEW dom \in Domains, NEW m \in SUBSET Threads
  PROVE  Redomained(kk, t, dom, m, Redomain(kk, t, dom, m))
<1> DEFINE r == Redomain(kk, t, dom, m)
<1>1. [kk.tcbDomain EXCEPT ![t] = dom] \in [Threads -> Domains]
  BY Zenon DEF State
<1>2. r \in State
  BY <1>1, Zenon DEF State, Redomain
<1>3. SameEntry(kk, r)
  BY Zenon DEF State, SameEntry, Redomain
<1>4. /\ r.ksSchedulerAction = kk.ksSchedulerAction
      /\ r.ksReadyQueues = kk.ksReadyQueues /\ r.tcbQueued = kk.tcbQueued /\ r.tcbState = kk.tcbState
      /\ r.ksReadyQueuesL1Bitmap = kk.ksReadyQueuesL1Bitmap
      /\ r.ksReadyQueuesL2Bitmap = kk.ksReadyQueuesL2Bitmap
      /\ r.tcbPriority = kk.tcbPriority /\ r.moved = m
  BY Zenon DEF State, Redomain
<1>5. \A u \in Threads : r.tcbDomain[u] = IF u = t THEN dom ELSE kk.tcbDomain[u]
  BY Zenon DEF State, Redomain
<1> QED BY <1>2, <1>3, <1>4, <1>5, Zenon DEF Redomained

\* setDomain moves a thread between the queues of two domains
LEMMA SetDomainMid ==
  ASSUME NEW kk, Start(kk), NEW t \in Threads, NEW dom \in Domains
  PROVE  Mid(setDomain(kk, t, dom))
<1> DEFINE k0 == tcbSchedDequeue(kk, t)
           m  == IF dom = kk.ksCurDomain THEN kk.moved \cup {t} ELSE kk.moved \ {t}
           k1 == Redomain(k0, t, dom, m)
           k2 == IF isSchedulable(kk, t) THEN tcbSchedEnqueue(k1, t) ELSE k1
           r  == IF t = kk.ksCurThread THEN rescheduleRequired(k2) ELSE k2
<1>1. kk \in State /\ Pre(kk, {}) /\ kk.ksCurThread \in Threads \cup {idle} /\ kk.moved \in SUBSET Threads
  BY Zenon DEF Start, Mid, Pre, QueuesInv, State
<1>2. /\ QueuesInv(k0) /\ SameThreads(kk, k0)
      /\ \A u \in Threads : k0.tcbQueued[u] <=> u # t /\ kk.tcbQueued[u]
  BY <1>1, DequeuedAt, Zenon DEF Pre
<1>3. setDomain(kk, t, dom) = r
  <2>1. k0.moved = kk.moved
    BY <1>2, Zenon DEF SameThreads
  <2> QED BY <2>1, Zenon DEF setDomain, Redomain
<1> HIDE DEF k0
<1>4. Redomained(k0, t, dom, m, k1)
  <2>1. k0 \in State /\ m \in SUBSET Threads
    BY <1>1, <1>2, Zenon DEF QueuesInv
  <2> HIDE DEF m
  <2> QED BY <2>1, SetTcbDomain, Zenon
<1> HIDE DEF k1
<1>5. Pre(k1, {t})
  <2>1. QueuesInv(k1)
    <3>1. ~k0.tcbQueued[t]
      BY <1>2, Zenon
    <3>2. \A u \in Threads \ {t} : k1.tcbDomain[u] = k0.tcbDomain[u] /\ k1.tcbPriority[u] = k0.tcbPriority[u]
      BY <1>4, Zenon DEF Redomained
    <3>3. /\ k1 \in State /\ k1.ksReadyQueues = k0.ksReadyQueues /\ k1.tcbQueued = k0.tcbQueued
          /\ k1.ksReadyQueuesL1Bitmap = k0.ksReadyQueuesL1Bitmap
          /\ k1.ksReadyQueuesL2Bitmap = k0.ksReadyQueuesL2Bitmap
      BY <1>4, Zenon DEF Redomained
    <3> QED BY <1>2, <3>1, <3>2, <3>3, QueuesMoved, ZenonT(60)
  <2>2. QueuedReady(k1)
    BY <1>1, <1>2, <1>4 DEF Pre, QueuedReady, Redomained, SameThreads
  <2>3. CandidateOK(k1) /\ ScheduleOK(k1)
    BY <1>1, <1>2, <1>4, Constants
       DEF Pre, Start, CandidateOK, ScheduleOK, isEndMarker, Redomained, SameThreads, SameEntry
  <2>4. Covered(k1, {t} \cup {k1.ksCurThread, k1.ksSchedulerAction})
    BY <1>1, <1>2, <1>4 DEF Pre, Covered, Redomained, SameThreads, SameEntry
  <2> QED BY <2>1, <2>2, <2>3, <2>4, Zenon DEF Pre
<1>6. k1.tcbState = kk.tcbState
  BY <1>2, <1>4, Zenon DEF Redomained, SameThreads
<1>7. /\ Pre(k2, {}) /\ SameThreads(k1, k2)
      /\ \A u \in Threads : k2.tcbQueued[u] => u = t \/ k1.tcbQueued[u]
  <2>1. CASE isSchedulable(kk, t)
    <3>1. k1.tcbState[t] = "Ready"
      BY <1>6, <2>1, Zenon DEF isSchedulable
    <3>2. /\ Pre(k2, {t} \ {t}) /\ SameThreads(k1, k2)
          /\ \A u \in Threads : k2.tcbQueued[u] <=> u = t \/ k1.tcbQueued[u]
      BY <1>5, <2>1, <3>1, PreEnqueue, Zenon
    <3>3. {t} \ {t} = {}
      OBVIOUS
    <3> QED BY <3>2, <3>3, Zenon
  <2>2. CASE ~isSchedulable(kk, t)
    <3>1. Covered(k1, {} \cup {k1.ksCurThread, k1.ksSchedulerAction})
      BY <1>5, <1>6, <2>2, Zenon DEF Pre, Covered, isSchedulable
    <3> QED BY <1>5, <2>2, <3>1, Zenon DEF Pre, SameThreads
  <2> QED BY <2>1, <2>2, Zenon
<1> HIDE DEF k2
<1>8. CASE t = kk.ksCurThread
  BY <1>3, <1>7, <1>8, RescheduleMid, Zenon
<1>9. CASE t # kk.ksCurThread
  <2>1. r = k2 /\ k2.ksSchedulerAction = Resume
    BY <1>2, <1>4, <1>7, <1>9, Zenon DEF SameThreads, Redomained, Start
  <2>2. CurRuns(k2)
    BY <1>1, <1>2, <1>4, <1>7, <1>9 DEF Start, Mid, CurRuns, SameThreads, Redomained, SameEntry
  <2>3. ASSUME NEW u \in Threads, k2.tcbQueued[u], k2.tcbDomain[u] = k2.ksCurDomain, u \notin k2.moved
        PROVE  k2.ksCurThread # idle /\ k2.tcbPriority[u] <= k2.tcbPriority[k2.ksCurThread]
    <3>1. k2.ksCurDomain = kk.ksCurDomain /\ k2.moved = m /\ k2.tcbDomain = k1.tcbDomain
      BY <1>2, <1>4, <1>7, Zenon DEF SameThreads, Redomained, SameEntry
    <3>2. u # t
      BY <1>4, <2>3, <3>1, Zenon DEF Redomained
    <3>3. kk.tcbQueued[u] /\ kk.tcbDomain[u] = kk.ksCurDomain /\ u \notin kk.moved
      BY <1>2, <1>4, <1>7, <2>3, <3>1, <3>2 DEF SameThreads, Redomained
    <3>4. kk.ksCurThread # idle /\ kk.tcbPriority[u] <= kk.tcbPriority[kk.ksCurThread]
      BY <3>3, Constants, Zenon DEF Start, Mid, CurTop
    <3>5. k2.ksCurThread = kk.ksCurThread /\ k2.tcbPriority = kk.tcbPriority
      BY <1>2, <1>4, <1>7, Zenon DEF SameThreads, Redomained, SameEntry
    <3> QED BY <3>4, <3>5, Zenon
  <2>4. k2.ksDomainTime = 0 => numDomains > 1
    BY <1>2, <1>4, <1>7, Constants, Zenon DEF Start, Mid, SameThreads, Redomained, SameEntry
  <2>5. Mid(k2)
    BY <1>7, <2>1, <2>2, <2>3, <2>4, Zenon DEF Mid, CurTop
  <2> QED BY <1>3, <2>1, <2>5, Zenon
<1> QED BY <1>8, <1>9, Zenon

(* setPriority and the domain schedule *)

Reprioritise(kk, t, prio) == [kk EXCEPT !.tcbPriority[t] = prio]

Reprioritised(kk, t, prio, r) ==
  /\ r \in State /\ SameEntry(kk, r) /\ r.ksSchedulerAction = kk.ksSchedulerAction
  /\ r.ksReadyQueues = kk.ksReadyQueues /\ r.tcbQueued = kk.tcbQueued /\ r.tcbState = kk.tcbState
  /\ r.ksReadyQueuesL1Bitmap = kk.ksReadyQueuesL1Bitmap
  /\ r.ksReadyQueuesL2Bitmap = kk.ksReadyQueuesL2Bitmap
  /\ r.tcbDomain = kk.tcbDomain /\ r.moved = kk.moved
  /\ \A u \in Threads : r.tcbPriority[u] = IF u = t THEN prio ELSE kk.tcbPriority[u]

\* The assignment of setPriority to tcbPriority changes nothing else
LEMMA SetTcbPriority ==
  ASSUME NEW kk \in State, NEW t \in Threads, NEW prio \in Priorities
  PROVE  Reprioritised(kk, t, prio, Reprioritise(kk, t, prio))
<1> DEFINE r == Reprioritise(kk, t, prio)
<1>1. [kk.tcbPriority EXCEPT ![t] = prio] \in [Threads -> Priorities]
  BY Zenon DEF State
<1>2. r \in State
  BY <1>1, Zenon DEF State, Reprioritise
<1>3. SameEntry(kk, r)
  BY Zenon DEF State, SameEntry, Reprioritise
<1>4. /\ r.ksSchedulerAction = kk.ksSchedulerAction
      /\ r.ksReadyQueues = kk.ksReadyQueues /\ r.tcbQueued = kk.tcbQueued /\ r.tcbState = kk.tcbState
      /\ r.ksReadyQueuesL1Bitmap = kk.ksReadyQueuesL1Bitmap
      /\ r.ksReadyQueuesL2Bitmap = kk.ksReadyQueuesL2Bitmap
      /\ r.tcbDomain = kk.tcbDomain /\ r.moved = kk.moved
  BY Zenon DEF State, Reprioritise
<1>5. \A u \in Threads : r.tcbPriority[u] = IF u = t THEN prio ELSE kk.tcbPriority[u]
  BY Zenon DEF State, Reprioritise
<1> QED BY <1>2, <1>3, <1>4, <1>5, Zenon DEF Reprioritised

\* setPriority moves a queued thread between queues and looks for a better one to
\* run when the thread is the current one
LEMMA SetPriorityMid ==
  ASSUME NEW kk, Start(kk), NEW t \in Threads, NEW prio \in Priorities
  PROVE  Mid(setPriority(kk, t, prio))
<1>1. kk \in State /\ Pre(kk, {}) /\ kk.ksCurThread \in Threads \cup {idle}
  BY Zenon DEF Start, Mid, Pre, QueuesInv, State
<1>2. CASE isSchedulable(kk, t) /\ (kk.tcbQueued[t] \/ t = kk.ksCurThread)
  <2> DEFINE k0 == tcbSchedDequeue(kk, t)
             k1 == Reprioritise(k0, t, prio)
             k2 == tcbSchedEnqueue(k1, t)
  <2>1. /\ QueuesInv(k0) /\ SameThreads(kk, k0)
        /\ \A u \in Threads : k0.tcbQueued[u] <=> u # t /\ kk.tcbQueued[u]
    BY <1>1, DequeuedAt, Zenon DEF Pre
  <2>2. setPriority(kk, t, prio) = rescheduleRequired(k2)
    BY <1>2, Zenon DEF setPriority, Reprioritise
  <2> HIDE DEF k0
  <2>3. k0 \in State
    BY <2>1, Zenon DEF QueuesInv
  <2>4. Reprioritised(k0, t, prio, k1)
    BY <2>3, SetTcbPriority, Zenon
  <2> HIDE DEF k1
  <2>5. QueuesInv(k1)
    <3>1. ~k0.tcbQueued[t]
      BY <2>1, Zenon
    <3>2. \A u \in Threads \ {t} : k1.tcbDomain[u] = k0.tcbDomain[u] /\ k1.tcbPriority[u] = k0.tcbPriority[u]
      BY <2>4, Zenon DEF Reprioritised
    <3>3. /\ k1 \in State /\ k1.ksReadyQueues = k0.ksReadyQueues /\ k1.tcbQueued = k0.tcbQueued
          /\ k1.ksReadyQueuesL1Bitmap = k0.ksReadyQueuesL1Bitmap
          /\ k1.ksReadyQueuesL2Bitmap = k0.ksReadyQueuesL2Bitmap
      BY <2>4, Zenon DEF Reprioritised
    <3> QED BY <2>1, <3>1, <3>2, <3>3, QueuesMoved, Zenon
  <2>6. QueuedReady(k1)
    BY <1>1, <2>1, <2>4, SMTT(30) DEF Pre, QueuedReady, Reprioritised, SameThreads
  <2>7. CandidateOK(k1) /\ ScheduleOK(k1)
    BY <1>1, <2>1, <2>4, Constants, SMTT(30)
       DEF Pre, Start, CandidateOK, ScheduleOK, isEndMarker, Reprioritised, SameThreads, SameEntry
  <2>8. Covered(k1, {t} \cup {k1.ksCurThread, k1.ksSchedulerAction})
    BY <1>1, <2>1, <2>4 DEF Pre, Covered, Reprioritised, SameThreads, SameEntry
  <2>9. Pre(k1, {t}) /\ k1.tcbState[t] = "Ready"
    BY <1>2, <2>1, <2>4, <2>5, <2>6, <2>7, <2>8, Zenon DEF Pre, isSchedulable, Reprioritised,
       SameThreads
  <2>10. Pre(k2, {t} \ {t})
    BY <2>9, PreEnqueue, Zenon
  <2>11. {t} \ {t} = {}
    OBVIOUS
  <2> QED BY <2>2, <2>10, <2>11, RescheduleMid, Zenon
<1>3. CASE ~(isSchedulable(kk, t) /\ (kk.tcbQueued[t] \/ t = kk.ksCurThread))
  <2> DEFINE r == Reprioritise(kk, t, prio)
  <2>1. setPriority(kk, t, prio) = r
    BY <1>3, Zenon DEF setPriority, Reprioritise
  <2>2. Reprioritised(kk, t, prio, r)
    BY <1>1, SetTcbPriority, Zenon
  <2> HIDE DEF r
  <2>3. ~kk.tcbQueued[t] /\ t # kk.ksCurThread
    BY <1>1, <1>3, Constants, Zenon DEF Pre, QueuedReady, isSchedulable, Start, Mid, CurRuns
  <2>4. QueuesInv(r)
    <3>1. \A u \in Threads \ {t} : r.tcbDomain[u] = kk.tcbDomain[u] /\ r.tcbPriority[u] = kk.tcbPriority[u]
      BY <2>2, Zenon DEF Reprioritised
    <3>2. /\ r \in State /\ r.ksReadyQueues = kk.ksReadyQueues /\ r.tcbQueued = kk.tcbQueued
          /\ r.ksReadyQueuesL1Bitmap = kk.ksReadyQueuesL1Bitmap
          /\ r.ksReadyQueuesL2Bitmap = kk.ksReadyQueuesL2Bitmap
      BY <2>2, Zenon DEF Reprioritised
    <3>3. QueuesInv(kk)
      BY <1>1, Zenon DEF Pre
    <3> QED BY <2>3, <3>1, <3>2, <3>3, QueuesMoved, Zenon
  <2>5. QueuedReady(r) /\ CandidateOK(r) /\ ScheduleOK(r)
    BY <1>1, <2>2, ZenonT(60) DEF Pre, QueuedReady, CandidateOK, ScheduleOK, isEndMarker,
       Reprioritised, SameEntry
  <2>6. Covered(r, {} \cup {r.ksCurThread, r.ksSchedulerAction})
    BY <1>1, <2>2, Zenon DEF Pre, Covered, Reprioritised, SameEntry
  <2>7. CurRuns(r)
    BY <2>2, Zenon DEF Start, Mid, CurRuns, Reprioritised, SameEntry
  <2>8. CurTop(r)
    BY <1>1, <2>2, <2>3, Constants, Zenon DEF Start, Mid, CurTop, Reprioritised, SameEntry
  <2>9. r.ksDomainTime = 0 => numDomains > 1
    BY <2>2, Constants, Zenon DEF Start, Mid, Reprioritised, SameEntry
  <2> QED BY <2>1, <2>4, <2>5, <2>6, <2>7, <2>8, <2>9, Zenon DEF Mid, Pre
<1> QED BY <1>2, <1>3, Zenon

\* Assignments to the variables of the domain schedule
Redated(kk, dom, time, idx, start, sched, r) ==
  /\ r \in State /\ SameQueues(kk, r) /\ r.tcbState = kk.tcbState /\ r.ksCurThread = kk.ksCurThread
  /\ r.ksSchedulerAction = kk.ksSchedulerAction /\ r.moved = kk.moved
  /\ r.ksCurDomain = dom /\ r.ksDomainTime = time /\ r.ksDomScheduleIdx = idx
  /\ r.ksDomScheduleStart = start /\ r.ksDomSchedule = sched

\* The threads and queues do not depend on the domain schedule
LEMMA RedatedPre ==
  ASSUME NEW kk, Start(kk), NEW time, NEW idx, NEW start, NEW sched, NEW r,
         Redated(kk, kk.ksCurDomain, time, idx, start, sched, r), ScheduleOK(r)
  PROVE  Pre(r, {}) /\ CurRuns(r) /\ CurTop(r) /\ r.ksSchedulerAction = Resume
<1>1. Pre(kk, {})
  BY Zenon DEF Start, Mid
<1>2. QueuesInv(r)
  BY <1>1, QueuesKept, Zenon DEF Pre, Redated
<1>3. QueuedReady(r) /\ CandidateOK(r)
  BY <1>1, Zenon DEF Pre, QueuedReady, CandidateOK, Redated, SameQueues
<1>4. Covered(r, {} \cup {r.ksCurThread, r.ksSchedulerAction})
  BY <1>1, Zenon DEF Pre, Covered, Redated, SameQueues
<1>5. CurRuns(r) /\ CurTop(r)
  BY Constants, Zenon DEF Start, Mid, CurRuns, CurTop, Redated, SameQueues
<1> QED BY <1>2, <1>3, <1>4, <1>5, Zenon DEF Pre, Start, Redated

\* updateTimestamp on entry takes time from the domain only
LEMMA TimestampStart ==
  ASSUME NEW kk, Inv(kk), NEW c \in Steps
  PROVE  Start(updateTimestamp(kk, c))
<1> DEFINE time == IF c + MIN_BUDGET >= kk.ksDomainTime THEN 0 ELSE kk.ksDomainTime - c
           r == [kk EXCEPT !.ksDomainTime = time]
<1>1. /\ kk \in State /\ kk.ksDomainTime \in Nat /\ kk.ksDomainTime > 0
      /\ c \in Nat /\ MIN_BUDGET \in Nat /\ numDomains \in Nat \ {0}
      /\ kk.ksCurDomain \in Domains /\ kk.ksDomScheduleIdx \in Indices
      /\ kk.ksDomScheduleStart \in Indices /\ kk.ksDomSchedule \in [Indices -> Entry]
  BY SchedulerConstants, Zenon DEF Inv, Chosen, QueuesInv, State
<1>2. Start(kk)
  <2>1. CandidateOK(kk)
    BY Constants, Zenon DEF CandidateOK, Inv
  <2>2. Covered(kk, {} \cup {kk.ksCurThread, kk.ksSchedulerAction})
    BY Zenon DEF Inv, Chosen, Covered
  <2> QED BY <1>1, <2>1, <2>2 DEF Start, Mid, Pre, Inv, Chosen
<1>3. CASE numDomains = 1
  BY <1>2, <1>3, Zenon DEF updateTimestamp
<1>4. CASE numDomains # 1
  <2>1. updateTimestamp(kk, c) = r
    BY <1>4, Zenon DEF updateTimestamp
  <2>2. time \in Nat
    BY <1>1
  <2> HIDE DEF time
  <2>4. Redated(kk, kk.ksCurDomain, time, kk.ksDomScheduleIdx, kk.ksDomScheduleStart, kk.ksDomSchedule, r)
    <3>1. r \in State
      BY <1>1, <2>2, Zenon DEF State
    <3>2. SameQueues(kk, r)
      BY <1>1, <2>2, Zenon DEF State, SameQueues
    <3>3. /\ r.tcbState = kk.tcbState /\ r.ksCurThread = kk.ksCurThread
          /\ r.ksSchedulerAction = kk.ksSchedulerAction /\ r.moved = kk.moved
          /\ r.ksCurDomain = kk.ksCurDomain /\ r.ksDomainTime = time /\ r.ksDomScheduleIdx = kk.ksDomScheduleIdx
          /\ r.ksDomScheduleStart = kk.ksDomScheduleStart /\ r.ksDomSchedule = kk.ksDomSchedule
      BY <1>1, <2>2, Zenon DEF State
    <3> QED BY <3>1, <3>2, <3>3, Zenon DEF Redated
  <2> HIDE DEF r
  <2>5. ScheduleOK(r)
    BY <2>4, Zenon DEF Inv, Chosen, ScheduleOK, isEndMarker, Redated
  <2>6. Pre(r, {}) /\ CurRuns(r) /\ CurTop(r) /\ r.ksSchedulerAction = Resume
    BY <1>2, <2>4, <2>5, RedatedPre, Zenon
  <2> QED BY <1>1, <1>4, <2>1, <2>6 DEF Start, Mid
<1> QED BY <1>3, <1>4, Zenon

\* DomainSchedule_Configure keeps the first entry of a round and the last marker
LEMMA ConfigureMid ==
  ASSUME NEW kk, Start(kk), NEW index \in Indices, NEW domain \in Domains, NEW duration \in Nat,
         index < domScheduleLength - 1,
         duration = 0 => domain = 0 /\ index # kk.ksDomScheduleStart
  PROVE  Mid([kk EXCEPT !.ksDomSchedule[index] = dschedule_make(domain, duration)])
<1> DEFINE e == dschedule_make(domain, duration)
           sched == [kk.ksDomSchedule EXCEPT ![index] = e]
           r == [kk EXCEPT !.ksDomSchedule[index] = e]
<1>1. /\ kk \in State /\ kk.ksDomainTime \in Nat /\ ScheduleOK(kk)
      /\ kk.ksCurDomain \in Domains /\ kk.ksDomScheduleIdx \in Indices
      /\ kk.ksDomScheduleStart \in Indices /\ kk.ksDomSchedule \in [Indices -> Entry]
  BY Zenon DEF Start, Mid, Pre, QueuesInv, State
<1>2. e \in Entry /\ e.duration = duration /\ (duration # 0 => e # endMarker) /\ (duration = 0 => e = endMarker)
  BY Zenon DEF Entry, dschedule_make, endMarker
<1> HIDE DEF e
<1>3. sched \in [Indices -> Entry] /\ \A i \in Indices : sched[i] = IF i = index THEN e ELSE kk.ksDomSchedule[i]
  BY <1>1, <1>2, Zenon
<1> HIDE DEF sched
<1>4. r = [kk EXCEPT !.ksDomSchedule = sched]
  BY <1>1, Zenon DEF sched, State
<1> HIDE DEF r
<1>5. Redated(kk, kk.ksCurDomain, kk.ksDomainTime, kk.ksDomScheduleIdx, kk.ksDomScheduleStart, sched, r)
  <2>1. r \in State
    BY <1>1, <1>3, <1>4, Zenon DEF State
  <2>2. SameQueues(kk, r)
    BY <1>1, <1>3, <1>4, Zenon DEF State, SameQueues
  <2>3. /\ r.tcbState = kk.tcbState /\ r.ksCurThread = kk.ksCurThread
        /\ r.ksSchedulerAction = kk.ksSchedulerAction /\ r.moved = kk.moved
        /\ r.ksCurDomain = kk.ksCurDomain /\ r.ksDomainTime = kk.ksDomainTime /\ r.ksDomScheduleIdx = kk.ksDomScheduleIdx
        /\ r.ksDomScheduleStart = kk.ksDomScheduleStart /\ r.ksDomSchedule = sched
    BY <1>1, <1>3, <1>4, Zenon DEF State
  <2> QED BY <2>1, <2>2, <2>3, Zenon DEF Redated
<1>6. ScheduleOK(r)
  <2>1. domScheduleLength - 1 \in Indices /\ domScheduleLength - 1 # index
    BY SchedulerConstants DEF Indices
  <2> QED BY <1>1, <1>2, <1>3, <1>5, <2>1, ZenonT(60) DEF ScheduleOK, isEndMarker, Redated
<1>7. Pre(r, {}) /\ CurRuns(r) /\ CurTop(r) /\ r.ksSchedulerAction = Resume
  BY <1>5, <1>6, RedatedPre, Zenon
<1>8. r.ksDomainTime = 0 => numDomains > 1
  BY <1>5, Constants, Zenon DEF Start, Mid, Redated
<1> QED BY <1>7, <1>8, Zenon DEF Mid, r, e

\* DomainSchedule_SetStart ends the turn of the domain: the next entry is the
\* last marker, which leads to the new start
LEMMA SetStartMid ==
  ASSUME NEW kk, Start(kk), NEW index \in Indices, ~isEndMarker(kk, index)
  PROVE  Mid(rescheduleRequired(
           [kk EXCEPT !.ksDomScheduleStart = index, !.ksDomainTime = 0,
                      !.ksDomScheduleIdx = domScheduleLength - 2]))
<1> DEFINE last == domScheduleLength - 2
           r == [kk EXCEPT !.ksDomScheduleStart = index, !.ksDomainTime = 0, !.ksDomScheduleIdx = last]
<1>1. /\ kk \in State /\ ScheduleOK(kk)
      /\ kk.ksCurDomain \in Domains /\ kk.ksDomSchedule \in [Indices -> Entry]
  BY Zenon DEF Start, Mid, Pre, QueuesInv, State
<1>2. last \in Indices /\ last \in 0 .. domScheduleLength - 2
  BY SchedulerConstants DEF Indices
<1> HIDE DEF last
<1>4. Redated(kk, kk.ksCurDomain, 0, last, index, kk.ksDomSchedule, r)
  <2>1. r \in State
    BY <1>1, <1>2, Zenon DEF State
  <2>2. SameQueues(kk, r)
    BY <1>1, <1>2, Zenon DEF State, SameQueues
  <2>3. /\ r.tcbState = kk.tcbState /\ r.ksCurThread = kk.ksCurThread
        /\ r.ksSchedulerAction = kk.ksSchedulerAction /\ r.moved = kk.moved
        /\ r.ksCurDomain = kk.ksCurDomain /\ r.ksDomainTime = 0 /\ r.ksDomScheduleIdx = last
        /\ r.ksDomScheduleStart = index /\ r.ksDomSchedule = kk.ksDomSchedule
    BY <1>1, <1>2, Zenon DEF State
  <2> QED BY <2>1, <2>2, <2>3, Zenon DEF Redated
<1> HIDE DEF r
<1>5. ScheduleOK(r)
  BY <1>1, <1>2, <1>4, Zenon DEF ScheduleOK, isEndMarker, Redated
<1>6. Pre(r, {})
  BY <1>4, <1>5, RedatedPre, Zenon
<1>7. Mid(rescheduleRequired(r))
  BY <1>6, RescheduleMid, Zenon
<1> QED BY <1>7, Zenon DEF r, last
-----------------------------------------------------------------------------
(* schedule *)

W == INSTANCE WellFoundedInduction

\* The highest bit of a word that is not zero
LEMMA HighestBit ==
  ASSUME NEW n \in Nat, NEW word \in SUBSET (0 .. n), word # {}
  PROVE  highestBit(word) \in word /\ \A c \in word : c <= highestBit(word)
<1> DEFINE T == {n - b : b \in word}
<1>0. \A c \in word : c \in Int /\ 0 <= c /\ c <= n
  OBVIOUS
<1>1. T \subseteq Nat /\ T # {}
  <2>1. \A c \in word : n - c \in Nat
    BY <1>0
  <2>2. T \subseteq Nat
    BY <2>1, Zenon
  <2> QED BY <2>2, Zenon
<1>2. \E x \in T : \A y \in T : ~(<<y, x>> \in W!OpToRel(<, Nat))
  <2> HIDE DEF T
  <2> QED BY <1>1, W!WFMin, W!NatLessThanWellFounded, Zenon
<1>3. PICK x \in T : \A y \in T : ~(y < x)
  BY <1>1, <1>2, Zenon DEF W!OpToRel
<1>4. PICK b \in word : x = n - b
  OBVIOUS
<1>5. \A c \in word : c <= b
  <2> TAKE c \in word
  <2>1. n - c \in T
    OBVIOUS
  <2>2. ~(n - c < n - b)
    BY <1>3, <1>4, <2>1, Zenon
  <2>3. c \in Int /\ b \in Int /\ n \in Int
    BY <1>0
  <2> HIDE DEF T
  <2> QED BY <2>2, <2>3, SMT
<1> QED BY <1>5, Zenon DEF highestBit

\* getHighestPrio is the highest priority at which a thread is queued
LEMMA HighestPrio ==
  ASSUME NEW kk, QueuesInv(kk), NEW d \in Domains, kk.ksReadyQueuesL1Bitmap[d] # {}
  PROVE  /\ getHighestPrio(kk, d) \in Priorities
         /\ kk.ksReadyQueues[ready_queues_index(d, getHighestPrio(kk, d))] # <<>>
         /\ \A q \in Priorities : kk.ksReadyQueues[ready_queues_index(d, q)] # <<>> => q <= getHighestPrio(kk, d)
<1> DEFINE l1 == highestBit(kk.ksReadyQueuesL1Bitmap[d])
           word == kk.ksReadyQueuesL2Bitmap[d][invert_l1index(l1)]
           b == highestBit(word)
<1>0. kk \in State /\ L2_BITMAP_SIZE \in Int /\ wordBits \in Nat \ {0}
  BY SchedulerConstants DEF QueuesInv, L2_BITMAP_SIZE
<1>1. l1 \in kk.ksReadyQueuesL1Bitmap[d] /\ \A c \in kk.ksReadyQueuesL1Bitmap[d] : c <= l1
  <2>1. kk.ksReadyQueuesL1Bitmap[d] \in SUBSET (0 .. L2_BITMAP_SIZE - 1)
    BY <1>0, Zenon DEF State
  <2>2. L2_BITMAP_SIZE - 1 \in Nat
    BY <1>0, <2>1
  <2> QED BY <2>1, <2>2, HighestBit, Zenon
<1> HIDE DEF l1
<1>2. PICK p1 \in Priorities : l1 = prio_to_l1index(p1)
  BY <1>1, Zenon DEF QueuesInv, BitsOfPriorities
<1>3. word # {}
  BY <1>1, <1>2, Zenon DEF QueuesInv, QueueAgrees
<1>4. b \in word /\ \A c \in word : c <= b
  <2>1. invert_l1index(l1) \in 0 .. L2_BITMAP_SIZE - 1
    BY <1>2, BitmapIndex, Zenon
  <2>2. word \in SUBSET (0 .. wordBits - 1) /\ wordBits - 1 \in Nat
    BY <1>0, <2>1 DEF State
  <2> HIDE DEF word
  <2> QED BY <1>3, <2>2, HighestBit, Zenon
<1> HIDE DEF b
<1>5. PICK p \in Priorities : invert_l1index(l1) = invert_l1index(prio_to_l1index(p)) /\ b = p % wordBits
  <2>1. invert_l1index(l1) \in 0 .. L2_BITMAP_SIZE - 1
    BY <1>2, BitmapIndex, Zenon
  <2> QED BY <1>4, <2>1, Zenon DEF QueuesInv, BitsOfPriorities
<1>6. l1 = prio_to_l1index(p)
  BY <1>2, <1>5, BitInjective, Zenon
<1>7. getHighestPrio(kk, d) = p
  BY <1>5, <1>6, BitmapIndex, Zenon DEF getHighestPrio, l1, b
<1>8. kk.ksReadyQueues[ready_queues_index(d, p)] # <<>>
  BY <1>4, <1>5, <1>6, Zenon DEF QueuesInv, QueueAgrees
<1>9. ASSUME NEW q \in Priorities, kk.ksReadyQueues[ready_queues_index(d, q)] # <<>>
      PROVE  q <= p
  <2> DEFINE lq == prio_to_l1index(q)
             rq == q % wordBits
  <2>1. rq \in kk.ksReadyQueuesL2Bitmap[d][invert_l1index(lq)] /\ lq \in kk.ksReadyQueuesL1Bitmap[d]
    BY <1>9, ZenonT(60) DEF QueuesInv, QueueAgrees
  <2>2. lq <= l1 /\ (lq = l1 => rq <= b)
    BY <1>1, <1>4, <2>1, Zenon
  <2>3. q = lq * wordBits + rq /\ rq \in 0 .. wordBits - 1 /\ lq \in Int
    BY BitmapIndex DEF l1index_to_prio
  <2>4. p = l1 * wordBits + b /\ b \in 0 .. wordBits - 1 /\ l1 \in Int
    BY <1>5, <1>6, BitmapIndex DEF l1index_to_prio
  <2> HIDE DEF lq, rq
  <2>5. CASE lq = l1
    <3>1. l1 * wordBits \in Int
      BY <1>0, <2>4
    <3> QED BY <2>2, <2>3, <2>4, <2>5, <3>1, SMT
  <2>6. CASE lq < l1
    <3>1. (lq + 1) * wordBits <= l1 * wordBits
      BY <1>0, <2>3, <2>4, <2>6, SMT
    <3>2. (lq + 1) * wordBits = lq * wordBits + wordBits /\ lq * wordBits \in Int /\ l1 * wordBits \in Int
      BY <1>0, <2>3, <2>4, SMT
    <3> QED BY <1>0, <2>3, <2>4, <3>1, <3>2, SMT
  <2> QED BY <2>2, <2>3, <2>4, <2>5, <2>6, SMT
<1> QED BY <1>7, <1>8, <1>9, Zenon

-----------------------------------------------------------------------------

\* The next entry of the schedule has some time in it
LEMMA NextDomain ==
  ASSUME NEW kk \in State, ScheduleOK(kk)
  PROVE  LET r == nextDomain(kk)
         IN Redated(kk, r.ksCurDomain, r.ksDomainTime, r.ksDomScheduleIdx, kk.ksDomScheduleStart, kk.ksDomSchedule, r)
              /\ r.ksDomainTime > 0 /\ ScheduleOK(r)
<1> DEFINE next == kk.ksDomScheduleIdx + 1
           i == IF isEndMarker(kk, next) THEN kk.ksDomScheduleStart ELSE next
           dom == kk.ksDomSchedule[i].domain
           time == kk.ksDomSchedule[i].duration
           r == [kk EXCEPT !.ksDomScheduleIdx = i, !.ksCurDomain = dom, !.ksDomainTime = time]
<1>1. nextDomain(kk) = r
  BY Zenon DEF nextDomain
<1>2. domScheduleLength \in Nat \ {0, 1} /\ kk.ksDomScheduleStart \in Indices /\ kk.ksDomSchedule \in [Indices -> Entry]
  BY SchedulerConstants, Zenon DEF State
<1>3. next \in Indices
  BY <1>2 DEF ScheduleOK, Indices
<1>4. i \in Indices /\ ~isEndMarker(kk, i)
  BY <1>2, <1>3, Zenon DEF ScheduleOK
<1> HIDE DEF i
<1>5. i \in 0 .. domScheduleLength - 2
  <2>1. i # domScheduleLength - 1
    BY <1>4, Zenon DEF ScheduleOK
  <2> QED BY <1>2, <1>4, <2>1 DEF Indices
<1>6. dom \in Domains /\ time \in Nat /\ time # 0
  BY <1>2, <1>4, Zenon DEF Entry, ScheduleOK
<1> HIDE DEF dom, time
<1>7. r \in State
  BY <1>4, <1>6, Zenon DEF State
<1>8. SameQueues(kk, r)
  BY Zenon DEF State, SameQueues
<1>9. /\ r.tcbState = kk.tcbState /\ r.ksCurThread = kk.ksCurThread
      /\ r.ksSchedulerAction = kk.ksSchedulerAction /\ r.moved = kk.moved
      /\ r.ksCurDomain = dom /\ r.ksDomainTime = time /\ r.ksDomScheduleIdx = i
      /\ r.ksDomScheduleStart = kk.ksDomScheduleStart /\ r.ksDomSchedule = kk.ksDomSchedule
  BY Zenon DEF State
<1> HIDE DEF r
<1>10. ScheduleOK(r)
  BY <1>5, <1>9, Zenon DEF ScheduleOK, isEndMarker
<1> QED BY <1>1, <1>6, <1>7, <1>8, <1>9, <1>10 DEF Redated

\* All ready threads are queued
Full(kk) == QueuesInv(kk) /\ QueuedReady(kk) /\ ScheduleOK(kk) /\ Covered(kk, {})

Forget(kk) == [kk EXCEPT !.moved = {}]

Forgotten(kk, r) ==
  /\ r \in State /\ SameQueues(kk, r) /\ SameEntry(kk, r) /\ r.tcbState = kk.tcbState
  /\ r.ksSchedulerAction = kk.ksSchedulerAction /\ r.moved = {}

\* chooseThread looks at all of the domain's threads, those moved in included
LEMMA ForgetMoved == ASSUME NEW kk \in State PROVE Forgotten(kk, Forget(kk))
<1>1. Forget(kk) \in State
  BY Zenon DEF State, Forget
<1>2. SameQueues(kk, Forget(kk)) /\ SameEntry(kk, Forget(kk))
  BY Zenon DEF State, SameQueues, SameEntry, Forget
<1>3. /\ Forget(kk).tcbState = kk.tcbState /\ Forget(kk).moved = {}
      /\ Forget(kk).ksSchedulerAction = kk.ksSchedulerAction
  BY Zenon DEF State, Forget
<1> QED BY <1>1, <1>2, <1>3, Zenon DEF Forgotten

Run(kk, t) == [kk EXCEPT !.ksCurThread = t]

Running(kk, t, r) ==
  /\ r \in State /\ SameQueues(kk, r) /\ r.tcbState = kk.tcbState /\ r.ksCurThread = t
  /\ r.ksSchedulerAction = kk.ksSchedulerAction /\ r.moved = kk.moved
  /\ r.ksCurDomain = kk.ksCurDomain
  /\ r.ksDomainTime = kk.ksDomainTime /\ r.ksDomScheduleIdx = kk.ksDomScheduleIdx
  /\ r.ksDomScheduleStart = kk.ksDomScheduleStart /\ r.ksDomSchedule = kk.ksDomSchedule

\* The assignment of ksCurThread changes nothing else
LEMMA SetCurThread ==
  ASSUME NEW kk \in State, NEW t \in Threads \cup {idle}
  PROVE  Running(kk, t, Run(kk, t))
<1> DEFINE r == Run(kk, t)
<1>1. r \in State
  BY Zenon DEF State, Run
<1>2. SameQueues(kk, r)
  BY Zenon DEF State, SameQueues, Run
<1>3. /\ r.tcbState = kk.tcbState /\ r.ksCurThread = t
      /\ r.ksSchedulerAction = kk.ksSchedulerAction /\ r.moved = kk.moved
      /\ r.ksCurDomain = kk.ksCurDomain
      /\ r.ksDomainTime = kk.ksDomainTime /\ r.ksDomScheduleIdx = kk.ksDomScheduleIdx
      /\ r.ksDomScheduleStart = kk.ksDomScheduleStart /\ r.ksDomSchedule = kk.ksDomSchedule
  BY Zenon DEF State, Run
<1> QED BY <1>1, <1>2, <1>3, Zenon DEF Running

\* A switch to a ready thread of the current domain that is above the queued ones
LEMMA SwitchChosen ==
  ASSUME NEW kk, QueuesInv(kk), QueuedReady(kk), ScheduleOK(kk), kk.ksDomainTime > 0,
         NEW t \in Threads, Covered(kk, {t}),
         kk.tcbState[t] = "Ready", kk.tcbDomain[t] = kk.ksCurDomain,
         \A u \in Threads : kk.tcbQueued[u] /\ kk.tcbDomain[u] = kk.ksCurDomain /\ u \notin kk.moved
           => kk.tcbPriority[u] <= kk.tcbPriority[t]
  PROVE  Chosen(switchToThread(kk, t))
<1> DEFINE k1 == tcbSchedDequeue(kk, t)
           r  == Run(k1, t)
<1>1. r = switchToThread(kk, t)
  BY Zenon DEF switchToThread, Run
<1>2. /\ QueuesInv(k1) /\ SameThreads(kk, k1)
      /\ \A u \in Threads : k1.tcbQueued[u] <=> u # t /\ kk.tcbQueued[u]
  BY DequeuedAt, Zenon
<1> HIDE DEF k1
<1>3. Running(k1, t, r)
  <2>1. k1 \in State
    BY <1>2, Zenon DEF QueuesInv
  <2> QED BY <2>1, SetCurThread, Zenon
<1> HIDE DEF r
<1>4. QueuesInv(r)
  BY <1>2, <1>3, QueuesKept, Zenon DEF Running
<1>5. QueuedReady(r) /\ ScheduleOK(r)
  BY <1>2, <1>3 DEF QueuedReady, ScheduleOK, isEndMarker, Running, SameQueues, SameThreads
<1>6. Covered(r, {r.ksCurThread})
  BY <1>2, <1>3, ZenonT(60) DEF Covered, Running, SameQueues, SameThreads
<1>7. CurRuns(r)
  BY <1>2, <1>3, ZenonT(60) DEF CurRuns, Running, SameQueues, SameThreads
<1>8. CurTop(r)
  <2>1. t # idle
    BY Constants, Zenon
  <2>2. /\ r.ksCurThread = t /\ r.tcbQueued = k1.tcbQueued /\ r.moved = kk.moved
        /\ r.tcbDomain = kk.tcbDomain /\ r.ksCurDomain = kk.ksCurDomain /\ r.tcbPriority = kk.tcbPriority
    BY <1>2, <1>3, Zenon DEF Running, SameQueues, SameThreads
  <2> QED BY <1>2, <2>1, <2>2, Zenon DEF CurTop
<1>9. r.ksDomainTime > 0
  BY <1>2, <1>3, Zenon DEF Running, SameThreads
<1> QED BY <1>1, <1>4, <1>5, <1>6, <1>7, <1>8, <1>9, Zenon DEF Chosen

\* A queued thread of the current domain sets bits
LEMMA QueuedBits ==
  ASSUME NEW kk, QueuesInv(kk), NEW t \in Threads, kk.tcbQueued[t]
  PROVE  /\ kk.ksReadyQueuesL1Bitmap[kk.tcbDomain[t]] # {}
         /\ kk.ksReadyQueues[ready_queues_index(kk.tcbDomain[t], kk.tcbPriority[t])] # <<>>
         /\ kk.tcbDomain[t] \in Domains /\ kk.tcbPriority[t] \in Priorities
<1> DEFINE d == kk.tcbDomain[t]
           p == kk.tcbPriority[t]
           queue == kk.ksReadyQueues[ready_queues_index(d, p)]
<1>1. d \in Domains /\ p \in Priorities
  BY Zenon DEF QueuesInv, State
<1>2. QueueAgrees(kk, d, p) /\ InQueue(queue, t)
  BY <1>1, Zenon DEF QueuesInv, queueIndex
<1>3. queue # <<>>
  BY <1>2 DEF InQueue
<1>4. prio_to_l1index(p) \in kk.ksReadyQueuesL1Bitmap[d]
  BY <1>2, <1>3, Zenon DEF QueueAgrees
<1> QED BY <1>1, <1>3, <1>4, Zenon

\* chooseThread runs a thread of the highest priority of the domain that has one
\* ready, and the idle thread if there is none
LEMMA ChooseThread ==
  ASSUME NEW kk, Full(kk), kk.ksDomainTime > 0
  PROVE  Chosen(chooseThread(kk))
<1> DEFINE d  == kk.ksCurDomain
           k1 == Forget(kk)
           p  == getHighestPrio(kk, d)
           queue == kk.ksReadyQueues[ready_queues_index(d, p)]
           r  == chooseThread(kk)
<1>1. kk \in State /\ d \in Domains
  BY Zenon DEF Full, QueuesInv, State
<1>2. Forgotten(kk, k1)
  BY <1>1, ForgetMoved, Zenon
<1>3. r = IF kk.ksReadyQueuesL1Bitmap[d] = {} THEN Run(k1, idle) ELSE switchToThread(k1, Head(queue))
  <2>1. (IF numDomains > 1 THEN kk.ksCurDomain ELSE 0) = d
    BY <1>1, SchedulerConstants DEF Domains
  <2> QED BY <2>1, Zenon DEF chooseThread, Forget, Run
<1> HIDE DEF k1, r
<1>4. QueuesInv(k1) /\ QueuedReady(k1) /\ ScheduleOK(k1) /\ Covered(k1, {}) /\ k1.ksDomainTime > 0
  <2>1. QueuesInv(k1)
    BY <1>2, QueuesKept, Zenon DEF Full, Forgotten
  <2> QED BY <1>2, <2>1
          DEF Full, QueuedReady, ScheduleOK, isEndMarker, Covered, Forgotten, SameQueues, SameEntry
<1>5. CASE kk.ksReadyQueuesL1Bitmap[d] = {}
  <2>1. r = Run(k1, idle)
    BY <1>3, <1>5, Zenon
  <2>2. Running(k1, idle, r)
    BY <1>2, <2>1, SetCurThread, Zenon DEF Forgotten
  <2>3. QueuesInv(r)
    BY <1>4, <2>2, QueuesKept, Zenon DEF Running
  <2>4. QueuedReady(r) /\ ScheduleOK(r) /\ Covered(r, {r.ksCurThread}) /\ CurRuns(r) /\ r.ksDomainTime > 0
    BY <1>4, <2>2, ZenonT(60) DEF QueuedReady, ScheduleOK, isEndMarker, Covered, CurRuns, Running,
       SameQueues
  <2>5. ASSUME NEW u \in Threads, r.tcbQueued[u] PROVE r.tcbDomain[u] # r.ksCurDomain
    <3>1. kk.tcbQueued[u] /\ r.tcbDomain = kk.tcbDomain /\ r.ksCurDomain = d
      BY <1>2, <2>2, <2>5, Zenon DEF Forgotten, Running, SameQueues, SameEntry
    <3>2. kk.ksReadyQueuesL1Bitmap[kk.tcbDomain[u]] # {}
      BY <3>1, QueuedBits, Zenon DEF Full
    <3> QED BY <1>5, <3>1, <3>2, Zenon
  <2>6. CurTop(r)
    BY <2>5, Zenon DEF CurTop
  <2> QED BY <2>3, <2>4, <2>6, Zenon DEF Chosen, r
<1>6. CASE kk.ksReadyQueuesL1Bitmap[d] # {}
  <2> DEFINE t == Head(queue)
  <2>1. /\ p \in Priorities /\ queue # <<>>
        /\ \A q \in Priorities : kk.ksReadyQueues[ready_queues_index(d, q)] # <<>> => q <= p
    BY <1>1, <1>6, HighestPrio, Zenon DEF Full
  <2> HIDE DEF p
  <2>2. t \in Threads /\ InQueue(queue, t)
    <3>1. ready_queues_index(d, p) \in 0 .. numDomains * CONFIG_NUM_PRIORITIES - 1
      BY <1>1, <2>1, QueueIndex, Zenon
    <3>2. kk.ksReadyQueues \in [0 .. numDomains * CONFIG_NUM_PRIORITIES - 1 -> Seq(Threads)]
      BY <1>1, Zenon DEF State
    <3>3. queue \in Seq(Threads)
      BY <3>1, <3>2, Zenon
    <3> HIDE DEF queue
    <3>4. t = queue[1] /\ 1 \in 1 .. Len(queue) /\ t \in Threads
      BY <2>1, <3>3
    <3> QED BY <3>4, Zenon DEF InQueue
  <2> HIDE DEF t
  <2>3. QueueAgrees(kk, d, p)
    BY <1>1, <2>1, Zenon DEF Full, QueuesInv
  <2>4. kk.tcbQueued[t] /\ kk.tcbDomain[t] = d /\ kk.tcbPriority[t] = p
    BY <2>2, <2>3, Zenon DEF QueueAgrees
  <2>5. kk.tcbState[t] = "Ready"
    BY <2>2, <2>4, Zenon DEF Full, QueuedReady
  <2>6. ASSUME NEW u \in Threads, kk.tcbQueued[u], kk.tcbDomain[u] = d PROVE kk.tcbPriority[u] <= p
    BY <2>1, <2>6, QueuedBits, Zenon DEF Full
  <2>7. /\ k1.tcbState[t] = "Ready" /\ k1.tcbDomain[t] = k1.ksCurDomain
        /\ \A u \in Threads : k1.tcbQueued[u] /\ k1.tcbDomain[u] = k1.ksCurDomain /\ u \notin k1.moved
             => k1.tcbPriority[u] <= k1.tcbPriority[t]
    BY <1>2, <2>4, <2>5, <2>6, Zenon DEF Forgotten, SameQueues, SameEntry
  <2>8. Covered(k1, {t})
    BY <1>4, Zenon DEF Covered
  <2>9. Chosen(switchToThread(k1, t))
    BY <1>4, <2>2, <2>7, <2>8, SwitchChosen, Zenon
  <2> QED BY <1>3, <1>6, <2>9, Zenon DEF t, p, r
<1> QED BY <1>5, <1>6, Zenon

\* scheduleChooseNewThread does so in the next domain, if the time is over
LEMMA ScheduleNew ==
  ASSUME NEW kk, Full(kk)
  PROVE  Chosen(scheduleChooseNewThread(kk))
<1>1. kk \in State /\ kk.ksDomainTime \in Nat
  BY Zenon DEF Full, QueuesInv, State
<1>2. CASE kk.ksDomainTime = 0
  <2> DEFINE r == nextDomain(kk)
  <2>1. /\ Redated(kk, r.ksCurDomain, r.ksDomainTime, r.ksDomScheduleIdx, kk.ksDomScheduleStart, kk.ksDomSchedule, r)
        /\ r.ksDomainTime > 0 /\ ScheduleOK(r)
    BY <1>1, NextDomain, Zenon DEF Full
  <2>2. scheduleChooseNewThread(kk) = chooseThread(r)
    BY <1>2, Zenon DEF scheduleChooseNewThread
  <2> HIDE DEF r
  <2>3. QueuesInv(r)
    BY <2>1, QueuesKept, Zenon DEF Full, Redated
  <2>4. QueuedReady(r) /\ Covered(r, {})
    BY <2>1, Zenon DEF Full, QueuedReady, Covered, Redated, SameQueues
  <2> QED BY <2>1, <2>2, <2>3, <2>4, ChooseThread, Zenon DEF Full
<1>3. CASE kk.ksDomainTime # 0
  BY <1>1, <1>3, ChooseThread DEF scheduleChooseNewThread
<1> QED BY <1>2, <1>3, Zenon

\* The candidate of a handler runs, or competes for the processor
LEMMA Candidate ==
  ASSUME NEW kk, QueuesInv(kk), QueuedReady(kk), ScheduleOK(kk), kk.ksDomainTime > 0,
         NEW t \in Threads, Covered(kk, {t}), CurTop(kk),
         kk.tcbState[t] = "Ready", kk.tcbDomain[t] = kk.ksCurDomain, NEW w \in BOOLEAN
  PROVE  Chosen(switchToCandidate(kk, t, w))
<1> DEFINE cur == kk.ksCurThread
           p == kk.tcbPriority[t]
           d == kk.ksCurDomain
           fastfail == cur = idle \/ p < kk.tcbPriority[cur]
<1>1. ASSUME NEW r \in {tcbSchedEnqueue(kk, t), tcbSchedAppend(kk, t)} PROVE Full(r)
  <2>1. QueuesInv(r) /\ SameThreads(kk, r) /\ r.tcbQueued = [kk.tcbQueued EXCEPT ![t] = TRUE]
    BY <1>1, Enqueued
  <2>2. kk.tcbQueued \in [Threads -> BOOLEAN]
    BY Zenon DEF QueuesInv, State
  <2>3. \A u \in Threads : r.tcbQueued[u] <=> u = t \/ kk.tcbQueued[u]
    BY <2>1, <2>2, Zenon
  <2>4. QueuedReady(r) /\ Covered(r, {})
    BY <2>1, <2>3, ZenonT(60) DEF QueuedReady, Covered, SameThreads
  <2>5. ScheduleOK(r)
    BY <2>1, Zenon DEF ScheduleOK, isEndMarker, SameThreads
  <2> QED BY <2>1, <2>4, <2>5, Zenon DEF Full
<1>2. CASE fastfail /\ ~isHighestPrio(kk, d, p)
  BY <1>1, <1>2, ScheduleNew, Zenon DEF switchToCandidate
<1>3. CASE ~(fastfail /\ ~isHighestPrio(kk, d, p)) /\ w /\ p = kk.tcbPriority[cur]
  BY <1>1, <1>3, ScheduleNew, Zenon DEF switchToCandidate
<1>4. CASE ~(fastfail /\ ~isHighestPrio(kk, d, p)) /\ ~(w /\ p = kk.tcbPriority[cur])
  <2>1. ASSUME NEW u \in Threads, kk.tcbQueued[u], kk.tcbDomain[u] = d, u \notin kk.moved
        PROVE  kk.tcbPriority[u] <= p
    <3>0. d \in Domains /\ kk.tcbPriority \in [Threads -> Priorities] /\ cur \in Threads \cup {idle}
      BY Zenon DEF QueuesInv, State
    <3>1. /\ \A q \in Priorities : q \in Int
          /\ kk.tcbPriority[u] \in Priorities /\ p \in Priorities
      BY <3>0, SchedulerConstants DEF Priorities
    <3>2. CASE ~fastfail
      <4>1. cur # idle /\ kk.tcbPriority[u] <= kk.tcbPriority[cur]
        BY <2>1, Zenon DEF CurTop
      <4>2. kk.tcbPriority[cur] \in Priorities /\ ~(p < kk.tcbPriority[cur])
        BY <3>0, <3>2, <4>1, Zenon
      <4> HIDE DEF p
      <4> QED BY <3>1, <4>1, <4>2
    <3>3. CASE isHighestPrio(kk, d, p)
      <4>1. /\ kk.ksReadyQueuesL1Bitmap[d] # {}
            /\ kk.ksReadyQueues[ready_queues_index(d, kk.tcbPriority[u])] # <<>>
        BY <2>1, QueuedBits, Zenon
      <4>2. kk.tcbPriority[u] <= getHighestPrio(kk, d) /\ getHighestPrio(kk, d) \in Priorities
        BY <3>0, <4>1, HighestPrio, Zenon
      <4>3. p >= getHighestPrio(kk, d)
        BY <3>3, <4>1, Zenon DEF isHighestPrio
      <4> HIDE DEF p
      <4> QED BY <3>1, <4>2, <4>3
    <3> QED BY <1>4, <3>2, <3>3, Zenon
  <2>2. Chosen(switchToThread(kk, t))
    BY <2>1, SwitchChosen, Zenon
  <2> QED BY <1>4, <2>2, Zenon DEF switchToCandidate
<1> QED BY <1>2, <1>3, <1>4, Zenon

-----------------------------------------------------------------------------
(* schedule *)

\* Only Choose is left of a domain whose time is over
LEMMA CheckTime ==
  ASSUME NEW kk, Mid(kk)
  PROVE  /\ Mid(checkDomainTime(kk))
         /\ checkDomainTime(kk).ksDomainTime = 0 => checkDomainTime(kk).ksSchedulerAction = Choose
<1>1. CASE isCurDomainExpired(kk)
  <2>1. checkDomainTime(kk) = rescheduleRequired(kk)
    BY <1>1, Zenon DEF checkDomainTime
  <2> QED BY <2>1, Reschedule, RescheduleMid, Zenon DEF Mid
<1>2. CASE ~isCurDomainExpired(kk)
  <2>1. checkDomainTime(kk) = kk
    BY <1>2, Zenon DEF checkDomainTime
  <2> QED BY <1>2, <2>1, Zenon DEF isCurDomainExpired, Mid
<1> QED BY <1>1, <1>2, Zenon

\* The end of schedule
Settle(kk) ==
  [kk EXCEPT !.ksSchedulerAction = Resume,
             !.moved = {t \in @ : kk.tcbQueued[t] /\ kk.tcbDomain[t] = kk.ksCurDomain}]

\* The last assignments of schedule keep the choice
LEMMA Settled ==
  ASSUME NEW kk, Chosen(kk)
  PROVE  Inv(Settle(kk))
<1> DEFINE m == {t \in kk.moved : kk.tcbQueued[t] /\ kk.tcbDomain[t] = kk.ksCurDomain}
           r == [kk EXCEPT !.ksSchedulerAction = Resume, !.moved = m]
<1>1. kk \in State /\ kk.moved \subseteq Threads
  BY Zenon DEF Chosen, QueuesInv, State
<1>2. Settle(kk) = r
  BY <1>1, Zenon DEF Settle, State
<1>3. m \in SUBSET Threads /\ Resume \in Threads \cup {Resume, Choose}
  BY <1>1, Zenon
<1>4. \A t \in Threads : kk.tcbQueued[t] /\ kk.tcbDomain[t] = kk.ksCurDomain /\ t \notin m => t \notin kk.moved
  OBVIOUS
<1> HIDE DEF m
<1>5. r \in State
  BY <1>1, <1>3, Zenon DEF State
<1>6. SameQueues(kk, r) /\ SameEntry(kk, r)
  BY <1>1, Zenon DEF State, SameQueues, SameEntry
<1>7. r.tcbState = kk.tcbState /\ r.ksSchedulerAction = Resume /\ r.moved = m
  BY <1>1, Zenon DEF State
<1> HIDE DEF r
<1>8. QueuesInv(r)
  BY <1>5, <1>6, QueuesKept, Zenon DEF Chosen
<1>9. QueuedReady(r) /\ ScheduleOK(r) /\ Covered(r, {r.ksCurThread}) /\ CurRuns(r) /\ r.ksDomainTime > 0
  BY <1>6, <1>7 DEF Chosen, QueuedReady, ScheduleOK, isEndMarker, Covered, CurRuns, SameQueues,
     SameEntry
<1>10. CurTop(r)
  BY <1>4, <1>6, <1>7, Zenon DEF Chosen, CurTop, SameQueues, SameEntry
<1> QED BY <1>2, <1>7, <1>8, <1>9, <1>10, Zenon DEF Inv, Chosen

\* Whatever a handler leaves behind, schedule restores the invariant
LEMMA ScheduleInv ==
  ASSUME NEW kk, Mid(kk)
  PROVE  Inv(schedule(kk))
<1> DEFINE k1 == checkDomainTime(kk)
           cur == k1.ksCurThread
           a == k1.ksSchedulerAction
           w == isSchedulable(k1, cur)
           k2 == IF w THEN tcbSchedEnqueue(k1, cur) ELSE k1
           k3 == IF a = Resume THEN k1
                 ELSE IF a = Choose THEN scheduleChooseNewThread(k2)
                 ELSE switchToCandidate(k2, a, w)
<1>1. Mid(k1) /\ (k1.ksDomainTime = 0 => a = Choose)
  BY CheckTime, Zenon
<1>2. schedule(kk) = Settle(k3)
  BY Zenon DEF schedule, Settle
<1> HIDE DEF k1
<1>3. k1 \in State /\ cur \in Threads \cup {idle} /\ a \in Threads \cup {Resume, Choose} /\ k1.ksDomainTime \in Nat
  BY <1>1, Zenon DEF Mid, Pre, QueuesInv, State
<1>4. /\ Pre(k2, {}) /\ SameThreads(k1, k2)
      /\ \A u \in Threads : k2.tcbQueued[u] <=> (w /\ u = cur) \/ k1.tcbQueued[u]
  <2>1. CASE w
    <3>1. cur \in Threads /\ k1.tcbState[cur] = "Ready" /\ Pre(k1, {})
      BY <1>1, <2>1, Zenon DEF isSchedulable, Mid
    <3>2. /\ Pre(tcbSchedEnqueue(k1, cur), {} \ {cur}) /\ SameThreads(k1, tcbSchedEnqueue(k1, cur))
          /\ \A u \in Threads : tcbSchedEnqueue(k1, cur).tcbQueued[u] <=> u = cur \/ k1.tcbQueued[u]
      BY <3>1, PreEnqueue, ZenonT(60)
    <3>3. {} \ {cur} = {}
      OBVIOUS
    <3> QED BY <2>1, <3>2, <3>3, Zenon
  <2>2. CASE ~w
    BY <1>1, <2>2, Zenon DEF SameThreads, Mid
  <2> QED BY <2>1, <2>2, Zenon
<1> HIDE DEF k2
<1>5. Covered(k2, {a})
  <2>1. ASSUME NEW u \in Threads, k2.tcbState[u] = "Ready" PROVE k2.tcbQueued[u] \/ u = a
    <3>1. k1.tcbState[u] = "Ready"
      BY <1>4, <2>1, Zenon DEF SameThreads
    <3>2. CASE u = cur
      BY <1>4, <3>1, <3>2, Zenon DEF isSchedulable
    <3>3. CASE u # cur
      BY <1>4, <2>1, <3>3, Zenon DEF Pre, Covered, SameThreads
    <3> QED BY <3>2, <3>3, Zenon
  <2> QED BY <2>1, Zenon DEF Covered
<1>6. CASE a = Resume
  <2>1. CurRuns(k1) /\ CurTop(k1) /\ Pre(k1, {}) /\ k1.ksDomainTime > 0
    BY <1>1, <1>3, <1>6, Constants DEF Mid
  <2>2. Covered(k1, {cur})
    BY <1>6, <2>1, Constants, Zenon DEF Pre, Covered
  <2>3. Chosen(k1)
    BY <2>1, <2>2, Zenon DEF Pre, Chosen
  <2> QED BY <1>2, <1>6, <2>3, Settled, Zenon
<1>7. CASE a = Choose
  <2>1. Covered(k2, {})
    BY <1>5, <1>7, Constants, Zenon DEF Covered
  <2>2. Full(k2)
    BY <1>4, <2>1, Zenon DEF Full, Pre
  <2>3. k3 = scheduleChooseNewThread(k2)
    BY <1>7, Constants, Zenon
  <2> QED BY <1>2, <2>2, <2>3, ScheduleNew, Settled, Zenon
<1>8. CASE a \in Threads
  <2>1. a # Choose /\ a # Resume /\ k2.ksDomainTime > 0
    BY <1>1, <1>3, <1>4, <1>8, Constants DEF SameThreads
  <2>2. CurTop(k1) /\ CandidateOK(k1)
    BY <1>1, <2>1, Zenon DEF Mid, Pre
  <2>3. k2.tcbState[a] = "Ready" /\ k2.tcbDomain[a] = k2.ksCurDomain
    BY <1>4, <1>8, <2>2, Zenon DEF CandidateOK, SameThreads
  <2>4. CurTop(k2)
    <3>1. ASSUME NEW u \in Threads, k2.tcbQueued[u], k2.tcbDomain[u] = k2.ksCurDomain, u \notin k2.moved
          PROVE  k2.ksCurThread # idle /\ k2.tcbPriority[u] <= k2.tcbPriority[k2.ksCurThread]
      <4>1. k2.ksCurThread = cur /\ k2.tcbPriority = k1.tcbPriority
        BY <1>4, Zenon DEF SameThreads
      <4>2. CASE u = cur
        <5>1. k1.tcbPriority[u] \in Priorities
          BY <1>3, Zenon DEF State
        <5>2. k1.tcbPriority[u] <= k1.tcbPriority[u]
          BY <5>1, SchedulerConstants DEF Priorities
        <5> QED BY <4>1, <4>2, <5>2, Constants, Zenon
      <4>3. CASE u # cur
        BY <1>4, <2>2, <3>1, <4>1, <4>3, Zenon DEF CurTop, SameThreads
      <4> QED BY <4>2, <4>3, Zenon
    <3> QED BY <3>1, Zenon DEF CurTop
  <2>5. w \in BOOLEAN
    BY Zenon DEF isSchedulable
  <2> HIDE DEF w
  <2>6. Chosen(switchToCandidate(k2, a, w))
    BY <1>4, <1>5, <1>8, <2>1, <2>3, <2>4, <2>5, Candidate, Zenon DEF Pre
  <2>7. k3 = switchToCandidate(k2, a, w)
    BY <2>1, Zenon
  <2> QED BY <1>2, <2>6, <2>7, Settled, Zenon
<1> QED BY <1>3, <1>6, <1>7, <1>8, Zenon

\* Between kernel entries, and within one after its handler
SInv == IF inKernel THEN Mid(k) ELSE Inv(k)

\* Every handler leaves a state of Mid to awaken and schedule
LEMMA LeaveMid ==
  ASSUME NEW kk, Mid(kk), leave(kk)
  PROVE  SInv'
BY Zenon DEF leave, SInv

\* A blocked thread is woken, or waits for its budget
LEMMA WakeMid ==
  ASSUME NEW kk, Start(kk), NEW t \in Threads, kk.tcbState[t] = "Blocked", NEW x \in wake(kk, t)
  PROVE  /\ Mid(x) /\ x.ksCurThread = kk.ksCurThread
         /\ \A u \in Threads : x.tcbQueued[u] \/ x.ksSchedulerAction = u => u = t \/ kk.tcbQueued[u]
<1> DEFINE a == possibleSwitchTo([kk EXCEPT !.tcbState[t] = "Ready"], t)
           b == [kk EXCEPT !.tcbState[t] = "Waiting"]
<1>1. Mid(kk) /\ kk.ksSchedulerAction = Resume /\ t # kk.ksCurThread
  BY Constants, Zenon DEF Start, Mid, CurRuns
<1>2. /\ Mid(a) /\ a.ksCurThread = kk.ksCurThread
      /\ \A u \in Threads : a.tcbQueued[u] \/ a.ksSchedulerAction = u => u = t \/ kk.tcbQueued[u]
  BY <1>1, PossibleSwitch, Zenon
<1>3. /\ Mid(b) /\ b.ksCurThread = kk.ksCurThread /\ b.ksSchedulerAction = kk.ksSchedulerAction
      /\ b.tcbQueued = kk.tcbQueued
  BY <1>1, BeginsToWait, Zenon
<1>4. x = a \/ x = b
  BY Zenon DEF wake
<1> HIDE DEF a, b
<1> QED BY <1>1, <1>2, <1>3, <1>4, Constants, Zenon

\* The current thread blocks, and wakes the thread it calls if that one waits
LEMMA BlockMid ==
  ASSUME NEW kk, Start(kk), kk.ksCurThread \in Threads, NEW x \in block(kk)
  PROVE  Mid(x)
<1> DEFINE cur == kk.ksCurThread
           k1 == setThreadState(kk, cur, "Blocked")
<1>1. Mid(kk) /\ kk.tcbState[cur] = "Ready" /\ ~kk.tcbQueued[cur] /\ kk.ksSchedulerAction # cur
  BY Constants, Zenon DEF Start, Mid, CurRuns
<1>2. /\ Mid(k1) /\ k1.ksCurThread = cur
      /\ \A u \in Threads : u # cur => k1.tcbState[u] = kk.tcbState[u]
  BY <1>1, BlockCurrent, Zenon
<1>3. x = k1 \/ \E t \in Threads : kk.tcbState[t] = "Blocked" /\ x \in wake(k1, t)
  BY Zenon DEF block
<1> HIDE DEF k1
<1>4. ASSUME NEW t \in Threads, kk.tcbState[t] = "Blocked", x \in wake(k1, t) PROVE Mid(x)
  <2>1. t # k1.ksCurThread /\ k1.tcbState[t] # "Ready"
    BY <1>1, <1>2, <1>4, Zenon
  <2>2. Mid(possibleSwitchTo([k1 EXCEPT !.tcbState[t] = "Ready"], t))
    BY <1>2, <2>1, PossibleSwitch, Zenon
  <2>3. Mid([k1 EXCEPT !.tcbState[t] = "Waiting"])
    BY <1>2, <2>1, BeginsToWait, Zenon
  <2> QED BY <1>4, <2>2, <2>3, Zenon DEF wake
<1> QED BY <1>2, <1>3, <1>4, Zenon

\* Time passes, and nothing else changes
LEMMA TimestampSame ==
  ASSUME NEW kk \in State, NEW c
  PROVE  LET r == updateTimestamp(kk, c)
         IN /\ r.tcbState = kk.tcbState /\ r.ksCurThread = kk.ksCurThread
            /\ r.ksDomScheduleStart = kk.ksDomScheduleStart /\ r.ksDomSchedule = kk.ksDomSchedule
BY Zenon DEF updateTimestamp, State

\* The kernel starts in a state of the invariant
LEMMA InitInv == Init => SInv
<1> SUFFICES ASSUME Init PROVE Inv(k)
  BY Zenon DEF Init, SInv
<1> DEFINE ts == [t \in Threads |-> IF t = initThread THEN "Ready" ELSE "Blocked"]
           dom == [t \in Threads |-> 0]
           queued0 == [t \in Threads |-> FALSE]
           queues == [i \in 0 .. numDomains * CONFIG_NUM_PRIORITIES - 1 |-> <<>>]
           l1 == [d \in Domains |-> {}]
           l2 == [d \in Domains |-> [i \in 0 .. L2_BITMAP_SIZE - 1 |-> {}]]
           sched == [i \in Indices |-> IF i = 0 THEN dschedule_make(0, DSCHED_MAX_DURATION) ELSE endMarker]
<1>1. PICK prio \in InitPriorities :
        k = [ tcbState |-> ts, tcbDomain |-> dom, tcbPriority |-> prio, tcbQueued |-> queued0,
              ksReadyQueues |-> queues, ksReadyQueuesL1Bitmap |-> l1, ksReadyQueuesL2Bitmap |-> l2,
              ksCurThread |-> initThread, ksSchedulerAction |-> Resume, ksCurDomain |-> 0,
              ksDomainTime |-> DSCHED_MAX_DURATION, ksDomScheduleIdx |-> 0, ksDomScheduleStart |-> 0,
              ksDomSchedule |-> sched, moved |-> {} ]
  BY Zenon DEF Init
<1>2. /\ 0 \in Domains /\ 0 \in Indices /\ DSCHED_MAX_DURATION \in Nat /\ DSCHED_MAX_DURATION > 0
      /\ domScheduleLength - 1 \in Indices /\ domScheduleLength - 1 # 0 /\ 0 \in 0 .. domScheduleLength - 2
      /\ initThread \in Threads /\ idle \notin Threads /\ initThread \in Threads \cup {idle}
      /\ Resume \in Threads \cup {Resume, Choose}
      /\ prio \in [Threads -> Priorities] /\ {} \in SUBSET Threads
  BY SchedulerConstants DEF Domains, Indices
<1>3. ts \in [Threads -> {"Ready", "Waiting", "Blocked"}] /\ dom \in [Threads -> Domains]
  BY <1>2, Zenon
<1>4. queued0 \in [Threads -> BOOLEAN]
  BY Zenon
<1>5. queues \in [0 .. numDomains * CONFIG_NUM_PRIORITIES - 1 -> Seq(Threads)]
  <2>1. <<>> \in Seq(Threads)
    OBVIOUS
  <2> QED BY <2>1, Zenon
<1>6. /\ l1 \in [Domains -> SUBSET (0 .. L2_BITMAP_SIZE - 1)]
      /\ l2 \in [Domains -> [0 .. L2_BITMAP_SIZE - 1 -> SUBSET (0 .. wordBits - 1)]]
  BY Zenon
<1>7. sched \in [Indices -> Entry]
  BY <1>2, Zenon DEF dschedule_make, endMarker, Entry
<1>8. /\ \A t \in Threads : ts[t] = "Ready" <=> t = initThread
      /\ \A t \in Threads : dom[t] = 0 /\ ~queued0[t]
  OBVIOUS
<1>9. /\ \A d \in Domains, p \in Priorities : queues[ready_queues_index(d, p)] = <<>>
      /\ \A d \in Domains : l1[d] = {} /\ \A i \in 0 .. L2_BITMAP_SIZE - 1 : l2[d][i] = {}
  BY QueueIndex, Zenon
<1>10. /\ sched[0] = dschedule_make(0, DSCHED_MAX_DURATION)
       /\ \A i \in Indices : i # 0 => sched[i] = endMarker
  BY <1>2, Zenon
<1> HIDE DEF ts, dom, queued0, queues, l1, l2, sched
<1>11. k \in State
  BY <1>1, <1>2, <1>3, <1>4, <1>5, <1>6, <1>7, Zenon DEF State
<1>12. /\ k.tcbState = ts /\ k.tcbDomain = dom /\ k.tcbQueued = queued0 /\ k.ksReadyQueues = queues
       /\ k.ksReadyQueuesL1Bitmap = l1 /\ k.ksReadyQueuesL2Bitmap = l2 /\ k.ksCurThread = initThread
       /\ k.ksSchedulerAction = Resume /\ k.ksCurDomain = 0 /\ k.ksDomainTime = DSCHED_MAX_DURATION
       /\ k.ksDomScheduleIdx = 0 /\ k.ksDomScheduleStart = 0 /\ k.ksDomSchedule = sched
  BY <1>1, Zenon
<1>13. QueuesInv(k)
  <2>1. ASSUME NEW d \in Domains, NEW p \in Priorities PROVE QueueAgrees(k, d, p)
    <3>1. invert_l1index(prio_to_l1index(p)) \in 0 .. L2_BITMAP_SIZE - 1
      BY BitmapIndex, Zenon
    <3>2. \A t \in Threads : ~InQueue(<<>>, t)
      BY DEF InQueue
    <3>3. Distinct(<<>>)
      BY DEF Distinct
    <3> QED BY <1>9, <1>12, <3>1, <3>2, <3>3, Zenon DEF QueueAgrees
  <2>2. BitsOfPriorities(k)
    BY <1>9, <1>12, Zenon DEF BitsOfPriorities
  <2> QED BY <1>8, <1>11, <1>12, <2>1, <2>2, Zenon DEF QueuesInv
<1>14. QueuedReady(k) /\ Covered(k, {k.ksCurThread}) /\ CurRuns(k) /\ CurTop(k)
  BY <1>2, <1>8, <1>12, Zenon DEF QueuedReady, Covered, CurRuns, CurTop
<1>15. ScheduleOK(k)
  <2>1. dschedule_make(0, DSCHED_MAX_DURATION) # endMarker /\ dschedule_make(0, DSCHED_MAX_DURATION).duration # 0
    BY <1>2 DEF dschedule_make, endMarker
  <2> QED BY <1>2, <1>10, <1>12, <2>1, Zenon DEF ScheduleOK, isEndMarker
<1> QED BY <1>2, <1>12, <1>13, <1>14, <1>15, Zenon DEF Inv, Chosen

\* Every kernel entry keeps the invariant
LEMMA NextInv == SInv /\ [Next]_vars => SInv'
<1> SUFFICES ASSUME SInv, [Next]_vars PROVE SInv'
  OBVIOUS
<1>0. CASE inKernel
  <2>0. Mid(k)
    BY <1>0, Zenon DEF SInv
  <2>1. CASE Exit
    BY <2>0, <2>1, ScheduleInv, Zenon DEF Exit, SInv
  <2>2. ASSUME NEW t \in Threads, awaken(t) PROVE SInv'
    <3>1. k' = possibleSwitchTo([k EXCEPT !.tcbState[t] = "Ready"], t) /\ inKernel'
      BY <1>0, <2>2, Zenon DEF awaken
    <3>2. k.tcbState[t] # "Ready" /\ t # k.ksCurThread
      BY <2>2, Zenon DEF awaken
    <3>3. Mid(k')
      BY <2>0, <3>1, <3>2, PossibleSwitch, Zenon
    <3> QED BY <3>1, <3>3, Zenon DEF SInv
  <2>3. CASE UNCHANGED vars
    BY <2>3, Zenon DEF vars, SInv
  <2> QED BY <1>0, <2>1, <2>2, <2>3, Zenon
          DEF Next, Block, EndTimeslice, Interrupt, Wake, ReplyRecv, Suspend, SetPriority, invokeDomainSetSet,
              invokeDomainScheduleConfigure, invokeDomainScheduleSetStart, Syscall, checkBudgetRestart
<1> SUFFICES ASSUME ~inKernel PROVE SInv'
  BY <1>0, Zenon
<1>00. Inv(k)
  BY Zenon DEF SInv
<1>1. k \in State
  BY <1>00, Zenon DEF Inv, Chosen, QueuesInv
<1>2. ASSUME NEW c \in Steps
      PROVE  LET k1 == updateTimestamp(k, c)
             IN /\ Start(k1) /\ Mid(k1) /\ k1.tcbState = k.tcbState /\ k1.ksCurThread = k.ksCurThread
                /\ k1.ksDomScheduleStart = k.ksDomScheduleStart /\ k1.ksDomSchedule = k.ksDomSchedule
                /\ k1.ksCurThread # idle =>
                     k1.ksCurThread \in Threads /\ ~k1.tcbQueued[k1.ksCurThread] /\ k1.ksSchedulerAction # k1.ksCurThread
  <2> DEFINE k1 == updateTimestamp(k, c)
  <2>1. Start(k1)
    BY <1>00, TimestampStart, Zenon
  <2>2. /\ k1.tcbState = k.tcbState /\ k1.ksCurThread = k.ksCurThread
        /\ k1.ksDomScheduleStart = k.ksDomScheduleStart /\ k1.ksDomSchedule = k.ksDomSchedule
    BY <1>1, TimestampSame, Zenon
  <2> HIDE DEF k1
  <2>3. Mid(k1) /\ CurRuns(k1) /\ k1.ksSchedulerAction = Resume
    BY <2>1, Zenon DEF Start, Mid
  <2>4. k.ksCurThread \in Threads \cup {idle}
    BY <1>1, Zenon DEF State
  <2>5. k1.ksCurThread # idle =>
          k1.ksCurThread \in Threads /\ ~k1.tcbQueued[k1.ksCurThread] /\ k1.ksSchedulerAction # k1.ksCurThread
    BY <2>2, <2>3, <2>4, Constants, Zenon DEF CurRuns
  <2> QED BY <2>1, <2>2, <2>3, <2>5, Zenon DEF k1
<1>3. CASE Block
  <2>1. PICK c \in Steps : k.ksCurThread # idle /\ \E x \in block(updateTimestamp(k, c)) : leave(x)
    BY <1>2, <1>3, Zenon DEF Block, Syscall, checkBudgetRestart
  <2>2. Start(updateTimestamp(k, c)) /\ updateTimestamp(k, c).ksCurThread \in Threads
    BY <1>2, <2>1, Zenon
  <2> QED BY <2>1, <2>2, BlockMid, LeaveMid, Zenon
<1>4. ASSUME NEW t \in Threads, Wake(t) PROVE SInv'
  <2>1. PICK c \in Steps : \E x \in wake(updateTimestamp(k, c), t) : leave(x)
    BY <1>4, Zenon DEF Wake, Syscall, checkBudgetRestart
  <2>2. updateTimestamp(k, c).tcbState[t] = "Blocked" /\ Start(updateTimestamp(k, c))
    BY <1>2, <1>4, Zenon DEF Wake
  <2> QED BY <2>1, <2>2, WakeMid, LeaveMid, Zenon
<1>5. ASSUME NEW t \in Threads, ReplyRecv(t) PROVE SInv'
  <2>1. PICK c \in Steps : LET k1 == updateTimestamp(k, c)
                           IN /\ k.ksCurThread # idle
                              /\ \E x \in wake(k1, t) : leave(setThreadState(x, k1.ksCurThread, "Blocked"))
    BY <1>2, <1>5, Zenon DEF ReplyRecv, Syscall, checkBudgetRestart
  <2> DEFINE k1 == updateTimestamp(k, c)
  <2>2. PICK x \in wake(k1, t) : leave(setThreadState(x, k1.ksCurThread, "Blocked"))
    BY <2>1, Zenon
  <2>3. k1.tcbState[t] = "Blocked" /\ Start(k1) /\ CurRuns(k1)
    BY <1>2, <1>5, Zenon DEF ReplyRecv, Start, Mid
  <2>4. k1.ksCurThread # idle /\ k1.ksCurThread \in Threads /\ ~k1.tcbQueued[k1.ksCurThread]
    BY <1>2, <2>1, Zenon
  <2> HIDE DEF k1
  <2>5. /\ Mid(x) /\ x.ksCurThread = k1.ksCurThread
        /\ \A u \in Threads : x.tcbQueued[u] \/ x.ksSchedulerAction = u => u = t \/ k1.tcbQueued[u]
    BY <2>3, WakeMid, ZenonT(60)
  <2>6. k1.ksCurThread # t
    BY <2>3, <2>4, Zenon DEF CurRuns
  <2>7. ~x.tcbQueued[x.ksCurThread] /\ x.ksSchedulerAction # x.ksCurThread /\ x.ksCurThread \in Threads
    BY <2>4, <2>5, <2>6, Zenon
  <2>8. Mid(setThreadState(x, k1.ksCurThread, "Blocked"))
    BY <2>5, <2>7, BlockCurrent, Zenon
  <2> QED BY <2>2, <2>8, LeaveMid, Zenon
<1>6. ASSUME NEW t \in Threads, Suspend(t) PROVE SInv'
  <2>1. PICK c \in Steps : leave(setThreadState(tcbSchedDequeue(updateTimestamp(k, c), t), t, "Blocked"))
    BY <1>6, Zenon DEF Suspend, Syscall, checkBudgetRestart
  <2>2. Start(updateTimestamp(k, c))
    BY <1>2, Zenon
  <2> QED BY <2>1, <2>2, SuspendMid, LeaveMid, Zenon
<1>7. CASE EndTimeslice
  <2>1. PICK c \in Steps :
          LET k1 == updateTimestamp(k, c)
              t  == k.ksCurThread
          IN \/ leave(rescheduleRequired(tcbSchedAppend(k1, t)))
             \/ leave(rescheduleRequired([tcbSchedDequeue(k1, t) EXCEPT !.tcbState[t] = "Waiting"]))
             \/ \E x \in block(k1) : leave(rescheduleRequired(x))
    BY <1>7, Zenon DEF EndTimeslice
  <2> DEFINE k1 == updateTimestamp(k, c)
             t == k.ksCurThread
  <2>2. Start(k1) /\ t \in Threads /\ t = k1.ksCurThread
    BY <1>2, <1>7, Zenon DEF EndTimeslice
  <2> HIDE DEF k1, t
  <2>3. /\ Mid(rescheduleRequired(tcbSchedAppend(k1, t)))
        /\ Mid(rescheduleRequired([tcbSchedDequeue(k1, t) EXCEPT !.tcbState[t] = "Waiting"]))
    BY <2>2, AppendMid, PostponeMid, Zenon
  <2>4. ASSUME NEW x \in block(k1) PROVE Mid(rescheduleRequired(x))
    <3>1. Mid(x)
      BY <2>2, BlockMid, Zenon
    <3> QED BY <3>1, RescheduleMid, Zenon DEF Mid
  <2> QED BY <2>1, <2>3, <2>4, LeaveMid, Zenon DEF k1, t
<1>8. CASE Interrupt
  <2>1. PICK c \in Steps :
          LET k1 == updateTimestamp(k, c)
          IN \/ leave(k1)
             \/ \E t \in Threads : k.tcbState[t] = "Blocked" /\ \E x \in wake(k1, t) : leave(x)
    BY <1>8, Zenon DEF Interrupt
  <2> DEFINE k1 == updateTimestamp(k, c)
  <2>2. Start(k1) /\ Mid(k1) /\ k1.tcbState = k.tcbState
    BY <1>2, Zenon
  <2> HIDE DEF k1
  <2> QED BY <2>1, <2>2, WakeMid, LeaveMid, Zenon DEF k1
<1>9. ASSUME NEW t \in Threads, NEW prio \in Priorities, SetPriority(t, prio) PROVE SInv'
  <2>1. PICK c \in Steps : leave(setPriority(updateTimestamp(k, c), t, prio))
    BY <1>9, Zenon DEF SetPriority, Syscall, checkBudgetRestart
  <2>2. Start(updateTimestamp(k, c))
    BY <1>2, ZenonT(60)
  <2> QED BY <2>1, <2>2, SetPriorityMid, LeaveMid, Zenon
<1>10. ASSUME NEW t \in Threads, NEW dom \in Domains, invokeDomainSetSet(t, dom) PROVE SInv'
  <2>1. PICK c \in Steps : leave(setDomain(updateTimestamp(k, c), t, dom))
    BY <1>10, Zenon DEF invokeDomainSetSet, Syscall, checkBudgetRestart
  <2>2. Start(updateTimestamp(k, c))
    BY <1>2, Zenon
  <2> QED BY <2>1, <2>2, SetDomainMid, LeaveMid, Zenon
<1>11. ASSUME NEW index \in Indices, NEW dom \in Domains, NEW duration \in 0 .. DSCHED_MAX_DURATION,
              invokeDomainScheduleConfigure(index, dom, duration)
       PROVE  SInv'
  <2>1. PICK c \in Steps :
          LET k1 == updateTimestamp(k, c)
          IN leave([k1 EXCEPT !.ksDomSchedule[index] = dschedule_make(dom, duration)])
    BY <1>11, Zenon DEF invokeDomainScheduleConfigure, Syscall, checkBudgetRestart
  <2> DEFINE k1 == updateTimestamp(k, c)
  <2>2. Start(k1) /\ k1.ksDomScheduleStart = k.ksDomScheduleStart
    BY <1>2, Zenon
  <2>3. /\ index < domScheduleLength - 1 /\ duration \in Nat
        /\ duration = 0 => dom = 0 /\ index # k1.ksDomScheduleStart
    BY <1>11, <2>2, SchedulerConstants DEF invokeDomainScheduleConfigure, mayConfigure
  <2> HIDE DEF k1
  <2>4. Mid([k1 EXCEPT !.ksDomSchedule[index] = dschedule_make(dom, duration)])
    BY <2>2, <2>3, ConfigureMid, Zenon
  <2> QED BY <2>1, <2>4, LeaveMid, Zenon DEF k1
<1>12. ASSUME NEW index \in Indices, invokeDomainScheduleSetStart(index) PROVE SInv'
  <2> DEFINE set(kk) == rescheduleRequired([kk EXCEPT !.ksDomScheduleStart = index, !.ksDomainTime = 0,
                                                      !.ksDomScheduleIdx = domScheduleLength - 2])
  <2>1. PICK c \in Steps : leave(set(updateTimestamp(k, c)))
    BY <1>12, Zenon DEF invokeDomainScheduleSetStart, Syscall, checkBudgetRestart
  <2>2. Start(updateTimestamp(k, c)) /\ ~isEndMarker(updateTimestamp(k, c), index)
    BY <1>2, <1>12, Zenon DEF invokeDomainScheduleSetStart, isEndMarker
  <2>3. Mid(set(updateTimestamp(k, c)))
    BY <2>2, SetStartMid, Zenon
  <2> QED BY <2>1, <2>3, LeaveMid, Zenon
<1>13. CASE UNCHANGED vars
  BY <1>13, Zenon DEF vars, SInv
<1>14. ~Exit /\ \A t \in Threads : ~awaken(t)
  BY Zenon DEF Exit, awaken
<1>15. CASE \E t \in Threads : Wake(t) \/ ReplyRecv(t) \/ Suspend(t)
  BY <1>4, <1>5, <1>6, <1>15, Zenon
<1>16. CASE \E t \in Threads, prio \in Priorities : SetPriority(t, prio)
  BY <1>9, <1>16, Zenon
<1>17. CASE \E t \in Threads, dom \in Domains : invokeDomainSetSet(t, dom)
  BY <1>10, <1>17, Zenon
<1>18. CASE \E index \in Indices, dom \in Domains, duration \in 0 .. DSCHED_MAX_DURATION :
              invokeDomainScheduleConfigure(index, dom, duration)
  BY <1>11, <1>18, Zenon
<1>19. CASE \E index \in Indices : invokeDomainScheduleSetStart(index)
  BY <1>12, <1>19, Zenon
<1> QED BY <1>3, <1>7, <1>8, <1>13, <1>14, <1>15, <1>16, <1>17, <1>18, <1>19, Zenon DEF Next

-----------------------------------------------------------------------------

\* Inv holds between kernel entries, and Mid when a handler of Scheduler is done
THEOREM SchedulerInvariant == Spec => []SInv
BY InitInv, NextInv, PTL DEF Spec

\* Ready queues, bitmaps and tcbQueued agree after every handler and every
\* schedule, for any number of threads, domains and priorities and any width of
\* a word: what
\* getHighestPrio and chooseThread (thread.c) take for granted.
THEOREM ReadyQueuesSound == Spec => []ReadyQueuesAgree
<1>1. SInv => ReadyQueuesAgree
  BY Zenon DEF SInv, Mid, Pre, Inv, Chosen, QueuesInv, ReadyQueuesAgree
<1> QED BY SchedulerInvariant, <1>1, PTL

\* The thread that schedule leaves running is the one of the highest priority in
\* its domain, except for threads setDomain moved there since.
THEOREM SchedulerPicksHighest == Spec => []HighestRuns
<1>1. SInv => HighestRuns
  <2> SUFFICES ASSUME Inv(k), ~inKernel PROVE HighestRuns
    BY Zenon DEF SInv, HighestRuns
  <2>1. /\ k \in State /\ QueuedReady(k) /\ Covered(k, {k.ksCurThread}) /\ CurRuns(k) /\ CurTop(k)
        /\ k.ksCurThread \in Threads \cup {idle}
    BY Zenon DEF Inv, Chosen, QueuesInv, State
  <2>2. \A t \in Threads : isSchedulable(k, t) <=> k.tcbQueued[t] \/ t = k.ksCurThread
    BY <2>1, Constants, Zenon DEF isSchedulable, QueuedReady, Covered, CurRuns
  <2>3. k.tcbPriority \in [Threads -> Priorities] /\ \A q \in Priorities : q <= q
    BY <2>1, SchedulerConstants DEF State, Priorities
  <2>4. ASSUME NEW t \in Threads, isSchedulable(k, t), k.tcbDomain[t] = k.ksCurDomain, t \notin k.moved
        PROVE  k.ksCurThread # idle /\ k.tcbPriority[t] <= k.tcbPriority[k.ksCurThread]
    <3>1. CASE t = k.ksCurThread
      BY <2>3, <3>1, Constants, Zenon
    <3>2. CASE t # k.ksCurThread
      BY <2>1, <2>2, <2>4, <3>2, Zenon DEF CurTop
    <3> QED BY <3>1, <3>2, Zenon
  <2> QED BY <2>1, <2>2, <2>4, Zenon DEF HighestRuns, CurRuns, isSchedulable
<1> QED BY SchedulerInvariant, <1>1, PTL

\* nextDomain never leaves the schedule and never begins a round at an end marker,
\* whatever was configured.
THEOREM DomainScheduleStaysSound == Spec => []DomainScheduleSound
<1>1. SInv => DomainScheduleSound
  BY Zenon DEF SInv, Mid, Pre, Inv, Chosen, ScheduleOK, DomainScheduleSound
<1> QED BY SchedulerInvariant, <1>1, PTL
=============================================================================
