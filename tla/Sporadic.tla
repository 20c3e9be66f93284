------------------------------ MODULE Sporadic ------------------------------
(***************************************************************************)
(* Sporadic refills (kernel/sporadic.c): one scheduling context, the queue *)
(* of its refills, and the life of the thread bound to it as far as it     *)
(* charges, moves or reconfigures them.  The circular buffer is a sequence *)
(* here, head first (RefillRing shows that it behaves as one).  Time is    *)
(* the 64 bit tick counter, which the kernel requires to stay below        *)
(* MAX_RELEASE_TIME, five periods short of the end of the counter.         *)
(***************************************************************************)
EXTENDS Integers, Sequences, FiniteSets, FiniteSetsExt

CONSTANTS
  MIN_BUDGET,         \* ticks
  MAX_RELEASE_TIME,
  Budgets, Periods, MaxRefills, Flags,    \* the parameters user level configures
  Latencies,          \* how late the timer interrupt may be, in a behaviour
  Steps               \* bound: the ticks that may pass between two steps

MIN_REFILLS == 2

ASSUME SporadicConstants ==
  /\ MIN_BUDGET \in Nat \ {0} /\ MAX_RELEASE_TIME \in Nat \ {0}
  /\ Latencies \subseteq Nat /\ Steps \subseteq Nat
  /\ Budgets \subseteq Nat /\ Periods \subseteq Nat /\ Flags \subseteq BOOLEAN
  /\ Max(Periods) \in Periods /\ \A p \in Periods : p <= Max(Periods)
  /\ \A m \in MaxRefills : m \in Nat /\ m >= MIN_REFILLS

VARIABLES
  sc,         \* the context: refills, period, max, sporadic, and its budget
  phase,      \* of its thread: "running", "ready", "waiting" for a refill or "blocked"
  now,        \* ksCurTime
  consumed,   \* ksConsumed, while the thread runs
  late,       \* how late the timer interrupt may be
  ran         \* history: the ticks during which the thread ran since it was configured,
              \* no further back than the longest period

vars == <<sc, phase, now, consumed, late, ran>>

-----------------------------------------------------------------------------
(* The refill queue *)

refill_head(s) == s.refills[1]

sumOf(q) ==
  LET sum[i \in 0 .. Len(q)] == IF i = 0 THEN 0 ELSE sum[i - 1] + q[i].rAmount
  IN sum[Len(q)]

refill_sum(s) == sumOf(s.refills)

isRoundRobin(s) == s.period = 0

refill_ready(s, t) == refill_head(s).rTime <= t

refill_sufficient(s, usage) == refill_head(s).rAmount >= usage + MIN_BUDGET

refill_single(s) == Len(s.refills) = 1

refill_pop_head(s) == [s EXCEPT !.refills = Tail(@)]

setHead(s, r) == [s EXCEPT !.refills[1] = r]

\* Round robin: the tail counts the time used up
maybe_add_empty_tail(s) ==
  IF isRoundRobin(s)
  THEN [s EXCEPT !.refills = Append(@, [rTime |-> refill_head(s).rTime, rAmount |-> 0])]
  ELSE s

refill_new(max, budget, period, sporadic, t) ==
  maybe_add_empty_tail([refills |-> <<[rTime |-> t, rAmount |-> budget]>>, period |-> period,
                        max |-> max, sporadic |-> sporadic, budget |-> budget])

refill_update(s, max, budget, period, sporadic, t) ==
  LET h    == refill_head(s)
      head == [h EXCEPT !.rTime = IF @ <= t THEN t ELSE @]
      one  == [refills |-> <<head>>, period |-> period, max |-> max,
               sporadic |-> sporadic, budget |-> budget]
      rest == [rTime |-> head.rTime + period, rAmount |-> budget - head.rAmount]
  IN IF head.rAmount >= budget
     THEN maybe_add_empty_tail(setHead(one, [head EXCEPT !.rAmount = budget]))
     ELSE [one EXCEPT !.refills = Append(@, rest)]

schedule_used(s, new) ==
  LET n    == Len(s.refills)
      tail == s.refills[n]
      merged == tail.rAmount + new.rAmount
  IN IF tail.rTime + tail.rAmount >= new.rTime THEN [s EXCEPT !.refills[n].rAmount = merged]
     ELSE IF n < s.max THEN [s EXCEPT !.refills = Append(@, new)]
     ELSE [s EXCEPT !.refills[n] = [rTime |-> new.rTime - tail.rAmount, rAmount |-> merged]]

\* Mutant: charge on, whatever the release time
head_refill_overrun_late(s, usage) == refill_head(s).rAmount <= usage

head_refill_overrun(s, usage) ==
  refill_head(s).rAmount <= usage /\ refill_head(s).rTime < MAX_RELEASE_TIME

\* Mutant: a period after the end of the refill
charge_entire_head_refill_late(s) ==
  LET h == refill_head(s)
      delayed == [h EXCEPT !.rTime = @ + h.rAmount + s.period]
  IN IF refill_single(s) THEN setHead(s, delayed)
     ELSE schedule_used(refill_pop_head(s), delayed)

charge_entire_head_refill(s) ==
  LET delayed == [refill_head(s) EXCEPT !.rTime = @ + s.period]
  IN IF refill_single(s) THEN setHead(s, delayed)
     ELSE schedule_used(refill_pop_head(s), delayed)

\* The context and the usage that is left, after one more round of the loop
overrunRound(o) ==
  IF head_refill_overrun(o.sc, o.usage)
  THEN [sc |-> charge_entire_head_refill(o.sc), usage |-> o.usage - refill_head(o.sc).rAmount]
  ELSE o

\* A refill is never empty, so that each round charges a tick at least
handle_overrun(s, usage) ==
  LET round[i \in 0 .. usage] ==
        IF i = 0 THEN [sc |-> s, usage |-> usage] ELSE overrunRound(round[i - 1])
  IN round[usage]

head_refill_insufficient(s) == refill_head(s).rAmount < MIN_BUDGET

\* The head goes into the next refill, which ends no later for it
merge_nonoverlapping_head_refill(s) ==
  LET h == refill_head(s)
      n == s.refills[2]
  IN setHead(refill_pop_head(s), [rTime |-> n.rTime - h.rAmount, rAmount |-> n.rAmount + h.rAmount])

\* A single refill is the whole budget, so never insufficient (HeadUsable)
insufficientRound(s) ==
  IF head_refill_insufficient(s) /\ ~refill_single(s)
  THEN merge_nonoverlapping_head_refill(s)
  ELSE s

merge_insufficient(s) ==
  LET round[i \in 0 .. Len(s.refills)] == IF i = 0 THEN s ELSE insufficientRound(round[i - 1])
  IN round[Len(s.refills)]

\* Mutant: the head stays as small as the charge leaves it
refill_budget_check_small(s, usage) ==
  LET o == handle_overrun(s, usage)
      h == refill_head(o.sc)
  IN IF o.usage > 0 /\ h.rTime < MAX_RELEASE_TIME
     THEN schedule_used(setHead(o.sc, [rTime |-> h.rTime + o.usage, rAmount |-> h.rAmount - o.usage]),
                        [rTime |-> h.rTime + s.period, rAmount |-> o.usage])
     ELSE o.sc

refill_budget_check(s, usage) ==
  LET o    == handle_overrun(s, usage)
      h    == refill_head(o.sc)
      used == [rTime |-> h.rTime + s.period, rAmount |-> o.usage]
      left == [rTime |-> h.rTime + o.usage, rAmount |-> h.rAmount - o.usage]
  IN merge_insufficient(IF o.usage > 0 /\ h.rTime < MAX_RELEASE_TIME
                        THEN schedule_used(setHead(o.sc, left), used)
                        ELSE o.sc)

refill_head_overlapping(s) ==
  /\ ~refill_single(s)
  /\ s.refills[2].rTime <= refill_head(s).rTime + refill_head(s).rAmount

merge_overlapping_head_refill(s) ==
  LET h == refill_head(s)
  IN setHead(refill_pop_head(s), [rTime |-> h.rTime, rAmount |-> s.refills[2].rAmount + h.rAmount])

overlappingRound(s) ==
  IF refill_head_overlapping(s) THEN merge_overlapping_head_refill(s) ELSE s

merge_overlapping(s) ==
  LET round[i \in 0 .. Len(s.refills)] == IF i = 0 THEN s ELSE overlappingRound(round[i - 1])
  IN round[Len(s.refills)]

\* Mutant: the refills that have become available are not merged
refill_unblock_check_apart(s, t) ==
  IF ~isRoundRobin(s) /\ refill_ready(s, t) THEN [s EXCEPT !.refills[1].rTime = t] ELSE s

refill_unblock_check(s, t) ==
  IF ~isRoundRobin(s) /\ refill_ready(s, t)
  THEN merge_overlapping([s EXCEPT !.refills[1].rTime = t])
  ELSE s

-----------------------------------------------------------------------------
(* Charging the time consumed *)

\* The head pays for what was consumed and keeps enough to go on
commitTime(s, usage) ==
  IF usage = 0 THEN s
  ELSE IF isRoundRobin(s)
  THEN [s EXCEPT !.refills[1].rAmount = @ - usage, !.refills[2].rAmount = @ + usage]
  ELSE refill_budget_check(s, usage)

\* The timeslice is over
chargeBudget(s, usage) ==
  IF isRoundRobin(s)
  THEN [s EXCEPT !.refills[1].rAmount = @ + s.refills[2].rAmount, !.refills[2].rAmount = 0]
  ELSE refill_budget_check(s, usage)

\* endTimeslice, without the timeout fault
endTimeslice(s, t) == IF refill_ready(s, t) THEN {"running", "ready"} ELSE {"waiting"}

-----------------------------------------------------------------------------
Init ==
  /\ phase = "ready" /\ now = 0 /\ consumed = 0 /\ ran = {} /\ late \in Latencies
  /\ \E b \in Budgets, p \in Periods, m \in MaxRefills, f \in Flags :
       /\ MIN_BUDGET <= b /\ b < p
       /\ sc = refill_new(m, b, p, f, 0)

\* A kernel entry of the running thread, d ticks after the last: the timer is
\* programmed for the end of the head refill
Elapse(d) ==
  /\ phase = "running"
  /\ consumed + d <= refill_head(sc).rAmount + late
  /\ now + d < MAX_RELEASE_TIME
  /\ now' = now + d
  /\ UNCHANGED late
  /\ ran' = {t \in ran \cup (now .. now + d - 1) : t >= now + d - Max(Periods)}

\* updateTimestamp and checkBudget only: back to the thread
Continue ==
  \E d \in Steps :
    /\ Elapse(d)
    /\ refill_sufficient(sc, consumed + d)
    /\ consumed' = consumed + d
    /\ UNCHANGED <<sc, phase>>

\* The entry reprograms the timer, and the thread goes on, is preempted or blocks
Commit ==
  \E d \in Steps :
    /\ Elapse(d)
    /\ refill_sufficient(sc, consumed + d)
    /\ sc' = commitTime(sc, consumed + d)
    /\ consumed' = 0
    /\ phase' \in {"running", "ready", "blocked"}

handleYield ==
  \E d \in Steps :
    /\ Elapse(d)
    /\ refill_sufficient(sc, consumed + d)
    /\ sc' = chargeBudget(sc, refill_head(sc).rAmount)
    /\ consumed' = 0
    /\ phase' \in endTimeslice(sc', now')

\* checkBudget fails: charge, and perhaps fault
OutOfBudget ==
  \E d \in Steps :
    /\ Elapse(d)
    /\ ~refill_sufficient(sc, consumed + d)
    /\ sc' = chargeBudget(sc, consumed + d)
    /\ consumed' = 0
    /\ phase' \in endTimeslice(sc', now') \cup (IF isRoundRobin(sc) THEN {} ELSE {"blocked"})

\* Others run
Idle ==
  \E d \in Steps \ {0} :
    /\ phase # "running"
    /\ now + d < MAX_RELEASE_TIME
    /\ now' = now + d
    /\ UNCHANGED <<sc, phase, consumed, late, ran>>

awaken ==
  /\ phase = "waiting" /\ refill_ready(sc, now)
  /\ phase' = "ready"
  /\ UNCHANGED <<sc, now, consumed, late, ran>>

\* Another thread, or a signal, unblocks the thread
Unblock ==
  /\ phase = "blocked"
  /\ sc' = IF sc.sporadic THEN refill_unblock_check(sc, now) ELSE sc
  /\ phase' = IF refill_ready(sc', now) THEN "ready" ELSE "waiting"
  /\ UNCHANGED <<now, consumed, late, ran>>

\* Mutant: the head refill stays where it was
switchSchedContext_unmoved ==
  /\ phase = "ready"
  /\ phase' = "running"
  /\ UNCHANGED <<sc, now, consumed, late, ran>>

\* The scheduler switches to the thread from another context
switchSchedContext ==
  /\ phase = "ready"
  /\ sc' = IF sc.sporadic THEN sc ELSE refill_unblock_check(sc, now)
  /\ phase' = "running"
  /\ UNCHANGED <<now, consumed, late, ran>>

\* The thread, if it is running, configures the context it runs on
ConfigureFlags ==
  \E b \in Budgets, p \in Periods, m \in MaxRefills, f \in Flags :
    LET s == commitTime(sc, consumed)
    IN /\ MIN_BUDGET <= b /\ b <= p
       /\ sc' = IF b = p THEN refill_new(MIN_REFILLS, b, 0, f, now)
                ELSE IF phase # "blocked" THEN refill_update(s, m, b, p, f, now)
                ELSE refill_new(m, b, p, f, now)
       /\ phase' \in IF phase = "blocked" THEN {"blocked"}
                     ELSE IF ~refill_ready(sc', now) THEN {"waiting"}
                     ELSE IF phase = "running" THEN {"running", "ready"}
                     ELSE {"ready"}
       /\ consumed' = 0 /\ ran' = {}
       /\ UNCHANGED <<now, late>>

Next ==
  \/ Continue \/ Commit \/ handleYield \/ OutOfBudget
  \/ Idle \/ awaken \/ Unblock \/ switchSchedContext
  \/ ConfigureFlags

Spec == Init /\ [][Next]_vars

-----------------------------------------------------------------------------
(* Properties *)

\* Whatever is charged, merged, delayed or reconfigured, the queue holds between one
\* refill and scRefillMax of them, round robin two; they add up to the budget, and no
\* refill begins before the one ahead of it ends (REFILL_SANITY_CHECK).
RefillSanity ==
  /\ Len(sc.refills) \in 1 .. sc.max
  /\ refill_sum(sc) = sc.budget
  /\ IF isRoundRobin(sc) THEN Len(sc.refills) = MIN_REFILLS
     ELSE \A i \in 1 .. Len(sc.refills) - 1 :
            sc.refills[i].rTime + sc.refills[i].rAmount <= sc.refills[i + 1].rTime

\* The head can always pay for a kernel entry (the assertions of chargeBudget,
\* refill_unblock_check and sc_released), so merging never pops the last refill; a
\* thread the scheduler may pick has its head refill in the past, and the running one
\* can pay for what it has consumed (those of commitTime and switchSchedContext).
HeadUsable ==
  /\ refill_sufficient(sc, 0)
  /\ phase \in {"running", "ready"} => refill_ready(sc, now)
  /\ phase = "running" => refill_sufficient(sc, consumed)

\* A refill delayed again and again, even by overruns next to MAX_RELEASE_TIME, ends
\* within the five periods kept free at the end of the counter.
NoOverflow ==
  \A i \in 1 .. Len(sc.refills) :
    sc.refills[i].rTime + sc.refills[i].rAmount <= MAX_RELEASE_TIME + 5 * Max(Periods)

\* A thread of constant bandwidth runs for at most its budget in every window as long
\* as its period if the timer is punctual, however its runs are split, preempted, blocked and merged.
ConstantBandwidth ==
  late = 0 /\ ~isRoundRobin(sc) /\ ~sc.sporadic =>
    Cardinality({t \in ran : t >= now - sc.period}) <= sc.budget

\* A thread out of budget gets some of it back within the longest period, if the timer
\* is punctual.
ReleasedWithinPeriod ==
  late = 0 /\ phase = "waiting" => refill_head(sc).rTime <= now + Max(Periods)

-----------------------------------------------------------------------------
(* The inductive invariant *)

Refill == [rTime : Nat, rAmount : Nat]

Context ==
  [refills : Seq(Refill), period : Nat, max : Nat, sporadic : BOOLEAN, budget : Nat]

\* What schedule_used relies on to keep the order: no refill is empty, and none begins
\* more than a period after the head
QueueInv(s) ==
  /\ \A i \in 1 .. Len(s.refills) :
       s.refills[i].rAmount > 0 /\ s.refills[i].rTime <= refill_head(s).rTime + s.period
  /\ \A i \in 1 .. Len(s.refills) - 1 :
       s.refills[i].rTime + s.refills[i].rAmount <= s.refills[i + 1].rTime

ContextInv(s) ==
  /\ s \in Context
  /\ Len(s.refills) \in 1 .. s.max /\ s.max >= MIN_REFILLS
  /\ refill_sum(s) = s.budget /\ s.budget <= Max(Periods) /\ s.budget >= MIN_BUDGET
  /\ s.period <= Max(Periods)
  /\ IF isRoundRobin(s) THEN Len(s.refills) = MIN_REFILLS ELSE QueueInv(s) /\ s.budget <= s.period

\* The time consumed has passed since the head refill began; a head refill that has
\* left the range is charged no more.
SporadicInv ==
  /\ now \in Nat /\ consumed \in Nat /\ late \in Nat /\ now < MAX_RELEASE_TIME
  /\ phase \in {"running", "ready", "waiting", "blocked"}
  /\ ContextInv(sc)
  /\ HeadUsable
  /\ IF phase = "running" THEN refill_head(sc).rTime + consumed <= now ELSE consumed = 0
  /\ isRoundRobin(sc) => \A i \in 1 .. Len(sc.refills) : sc.refills[i].rTime <= now
  /\ refill_head(sc).rTime < MAX_RELEASE_TIME + Max(Periods)
  /\ late = 0 => refill_head(sc).rTime <= now + Max(Periods)

\* The ticks of an interval of a ticks that begins at t, from y on
ticksFrom(t, a, y) == IF y <= t THEN a ELSE IF t + a <= y THEN 0 ELSE t + a - y

refillFrom(r, y) == [rTime |-> r.rTime, rAmount |-> ticksFrom(r.rTime, r.rAmount, y)]

refillsFrom(q, y) == [i \in 1 .. Len(q) |-> refillFrom(q[i], y)]

\* What the refills hold from y on, were each of them used from the moment it begins
budgetFrom(q, y) == sumOf(refillsFrom(q, y))

\* The ticks between x and z
between(S, x, z) == {t \in S : x <= t /\ t < z}

\* Every tick run in the last period is paid for by a refill a period later: what the
\* thread ran from x on, up to the time charged for, is at most what the refills hold
\* from a period after x on.
BandwidthInv ==
  /\ IsFiniteSet(ran) /\ \A t \in ran : t \in Int /\ t < now
  /\ ~isRoundRobin(sc) => sc.budget < sc.period
  /\ late = 0 /\ ~isRoundRobin(sc) /\ ~sc.sporadic =>
       LET charged == IF phase = "running" THEN refill_head(sc).rTime ELSE now
       IN /\ phase = "running" => charged + consumed = now /\ ~refill_head_overlapping(sc)
          /\ \A x \in 0 - Max(Periods) .. MAX_RELEASE_TIME :
               x + sc.period >= charged =>
                 Cardinality(between(ran, x, charged)) <= budgetFrom(sc.refills, x + sc.period)
=============================================================================
