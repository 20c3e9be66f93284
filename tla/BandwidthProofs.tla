--------------------------- MODULE BandwidthProofs ---------------------------
(***************************************************************************)
(* The bandwidth bound of a scheduling context (kernel/sporadic.c): with a *)
(* punctual timer a thread of constant bandwidth runs for at most its      *)
(* budget in every window as long as its period.  The argument follows the *)
(* ticks: each tick that was run and charged for stands in a refill a      *)
(* period later, and merging refills only moves them further away.         *)
(***************************************************************************)
EXTENDS SporadicProofs, FiniteSetTheorems

\* The prover of a leaf that names none
USE ZenonT(60)

(* The ticks a thread has run *)

\* No more ticks are run up to w than were run up to z, and those between
LEMMA RunTicks ==
  ASSUME NEW S, IsFiniteSet(S), NEW R, NEW z \in Int, NEW w \in Int, NEW x \in Int, NEW p \in Nat,
         z <= w, \A i \in R : i \in Int /\ (i \in S \/ i >= z)
  PROVE  /\ Cardinality(between(R, x, w)) \in Nat /\ Cardinality(between(S, x, z)) \in Nat
         /\ Cardinality(between(R, x, w)) <= Cardinality(between(S, x, z)) + ticksFrom(z + p, w - z, x + p)
<1> DEFINE m == IF x <= z THEN z ELSE x
           I == m .. w - 1
           B == between(S, x, z)
           D == between(R, x, w)
<1>1. m \in Int /\ w - 1 \in Int
  BY SMTT(30)
<1>2. D \subseteq B \cup I
  BY SMTT(30) DEF between
<1>3. B \in SUBSET S
  BY DEF between
<1> HIDE DEF m, B, D
<1>4. IsFiniteSet(B) /\ Cardinality(B) \in Nat
  BY <1>3, FS_Subset, FS_CardinalityType
<1>5. IsFiniteSet(I) /\ Cardinality(I) = (IF m > w - 1 THEN 0 ELSE (w - 1) - m + 1)
  BY <1>1, FS_Interval
<1>6. Cardinality(I) = ticksFrom(z + p, w - z, x + p)
  <2> DEFINE k == Cardinality(I)
  <2>1. k = (IF m > w - 1 THEN 0 ELSE (w - 1) - m + 1)
    BY <1>5
  <2> HIDE DEF k
  <2>2. k = ticksFrom(z + p, w - z, x + p)
    BY <2>1, SMTT(30) DEF m, ticksFrom
  <2> QED BY <2>2 DEF k
<1> HIDE DEF I
<1>7. Cardinality(I) \in Nat
  BY <1>5, FS_CardinalityType
<1>8. IsFiniteSet(B \cup I) /\ Cardinality(B \cup I) = Cardinality(B) + Cardinality(I) - Cardinality(B \cap I)
  BY <1>4, <1>5, FS_Union
<1>9. Cardinality(B \cap I) \in Nat
  <2>1. B \cap I \in SUBSET B
    OBVIOUS
  <2>2. IsFiniteSet(B \cap I)
    BY <1>4, <2>1, FS_Subset
  <2> QED BY <2>2, FS_CardinalityType
<1>10. Cardinality(D) <= Cardinality(B \cup I) /\ Cardinality(D) \in Nat
  <2>1. D \in SUBSET (B \cup I)
    BY <1>2
  <2>2. IsFiniteSet(D) /\ Cardinality(D) <= Cardinality(B \cup I)
    BY <1>8, <2>1, FS_Subset
  <2> QED BY <2>2, FS_CardinalityType
<1>11. Cardinality(D) <= Cardinality(B) + Cardinality(I)
  <2> DEFINE cD == Cardinality(D)
             cB == Cardinality(B)
             cI == Cardinality(I)
             cU == Cardinality(B \cup I)
             cN == Cardinality(B \cap I)
  <2>1. cD \in Nat /\ cB \in Nat /\ cI \in Nat /\ cN \in Nat /\ cU = cB + cI - cN /\ cD <= cU
    BY <1>4, <1>7, <1>8, <1>9, <1>10
  <2> HIDE DEF cD, cB, cI, cU, cN
  <2>2. cD <= cB + cI
    BY <2>1, SMTT(30)
  <2> QED BY <2>2 DEF cD, cB, cI
<1> QED BY <1>4, <1>6, <1>10, <1>11 DEF B, D

\* The ticks run up to z are paid for by refills a period later
Paid(s, R, z) ==
  \A x \in 0 - Max(Periods) .. MAX_RELEASE_TIME :
    x + s.period >= z => Cardinality(between(R, x, z)) <= budgetFrom(s.refills, x + s.period)

\* The bounds of a window
LEMMA WindowFacts ==
  ASSUME NEW x \in 0 - Max(Periods) .. MAX_RELEASE_TIME, NEW p \in Nat
  PROVE  x \in Int /\ x + p \in Int
<1>1. Max(Periods) \in Nat
  BY ConstantFacts
<1> HIDE DEF Max
<1> QED BY <1>1, SMTT(30)

\* A charge for u ticks pays for u ticks
LEMMA PaidByCharge ==
  ASSUME NEW s, ContextInv(s), NEW s1, ContextInv(s1), s1.period = s.period, NEW u \in Nat, Pays(s, s1, u),
         NEW S, IsFiniteSet(S), NEW R, \A i \in R : i \in Int /\ (i \in S \/ i >= s.refills[1].rTime),
         Paid(s, S, s.refills[1].rTime)
  PROVE  Paid(s1, R, s.refills[1].rTime + u)
<1> DEFINE z == s.refills[1].rTime
           p == s.period
<1>1. z \in Nat /\ p \in Nat /\ s.refills \in Seq(Refill) /\ Len(s.refills) \in Nat /\ Len(s.refills) >= 1
  BY InvFacts
<1>2. s1.refills \in Seq(Refill) /\ Len(s1.refills) \in Nat /\ Len(s1.refills) >= 1
  BY InvFacts
<1>3. Len(s.refills) > 0 /\ Len(s1.refills) > 0
  BY <1>1, <1>2, SMTT(30)
<1> SUFFICES ASSUME NEW x \in 0 - Max(Periods) .. MAX_RELEASE_TIME, x + p >= z + u
             PROVE  Cardinality(between(R, x, z + u)) <= budgetFrom(s1.refills, x + p)
  BY DEF Paid
<1> DEFINE y == x + p
           A == budgetFrom(s.refills, y)
           A1 == budgetFrom(s1.refills, y)
           f == ticksFrom(z + p, u, y)
           C == Cardinality(between(S, x, z))
           C1 == Cardinality(between(R, x, z + u))
<1>4. x \in Int /\ y \in Int
  BY <1>1, WindowFacts
<1>5. x + p >= z + u
  BY SMTT(30)
<1>6. /\ z \in Int /\ z + u \in Int /\ z <= z + u /\ (z + u) - z = u /\ z + p \in Int
      /\ x + p >= z
  <2> HIDE DEF z, p
  <2> QED BY <1>1, <1>4, <1>5, SMTT(30)
<1>7. C <= A
  BY <1>6 DEF Paid
<1>8. A + f <= A1
  <2> HIDE DEF y
  <2> QED BY <1>4, <1>5 DEF Pays, y
<1>9. A \in Nat /\ A1 \in Nat
  <2> HIDE DEF y
  <2> QED BY <1>1, <1>2, <1>3, <1>4, FromBound
<1>10. f \in Nat
  <2> HIDE DEF y, z, p
  <2> QED BY <1>4, <1>6, TicksFrom
<1>11. C1 \in Nat /\ C \in Nat /\ C1 <= C + f
  <2>1. \A i \in R : i \in Int /\ (i \in S \/ i >= z)
    OBVIOUS
  <2> DEFINE w == z + u
  <2>2. w \in Int /\ z <= w /\ w - z = u
    BY <1>6
  <2> HIDE DEF z, p, w
  <2>3. Cardinality(between(R, x, w)) \in Nat /\ Cardinality(between(S, x, z)) \in Nat
         /\ Cardinality(between(R, x, w)) <= Cardinality(between(S, x, z)) + ticksFrom(z + p, w - z, x + p)
    BY <1>1, <1>4, <1>6, <2>1, <2>2, RunTicks
  <2> QED BY <2>2, <2>3 DEF w
<1> HIDE DEF A, A1, f, C, C1
<1>12. C1 <= A1
  BY <1>7, <1>8, <1>9, <1>10, <1>11, SMTT(30)
<1> QED BY <1>12 DEF C1, A1

\* Nothing is charged when nothing was used
LEMMA PaysNothing ==
  ASSUME NEW s, ContextInv(s)
  PROVE  Pays(s, s, 0)
<1>1. s.refills \in Seq(Refill) /\ Len(s.refills) \in Nat /\ Len(s.refills) >= 1 /\ s.refills[1].rTime \in Nat /\ s.period \in Nat
  BY InvFacts
<1> SUFFICES ASSUME NEW y \in Int
             PROVE  budgetFrom(s.refills, y) + ticksFrom(s.refills[1].rTime + s.period, 0, y) <= budgetFrom(s.refills, y)
  BY DEF Pays
<1>2. budgetFrom(s.refills, y) \in Nat
  <2>1. Len(s.refills) > 0
    BY <1>1, SMTT(30)
  <2> QED BY <1>1, <2>1, FromBound
<1>3. ticksFrom(s.refills[1].rTime + s.period, 0, y) = 0
  <2> DEFINE t == s.refills[1].rTime + s.period
  <2>1. t \in Int
    BY <1>1, SMTT(30)
  <2> HIDE DEF t
  <2>2. ticksFrom(t, 0, y) = 0
    BY <2>1, SMTT(30) DEF ticksFrom
  <2> QED BY <2>2 DEF t
<1> DEFINE A == budgetFrom(s.refills, y)
<1> HIDE DEF A
<1>4. A + 0 <= A
  BY <1>2, SMTT(30) DEF A
<1> QED BY <1>3, <1>4 DEF A

\* Ticks that are paid for stay so while the thread does not run
LEMMA PaidLater ==
  ASSUME NEW s, NEW R, NEW z \in Int, NEW w \in Int, z <= w, s.period \in Nat,
         \A i \in R : i \in Int /\ i < z, Paid(s, R, z)
  PROVE  Paid(s, R, w)
<1> SUFFICES ASSUME NEW x \in 0 - Max(Periods) .. MAX_RELEASE_TIME, x + s.period >= w
             PROVE  Cardinality(between(R, x, w)) <= budgetFrom(s.refills, x + s.period)
  BY DEF Paid
<1> DEFINE y == x + s.period
<1>1. x \in Int /\ y \in Int
  BY WindowFacts
<1>2. between(R, x, w) = between(R, x, z)
  <2>1. \A i \in R : i < w
    BY SMTT(30)
  <2> QED BY <2>1 DEF between
<1>3. y >= w
  BY SMTT(30)
<1> HIDE DEF y
<1>4. y >= z
  BY <1>1, <1>3, SMTT(30)
<1> QED BY <1>2, <1>4 DEF Paid, y

\* Nothing run is paid for
LEMMA PaidNothing ==
  ASSUME NEW s, ContextInv(s), NEW z
  PROVE  Paid(s, {}, z)
<1>1. s.refills \in Seq(Refill) /\ Len(s.refills) \in Nat /\ Len(s.refills) >= 1 /\ s.period \in Nat
  BY InvFacts
<1> SUFFICES ASSUME NEW x \in 0 - Max(Periods) .. MAX_RELEASE_TIME
             PROVE  Cardinality(between({}, x, z)) <= budgetFrom(s.refills, x + s.period)
  BY DEF Paid
<1>2. between({}, x, z) = {}
  BY DEF between
<1>3. Cardinality(between({}, x, z)) = 0
  BY <1>2, FS_EmptySet
<1> DEFINE y == x + s.period
           A == budgetFrom(s.refills, y)
<1>4. A \in Nat
  <2>1. Len(s.refills) > 0
    BY <1>1, SMTT(30)
  <2>2. y \in Int
    BY <1>1, WindowFacts
  <2> HIDE DEF y
  <2> QED BY <1>1, <2>1, <2>2, FromBound
<1> HIDE DEF A
<1>5. 0 <= A
  BY <1>4, SMTT(30)
<1> QED BY <1>3, <1>5 DEF A

\* Refills that move no closer pay for what they did
LEMMA PaidByLater ==
  ASSUME NEW s, ContextInv(s), NEW s1, ContextInv(s1), s1.period = s.period, Later(s.refills, s1.refills),
         NEW S, IsFiniteSet(S), NEW z, Paid(s, S, z)
  PROVE  Paid(s1, S, z)
<1>1. s.refills \in Seq(Refill) /\ Len(s.refills) \in Nat /\ Len(s.refills) >= 1 /\ s.period \in Nat
  BY InvFacts
<1>2. s1.refills \in Seq(Refill) /\ Len(s1.refills) \in Nat /\ Len(s1.refills) >= 1
  BY InvFacts
<1>3. Len(s.refills) > 0 /\ Len(s1.refills) > 0
  BY <1>1, <1>2, SMTT(30)
<1> SUFFICES ASSUME NEW x \in 0 - Max(Periods) .. MAX_RELEASE_TIME, x + s.period >= z
             PROVE  Cardinality(between(S, x, z)) <= budgetFrom(s1.refills, x + s.period)
  BY DEF Paid
<1> DEFINE y == x + s.period
           A == budgetFrom(s.refills, y)
           A1 == budgetFrom(s1.refills, y)
           C == Cardinality(between(S, x, z))
<1>4. y \in Int
  BY <1>1, WindowFacts
<1>5. C <= A
  BY DEF Paid
<1> HIDE DEF y
<1>6. A <= A1
  BY <1>4 DEF Later
<1>7. A \in Nat /\ A1 \in Nat
  BY <1>1, <1>2, <1>3, <1>4, FromBound
<1>8. C \in Nat
  <2>1. between(S, x, z) \in SUBSET S
    BY DEF between
  <2> QED BY <2>1, FS_Subset, FS_CardinalityType
<1> HIDE DEF A, A1, C
<1>9. C <= A1
  BY <1>5, <1>6, <1>7, <1>8, SMTT(30)
<1> QED BY <1>9 DEF C, A1, y

-----------------------------------------------------------------------------
(* The bandwidth bound *)

\* BandwidthInv of a state given by its parts
Bounded(s, ph, t, c, R) ==
  LET z == IF ph = "running" THEN s.refills[1].rTime ELSE t
  IN /\ ph = "running" => z + c = t /\ ~refill_head_overlapping(s)
     /\ Paid(s, R, z)

Bandwidth(s, ph, t, c, l, R) ==
  /\ IsFiniteSet(R) /\ \A i \in R : i \in Int /\ i < t
  /\ s.period # 0 => s.budget < s.period
  /\ l = 0 /\ s.period # 0 /\ ~s.sporadic => Bounded(s, ph, t, c, R)

\* The two say the same
LEMMA BandwidthIsInv == BandwidthInv <=> Bandwidth(sc, phase, now, consumed, late, ran)
  BY DEF BandwidthInv, Bandwidth, Bounded, Paid, isRoundRobin, refill_head

\* The same for the next state
LEMMA BandwidthIsInvNext == BandwidthInv' <=> Bandwidth(sc', phase', now', consumed', late', ran')
  BY DEF BandwidthInv, Bandwidth, Bounded, Paid, isRoundRobin, refill_head

\* What holds of the ticks at the entry of a thread that has run for d ticks more: Elapse
LEMMA RanOn ==
  ASSUME SporadicInv, BandwidthInv, NEW d \in Steps, Elapse(d)
  PROVE  /\ IsFiniteSet(ran') /\ IsFiniteSet(ran)
         /\ \A i \in ran' : i \in Int /\ i < now' /\ (i \in ran \/ i >= sc.refills[1].rTime)
         /\ sc.period # 0 => sc.budget < sc.period
         /\ late = 0 /\ sc.period # 0 /\ ~sc.sporadic =>
              /\ now' = sc.refills[1].rTime + (consumed + d)
              /\ Paid(sc, ran, sc.refills[1].rTime) /\ ~refill_head_overlapping(sc)
<1> DEFINE z == sc.refills[1].rTime
<1>1. Bandwidth(sc, phase, now, consumed, late, ran) /\ Holds(sc, phase, now, consumed, late)
  BY BandwidthIsInv, HoldsIsInv
<1>2. /\ phase = "running" /\ now' = now + d
      /\ ran' = {t \in ran \cup (now .. now + d - 1) : t >= now + d - Max(Periods)}
  BY DEF Elapse
<1>3. d \in Nat
  BY SporadicConstants, SMTT(30)
<1>4. now \in Nat /\ consumed \in Nat /\ z + consumed <= now /\ ContextInv(sc)
  BY <1>1, <1>2, SMTT(30) DEF Holds
<1>5. z \in Nat
  BY <1>4, InvFacts
<1>6. /\ IsFiniteSet(ran) /\ (\A i \in ran : i \in Int /\ i < now)
      /\ sc.period # 0 => sc.budget < sc.period
      /\ late = 0 /\ sc.period # 0 /\ ~sc.sporadic => Bounded(sc, phase, now, consumed, ran)
  BY <1>1 DEF Bandwidth
<1>7. IsFiniteSet(ran')
  <2> DEFINE I == now .. now + d - 1
  <2>1. now \in Int /\ now + d - 1 \in Int
    BY <1>3, <1>4, SMTT(30)
  <2>2. IsFiniteSet(I)
    BY <2>1, FS_Interval
  <2>3. ran' \in SUBSET (ran \cup I)
    BY <1>2
  <2> HIDE DEF I
  <2>4. IsFiniteSet(ran \cup I)
    BY <1>6, <2>2, FS_Union
  <2> QED BY <2>3, <2>4, FS_Subset
<1>8. ASSUME NEW i \in ran' PROVE i \in Int /\ i < now' /\ (i \in ran \/ i >= z)
  <2>1. i \in ran \/ i \in now .. now + d - 1
    BY <1>2
  <2>2. i \in Int /\ (i < now \/ i < now + d)
    BY <1>3, <1>4, <1>6, <2>1, SMTT(30)
  <2>3. i < now'
    BY <1>2, <1>3, <1>4, <2>2, SMTT(30)
  <2>4. i \in ran \/ i >= z
    <3> HIDE DEF z
    <3>1. z <= now
      BY <1>4, <1>5, SMTT(30)
    <3>2. \A k \in now .. now + d - 1 : k >= z
      BY <1>3, <1>4, <1>5, <3>1, SMTT(30)
    <3> QED BY <2>1, <3>2
  <2> QED BY <2>2, <2>3, <2>4
<1>9. ASSUME late = 0, sc.period # 0, ~sc.sporadic
      PROVE  now' = z + (consumed + d) /\ Paid(sc, ran, z) /\ ~refill_head_overlapping(sc)
  <2>1. z + consumed = now /\ ~refill_head_overlapping(sc) /\ Paid(sc, ran, z)
    BY <1>2, <1>6, <1>9 DEF Bounded
  <2>2. now' = z + (consumed + d)
    <3> HIDE DEF z
    <3> QED BY <1>2, <1>3, <1>4, <1>5, <2>1, SMTT(30)
  <2> QED BY <2>1, <2>2
<1> QED BY <1>6, <1>7, <1>8, <1>9

\* A charge keeps the invariant if it pays for the time used and the thread, if it goes on,
\* has the rest of its head refill from now
LEMMA ChargedInv ==
  ASSUME SporadicInv, BandwidthInv, NEW d \in Steps, Elapse(d), ContextInv(sc'), consumed' = 0,
         sc'.period = sc.period, sc'.sporadic = sc.sporadic, sc.period # 0 => sc'.budget = sc.budget,
         late = 0 /\ sc.period # 0 /\ ~sc.sporadic =>
           /\ Pays(sc, sc', consumed + d)
           /\ phase' = "running" => sc'.refills[1].rTime = now' /\ ~refill_head_overlapping(sc')
  PROVE  BandwidthInv'
<1> SUFFICES Bandwidth(sc', phase', now', consumed', late', ran')
  BY BandwidthIsInvNext
<1>1. /\ IsFiniteSet(ran') /\ IsFiniteSet(ran)
      /\ \A i \in ran' : i \in Int /\ i < now' /\ (i \in ran \/ i >= sc.refills[1].rTime)
      /\ sc.period # 0 => sc.budget < sc.period
      /\ late = 0 /\ sc.period # 0 /\ ~sc.sporadic =>
           /\ now' = sc.refills[1].rTime + (consumed + d)
           /\ Paid(sc, ran, sc.refills[1].rTime) /\ ~refill_head_overlapping(sc)
  BY RanOn
<1>2. late' = late /\ consumed + d \in Nat /\ ContextInv(sc) /\ now' \in Nat
  BY Elapsed
<1>3. ASSUME late = 0, sc.period # 0, ~sc.sporadic PROVE Bounded(sc', phase', now', consumed', ran')
  <2>1. Paid(sc', ran', sc.refills[1].rTime + (consumed + d))
    <3>1. \A i \in ran' : i \in Int /\ (i \in ran \/ i >= sc.refills[1].rTime)
      BY <1>1
    <3> QED BY <1>1, <1>2, <1>3, <3>1, PaidByCharge
  <2>2. Paid(sc', ran', now')
    BY <1>1, <1>3, <2>1
  <2>3. now' + 0 = now'
    <3>1. \A k \in Nat : k + 0 = k
      BY SMTT(30)
    <3> QED BY <1>2, <3>1
  <2> QED BY <1>3, <2>2, <2>3 DEF Bounded
<1> QED BY <1>1, <1>2, <1>3 DEF Bandwidth

\* A charge leaves the budget of the context as it is
LEMMA BudgetKept ==
  ASSUME NEW s, ContextInv(s), s.period # 0, NEW usage \in Nat
  PROVE  refill_budget_check(s, usage).budget = s.budget
<1> DEFINE X == s.refills[1].rTime + s.period + MAX_RELEASE_TIME
<1>1. /\ s \in Context /\ Len(s.refills) \in 1 .. s.max /\ s.max >= 2 /\ Queue(s.refills, s.period)
      /\ s.refills[1].rTime \in Nat /\ s.period \in Nat /\ MAX_RELEASE_TIME \in Nat
      /\ refill_sum(s) <= s.period /\ refill_sum(s) >= MIN_BUDGET
  BY InvFacts
<1>2. X \in Int /\ s.refills[1].rTime + s.period <= X /\ X >= MAX_RELEASE_TIME + s.period - 1
  BY <1>1, SMTT(30)
<1> HIDE DEF X
<1>3. Keeps(s, refill_budget_check(s, usage), X)
  BY <1>1, <1>2, BudgetCheck
<1> QED BY <1>3 DEF Keeps

\* A context of constant bandwidth whose thread is at a kernel entry, with u ticks used of its head
Punctual(s, u) ==
  /\ s \in Context /\ Len(s.refills) \in 1 .. s.max /\ s.max >= 2 /\ Queue(s.refills, s.period)
  /\ refill_sum(s) < s.period /\ refill_sum(s) <= s.period /\ refill_sum(s) >= MIN_BUDGET
  /\ s.refills[1].rTime < MAX_RELEASE_TIME /\ ~refill_head_overlapping(s)
  /\ u <= s.refills[1].rAmount /\ s.refills[1].rAmount < s.period
  /\ s.refills[1].rTime \in Nat /\ s.refills[1].rAmount \in Nat /\ MIN_BUDGET \in Nat /\ MIN_BUDGET > 0

\* What the charges need
LEMMA PunctualEntry ==
  ASSUME SporadicInv, BandwidthInv, NEW d \in Steps, Elapse(d), late = 0, sc.period # 0, ~sc.sporadic
  PROVE  Punctual(sc, consumed + d)
<1> DEFINE h == sc.refills[1]
           a == h.rAmount
<1>1. /\ now' \in Nat /\ now' < MAX_RELEASE_TIME /\ ContextInv(sc) /\ h.rTime <= now'
      /\ consumed + d <= a
  BY Elapsed
<1>2. sc.budget < sc.period /\ ~refill_head_overlapping(sc)
  BY RanOn
<1>3. /\ sc \in Context /\ Len(sc.refills) \in 1 .. sc.max /\ sc.max >= 2 /\ Queue(sc.refills, sc.period)
      /\ refill_sum(sc) = sc.budget /\ sc.budget >= MIN_BUDGET /\ sc.budget <= sc.period
      /\ h.rTime \in Nat /\ a \in Nat /\ MIN_BUDGET \in Nat /\ MIN_BUDGET > 0 /\ sc.refills \in Seq(Refill)
      /\ MAX_RELEASE_TIME \in Nat /\ sc.budget \in Nat /\ sc.period \in Nat
  BY <1>1, InvFacts
<1>4. h.rTime < MAX_RELEASE_TIME
  <2> HIDE DEF h
  <2> QED BY <1>1, <1>3, SMTT(30)
<1>5. a <= sc.budget
  <2>1. 1 \in 1 .. Len(sc.refills)
    BY <1>3, HeadFacts
  <2> QED BY <1>3, <2>1, SumBounds DEF refill_sum
<1>6. a < sc.period
  <2> DEFINE b == sc.budget
             p == sc.period
  <2>1. a \in Nat /\ b \in Nat /\ p \in Nat /\ a <= b /\ b < p
    BY <1>2, <1>3, <1>5
  <2> HIDE DEF a, b, p
  <2>2. a < p
    BY <2>1, SMTT(30)
  <2> QED BY <2>2 DEF p
<1> QED BY <1>1, <1>2, <1>3, <1>4, <1>6 DEF Punctual

\* A kernel entry that goes back to the thread leaves the charge for later: updateTimestamp
LEMMA BandwidthContinue == SporadicInv /\ BandwidthInv /\ Continue => BandwidthInv'
<1> SUFFICES ASSUME SporadicInv, BandwidthInv, Continue PROVE Bandwidth(sc', phase', now', consumed', late', ran')
  BY BandwidthIsInvNext
<1>1. PICK d \in Steps : Elapse(d) /\ consumed' = consumed + d /\ UNCHANGED <<sc, phase>>
  BY SMTT(30) DEF Continue
<1> DEFINE z == sc.refills[1].rTime
<1>2. /\ IsFiniteSet(ran') /\ IsFiniteSet(ran)
      /\ \A i \in ran' : i \in Int /\ i < now' /\ (i \in ran \/ i >= z)
      /\ sc.period # 0 => sc.budget < sc.period
      /\ late = 0 /\ sc.period # 0 /\ ~sc.sporadic =>
           now' = z + (consumed + d) /\ Paid(sc, ran, z) /\ ~refill_head_overlapping(sc)
  BY <1>1, RanOn
<1>3. late' = late /\ ContextInv(sc) /\ phase = "running"
  BY <1>1, Elapsed
<1>4. ASSUME late = 0, sc.period # 0, ~sc.sporadic PROVE Bounded(sc, phase, now', consumed + d, ran')
  <2>1. 0 \in Nat /\ \A k \in Nat : k + 0 = k
    BY SMTT(30)
  <2>2. z \in Nat /\ Pays(sc, sc, 0)
    BY <1>3, InvFacts, PaysNothing
  <2>3. \A i \in ran' : i \in Int /\ (i \in ran \/ i >= z)
    BY <1>2
  <2>4. Paid(sc, ran', z + 0)
    BY <1>2, <1>3, <1>4, <2>1, <2>2, <2>3, PaidByCharge
  <2>5. Paid(sc, ran', z)
    BY <2>1, <2>2, <2>4
  <2> QED BY <1>2, <1>3, <1>4, <2>5 DEF Bounded
<1> QED BY <1>1, <1>2, <1>3, <1>4 DEF Bandwidth

\* An entry that reprograms the timer pays for what was consumed: commitTime
LEMMA BandwidthCommit == SporadicInv /\ BandwidthInv /\ Commit => BandwidthInv'
<1> SUFFICES ASSUME SporadicInv, BandwidthInv, Commit PROVE BandwidthInv'
  OBVIOUS
<1>1. PICK d \in Steps : /\ Elapse(d) /\ refill_sufficient(sc, consumed + d)
                         /\ sc' = commitTime(sc, consumed + d) /\ consumed' = 0
  BY SMTT(30) DEF Commit
<1> DEFINE u == consumed + d
           h == sc.refills[1]
<1>2. /\ now' \in Nat /\ now' < MAX_RELEASE_TIME /\ u \in Nat /\ ContextInv(sc) /\ AllReady(sc, now')
      /\ h.rTime + u <= now'
  BY <1>1, Elapsed
<1>3. h.rAmount >= u + MIN_BUDGET
  BY <1>1, Sufficient
<1>4. ContextInv(sc') /\ sc'.period = sc.period /\ sc'.sporadic = sc.sporadic
  BY <1>1, <1>2, <1>3, CommitTime
<1>5. ASSUME sc.period # 0 PROVE sc' = IF u = 0 THEN sc ELSE refill_budget_check(sc, u)
  BY <1>1, <1>5 DEF commitTime, isRoundRobin
<1>6. ASSUME sc.period # 0 PROVE sc'.budget = sc.budget
  BY <1>2, <1>5, <1>6, BudgetKept
<1>7. ASSUME late = 0, sc.period # 0, ~sc.sporadic
      PROVE  Pays(sc, sc', u) /\ sc'.refills[1].rTime = now' /\ ~refill_head_overlapping(sc')
  <2>1. now' = h.rTime + u /\ ~refill_head_overlapping(sc)
    BY <1>1, <1>7, RanOn
  <2>2. CASE u = 0
    <3>1. h.rTime \in Nat /\ Pays(sc, sc, 0)
      BY <1>2, InvFacts, PaysNothing
    <3>2. now' = h.rTime
      <4>1. now' = h.rTime + 0
        BY <2>1, <2>2
      <4> HIDE DEF h
      <4> QED BY <3>1, <4>1, SMTT(30)
    <3>3. sc' = sc
      BY <1>5, <1>7, <2>2
    <3> HIDE DEF u
    <3> QED BY <2>1, <2>2, <3>1, <3>2, <3>3
  <2>3. CASE u # 0
    <3>1. Punctual(sc, u)
      BY <1>1, <1>7, PunctualEntry
    <3>2. sc' = refill_budget_check(sc, u)
      BY <1>5, <1>7, <2>3
    <3>3. h.rAmount \in Nat /\ MIN_BUDGET \in Nat /\ MIN_BUDGET > 0
      BY <3>1 DEF Punctual
    <3> HIDE DEF u
    <3>4. u > 0 /\ u < h.rAmount /\ h.rAmount - u >= MIN_BUDGET
      <4> HIDE DEF h
      <4> QED BY <1>2, <1>3, <2>3, <3>3, SMTT(30)
    <3>5. /\ Pays(sc, sc', u)
          /\ sc'.refills[1].rTime = h.rTime + u /\ ~refill_head_overlapping(sc')
      BY <1>2, <3>1, <3>2, <3>4, ChargedPart DEF Punctual
    <3> QED BY <2>1, <3>5
  <2> QED BY <2>2, <2>3
<1> QED BY <1>1, <1>4, <1>6, <1>7, ChargedInv

\* The end of the timeslice of a thread whose head refill is still to come
LEMMA NotRunning ==
  ASSUME NEW s, NEW t \in Nat, NEW ph, ph \in endTimeslice(s, t) \cup {"blocked"},
         s.refills[1].rTime \in Nat, s.refills[1].rTime > t
  PROVE  ph # "running"
  BY SMTT(30) DEF endTimeslice, refill_ready, refill_head

\* Yielding puts off the whole of the head refill, however little of it was used: handleYield
LEMMA BandwidthYield == SporadicInv /\ BandwidthInv /\ handleYield => BandwidthInv'
<1> SUFFICES ASSUME SporadicInv, BandwidthInv, handleYield PROVE BandwidthInv'
  OBVIOUS
<1>1. PICK d \in Steps : /\ Elapse(d) /\ sc' = chargeBudget(sc, sc.refills[1].rAmount)
                         /\ consumed' = 0 /\ phase' \in endTimeslice(sc', now')
  BY SMTT(30) DEF handleYield, refill_head
<1> DEFINE u == consumed + d
           h == sc.refills[1]
<1>2. /\ now' \in Nat /\ now' < MAX_RELEASE_TIME /\ u \in Nat /\ ContextInv(sc) /\ AllReady(sc, now')
      /\ h.rAmount >= MIN_BUDGET /\ h.rTime <= now'
  BY <1>1, Elapsed
<1>3. h.rAmount \in Nat
  BY <1>2, InvFacts
<1>4. ContextInv(sc') /\ sc'.period = sc.period /\ sc'.sporadic = sc.sporadic
  BY <1>1, <1>2, <1>3, ChargeBudget
<1>5. ASSUME sc.period # 0 PROVE sc' = refill_budget_check(sc, h.rAmount)
  BY <1>1, <1>5 DEF chargeBudget, isRoundRobin
<1>6. ASSUME sc.period # 0 PROVE sc'.budget = sc.budget
  BY <1>2, <1>3, <1>5, <1>6, BudgetKept
<1>7. ASSUME late = 0, sc.period # 0, ~sc.sporadic
      PROVE  Pays(sc, sc', u) /\ phase' # "running"
  <2>1. now' = h.rTime + u
    BY <1>1, <1>7, RanOn
  <2>2. Punctual(sc, u)
    BY <1>1, <1>7, PunctualEntry
  <2>3. Pays(sc, sc', u) /\ sc'.refills[1].rTime > h.rTime + h.rAmount
    BY <1>2, <1>5, <1>7, <2>2, ChargedWhole DEF Punctual
  <2>4. u <= h.rAmount /\ h.rTime \in Nat /\ sc'.refills[1].rTime \in Nat
    BY <1>4, <2>2, InvFacts DEF Punctual
  <2>5. sc'.refills[1].rTime > now'
    <3> DEFINE w == sc'.refills[1].rTime
               a == h.rAmount
               t == h.rTime
    <3>1. w \in Nat /\ a \in Nat /\ t \in Nat /\ u \in Nat /\ u <= a /\ w > t + a /\ now' = t + u
      BY <1>2, <1>3, <2>1, <2>3, <2>4
    <3> HIDE DEF w, a, t, u
    <3>2. w > now'
      BY <3>1, SMTT(30)
    <3> QED BY <3>2 DEF w
  <2>6. phase' \in endTimeslice(sc', now') \cup {"blocked"}
    BY <1>1
  <2> QED BY <1>2, <2>3, <2>4, <2>5, <2>6, NotRunning
<1> QED BY <1>1, <1>4, <1>6, <1>7, ChargedInv

\* A thread out of budget pays for what it used and waits: chargeBudget
LEMMA BandwidthOutOfBudget == SporadicInv /\ BandwidthInv /\ OutOfBudget => BandwidthInv'
<1> SUFFICES ASSUME SporadicInv, BandwidthInv, OutOfBudget PROVE BandwidthInv'
  OBVIOUS
<1>1. PICK d \in Steps : /\ Elapse(d) /\ ~refill_sufficient(sc, consumed + d)
                         /\ sc' = chargeBudget(sc, consumed + d)
                         /\ consumed' = 0 /\ phase' \in endTimeslice(sc', now') \cup {"blocked"}
  BY SMTT(30) DEF OutOfBudget
<1> DEFINE u == consumed + d
           h == sc.refills[1]
<1>2. /\ now' \in Nat /\ now' < MAX_RELEASE_TIME /\ u \in Nat /\ ContextInv(sc) /\ AllReady(sc, now')
      /\ h.rAmount >= MIN_BUDGET /\ h.rTime <= now'
  BY <1>1, Elapsed
<1>3. ~(h.rAmount >= u + MIN_BUDGET)
  BY <1>1 DEF refill_sufficient, refill_head
<1>4. ContextInv(sc') /\ sc'.period = sc.period /\ sc'.sporadic = sc.sporadic
  BY <1>1, <1>2, ChargeBudget
<1>5. ASSUME sc.period # 0 PROVE sc' = refill_budget_check(sc, u)
  BY <1>1, <1>5 DEF chargeBudget, isRoundRobin
<1>6. ASSUME sc.period # 0 PROVE sc'.budget = sc.budget
  BY <1>2, <1>5, <1>6, BudgetKept
<1>7. ASSUME late = 0, sc.period # 0, ~sc.sporadic
      PROVE  Pays(sc, sc', u) /\ phase' # "running"
  <2>1. now' = h.rTime + u
    BY <1>1, <1>7, RanOn
  <2>2. Punctual(sc, u)
    BY <1>1, <1>7, PunctualEntry
  <2>3. u <= h.rAmount /\ h.rTime \in Nat /\ h.rAmount \in Nat /\ MIN_BUDGET \in Nat
    BY <2>2 DEF Punctual
  <2>4. Pays(sc, sc', u) /\ sc'.refills[1].rTime > h.rTime + u
    <3>1. CASE u = h.rAmount
      <4>1. LET s1 == refill_budget_check(sc, h.rAmount)
            IN Pays(sc, s1, u) /\ s1.refills[1].rTime > h.rTime + h.rAmount
        BY <1>2, <2>2, ChargedWhole DEF Punctual
      <4> HIDE DEF u
      <4> QED BY <1>5, <1>7, <3>1, <4>1
    <3>2. CASE u # h.rAmount
      <4> HIDE DEF u
      <4>1. u > 0 /\ u < h.rAmount /\ ~(h.rAmount - u >= MIN_BUDGET)
        <5> DEFINE a == h.rAmount
        <5>1. a \in Nat /\ u \in Nat /\ MIN_BUDGET \in Nat /\ u <= a /\ u # a /\ ~(a >= u + MIN_BUDGET) /\ a >= MIN_BUDGET
          BY <1>2, <1>3, <2>3, <3>2
        <5> HIDE DEF a
        <5>2. u > 0 /\ u < a /\ ~(a - u >= MIN_BUDGET)
          BY <5>1, SMTT(30)
        <5> QED BY <5>2 DEF a
      <4>2. LET s1 == refill_budget_check(sc, u)
            IN Pays(sc, s1, u) /\ s1.refills[1].rTime > h.rTime + u
        BY <1>2, <2>2, <4>1, ChargedPart DEF Punctual
      <4> QED BY <1>5, <1>7, <4>2
    <3> QED BY <3>1, <3>2
  <2>5. sc'.refills[1].rTime \in Nat /\ sc'.refills[1].rTime > now'
    BY <1>4, <2>1, <2>4, InvFacts
  <2> QED BY <1>1, <1>2, <2>4, <2>5, NotRunning
<1> QED BY <1>1, <1>4, <1>6, <1>7, ChargedInv

\* Time that passes while others run needs no paying
LEMMA BandwidthIdle == SporadicInv /\ BandwidthInv /\ Idle => BandwidthInv'
<1> SUFFICES ASSUME SporadicInv, BandwidthInv, Idle PROVE Bandwidth(sc', phase', now', consumed', late', ran')
  BY BandwidthIsInvNext
<1>1. PICK d \in Steps : /\ phase # "running" /\ now' = now + d
                         /\ UNCHANGED <<sc, phase, consumed, late, ran>>
  BY SMTT(30) DEF Idle
<1>2. Bandwidth(sc, phase, now, consumed, late, ran) /\ now \in Nat /\ ContextInv(sc) /\ d \in Nat
  BY BandwidthIsInv, SporadicConstants, SMTT(30) DEF SporadicInv
<1>3. sc.period \in Nat
  BY <1>2, InvFacts
<1>4. now \in Int /\ now' \in Int /\ now <= now'
  BY <1>1, <1>2, SMTT(30)
<1>5. \A i \in ran : i \in Int /\ i < now
  BY <1>2 DEF Bandwidth
<1>6. \A i \in ran : i \in Int /\ i < now'
  BY <1>4, <1>5, SMTT(30)
<1>7. ASSUME late = 0, sc.period # 0, ~sc.sporadic PROVE Bounded(sc, phase, now', consumed, ran)
  <2>1. Paid(sc, ran, now)
    BY <1>1, <1>2, <1>7 DEF Bandwidth, Bounded
  <2>2. Paid(sc, ran, now')
    BY <1>3, <1>4, <1>5, <2>1, PaidLater
  <2> QED BY <1>1, <2>2 DEF Bounded
<1> QED BY <1>1, <1>2, <1>6, <1>7 DEF Bandwidth

\* A thread that is released is not yet charged for anything: awaken
LEMMA BandwidthAwaken == SporadicInv /\ BandwidthInv /\ awaken => BandwidthInv'
<1> SUFFICES ASSUME BandwidthInv, awaken PROVE Bandwidth(sc', phase', now', consumed', late', ran')
  BY BandwidthIsInvNext
<1>1. Bandwidth(sc, phase, now, consumed, late, ran)
  BY BandwidthIsInv
<1>2. phase # "running" /\ phase' # "running" /\ UNCHANGED <<sc, now, consumed, late, ran>>
  BY SMTT(30) DEF awaken
<1> QED BY <1>1, <1>2 DEF Bandwidth, Bounded

\* A context that is unblocked, or switched to, keeps its parameters, and its refills move no closer
LEMMA UnblockedContext ==
  ASSUME NEW s, ContextInv(s), NEW t \in Nat
  PROVE  LET s1 == refill_unblock_check(s, t)
         IN /\ ContextInv(s1) /\ s1.period = s.period /\ s1.sporadic = s.sporadic /\ s1.budget = s.budget
            /\ s.period # 0 /\ s.refills[1].rTime <= t =>
                 /\ Later(s.refills, s1.refills) /\ s1.refills[1].rTime = t
                 /\ ~refill_head_overlapping(s1)
<1>1. CASE s.period = 0 \/ ~(s.refills[1].rTime <= t)
  <2>1. refill_unblock_check(s, t) = s
    BY <1>1 DEF refill_unblock_check, isRoundRobin, refill_ready, refill_head
  <2> QED BY <1>1, <2>1
<1>2. CASE s.period # 0 /\ s.refills[1].rTime <= t
  <2> DEFINE s1 == refill_unblock_check(s, t)
  <2>1. s \in Context /\ Len(s.refills) \in 1 .. s.max /\ Queue(s.refills, s.period)
    BY <1>2, InvFacts
  <2>2. /\ Keeps(s, s1, t + s.period) /\ refill_sum(s1) = refill_sum(s)
        /\ s1.refills[1].rTime = t /\ ~refill_head_overlapping(s1)
    BY <1>2, <2>1, UnblockCheck
  <2>3. Later(s.refills, s1.refills)
    BY <1>2, <2>1, UnblockIsLater
  <2> HIDE DEF s1
  <2>4. ContextInv(s1) /\ s1.period = s.period /\ s1.sporadic = s.sporadic /\ s1.budget = s.budget
    BY <1>2, <2>2, KeptContext
  <2> QED BY <2>2, <2>3, <2>4 DEF s1
<1> QED BY <1>1, <1>2

\* Unblocking does not touch the refills of a thread of constant bandwidth
LEMMA BandwidthUnblock == SporadicInv /\ BandwidthInv /\ Unblock => BandwidthInv'
<1> SUFFICES ASSUME SporadicInv, BandwidthInv, Unblock PROVE Bandwidth(sc', phase', now', consumed', late', ran')
  BY BandwidthIsInvNext
<1>1. Bandwidth(sc, phase, now, consumed, late, ran) /\ now \in Nat /\ ContextInv(sc)
  BY BandwidthIsInv DEF SporadicInv
<1>2. /\ phase # "running" /\ phase' # "running" /\ UNCHANGED <<now, consumed, late, ran>>
      /\ sc' = IF sc.sporadic THEN refill_unblock_check(sc, now) ELSE sc
  BY SMTT(30) DEF Unblock
<1>3. CASE ~sc.sporadic
  <2>1. sc' = sc
    BY <1>2, <1>3
  <2> QED BY <1>1, <1>2, <2>1 DEF Bandwidth, Bounded
<1>4. CASE sc.sporadic
  <2>1. sc'.period = sc.period /\ sc'.sporadic = sc.sporadic /\ sc'.budget = sc.budget
    BY <1>1, <1>2, <1>4, UnblockedContext
  <2> QED BY <1>1, <1>2, <1>4, <2>1 DEF Bandwidth
<1> QED BY <1>3, <1>4

\* A thread of constant bandwidth that is switched to begins its head refill anew, and
\* what had become available meanwhile is merged into it: switchSchedContext
LEMMA BandwidthSwitch == SporadicInv /\ BandwidthInv /\ switchSchedContext => BandwidthInv'
<1> SUFFICES ASSUME SporadicInv, BandwidthInv, switchSchedContext
             PROVE  Bandwidth(sc', phase', now', consumed', late', ran')
  BY BandwidthIsInvNext
<1>1. Bandwidth(sc, phase, now, consumed, late, ran) /\ Holds(sc, phase, now, consumed, late)
  BY BandwidthIsInv, HoldsIsInv
<1>2. /\ phase = "ready" /\ phase # "running" /\ phase' = "running" /\ UNCHANGED <<now, consumed, late, ran>>
      /\ sc' = IF sc.sporadic THEN sc ELSE refill_unblock_check(sc, now)
  BY SMTT(30) DEF switchSchedContext
<1>3. now \in Nat /\ ContextInv(sc) /\ sc.refills[1].rTime <= now /\ consumed = 0
  BY <1>1, <1>2, SMTT(30) DEF Holds
<1>4. CASE sc.sporadic
  <2>1. sc' = sc
    BY <1>2, <1>4
  <2> QED BY <1>1, <1>2, <1>4, <2>1 DEF Bandwidth
<1>5. CASE ~sc.sporadic
  <2>1. /\ ContextInv(sc') /\ sc'.period = sc.period /\ sc'.sporadic = sc.sporadic /\ sc'.budget = sc.budget
        /\ sc.period # 0 =>
             /\ Later(sc.refills, sc'.refills) /\ sc'.refills[1].rTime = now
             /\ ~refill_head_overlapping(sc')
    BY <1>2, <1>3, <1>5, UnblockedContext
  <2>2. IsFiniteSet(ran)
    BY <1>1 DEF Bandwidth
  <2>3. ASSUME late = 0, sc.period # 0 PROVE Bounded(sc', phase', now, consumed, ran)
    <3>1. Paid(sc, ran, now)
      BY <1>1, <1>2, <1>5, <2>3 DEF Bandwidth, Bounded
    <3>2. Paid(sc', ran, now)
      BY <1>3, <2>1, <2>2, <2>3, <3>1, PaidByLater
    <3>3. now + 0 = now
      <4>1. \A k \in Nat : k + 0 = k
        BY SMTT(30)
      <4> QED BY <1>3, <4>1
    <3> QED BY <1>2, <1>3, <2>1, <2>3, <3>2, <3>3 DEF Bounded
  <2> QED BY <1>1, <1>2, <2>1, <2>3 DEF Bandwidth
<1> QED BY <1>4, <1>5

\* A context has budget b every p
Reserves(s, b, p) == s.budget = b /\ s.period = p

\* The parameters of a new context
LEMMA NewParameters ==
  ASSUME NEW m, NEW b, NEW p, NEW f, NEW t
  PROVE  Reserves(refill_new(m, b, p, f, t), b, p)
<1> DEFINE s0(q) == [refills |-> q, period |-> p, max |-> m, sporadic |-> f, budget |-> b]
           q0 == <<[rTime |-> t, rAmount |-> b]>>
           q1 == Append(q0, [rTime |-> refill_head(s0(q0)).rTime, rAmount |-> 0])
<1>1. refill_new(m, b, p, f, t) = maybe_add_empty_tail(s0(q0))
  BY DEF refill_new
<1> HIDE DEF q0
<1>2. s0(q0).refills = q0 /\ s0(q0).budget = b /\ s0(q0).period = p
  BY SMTT(30)
<1>3. CASE isRoundRobin(s0(q0))
  <2>1. [s0(q0) EXCEPT !.refills = q1] = s0(q1)
    <3> HIDE DEF q1
    <3> QED BY SMTT(30)
  <2>2. maybe_add_empty_tail(s0(q0)) = s0(q1)
    BY <1>2, <1>3, <2>1 DEF maybe_add_empty_tail
  <2> HIDE DEF q1
  <2>3. s0(q1).budget = b /\ s0(q1).period = p
    BY SMTT(30)
  <2> HIDE DEF s0
  <2> QED BY <1>1, <2>2, <2>3 DEF Reserves
<1>4. CASE ~isRoundRobin(s0(q0))
  <2>1. maybe_add_empty_tail(s0(q0)) = s0(q0)
    BY <1>4 DEF maybe_add_empty_tail
  <2> HIDE DEF s0
  <2> QED BY <1>1, <1>2, <2>1 DEF Reserves
<1> QED BY <1>3, <1>4

\* The parameters of an updated context, and its refills, which do not touch
LEMMA UpdatedParameters ==
  ASSUME NEW s, ContextInv(s), NEW m, NEW b, NEW p, NEW f, NEW t, t \in Nat, Parameters(m, b, p, f), b < p
  PROVE  LET s1 == refill_update(s, m, b, p, f, t)
         IN Reserves(s1, b, p) /\ ~refill_head_overlapping(s1)
<1> DEFINE h == s.refills[1]
           x == IF h.rTime <= t THEN t ELSE h.rTime
           head == [rTime |-> x, rAmount |-> h.rAmount]
           one(q) == [refills |-> q, period |-> p, max |-> m, sporadic |-> f, budget |-> b]
<1>0. b \in Nat /\ p \in Nat /\ p # 0
  <2>1. b \in Nat /\ p \in Nat
    BY DEF Parameters
  <2> QED BY <2>1, SMTT(30)
<1>1. h \in Refill /\ h.rTime \in Nat /\ h.rAmount \in Nat
  BY InvFacts
<1>2. x \in Nat
  BY <1>1, SMTT(30)
<1>3. [h EXCEPT !.rTime = IF @ <= t THEN t ELSE @] = head
  BY <1>1, SMTT(30) DEF Refill
<1> HIDE DEF x
<1>4. CASE h.rAmount >= b
  <2> DEFINE q == <<[rTime |-> x, rAmount |-> b]>>
  <2>1. refill_update(s, m, b, p, f, t)
          = maybe_add_empty_tail(setHead(one(<<head>>), [head EXCEPT !.rAmount = b]))
    BY <1>3, <1>4 DEF refill_update, refill_head
  <2>2. setHead(one(<<head>>), [head EXCEPT !.rAmount = b]) = one(q)
    BY SMTT(30) DEF setHead
  <2>3. maybe_add_empty_tail(one(q)) = one(q)
    BY <1>0, SMTT(30) DEF maybe_add_empty_tail, isRoundRobin
  <2>4. one(q).period = p /\ one(q).budget = b /\ Len(one(q).refills) = 1
    BY SMTT(30)
  <2>5. refill_update(s, m, b, p, f, t) = one(q)
    BY <2>1, <2>2, <2>3
  <2> HIDE DEF q, one
  <2> QED BY <2>4, <2>5 DEF Reserves, refill_head_overlapping, refill_single
<1>5. CASE ~(h.rAmount >= b)
  <2> DEFINE q == <<head, [rTime |-> x + p, rAmount |-> b - h.rAmount]>>
  <2>1. refill_update(s, m, b, p, f, t) = one(q)
    BY <1>3, <1>5, SMTT(30) DEF refill_update, refill_head
  <2>2. /\ one(q).period = p /\ one(q).budget = b /\ one(q).refills[1].rAmount = h.rAmount
        /\ one(q).refills[1].rTime = x /\ one(q).refills[2].rTime = x + p
    BY SMTT(30)
  <2>3. ~(x + p <= x + h.rAmount)
    <3> DEFINE a == h.rAmount
    <3>1. a \in Nat /\ x \in Nat /\ p \in Nat /\ b \in Nat /\ ~(a >= b) /\ b < p
      BY <1>0, <1>1, <1>2, <1>5
    <3> HIDE DEF a
    <3>2. ~(x + p <= x + a)
      BY <3>1, SMTT(30)
    <3> QED BY <3>2 DEF a
  <2> HIDE DEF q, one
  <2> QED BY <2>1, <2>2, <2>3 DEF Reserves, refill_head_overlapping, refill_head
<1> QED BY <1>4, <1>5

\* New parameters start a new account: invokeSchedControl_ConfigureFlags
LEMMA BandwidthConfigure == SporadicInv /\ BandwidthInv /\ ConfigureFlags => BandwidthInv'
<1> SUFFICES ASSUME SporadicInv, BandwidthInv, ConfigureFlags
             PROVE  Bandwidth(sc', phase', now', consumed', late', ran')
  BY BandwidthIsInvNext
<1> DEFINE s == commitTime(sc, consumed)
<1>1. Holds(sc, phase, now, consumed, late) /\ ContextInv(sc')
  BY HoldsIsInv, InvConfigure DEF SporadicInv
<1>2. PICK b \in Budgets, p \in Periods, m \in MaxRefills, f \in Flags :
        /\ MIN_BUDGET <= b /\ b <= p
        /\ sc' = IF b = p THEN refill_new(MIN_REFILLS, b, 0, f, now)
                 ELSE IF phase # "blocked" THEN refill_update(s, m, b, p, f, now)
                 ELSE refill_new(m, b, p, f, now)
        /\ phase' \in IF phase = "blocked" THEN {"blocked"}
                      ELSE IF ~refill_ready(sc', now) THEN {"waiting"}
                      ELSE IF phase = "running" THEN {"running", "ready"}
                      ELSE {"ready"}
        /\ consumed' = 0 /\ ran' = {} /\ UNCHANGED <<now, late>>
  BY SMTT(30) DEF ConfigureFlags
<1>3. /\ b \in Nat /\ p \in Nat /\ m \in Nat /\ f \in BOOLEAN /\ m >= 2 /\ b >= MIN_BUDGET
      /\ b <= Max(Periods) /\ p <= Max(Periods) /\ MIN_BUDGET \in Nat
  <2>1. b \in Nat /\ p \in Nat /\ m \in Nat /\ f \in BOOLEAN /\ m >= 2
    BY SporadicConstants DEF MIN_REFILLS
  <2>2. p <= Max(Periods) /\ MIN_BUDGET \in Nat /\ Max(Periods) \in Nat
    BY ConstantFacts
  <2>3. MIN_BUDGET <= b /\ b <= p
    BY <1>2
  <2>4. b >= MIN_BUDGET /\ b <= Max(Periods)
    BY <2>1, <2>2, <2>3, SMTT(30)
  <2> QED BY <2>1, <2>2, <2>4
<1>4. /\ now \in Nat /\ now < MAX_RELEASE_TIME /\ consumed \in Nat /\ ContextInv(sc)
      /\ sc.refills[1].rAmount >= MIN_BUDGET /\ AllReady(sc, now)
      /\ phase = "running" => /\ sc.refills[1].rAmount >= consumed + MIN_BUDGET
                              /\ sc.refills[1].rTime + consumed <= now
      /\ phase # "running" => consumed = 0
  BY <1>1, SMTT(30) DEF Holds
<1>5. ContextInv(s) /\ s.refills[1].rAmount >= MIN_BUDGET
  <2>1. CASE phase # "running"
    <3>1. s = sc
      BY <1>4, <2>1 DEF commitTime
    <3> QED BY <1>4, <3>1
  <2>2. CASE phase = "running"
    BY <1>4, <2>2, CommitTime
  <2> QED BY <2>1, <2>2
<1> HIDE DEF s
<1>6. CASE b = p
  <2>1. sc'.period = 0
    <3> DEFINE s1 == refill_new(MIN_REFILLS, b, 0, f, now)
    <3>1. Reserves(s1, b, 0)
      BY NewParameters
    <3> HIDE DEF s1
    <3>2. sc' = s1
      BY <1>2, <1>6 DEF s1
    <3> QED BY <3>1, <3>2 DEF Reserves
  <2> QED BY <1>2, <2>1, FS_EmptySet DEF Bandwidth
<1>7. CASE b # p
  <2>1. b < p /\ Parameters(m, b, p, f)
    <3>1. b < p
      BY <1>2, <1>3, <1>7, SMTT(30)
    <3> QED BY <1>2, <1>3, <3>1 DEF Parameters
  <2>2. CASE phase = "blocked"
    <3>1. sc'.period = p /\ sc'.budget = b /\ phase' # "running"
      <4> DEFINE s1 == refill_new(m, b, p, f, now)
      <4>1. sc' = s1 /\ phase' \in {"blocked"}
        BY <1>2, <1>7, <2>2
      <4>2. phase' # "running"
        BY <4>1, SMTT(30)
      <4>3. Reserves(s1, b, p)
        BY NewParameters
      <4> HIDE DEF s1
      <4> QED BY <4>1, <4>2, <4>3 DEF Reserves
    <3>2. Bounded(sc', phase', now', consumed', ran')
      BY <1>1, <1>2, <3>1, PaidNothing DEF Bounded
    <3> QED BY <1>2, <2>1, <3>1, <3>2, FS_EmptySet DEF Bandwidth
  <2>3. CASE phase # "blocked"
    <3> DEFINE s1 == refill_update(s, m, b, p, f, now)
    <3>1. sc' = s1
      BY <1>2, <1>7, <2>3
    <3>2. sc'.period = p /\ sc'.budget = b /\ ~refill_head_overlapping(sc')
      <4>1. Reserves(s1, b, p) /\ ~refill_head_overlapping(s1)
        BY <1>4, <1>5, <2>1, UpdatedParameters
      <4> HIDE DEF s1
      <4> QED BY <3>1, <4>1 DEF Reserves
    <3>3. sc'.refills[1].rTime = IF s.refills[1].rTime <= now THEN now ELSE s.refills[1].rTime
      <4>1. Updated(s1, s, now)
        BY <1>4, <1>5, <2>1, RefillUpdate
      <4> HIDE DEF s1
      <4> QED BY <3>1, <4>1 DEF Updated
    <3> HIDE DEF s1
    <3>4. ASSUME phase' = "running" PROVE sc'.refills[1].rTime = now
      <4>1. refill_ready(sc', now)
        BY <1>2, <2>3, <3>4, SMTT(30)
      <4> QED BY <3>3, <4>1 DEF refill_ready, refill_head
    <3>5. now + 0 = now
      <4>1. \A k \in Nat : k + 0 = k
        BY SMTT(30)
      <4> QED BY <1>4, <4>1
    <3>6. Bounded(sc', phase', now', consumed', ran')
      BY <1>1, <1>2, <3>2, <3>4, <3>5, PaidNothing DEF Bounded
    <3> QED BY <1>2, <2>1, <3>2, <3>6, FS_EmptySet DEF Bandwidth
  <2> QED BY <2>2, <2>3
<1> QED BY <1>6, <1>7

\* A context starts with nothing run
LEMMA BandwidthInit == Init => BandwidthInv
<1> SUFFICES ASSUME Init PROVE Bandwidth(sc, phase, now, consumed, late, ran)
  BY BandwidthIsInv
<1>1. PICK b \in Budgets, p \in Periods, m \in MaxRefills, f \in Flags :
         b < p /\ sc = refill_new(m, b, p, f, 0)
  BY SMTT(30) DEF Init
<1>2. phase # "running" /\ ran = {}
  BY SMTT(30) DEF Init
<1>3. ContextInv(sc)
  BY InvInit DEF SporadicInv
<1>4. sc.period = p /\ sc.budget = b
  <2> DEFINE s1 == refill_new(m, b, p, f, 0)
  <2>1. Reserves(s1, b, p)
    BY NewParameters
  <2> HIDE DEF s1
  <2>2. sc = s1
    BY <1>1 DEF s1
  <2> QED BY <2>1, <2>2 DEF Reserves
<1>5. Bounded(sc, phase, now, consumed, ran)
  BY <1>2, <1>3, PaidNothing DEF Bounded
<1> QED BY <1>1, <1>2, <1>4, <1>5, FS_EmptySet DEF Bandwidth

\* Every tick run is paid for, through every entry, charge, wake-up, switch and reconfiguration
LEMMA BandwidthInvariant == Spec => []BandwidthInv
<1>1. SporadicInv /\ BandwidthInv /\ [Next]_vars => BandwidthInv'
  <2> SUFFICES ASSUME SporadicInv, BandwidthInv, [Next]_vars PROVE BandwidthInv'
    BY SMTT(30)
  <2>1. CASE Continue
    BY <2>1, BandwidthContinue
  <2>2. CASE Commit
    BY <2>2, BandwidthCommit
  <2>3. CASE handleYield
    BY <2>3, BandwidthYield
  <2>4. CASE OutOfBudget
    BY <2>4, BandwidthOutOfBudget
  <2>5. CASE Idle
    BY <2>5, BandwidthIdle
  <2>6. CASE awaken
    BY <2>6, BandwidthAwaken
  <2>7. CASE Unblock
    BY <2>7, BandwidthUnblock
  <2>8. CASE switchSchedContext
    BY <2>8, BandwidthSwitch
  <2>9. CASE ConfigureFlags
    BY <2>9, BandwidthConfigure
  <2>10. CASE UNCHANGED vars
    <3>1. Bandwidth(sc, phase, now, consumed, late, ran)
      BY BandwidthIsInv
    <3>2. Bandwidth(sc', phase', now', consumed', late', ran')
      BY <2>10, <3>1 DEF vars
    <3> QED BY <3>2, BandwidthIsInvNext
  <2> QED BY <2>1, <2>2, <2>3, <2>4, <2>5, <2>6, <2>7, <2>8, <2>9, <2>10 DEF Next
<1> QED BY <1>1, BandwidthInit, SporadicInvariant, PTL DEF Spec

\* The refills hold no more than the budget from any time on, and less when the head has begun
LEMMA HeldFrom ==
  ASSUME NEW s, ContextInv(s), NEW y \in Int
  PROVE  LET h == s.refills[1]
         IN /\ budgetFrom(s.refills, y) \in Nat
            /\ budgetFrom(s.refills, y) <= s.budget - h.rAmount + ticksFrom(h.rTime, h.rAmount, y)
            /\ ticksFrom(h.rTime, h.rAmount, y) \in Nat /\ ticksFrom(h.rTime, h.rAmount, y) <= h.rAmount
<1>1. /\ s.refills \in Seq(Refill) /\ Len(s.refills) \in Nat /\ Len(s.refills) >= 1
      /\ sumOf(s.refills) = s.budget /\ s.refills[1].rTime \in Nat /\ s.refills[1].rAmount \in Nat
  BY InvFacts DEF refill_sum
<1>2. Len(s.refills) > 0 /\ s.refills[1].rTime \in Int
  BY <1>1, SMTT(30)
<1> QED BY <1>1, <1>2, FromBound, TicksFrom

\* A thread of constant bandwidth whose timer is punctual runs for at most its budget in the
\* last period, for every budget, period and number of refills, however its runs are split,
\* preempted, blocked and merged (refill_budget_check, refill_unblock_check).
THEOREM BandwidthIsBounded == Spec => []ConstantBandwidth
<1>1. SporadicInv /\ BandwidthInv => ConstantBandwidth
  <2> DEFINE p == sc.period
             B == sc.budget
             x == now - p
             h == sc.refills[1]
             a == h.rAmount
             D == {t \in ran : t >= now - p}
  <2> SUFFICES ASSUME SporadicInv, BandwidthInv, late = 0, p # 0, ~sc.sporadic PROVE Cardinality(D) <= B
    BY DEF ConstantBandwidth, isRoundRobin
  <2>1. Bandwidth(sc, phase, now, consumed, late, ran) /\ Holds(sc, phase, now, consumed, late)
    BY BandwidthIsInv, HoldsIsInv
  <2>2. /\ now \in Nat /\ now < MAX_RELEASE_TIME /\ ContextInv(sc) /\ consumed \in Nat
        /\ phase = "running" => a >= consumed + MIN_BUDGET
    BY <2>1 DEF Holds
  <2>3. IsFiniteSet(ran) /\ (\A i \in ran : i \in Int /\ i < now) /\ Bounded(sc, phase, now, consumed, ran)
    BY <2>1 DEF Bandwidth
  <2>4. /\ p \in Nat /\ p <= Max(Periods) /\ Max(Periods) \in Nat /\ MAX_RELEASE_TIME \in Nat
        /\ h.rTime \in Nat /\ a \in Nat /\ B \in Nat /\ MIN_BUDGET \in Nat
    BY <2>2, InvFacts
  <2>5. now \in Int /\ x \in 0 - Max(Periods) .. MAX_RELEASE_TIME /\ x \in Int /\ x + p = now
    <3> HIDE DEF p
    <3> QED BY <2>2, <2>4, SMTT(30)
  <2>6. D = between(ran, x, now)
    BY <2>3, SMTT(30) DEF between
  <2> DEFINE A == budgetFrom(sc.refills, now)
             f == ticksFrom(h.rTime, a, now)
  <2>7. A \in Nat /\ A <= B - a + f /\ f \in Nat /\ f <= a
    BY <2>2, <2>5, HeldFrom
  <2> DEFINE cD == Cardinality(between(ran, x, now))
  <2>8. CASE phase # "running"
    <3>1. Paid(sc, ran, now)
      BY <2>3, <2>8 DEF Bounded
    <3>2. now >= now
      BY <2>2, SMTT(30)
    <3>3. cD <= A
      BY <2>5, <3>1, <3>2 DEF Paid
    <3>4. cD \in Nat
      <4>1. between(ran, x, now) \in SUBSET ran
        BY DEF between
      <4> QED BY <2>3, <4>1, FS_Subset, FS_CardinalityType
    <3> HIDE DEF cD, A, B, a, f
    <3>5. cD <= B
      BY <2>4, <2>7, <3>3, <3>4, SMTT(30)
    <3> QED BY <2>6, <3>5 DEF cD
  <2>9. CASE phase = "running"
    <3> DEFINE z == h.rTime
               c == consumed
               k == ticksFrom(z + p, now - z, now)
               C == Cardinality(between(ran, x, z))
    <3>1. z + c = now /\ Paid(sc, ran, z) /\ a >= c + MIN_BUDGET
      BY <2>2, <2>3, <2>9 DEF Bounded
    <3>2. z \in Int /\ z <= now /\ now - z = c /\ now >= z /\ z + p \in Int
      <4> HIDE DEF z, p
      <4> QED BY <2>2, <2>4, <3>1, SMTT(30) DEF z
    <3>3. C <= A
      BY <2>5, <3>1, <3>2 DEF Paid
    <3>4. \A i \in ran : i \in Int /\ (i \in ran \/ i >= z)
      BY <2>3
    <3>5. cD \in Nat /\ C \in Nat /\ cD <= C + k
      <4>1. /\ Cardinality(between(ran, x, now)) \in Nat /\ Cardinality(between(ran, x, z)) \in Nat
            /\ Cardinality(between(ran, x, now)) <= Cardinality(between(ran, x, z)) + ticksFrom(z + p, now - z, x + p)
        <5> HIDE DEF z, x, p
        <5> QED BY <2>3, <2>4, <2>5, <3>2, <3>4, RunTicks DEF p
      <4> QED BY <2>5, <4>1
    <3>6. k \in Nat /\ k <= c
      <4>1. k = ticksFrom(z + p, c, now)
        BY <3>2
      <4> HIDE DEF k, z, p
      <4> QED BY <2>2, <2>5, <3>2, <4>1, TicksFrom
    <3>7. f = a - c
      <4>1. z \in Nat /\ c \in Nat /\ a \in Nat /\ MIN_BUDGET \in Nat /\ z + c = now /\ a >= c + MIN_BUDGET /\ f = ticksFrom(z, a, now)
        BY <2>2, <2>4, <3>1
      <4> HIDE DEF z, c, a, f
      <4> QED BY <4>1, SMTT(30) DEF ticksFrom
    <3> HIDE DEF cD, A, B, a, f, k, C, c
    <3>8. cD <= B
      <4>1. c \in Nat
        BY <2>2 DEF c
      <4> QED BY <2>4, <2>7, <3>3, <3>5, <3>6, <3>7, <4>1, SMTT(30)
    <3> QED BY <2>6, <3>8 DEF cD
  <2> QED BY <2>8, <2>9
<1> QED BY <1>1, BandwidthInvariant, SporadicInvariant, PTL
=============================================================================
