--------------------------- MODULE SporadicProofs ---------------------------
(***************************************************************************)
(* Scheduling contexts (kernel/sporadic.c), on the lemmas of RefillProofs: *)
(* the invariant of the refills, however late the timer is, and why the    *)
(* circular buffer they are kept in behaves as the sequence of the model.  *)
(***************************************************************************)
EXTENDS RefillProofs

\* The prover of a leaf that names none
USE ZenonT(60)

(* What the kernel does with a context *)

\* The numbers of a context that satisfies the invariant
LEMMA InvFacts ==
  ASSUME NEW s, ContextInv(s)
  PROVE  /\ s \in Context /\ s.refills \in Seq(Refill) /\ Len(s.refills) \in Nat /\ Len(s.refills) >= 1
         /\ Len(s.refills) \in 1 .. s.max /\ s.max >= 2 /\ s.max \in Nat /\ s.period \in Nat
         /\ s.refills[1] \in Refill /\ s.refills[1].rTime \in Nat /\ s.refills[1].rAmount \in Nat
         /\ s.budget \in Nat /\ refill_sum(s) = s.budget /\ s.budget >= MIN_BUDGET
         /\ MIN_BUDGET \in Nat /\ MIN_BUDGET > 0 /\ MAX_RELEASE_TIME \in Nat
         /\ Max(Periods) \in Nat /\ s.period <= Max(Periods)
         /\ s.period # 0 => Queue(s.refills, s.period) /\ s.budget <= s.period
         /\ s.period = 0 => Len(s.refills) = 2
<1>1. s \in Context /\ Len(s.refills) \in 1 .. s.max /\ s.max >= 2
  BY SMTT(30) DEF ContextInv, MIN_REFILLS
<1>2. s.period # 0 => Queue(s.refills, s.period) /\ s.budget <= s.period
  BY DEF ContextInv, isRoundRobin, QueueInv, Queue, refill_head
<1>3. s.period = 0 => Len(s.refills) = 2
  BY SMTT(30) DEF ContextInv, isRoundRobin, MIN_REFILLS
<1>4. refill_sum(s) = s.budget /\ s.budget >= MIN_BUDGET /\ s.period <= Max(Periods)
  BY SMTT(30) DEF ContextInv
<1>5. MIN_BUDGET \in Nat /\ MIN_BUDGET > 0 /\ MAX_RELEASE_TIME \in Nat /\ Max(Periods) \in Nat
  BY ConstantFacts
<1>6. /\ s.refills \in Seq(Refill) /\ Len(s.refills) \in Nat /\ Len(s.refills) >= 1
      /\ s.max \in Nat /\ s.period \in Nat /\ s.budget \in Nat /\ 1 \in 1 .. Len(s.refills)
  <2>1. /\ s.refills \in Seq(Refill) /\ Len(s.refills) \in Nat
        /\ s.max \in Nat /\ s.period \in Nat /\ s.budget \in Nat
    BY <1>1, ContextFacts
  <2>2. Len(s.refills) >= 1
    BY <1>1, <2>1, SMTT(30)
  <2> QED BY <1>1, <2>1, <2>2, LooseHead
<1>7. s.refills[1] \in Refill /\ s.refills[1].rTime \in Nat /\ s.refills[1].rAmount \in Nat
  BY <1>1, <1>6, ContextFacts
<1> QED BY <1>1, <1>2, <1>3, <1>4, <1>5, <1>6, <1>7

\* A context whose refills are kept in order, with their sum, satisfies the invariant
LEMMA KeptContext ==
  ASSUME NEW s, ContextInv(s), s.period # 0, NEW s1, NEW X, Keeps(s, s1, X), refill_sum(s1) = refill_sum(s)
  PROVE  ContextInv(s1) /\ s1.period = s.period /\ s1.sporadic = s.sporadic /\ s1.budget = s.budget
<1>1. QueueInv(s1)
  BY DEF Keeps, QueueInv, Queue, refill_head
<1>2. s.budget <= s.period
  BY InvFacts
<1> QED BY <1>1, <1>2 DEF ContextInv, Keeps, isRoundRobin

\* A round robin context with other amounts
WithAmounts(s, a, b) == [s EXCEPT !.refills[1].rAmount = a, !.refills[2].rAmount = b]

\* It is the context with two other refills
LEMMA TwoAmounts ==
  ASSUME NEW s \in Context, Len(s.refills) = 2, NEW a \in Nat, NEW b \in Nat
  PROVE  WithAmounts(s, a, b) = [s EXCEPT !.refills = <<[rTime |-> s.refills[1].rTime, rAmount |-> a],
                                                       [rTime |-> s.refills[2].rTime, rAmount |-> b]>>]
<1> DEFINE q == s.refills
           x == [rTime |-> q[1].rTime, rAmount |-> a]
           y == [rTime |-> q[2].rTime, rAmount |-> b]
<1>1. q \in Seq(Refill) /\ Len(q) = 2
  BY SMTT(30) DEF Context
<1>2. q[1] \in Refill /\ q[2] \in Refill
  BY <1>1, SMTT(30)
<1>3. [q[1] EXCEPT !.rAmount = a] = x /\ [q[2] EXCEPT !.rAmount = b] = y
  BY <1>2, SMTT(30) DEF Refill
<1>4. x \in Refill /\ y \in Refill
  BY <1>2, SMTT(30) DEF Refill
<1>5. [q EXCEPT ![1].rAmount = a] = [q EXCEPT ![1] = x]
  BY <1>3
<1>6. [q EXCEPT ![1] = x] \in Seq(Refill) /\ Len([q EXCEPT ![1] = x]) = 2 /\ [q EXCEPT ![1] = x][2] = q[2]
  BY <1>1, <1>4, SMTT(30)
<1>7. [q EXCEPT ![1].rAmount = a, ![2].rAmount = b] = [[q EXCEPT ![1] = x] EXCEPT ![2] = y]
  BY <1>3, <1>5, <1>6
<1> HIDE DEF x, y
<1>8. [[q EXCEPT ![1] = x] EXCEPT ![2] = y] = <<x, y>>
  BY <1>1, <1>4, SMTT(30)
<1>9. WithAmounts(s, a, b) = [s EXCEPT !.refills = [q EXCEPT ![1].rAmount = a, ![2].rAmount = b]]
  BY DEF WithAmounts
<1> QED BY <1>7, <1>8, <1>9 DEF x, y

\* A round robin context whose two refills have other amounts, with the same sum
LEMMA RoundRobin ==
  ASSUME NEW s, ContextInv(s), s.period = 0, NEW a \in Nat, NEW b \in Nat,
         a + b = s.refills[1].rAmount + s.refills[2].rAmount,
         NEW s1, s1 = WithAmounts(s, a, b)
  PROVE  /\ ContextInv(s1) /\ s1.period = s.period /\ s1.sporadic = s.sporadic /\ s1.budget = s.budget
         /\ s1.refills[1].rAmount = a /\ Len(s1.refills) = Len(s.refills)
         /\ \A i \in 1 .. Len(s.refills) : s1.refills[i].rTime = s.refills[i].rTime
<1> DEFINE q == s.refills
           x == [rTime |-> q[1].rTime, rAmount |-> a]
           y == [rTime |-> q[2].rTime, rAmount |-> b]
           q1 == <<x, y>>
<1>1. q \in Seq(Refill) /\ Len(q) = 2 /\ s \in Context
  BY InvFacts
<1>2. 1 \in 1 .. 2 /\ 2 \in 1 .. 2
  BY SMTT(30)
<1>3. q[1] \in Refill /\ q[2] \in Refill /\ q[1].rTime \in Nat /\ q[2].rTime \in Nat
  BY <1>1, <1>2, Elements
<1>4. s1 = [s EXCEPT !.refills = q1]
  <2>1. WithAmounts(s, a, b) = [s EXCEPT !.refills = q1]
    BY <1>1, TwoAmounts, SMTT(30)
  <2> QED BY <2>1
<1>5. /\ x \in Refill /\ x.rTime = q[1].rTime /\ x.rAmount = a
      /\ y \in Refill /\ y.rTime = q[2].rTime /\ y.rAmount = b
  BY <1>3, SMTT(30) DEF Refill
<1> HIDE DEF x, y
<1>6. q1 \in Seq(Refill) /\ Len(q1) = 2 /\ q1[1] = x /\ q1[2] = y
  BY <1>5, SMTT(30)
<1> HIDE DEF q1
<1>7. sumOf(q1) = sumOf(q)
  <2>1. sumOf(q1) = q1[1].rAmount + q1[2].rAmount /\ sumOf(q) = q[1].rAmount + q[2].rAmount
    BY <1>1, <1>6, SumBounds
  <2> QED BY <1>5, <1>6, <2>1
<1>8. /\ s1 \in Context /\ s1.refills = q1
      /\ s1.period = s.period /\ s1.max = s.max /\ s1.sporadic = s.sporadic /\ s1.budget = s.budget
  <2> DEFINE c == [s EXCEPT !.refills = q1]
  <2>1. /\ c \in Context /\ c.refills = q1
        /\ c.period = s.period /\ c.max = s.max /\ c.sporadic = s.sporadic /\ c.budget = s.budget
    BY <1>1, <1>6, ContextWith, SMTT(30)
  <2> HIDE DEF c
  <2>2. s1 = c
    BY <1>4 DEF c
  <2> QED BY <2>1, <2>2
<1>9. ContextInv(s1)
  BY <1>1, <1>6, <1>7, <1>8 DEF ContextInv, isRoundRobin, refill_sum
<1>10. ASSUME NEW i \in 1 .. 2 PROVE q1[i].rTime = q[i].rTime
  <2>1. i = 1 \/ i = 2
    BY SMTT(30)
  <2> QED BY <1>5, <1>6, <2>1
<1> QED BY <1>1, <1>5, <1>6, <1>8, <1>9, <1>10

\* All refills of a round robin context can be used at t
AllReady(s, t) == s.period = 0 => \A i \in 1 .. Len(s.refills) : s.refills[i].rTime <= t

\* A round robin context has a second refill
LEMMA SecondRefill ==
  ASSUME NEW s, ContextInv(s), s.period = 0
  PROVE  Len(s.refills) = 2 /\ s.refills[2].rAmount \in Nat /\ s.refills \in Seq(Refill)
<1>1. 2 \in 1 .. 2
  BY SMTT(30)
<1>2. Len(s.refills) = 2 /\ s.refills \in Seq(Refill)
  BY InvFacts
<1> QED BY <1>1, <1>2, Elements

\* commitTime, when the head can pay and keeps enough for another kernel entry
LEMMA CommitTime ==
  ASSUME NEW s, ContextInv(s), NEW usage \in Nat, NEW t \in Nat, t < MAX_RELEASE_TIME,
         s.refills[1].rAmount >= usage + MIN_BUDGET, s.refills[1].rTime + usage <= t, AllReady(s, t)
  PROVE  LET s1 == commitTime(s, usage)
         IN /\ ContextInv(s1) /\ s1.period = s.period /\ s1.sporadic = s.sporadic
            /\ s1.refills[1].rAmount >= MIN_BUDGET
            /\ s1.refills[1].rTime <= t
            /\ AllReady(s1, t)
<1>1. /\ s \in Context /\ Len(s.refills) \in 1 .. s.max /\ s.max >= 2 /\ s.period \in Nat
      /\ s.refills[1].rTime \in Nat /\ s.refills[1].rAmount \in Nat
      /\ MIN_BUDGET \in Nat /\ MIN_BUDGET > 0 /\ MAX_RELEASE_TIME \in Nat /\ Max(Periods) \in Nat
      /\ refill_sum(s) = s.budget /\ s.budget >= MIN_BUDGET /\ s.budget \in Nat
  BY InvFacts
<1>2. s.refills[1].rAmount >= MIN_BUDGET /\ s.refills[1].rTime <= t
  <2>1. \A h, m, u \in Nat : h >= u + m => h >= m
    BY SMTT(30)
  <2>2. \A h, x, u \in Nat : h + u <= x => h <= x
    BY SMTT(30)
  <2> QED BY <1>1, <2>1, <2>2
<1>3. CASE usage = 0
  BY <1>2, <1>3 DEF commitTime
<1>4. CASE usage # 0 /\ s.period = 0
  <2> DEFINE h == s.refills[1].rAmount
             k == s.refills[2].rAmount
             a == h - usage
             b == k + usage
             s1 == WithAmounts(s, a, b)
  <2>1. Len(s.refills) = 2 /\ s.refills[2].rAmount \in Nat /\ s.refills \in Seq(Refill)
    BY <1>4, SecondRefill
  <2>2. commitTime(s, usage) = s1
    <3>1. commitTime(s, usage) = [s EXCEPT !.refills[1].rAmount = @ - usage, !.refills[2].rAmount = @ + usage]
      BY <1>4 DEF commitTime, isRoundRobin
    <3>2. [s EXCEPT !.refills[1].rAmount = a].refills[2] = s.refills[2]
      BY <1>1, <2>1, SMTT(30) DEF Context
    <3> QED BY <3>1, <3>2 DEF WithAmounts
  <2>3. a \in Nat /\ b \in Nat /\ a + b = s.refills[1].rAmount + s.refills[2].rAmount /\ a >= MIN_BUDGET
    <3>1. h \in Nat /\ k \in Nat /\ MIN_BUDGET \in Nat /\ h >= usage + MIN_BUDGET
      BY <1>1, <2>1
    <3> HIDE DEF h, k
    <3>2. a \in Nat /\ b \in Nat /\ a + b = h + k /\ a >= MIN_BUDGET
      BY <3>1, SMTT(30)
    <3> QED BY <3>2 DEF h, k
  <2> HIDE DEF a, b
  <2>4. /\ ContextInv(s1) /\ s1.period = s.period /\ s1.sporadic = s.sporadic
        /\ s1.refills[1].rAmount = a /\ Len(s1.refills) = Len(s.refills)
        /\ \A i \in 1 .. Len(s.refills) : s1.refills[i].rTime = s.refills[i].rTime
    <3>1. s1 = WithAmounts(s, a, b)
      OBVIOUS
    <3> HIDE DEF s1
    <3> QED BY <1>4, <2>3, <3>1, RoundRobin, SMTT(60)
  <2> HIDE DEF s1
  <2>5. 1 \in 1 .. Len(s.refills)
    BY <2>1, SMTT(30)
  <2>6. AllReady(s1, t) /\ s1.refills[1].rTime <= t
    BY <1>2, <1>4, <2>4, <2>5 DEF AllReady
  <2> QED BY <2>2, <2>3, <2>4, <2>6
<1>5. CASE usage # 0 /\ s.period # 0
  <2> DEFINE s1 == refill_budget_check(s, usage)
             X == s.refills[1].rTime + s.period
  <2>1. commitTime(s, usage) = s1
    BY <1>5 DEF commitTime, isRoundRobin
  <2>2. /\ X \in Int /\ s.refills[1].rTime + s.period <= X /\ usage <= s.refills[1].rAmount
        /\ Queue(s.refills, s.period) /\ refill_sum(s) <= s.period /\ refill_sum(s) >= MIN_BUDGET
    <3>1. Queue(s.refills, s.period) /\ s.budget <= s.period
      BY <1>5, InvFacts
    <3>2. \A h, k \in Nat : h + k \in Int /\ h + k <= h + k
      BY SMTT(30)
    <3>3. \A h, m, u \in Nat : h >= u + m => u <= h
      BY SMTT(30)
    <3> QED BY <1>1, <3>1, <3>2, <3>3
  <2> HIDE DEF X
  <2>3. /\ Keeps(s, s1, X) /\ refill_sum(s1) = refill_sum(s)
        /\ s1.refills[1].rAmount >= MIN_BUDGET
        /\ s1.refills[1].rTime <= s.refills[1].rTime + usage
    BY <1>1, <2>2, BudgetCheck
  <2> HIDE DEF s1
  <2>4. ContextInv(s1) /\ s1.period = s.period /\ s1.sporadic = s.sporadic
    BY <1>5, <2>3, KeptContext
  <2>5. s1.refills[1].rTime <= t
    <3>1. s1.refills[1].rTime \in Nat
      BY <2>4, InvFacts
    <3>2. \A h, k, x, u \in Nat : k <= h + u /\ h + u <= x => k <= x
      BY SMTT(30)
    <3> QED BY <1>1, <2>3, <3>1, <3>2
  <2> QED BY <1>5, <2>1, <2>3, <2>4, <2>5 DEF AllReady
<1> QED BY <1>3, <1>4, <1>5, SMTT(30)

\* chargeBudget, whatever was used
LEMMA ChargeBudget ==
  ASSUME NEW s, ContextInv(s), NEW usage \in Nat, NEW t \in Nat, t < MAX_RELEASE_TIME,
         s.refills[1].rAmount >= MIN_BUDGET, s.refills[1].rTime <= t, AllReady(s, t)
  PROVE  LET s1 == chargeBudget(s, usage)
         IN /\ ContextInv(s1) /\ s1.period = s.period /\ s1.sporadic = s.sporadic
            /\ s1.refills[1].rAmount >= MIN_BUDGET
            /\ s1.refills[1].rTime < MAX_RELEASE_TIME + Max(Periods)
            /\ usage <= s.refills[1].rAmount => s1.refills[1].rTime <= t + Max(Periods)
            /\ AllReady(s1, t)
<1>1. /\ s \in Context /\ Len(s.refills) \in 1 .. s.max /\ s.max >= 2 /\ s.period \in Nat
      /\ s.refills[1].rTime \in Nat /\ s.refills[1].rAmount \in Nat
      /\ MIN_BUDGET \in Nat /\ MIN_BUDGET > 0 /\ MAX_RELEASE_TIME \in Nat /\ Max(Periods) \in Nat
      /\ s.period <= Max(Periods)
      /\ refill_sum(s) = s.budget /\ s.budget >= MIN_BUDGET /\ s.budget \in Nat
  BY InvFacts
<1>2. CASE s.period = 0
  <2> DEFINE a == s.refills[1].rAmount + s.refills[2].rAmount
             s1 == WithAmounts(s, a, 0)
  <2>1. Len(s.refills) = 2 /\ s.refills[2].rAmount \in Nat /\ s.refills \in Seq(Refill)
    BY <1>2, SecondRefill
  <2>2. chargeBudget(s, usage) = s1
    <3>1. chargeBudget(s, usage) = [s EXCEPT !.refills[1].rAmount = @ + s.refills[2].rAmount,
                                             !.refills[2].rAmount = 0]
      BY <1>2 DEF chargeBudget, isRoundRobin
    <3> QED BY <3>1 DEF WithAmounts
  <2>3. a \in Nat /\ 0 \in Nat /\ a + 0 = s.refills[1].rAmount + s.refills[2].rAmount /\ a >= MIN_BUDGET
    <3>1. \A h, k, m \in Nat : h >= m => h + k \in Nat /\ (h + k) + 0 = h + k /\ h + k >= m
      BY SMTT(30)
    <3>2. 0 \in Nat
      BY SMTT(30)
    <3> QED BY <1>1, <2>1, <3>1, <3>2
  <2> HIDE DEF a
  <2>4. /\ ContextInv(s1) /\ s1.period = s.period /\ s1.sporadic = s.sporadic
        /\ s1.refills[1].rAmount = a /\ Len(s1.refills) = Len(s.refills)
        /\ \A i \in 1 .. Len(s.refills) : s1.refills[i].rTime = s.refills[i].rTime
    BY <1>2, <2>3, RoundRobin, SMTT(30)
  <2> HIDE DEF s1
  <2>5. 1 \in 1 .. Len(s.refills)
    BY <2>1, SMTT(30)
  <2>6. AllReady(s1, t) /\ s1.refills[1].rTime = s.refills[1].rTime
    BY <1>2, <2>4, <2>5 DEF AllReady
  <2>7. s1.refills[1].rTime < MAX_RELEASE_TIME + Max(Periods) /\ s1.refills[1].rTime <= t + Max(Periods)
    <3>1. \A h, x, m, k \in Nat : h <= x /\ x < m => h < m + k /\ h <= x + k
      BY SMTT(30)
    <3> QED BY <1>1, <2>6, <3>1
  <2> QED BY <2>2, <2>3, <2>4, <2>6, <2>7
<1>3. CASE s.period # 0
  <2> DEFINE s1 == refill_budget_check(s, usage)
             Y == MAX_RELEASE_TIME + s.period - 1
             X == s.refills[1].rTime + s.period
  <2>1. chargeBudget(s, usage) = s1
    BY <1>3 DEF chargeBudget, isRoundRobin
  <2>2. Queue(s.refills, s.period) /\ refill_sum(s) <= s.period /\ refill_sum(s) >= MIN_BUDGET
    BY <1>1, <1>3, InvFacts
  <2>3. /\ Y \in Int /\ s.refills[1].rTime + s.period <= Y /\ Y >= MAX_RELEASE_TIME + s.period - 1
        /\ X \in Int /\ s.refills[1].rTime + s.period <= X
        /\ Y < MAX_RELEASE_TIME + Max(Periods) /\ X <= t + Max(Periods)
    <3>1. \A h, x, m, k, l \in Nat :
            h <= x /\ x < m /\ k <= l =>
              /\ m + k - 1 \in Int /\ h + k <= m + k - 1 /\ m + k - 1 >= m + k - 1
              /\ h + k \in Int /\ h + k <= h + k /\ m + k - 1 < m + l /\ h + k <= x + l
      BY SMTT(30)
    <3> QED BY <1>1, <3>1
  <2> HIDE DEF X, Y
  <2>4. /\ Keeps(s, s1, Y) /\ refill_sum(s1) = refill_sum(s)
        /\ s1.refills[1].rAmount >= MIN_BUDGET
    BY <1>1, <2>2, <2>3, BudgetCheck
  <2>5. usage <= s.refills[1].rAmount => Keeps(s, s1, X)
    BY <1>1, <2>2, <2>3, BudgetCheck
  <2> HIDE DEF s1
  <2>6. ContextInv(s1) /\ s1.period = s.period /\ s1.sporadic = s.sporadic
    BY <1>3, <2>4, KeptContext
  <2>7. s1.refills[1].rTime \in Nat /\ 1 \in 1 .. Len(s1.refills)
    BY <2>6, InvFacts, LooseHead
  <2>8. s1.refills[1].rTime < MAX_RELEASE_TIME + Max(Periods)
    <3>1. s1.refills[1].rTime <= Y
      BY <2>4, <2>7 DEF Keeps
    <3>2. \A h, m, k \in Nat, y \in Int : h <= y /\ y < m + k => h < m + k
      BY SMTT(30)
    <3> QED BY <1>1, <2>3, <2>7, <3>1, <3>2
  <2>9. ASSUME usage <= s.refills[1].rAmount PROVE s1.refills[1].rTime <= t + Max(Periods)
    <3>1. s1.refills[1].rTime <= X
      BY <2>5, <2>7, <2>9 DEF Keeps
    <3>2. \A h, m, k \in Nat, y \in Int : h <= y /\ y <= m + k => h <= m + k
      BY SMTT(30)
    <3> QED BY <1>1, <2>3, <2>7, <3>1, <3>2
  <2> QED BY <1>3, <2>1, <2>4, <2>6, <2>8, <2>9 DEF AllReady
<1> QED BY <1>2, <1>3, SMTT(30)

\* refill_unblock_check: nothing for round robin, nor when the head is not ready
LEMMA Unblocked ==
  ASSUME NEW s, ContextInv(s), NEW t \in Nat
  PROVE  LET s1 == refill_unblock_check(s, t)
         IN \/ s1 = s
            \/ /\ ContextInv(s1) /\ s1.period = s.period /\ s1.sporadic = s.sporadic /\ s.period # 0
               /\ s1.refills[1].rAmount >= s.refills[1].rAmount
               /\ s1.refills[1].rTime = t
<1>1. CASE s.period = 0 \/ ~(s.refills[1].rTime <= t)
  BY <1>1 DEF refill_unblock_check, isRoundRobin, refill_ready, refill_head
<1>2. CASE s.period # 0 /\ s.refills[1].rTime <= t
  <2> DEFINE s1 == refill_unblock_check(s, t)
  <2>1. s \in Context /\ Len(s.refills) \in 1 .. s.max /\ Queue(s.refills, s.period)
    BY <1>2, InvFacts
  <2>2. /\ Keeps(s, s1, t + s.period) /\ refill_sum(s1) = refill_sum(s)
        /\ s1.refills[1].rTime = t
        /\ s1.refills[1].rAmount >= s.refills[1].rAmount
    BY <1>2, <2>1, UnblockCheck
  <2> HIDE DEF s1
  <2>3. ContextInv(s1) /\ s1.period = s.period /\ s1.sporadic = s.sporadic
    BY <1>2, <2>2, KeptContext
  <2> QED BY <1>2, <2>2, <2>3 DEF s1
<1> QED BY <1>1, <1>2, SMTT(30)

\* A context of one refill
LEMMA OneRefill ==
  ASSUME NEW m \in Nat, NEW b \in Nat, NEW p \in Nat, NEW f \in BOOLEAN, NEW t \in Nat,
         m >= 2, b >= MIN_BUDGET, b <= p, p <= Max(Periods)
  PROVE  ContextInv([refills |-> <<[rTime |-> t, rAmount |-> b]>>, period |-> p,
                     max |-> m, sporadic |-> f, budget |-> b])
<1> DEFINE r == [rTime |-> t, rAmount |-> b]
           q == <<r>>
           s == [refills |-> q, period |-> p, max |-> m, sporadic |-> f, budget |-> b]
<1>1. MIN_BUDGET \in Nat /\ MIN_BUDGET > 0 /\ Max(Periods) \in Nat
  BY ConstantFacts
<1>2. r \in Refill /\ r.rTime = t /\ r.rAmount = b
  BY SMTT(30) DEF Refill
<1> HIDE DEF r
<1>3. q \in Seq(Refill) /\ Len(q) = 1 /\ q[1] = r
  BY <1>2, SMTT(30)
<1> HIDE DEF q
<1>4. sumOf(q) = b
  BY <1>2, <1>3, SumBounds, SMTT(30)
<1>5. /\ s \in Context /\ s.refills = q /\ s.period = p /\ s.max = m /\ s.budget = b
  BY <1>3, SMTT(30) DEF Context
<1> HIDE DEF s
<1>6. QueueInv(s)
  <2>1. b > 0 /\ t <= t + p
    BY <1>1, SMTT(30)
  <2>2. \A i \in 1 .. 1 : i = 1
    BY SMTT(30)
  <2>3. 1 .. 1 - 1 = {}
    BY SMTT(30)
  <2> QED BY <1>2, <1>3, <1>5, <2>1, <2>2, <2>3 DEF QueueInv, refill_head
<1>7. b <= Max(Periods) /\ Len(q) \in 1 .. m /\ p # 0
  BY <1>1, <1>3, SMTT(30)
<1>8. ContextInv(s)
  BY <1>3, <1>4, <1>5, <1>6, <1>7 DEF ContextInv, isRoundRobin, refill_sum, MIN_REFILLS
<1> QED BY <1>8, SMTT(30) DEF s, q, r

\* A context of two refills, the second a period after the first
LEMMA TwoRefills ==
  ASSUME NEW m \in Nat, NEW b \in Nat, NEW p \in Nat, NEW f \in BOOLEAN, NEW t \in Nat, NEW a \in Nat,
         m >= 2, b >= MIN_BUDGET, b <= p, p <= Max(Periods), a > 0, a < b
  PROVE  ContextInv([refills |-> <<[rTime |-> t, rAmount |-> a], [rTime |-> t + p, rAmount |-> b - a]>>,
                     period |-> p, max |-> m, sporadic |-> f, budget |-> b])
<1> DEFINE r == [rTime |-> t, rAmount |-> a]
           r2 == [rTime |-> t + p, rAmount |-> b - a]
           q == <<r, r2>>
           s == [refills |-> q, period |-> p, max |-> m, sporadic |-> f, budget |-> b]
<1>1. MIN_BUDGET \in Nat /\ MIN_BUDGET > 0 /\ Max(Periods) \in Nat
  BY ConstantFacts
<1>2. /\ r \in Refill /\ r.rTime = t /\ r.rAmount = a
      /\ r2 \in Refill /\ r2.rTime = t + p /\ r2.rAmount = b - a
  BY SMTT(30) DEF Refill
<1> HIDE DEF r, r2
<1>3. q \in Seq(Refill) /\ Len(q) = 2 /\ q[1] = r /\ q[2] = r2
  BY <1>2, SMTT(30)
<1> HIDE DEF q
<1>4. sumOf(q) = b
  BY <1>2, <1>3, SumBounds, SMTT(30)
<1>5. /\ s \in Context /\ s.refills = q /\ s.period = p /\ s.max = m /\ s.budget = b
  BY <1>3, SMTT(30) DEF Context
<1> HIDE DEF s
<1>6. QueueInv(s)
  <2>1. \A i \in 1 .. 2 : q[i].rAmount > 0 /\ q[i].rTime <= q[1].rTime + p
    BY <1>2, <1>3, SMTT(30)
  <2>2. \A i \in 1 .. 1 : q[i].rTime + q[i].rAmount <= q[i + 1].rTime
    BY <1>2, <1>3, SMTT(30)
  <2>3. 2 - 1 = 1
    BY SMTT(30)
  <2> QED BY <1>3, <1>5, <2>1, <2>2, <2>3 DEF QueueInv, refill_head
<1>7. b <= Max(Periods) /\ Len(q) \in 1 .. m /\ p # 0
  BY <1>1, <1>3, SMTT(30)
<1>8. ContextInv(s)
  BY <1>3, <1>4, <1>5, <1>6, <1>7 DEF ContextInv, isRoundRobin, refill_sum, MIN_REFILLS
<1> QED BY <1>8, SMTT(30) DEF s, q, r, r2

\* What ConfigureFlags has checked of the parameters of a context
Parameters(m, b, p, f) ==
  /\ m \in Nat /\ b \in Nat /\ p \in Nat /\ f \in BOOLEAN
  /\ m >= 2 /\ b >= MIN_BUDGET /\ b <= Max(Periods) /\ p <= Max(Periods)
  /\ p = 0 \/ b <= p

\* A context that has the whole of its budget at t
Fresh(s, b, t) ==
  ContextInv(s) /\ s.refills[1].rAmount = b /\ s.refills[1].rTime = t /\ AllReady(s, t)

\* A new context has its budget now
LEMMA RefillNew ==
  ASSUME NEW m, NEW b, NEW p, NEW f, NEW t, t \in Nat, Parameters(m, b, p, f)
  PROVE  Fresh(refill_new(m, b, p, f, t), b, t)
<1> DEFINE r == [rTime |-> t, rAmount |-> b]
           s0 == [refills |-> <<r>>, period |-> p, max |-> m, sporadic |-> f, budget |-> b]
<1>0. /\ m \in Nat /\ b \in Nat /\ p \in Nat /\ f \in BOOLEAN
      /\ m >= 2 /\ b >= MIN_BUDGET /\ b <= Max(Periods) /\ p <= Max(Periods)
      /\ p = 0 \/ b <= p
  BY DEF Parameters
<1>1. refill_new(m, b, p, f, t) = maybe_add_empty_tail(s0)
  BY DEF refill_new
<1>2. s0.period = p /\ s0.refills[1] = r /\ r.rTime = t /\ r.rAmount = b
  BY SMTT(30)
<1>3. CASE p # 0
  <2>1. maybe_add_empty_tail(s0) = s0
    BY <1>2, <1>3, SMTT(30) DEF maybe_add_empty_tail, isRoundRobin
  <2>2. ContextInv(s0)
    BY <1>0, <1>3, OneRefill
  <2> QED BY <1>1, <1>2, <1>3, <2>1, <2>2 DEF AllReady, Fresh
<1>4. CASE p = 0
  <2> DEFINE r2 == [rTime |-> t, rAmount |-> 0]
             q == Append(<<r>>, r2)
             s == [refills |-> q, period |-> p, max |-> m, sporadic |-> f, budget |-> b]
  <2>1. maybe_add_empty_tail(s0) = s
    BY <1>2, <1>4, SMTT(30) DEF maybe_add_empty_tail, isRoundRobin, refill_head
  <2>2. r \in Refill /\ r2 \in Refill /\ r2.rTime = t /\ r2.rAmount = 0
    BY <1>0, SMTT(30) DEF Refill
  <2> HIDE DEF r, r2
  <2>3. q \in Seq(Refill) /\ Len(q) = 2 /\ q[1] = r /\ q[2] = r2
    BY <2>2, SMTT(30)
  <2> HIDE DEF q
  <2>4. sumOf(q) = b
    BY <1>0, <1>2, <2>2, <2>3, SumBounds, SMTT(30)
  <2>5. /\ s \in Context /\ s.refills = q /\ s.period = p /\ s.max = m /\ s.budget = b
    BY <1>0, <2>3, SMTT(30) DEF Context
  <2> HIDE DEF s
  <2>6. ContextInv(s)
    <3>1. Len(q) \in 1 .. m
      BY <1>0, <2>3, SMTT(30)
    <3> QED BY <1>0, <1>4, <2>3, <2>4, <2>5, <3>1 DEF ContextInv, isRoundRobin,
               refill_sum, MIN_REFILLS
  <2>7. AllReady(s, t)
    <3> SUFFICES ASSUME NEW i \in 1 .. 2 PROVE q[i].rTime <= t
      BY <2>3, <2>5 DEF AllReady
    <3>1. i = 1 \/ i = 2
      BY SMTT(30)
    <3>2. q[i].rTime = t
      BY <1>2, <2>2, <2>3, <3>1
    <3> QED BY <3>2, SMTT(30)
  <2> QED BY <1>1, <1>2, <2>1, <2>3, <2>5, <2>6, <2>7 DEF Fresh
<1> QED BY <1>3, <1>4, SMTT(30)

\* A context with the head of s, which begins at t at the earliest
Updated(s1, s, t) ==
  /\ ContextInv(s1) /\ s1.period # 0
  /\ s1.refills[1].rAmount >= MIN_BUDGET
  /\ s1.refills[1].rTime = IF s.refills[1].rTime <= t THEN t ELSE s.refills[1].rTime

\* New parameters keep what the head has, up to the new budget
LEMMA RefillUpdate ==
  ASSUME NEW s, ContextInv(s), s.refills[1].rAmount >= MIN_BUDGET,
         NEW m, NEW b, NEW p, NEW f, NEW t, t \in Nat, Parameters(m, b, p, f), b < p
  PROVE  Updated(refill_update(s, m, b, p, f, t), s, t)
<1> DEFINE h == s.refills[1]
           x == IF h.rTime <= t THEN t ELSE h.rTime
           head == [rTime |-> x, rAmount |-> h.rAmount]
           one(q) == [refills |-> q, period |-> p, max |-> m, sporadic |-> f, budget |-> b]
<1>0. /\ m \in Nat /\ b \in Nat /\ p \in Nat /\ f \in BOOLEAN
      /\ m >= 2 /\ b >= MIN_BUDGET /\ p <= Max(Periods) /\ b <= p /\ p # 0
  <2>1. /\ m \in Nat /\ b \in Nat /\ p \in Nat /\ f \in BOOLEAN
        /\ m >= 2 /\ b >= MIN_BUDGET /\ p <= Max(Periods)
    BY DEF Parameters
  <2>2. b <= p /\ p # 0
    BY <2>1, SMTT(30)
  <2> QED BY <2>1, <2>2, SMTT(30)
<1>1. /\ h \in Refill /\ h.rTime \in Nat /\ h.rAmount \in Nat /\ MIN_BUDGET \in Nat /\ MIN_BUDGET > 0
      /\ Max(Periods) \in Nat
  BY InvFacts
<1>2. x \in Nat
  BY <1>1, SMTT(30)
<1>3. [h EXCEPT !.rTime = IF @ <= t THEN t ELSE @] = head
  BY <1>1, SMTT(30) DEF Refill
<1> HIDE DEF x
<1>4. CASE h.rAmount >= b
  <2> DEFINE q == <<[rTime |-> x, rAmount |-> b]>>
  <2>1. refill_update(s, m, b, p, f, t)
          = maybe_add_empty_tail(setHead(one(<<head>>), [head EXCEPT !.rAmount = b]))
    BY <1>3, <1>4 DEF refill_update, refill_head
  <2>2. setHead(one(<<head>>), [head EXCEPT !.rAmount = b]) = one(q)
    BY SMTT(30) DEF setHead
  <2>3. maybe_add_empty_tail(one(q)) = one(q)
    BY <1>0, SMTT(30) DEF maybe_add_empty_tail, isRoundRobin
  <2>4. ContextInv(one(q))
    BY <1>0, <1>1, <1>2, OneRefill, SMTT(30)
  <2>5. one(q).period = p /\ one(q).refills[1].rAmount = b /\ one(q).refills[1].rTime = x
    BY SMTT(30)
  <2>6. refill_update(s, m, b, p, f, t) = one(q)
    BY <2>1, <2>2, <2>3
  <2> HIDE DEF q, one
  <2> QED BY <1>0, <2>4, <2>5, <2>6 DEF x, Updated
<1>5. CASE ~(h.rAmount >= b)
  <2> DEFINE q == <<head, [rTime |-> x + p, rAmount |-> b - h.rAmount]>>
  <2>1. refill_update(s, m, b, p, f, t) = one(q)
    BY <1>3, <1>5, SMTT(30) DEF refill_update, refill_head
  <2>2. ContextInv(one(q))
    <3>1. h.rAmount > 0 /\ h.rAmount < b /\ b <= p
      <4>1. \A k, x0, m0 \in Nat : k >= m0 /\ m0 > 0 => k > 0
        BY SMTT(30)
      <4>2. \A k, x0 \in Nat : ~(k >= x0) => k < x0
        BY SMTT(30)
      <4>3. \A k, x0 \in Nat : k < x0 => k <= x0
        BY SMTT(30)
      <4> QED BY <1>0, <1>1, <1>5, <4>1, <4>2, <4>3
    <3> HIDE DEF h
    <3> QED BY <1>0, <1>1, <1>2, <3>1, TwoRefills
  <2>3. one(q).period = p /\ one(q).refills[1].rAmount = h.rAmount /\ one(q).refills[1].rTime = x
    BY SMTT(30)
  <2> HIDE DEF q, one
  <2> QED BY <1>0, <2>1, <2>2, <2>3 DEF x, Updated
<1> QED BY <1>4, <1>5, SMTT(30)

-----------------------------------------------------------------------------
(* The invariant *)

\* SporadicInv of a state given by its parts
Holds(s, ph, t, c, l) ==
  /\ t \in Nat /\ c \in Nat /\ l \in Nat /\ t < MAX_RELEASE_TIME
  /\ ph \in {"running", "ready", "waiting", "blocked"}
  /\ ContextInv(s)
  /\ s.refills[1].rAmount >= MIN_BUDGET
  /\ ph \in {"running", "ready"} => s.refills[1].rTime <= t
  /\ ph = "running" => s.refills[1].rAmount >= c + MIN_BUDGET
  /\ IF ph = "running" THEN s.refills[1].rTime + c <= t ELSE c = 0
  /\ AllReady(s, t)
  /\ s.refills[1].rTime < MAX_RELEASE_TIME + Max(Periods)
  /\ l = 0 => s.refills[1].rTime <= t + Max(Periods)

\* The two say the same
LEMMA HoldsIsInv == SporadicInv <=> Holds(sc, phase, now, consumed, late)
<1>1. ContextInv(sc) => sc.refills[1].rAmount \in Nat /\ MIN_BUDGET \in Nat
  BY InvFacts
<1>2. ContextInv(sc) => (sc.refills[1].rAmount >= 0 + MIN_BUDGET <=> sc.refills[1].rAmount >= MIN_BUDGET)
  BY <1>1, SMTT(30)
<1> QED BY <1>2, SMTT(30) DEF SporadicInv, Holds, HeadUsable, refill_sufficient, refill_ready, refill_head,
                    AllReady, isRoundRobin

\* The same for the next state
LEMMA HoldsIsInvNext == SporadicInv' <=> Holds(sc', phase', now', consumed', late')
<1>1. ContextInv(sc') => sc'.refills[1].rAmount \in Nat /\ MIN_BUDGET \in Nat
  BY InvFacts
<1>2. ContextInv(sc') => (sc'.refills[1].rAmount >= 0 + MIN_BUDGET <=> sc'.refills[1].rAmount >= MIN_BUDGET)
  BY <1>1, SMTT(30)
<1> QED BY <1>2, SMTT(30) DEF SporadicInv, Holds, HeadUsable, refill_sufficient, refill_ready, refill_head,
                    AllReady, isRoundRobin

\* A thread that does not run, or runs with nothing consumed yet
LEMMA HoldsWith ==
  ASSUME NEW s, NEW ph \in {"running", "ready", "waiting", "blocked"}, NEW t \in Nat, NEW l \in Nat,
         t < MAX_RELEASE_TIME, ContextInv(s), s.refills[1].rAmount >= MIN_BUDGET,
         ph \in {"running", "ready"} => s.refills[1].rTime <= t,
         AllReady(s, t), s.refills[1].rTime < MAX_RELEASE_TIME + Max(Periods),
         l = 0 => s.refills[1].rTime <= t + Max(Periods)
  PROVE  Holds(s, ph, t, 0, l)
<1>1. s.refills[1].rAmount \in Nat /\ s.refills[1].rTime \in Nat /\ MIN_BUDGET \in Nat
  BY InvFacts
<1> QED BY <1>1, SMTT(30) DEF Holds

\* What holds at the entry of a thread that has run for d ticks more: Elapse
LEMMA Elapsed ==
  ASSUME SporadicInv, NEW d \in Steps, Elapse(d)
  PROVE  /\ now' \in Nat /\ now' < MAX_RELEASE_TIME /\ late' = late /\ late \in Nat
         /\ consumed + d \in Nat /\ ContextInv(sc) /\ AllReady(sc, now')
         /\ sc.refills[1].rAmount >= MIN_BUDGET
         /\ sc.refills[1].rTime + (consumed + d) <= now' /\ sc.refills[1].rTime <= now'
         /\ late = 0 => consumed + d <= sc.refills[1].rAmount
         /\ phase = "running"
<1>1. Holds(sc, phase, now, consumed, late) /\ d \in Nat
  BY HoldsIsInv, SporadicConstants, SMTT(30)
<1>2. phase = "running" /\ now' = now + d /\ now + d < MAX_RELEASE_TIME /\ late' = late
  BY SMTT(30) DEF Elapse
<1>3. /\ now \in Nat /\ consumed \in Nat /\ late \in Nat /\ ContextInv(sc)
      /\ sc.refills[1].rAmount >= MIN_BUDGET /\ sc.refills[1].rTime + consumed <= now /\ AllReady(sc, now)
  BY <1>1, <1>2, SMTT(30) DEF Holds
<1>4. sc.refills[1].rTime \in Nat /\ sc.refills[1].rAmount \in Nat /\ sc \in Context
  BY <1>3, InvFacts
<1>5. consumed + d <= sc.refills[1].rAmount + late
  BY SMTT(30) DEF Elapse, refill_head
<1>6. AllReady(sc, now')
  <2> SUFFICES ASSUME sc.period = 0, NEW i \in 1 .. Len(sc.refills) PROVE sc.refills[i].rTime <= now'
    BY DEF AllReady
  <2>1. sc.refills[i].rTime \in Nat /\ sc.refills[i].rTime <= now
    BY <1>3, <1>4, ContextFacts DEF AllReady
  <2> QED BY <1>1, <1>2, <1>3, <2>1, SMTT(30)
<1> QED BY <1>1, <1>2, <1>3, <1>4, <1>5, <1>6, SMTT(30)

\* What is left of the budget pays for another kernel entry: refill_sufficient
LEMMA Sufficient ==
  ASSUME NEW u, refill_sufficient(sc, u)
  PROVE  sc.refills[1].rAmount >= u + MIN_BUDGET
  BY SMTT(30) DEF refill_sufficient, refill_head

\* A context starts with its whole budget, at time 0
LEMMA InvInit == Init => SporadicInv
<1> SUFFICES ASSUME Init PROVE Holds(sc, phase, now, consumed, late)
  BY HoldsIsInv
<1>1. PICK b \in Budgets, p \in Periods, m \in MaxRefills, f \in Flags :
         MIN_BUDGET <= b /\ b < p /\ sc = refill_new(m, b, p, f, 0)
  BY SMTT(30) DEF Init
<1>2. /\ b \in Nat /\ p \in Nat /\ m \in Nat /\ f \in BOOLEAN /\ 0 \in Nat /\ m >= 2
      /\ b >= MIN_BUDGET /\ b <= Max(Periods) /\ p <= Max(Periods) /\ b <= p
      /\ MAX_RELEASE_TIME \in Nat /\ 0 < MAX_RELEASE_TIME /\ Max(Periods) \in Nat
  <2>1. b \in Nat /\ p \in Nat /\ m \in Nat /\ f \in BOOLEAN /\ m >= 2
    BY SporadicConstants DEF MIN_REFILLS
  <2>2. p <= Max(Periods)
    BY ConstantFacts
  <2>3. /\ MAX_RELEASE_TIME \in Nat /\ MAX_RELEASE_TIME > 0 /\ MIN_BUDGET \in Nat /\ Max(Periods) \in Nat
    BY ConstantFacts
  <2> QED BY <1>1, <2>1, <2>2, <2>3, SMTT(30)
<1>3. /\ ContextInv(sc) /\ sc.refills[1].rAmount = b /\ sc.refills[1].rTime = 0 /\ AllReady(sc, 0)
  <2>1. Parameters(m, b, p, f)
    BY <1>2 DEF Parameters
  <2>2. Fresh(sc, b, 0)
    BY <1>1, <1>2, <2>1, RefillNew
  <2> QED BY <2>2 DEF Fresh
<1>4. phase = "ready" /\ now = 0 /\ consumed = 0 /\ late \in Nat
  BY SporadicConstants, SMTT(30) DEF Init
<1>5. /\ 0 <= 0 /\ 0 < MAX_RELEASE_TIME + Max(Periods) /\ 0 <= 0 + Max(Periods)
  BY <1>2, SMTT(30)
<1> QED BY <1>2, <1>3, <1>4, <1>5, HoldsWith, SMTT(30)

\* An entry that leaves the thread running only adds to what it has consumed: checkBudget
LEMMA InvContinue == SporadicInv /\ Continue => SporadicInv'
<1> SUFFICES ASSUME SporadicInv, Continue PROVE Holds(sc', phase', now', consumed', late')
  BY HoldsIsInvNext
<1>1. PICK d \in Steps : /\ Elapse(d) /\ refill_sufficient(sc, consumed + d)
                         /\ consumed' = consumed + d /\ UNCHANGED <<sc, phase>>
  BY SMTT(30) DEF Continue
<1>2. /\ now' \in Nat /\ now' < MAX_RELEASE_TIME /\ late' = late /\ late \in Nat
      /\ consumed + d \in Nat /\ ContextInv(sc) /\ AllReady(sc, now')
      /\ sc.refills[1].rAmount >= MIN_BUDGET
      /\ sc.refills[1].rTime + (consumed + d) <= now' /\ sc.refills[1].rTime <= now'
      /\ phase = "running"
  BY <1>1, Elapsed
<1>3. sc.refills[1].rAmount >= (consumed + d) + MIN_BUDGET
  BY <1>1, Sufficient
<1>4. sc.refills[1].rTime \in Nat /\ MAX_RELEASE_TIME \in Nat /\ Max(Periods) \in Nat
  BY <1>2, InvFacts
<1>5. sc.refills[1].rTime < MAX_RELEASE_TIME + Max(Periods) /\ sc.refills[1].rTime <= now' + Max(Periods)
  BY <1>2, <1>4, SMTT(30)
<1> QED BY <1>1, <1>2, <1>3, <1>5 DEF Holds

\* An entry that reprograms the timer charges what was consumed: commitTime
LEMMA InvCommit == SporadicInv /\ Commit => SporadicInv'
<1> SUFFICES ASSUME SporadicInv, Commit PROVE Holds(sc', phase', now', consumed', late')
  BY HoldsIsInvNext
<1>1. PICK d \in Steps : /\ Elapse(d) /\ refill_sufficient(sc, consumed + d)
                         /\ sc' = commitTime(sc, consumed + d) /\ consumed' = 0
                         /\ phase' \in {"running", "ready", "blocked"}
  BY SMTT(30) DEF Commit
<1>2. /\ now' \in Nat /\ now' < MAX_RELEASE_TIME /\ late' = late /\ late \in Nat
      /\ consumed + d \in Nat /\ ContextInv(sc) /\ AllReady(sc, now')
      /\ sc.refills[1].rTime + (consumed + d) <= now'
  BY <1>1, Elapsed
<1>3. sc.refills[1].rAmount >= (consumed + d) + MIN_BUDGET
  BY <1>1, Sufficient
<1>4. /\ ContextInv(sc') /\ sc'.refills[1].rAmount >= MIN_BUDGET
      /\ sc'.refills[1].rTime <= now' /\ AllReady(sc', now')
  BY <1>1, <1>2, <1>3, CommitTime
<1>5. sc'.refills[1].rTime \in Nat /\ MAX_RELEASE_TIME \in Nat /\ Max(Periods) \in Nat
  BY <1>4, InvFacts
<1>6. sc'.refills[1].rTime < MAX_RELEASE_TIME + Max(Periods) /\ sc'.refills[1].rTime <= now' + Max(Periods)
  BY <1>2, <1>4, <1>5, SMTT(30)
<1>7. phase' \in {"running", "ready", "waiting", "blocked"}
  BY <1>1, SMTT(30)
<1> QED BY <1>1, <1>2, <1>4, <1>6, <1>7, HoldsWith

\* The end of a timeslice: the thread is ready only if its head refill is
LEMMA EndTimeslice ==
  ASSUME NEW s, NEW t, NEW ph, ph \in endTimeslice(s, t) \cup {"blocked"}
  PROVE  /\ ph \in {"running", "ready", "waiting", "blocked"}
         /\ ph \in {"running", "ready"} => s.refills[1].rTime <= t
  BY SMTT(30) DEF endTimeslice, refill_ready, refill_head

\* Yielding gives up the rest of the head refill: handleYield
LEMMA InvYield == SporadicInv /\ handleYield => SporadicInv'
<1> SUFFICES ASSUME SporadicInv, handleYield PROVE Holds(sc', phase', now', consumed', late')
  BY HoldsIsInvNext
<1>1. PICK d \in Steps : /\ Elapse(d) /\ sc' = chargeBudget(sc, refill_head(sc).rAmount)
                         /\ consumed' = 0 /\ phase' \in endTimeslice(sc', now')
  BY SMTT(30) DEF handleYield
<1>2. /\ now' \in Nat /\ now' < MAX_RELEASE_TIME /\ late' = late /\ late \in Nat
      /\ ContextInv(sc) /\ AllReady(sc, now')
      /\ sc.refills[1].rAmount >= MIN_BUDGET /\ sc.refills[1].rTime <= now'
  BY <1>1, Elapsed
<1>3. sc.refills[1].rAmount \in Nat /\ sc.refills[1].rAmount <= sc.refills[1].rAmount
  BY <1>2, InvFacts, SMTT(30)
<1>4. /\ ContextInv(sc') /\ sc'.refills[1].rAmount >= MIN_BUDGET
      /\ sc'.refills[1].rTime < MAX_RELEASE_TIME + Max(Periods)
      /\ sc'.refills[1].rTime <= now' + Max(Periods)
      /\ AllReady(sc', now')
  BY <1>1, <1>2, <1>3, ChargeBudget DEF refill_head
<1>5. /\ phase' \in {"running", "ready", "waiting", "blocked"}
      /\ phase' \in {"running", "ready"} => sc'.refills[1].rTime <= now'
  BY <1>1, EndTimeslice, SMTT(30)
<1> QED BY <1>1, <1>2, <1>4, <1>5, HoldsWith

\* A thread out of budget is charged, however late the timer was: chargeBudget
LEMMA InvOutOfBudget == SporadicInv /\ OutOfBudget => SporadicInv'
<1> SUFFICES ASSUME SporadicInv, OutOfBudget PROVE Holds(sc', phase', now', consumed', late')
  BY HoldsIsInvNext
<1>1. PICK d \in Steps : /\ Elapse(d) /\ sc' = chargeBudget(sc, consumed + d) /\ consumed' = 0
                         /\ phase' \in endTimeslice(sc', now') \cup {"blocked"}
  BY SMTT(30) DEF OutOfBudget
<1>2. /\ now' \in Nat /\ now' < MAX_RELEASE_TIME /\ late' = late /\ late \in Nat
      /\ consumed + d \in Nat /\ ContextInv(sc) /\ AllReady(sc, now')
      /\ sc.refills[1].rAmount >= MIN_BUDGET /\ sc.refills[1].rTime <= now'
      /\ late = 0 => consumed + d <= sc.refills[1].rAmount
  BY <1>1, Elapsed
<1>4. /\ ContextInv(sc') /\ sc'.refills[1].rAmount >= MIN_BUDGET
      /\ sc'.refills[1].rTime < MAX_RELEASE_TIME + Max(Periods)
      /\ late = 0 => sc'.refills[1].rTime <= now' + Max(Periods)
      /\ AllReady(sc', now')
  BY <1>1, <1>2, ChargeBudget
<1>5. /\ phase' \in {"running", "ready", "waiting", "blocked"}
      /\ phase' \in {"running", "ready"} => sc'.refills[1].rTime <= now'
  BY <1>1, EndTimeslice, SMTT(30)
<1> QED BY <1>1, <1>2, <1>4, <1>5, HoldsWith

\* Time passes while others run
LEMMA InvIdle == SporadicInv /\ Idle => SporadicInv'
<1> SUFFICES ASSUME SporadicInv, Idle PROVE Holds(sc', phase', now', consumed', late')
  BY HoldsIsInvNext
<1>1. PICK d \in Steps : /\ phase # "running" /\ now + d < MAX_RELEASE_TIME /\ now' = now + d
                         /\ UNCHANGED <<sc, phase, consumed, late, ran>>
  BY SMTT(30) DEF Idle
<1>2. Holds(sc, phase, now, consumed, late) /\ d \in Nat
  BY HoldsIsInv, SporadicConstants, SMTT(30)
<1>3. now \in Nat /\ ContextInv(sc) /\ AllReady(sc, now)
  BY <1>2 DEF Holds
<1>4. sc.refills[1].rTime \in Nat /\ Max(Periods) \in Nat /\ sc \in Context
  BY <1>3, InvFacts
<1>5. AllReady(sc, now')
  <2> SUFFICES ASSUME sc.period = 0, NEW i \in 1 .. Len(sc.refills) PROVE sc.refills[i].rTime <= now'
    BY DEF AllReady
  <2>1. sc.refills[i].rTime \in Nat /\ sc.refills[i].rTime <= now
    BY <1>3, <1>4, ContextFacts DEF AllReady
  <2> QED BY <1>1, <1>2, <1>3, <2>1, SMTT(30)
<1>6. /\ now' \in Nat /\ now' < MAX_RELEASE_TIME
      /\ sc.refills[1].rTime <= now => sc.refills[1].rTime <= now'
      /\ sc.refills[1].rTime <= now + Max(Periods) => sc.refills[1].rTime <= now' + Max(Periods)
  BY <1>1, <1>2, <1>3, <1>4, SMTT(30)
<1> QED BY <1>1, <1>2, <1>5, <1>6 DEF Holds

\* The release queue releases a thread whose head refill has begun: awaken
LEMMA InvAwaken == SporadicInv /\ awaken => SporadicInv'
<1> SUFFICES ASSUME SporadicInv, awaken PROVE Holds(sc', phase', now', consumed', late')
  BY HoldsIsInvNext
<1>1. Holds(sc, phase, now, consumed, late)
  BY HoldsIsInv
<1>2. /\ phase = "waiting" /\ sc.refills[1].rTime <= now /\ phase' = "ready"
      /\ UNCHANGED <<sc, now, consumed, late>>
  BY SMTT(30) DEF awaken, refill_ready, refill_head
<1> QED BY <1>1, <1>2, SMTT(30) DEF Holds

\* A sporadic thread that is unblocked starts its head refill anew
LEMMA InvUnblock == SporadicInv /\ Unblock => SporadicInv'
<1> SUFFICES ASSUME SporadicInv, Unblock PROVE Holds(sc', phase', now', consumed', late')
  BY HoldsIsInvNext
<1>1. Holds(sc, phase, now, consumed, late)
  BY HoldsIsInv
<1>2. /\ phase = "blocked" /\ UNCHANGED <<now, consumed, late>>
      /\ sc' = IF sc.sporadic THEN refill_unblock_check(sc, now) ELSE sc
      /\ phase' = IF sc'.refills[1].rTime <= now THEN "ready" ELSE "waiting"
  BY SMTT(30) DEF Unblock, refill_ready, refill_head
<1>3. /\ now \in Nat /\ late \in Nat /\ now < MAX_RELEASE_TIME /\ consumed = 0 /\ ContextInv(sc)
      /\ sc.refills[1].rAmount >= MIN_BUDGET /\ AllReady(sc, now)
      /\ sc.refills[1].rTime < MAX_RELEASE_TIME + Max(Periods)
      /\ late = 0 => sc.refills[1].rTime <= now + Max(Periods)
  BY <1>1, <1>2, SMTT(30) DEF Holds
<1>4. \/ sc' = sc
      \/ /\ ContextInv(sc') /\ sc'.period = sc.period /\ sc.period # 0
         /\ sc'.refills[1].rAmount >= sc.refills[1].rAmount
         /\ sc'.refills[1].rTime = now
  BY <1>2, <1>3, Unblocked
<1>5. ContextInv(sc')
  BY <1>3, <1>4
<1>6. /\ sc'.refills[1].rAmount \in Nat /\ sc.refills[1].rAmount \in Nat /\ MIN_BUDGET \in Nat
      /\ MAX_RELEASE_TIME \in Nat /\ Max(Periods) \in Nat
  BY <1>3, <1>5, InvFacts
<1>7. /\ sc'.refills[1].rAmount >= MIN_BUDGET
      /\ sc'.refills[1].rTime < MAX_RELEASE_TIME + Max(Periods)
      /\ late = 0 => sc'.refills[1].rTime <= now + Max(Periods)
  BY <1>3, <1>4, <1>6, SMTT(30)
<1>8. AllReady(sc', now)
  BY <1>3, <1>4 DEF AllReady
<1>9. /\ phase' \in {"running", "ready", "waiting", "blocked"}
      /\ phase' \in {"running", "ready"} => sc'.refills[1].rTime <= now
  BY <1>2, SMTT(30)
<1> QED BY <1>2, <1>3, <1>5, <1>7, <1>8, <1>9, HoldsWith

\* A thread of constant bandwidth starts its head refill anew when it is switched to
LEMMA InvSwitch == SporadicInv /\ switchSchedContext => SporadicInv'
<1> SUFFICES ASSUME SporadicInv, switchSchedContext PROVE Holds(sc', phase', now', consumed', late')
  BY HoldsIsInvNext
<1>1. Holds(sc, phase, now, consumed, late)
  BY HoldsIsInv
<1>2. /\ phase = "ready" /\ UNCHANGED <<now, consumed, late>> /\ phase' = "running"
      /\ sc' = IF sc.sporadic THEN sc ELSE refill_unblock_check(sc, now)
  BY SMTT(30) DEF switchSchedContext
<1>3. /\ now \in Nat /\ late \in Nat /\ now < MAX_RELEASE_TIME /\ consumed = 0 /\ ContextInv(sc)
      /\ sc.refills[1].rAmount >= MIN_BUDGET /\ AllReady(sc, now) /\ sc.refills[1].rTime <= now
  BY <1>1, <1>2, SMTT(30) DEF Holds
<1>4. \/ sc' = sc
      \/ /\ ContextInv(sc') /\ sc'.period = sc.period /\ sc.period # 0
         /\ sc'.refills[1].rAmount >= sc.refills[1].rAmount
         /\ sc'.refills[1].rTime = now
  BY <1>2, <1>3, Unblocked
<1>5. ContextInv(sc')
  BY <1>3, <1>4
<1>6. /\ sc'.refills[1].rAmount \in Nat /\ sc.refills[1].rAmount \in Nat /\ MIN_BUDGET \in Nat
      /\ MAX_RELEASE_TIME \in Nat /\ Max(Periods) \in Nat /\ sc'.refills[1].rTime \in Nat
  BY <1>3, <1>5, InvFacts
<1>7. /\ sc'.refills[1].rAmount >= MIN_BUDGET /\ sc'.refills[1].rTime <= now
      /\ sc'.refills[1].rTime < MAX_RELEASE_TIME + Max(Periods)
      /\ sc'.refills[1].rTime <= now + Max(Periods)
  BY <1>3, <1>4, <1>6, SMTT(30)
<1>8. AllReady(sc', now)
  BY <1>3, <1>4 DEF AllReady
<1>9. phase' \in {"running", "ready", "waiting", "blocked"}
  BY <1>2, SMTT(30)
<1> QED BY <1>2, <1>3, <1>5, <1>7, <1>8, <1>9, HoldsWith

\* New parameters, whatever the thread is doing: invokeSchedControl_ConfigureFlags
LEMMA InvConfigure == SporadicInv /\ ConfigureFlags => SporadicInv'
<1> SUFFICES ASSUME SporadicInv, ConfigureFlags PROVE Holds(sc', phase', now', consumed', late')
  BY HoldsIsInvNext
<1> DEFINE s == commitTime(sc, consumed)
<1>1. Holds(sc, phase, now, consumed, late)
  BY HoldsIsInv
<1>2. PICK b \in Budgets, p \in Periods, m \in MaxRefills, f \in Flags :
        /\ MIN_BUDGET <= b /\ b <= p
        /\ sc' = IF b = p THEN refill_new(MIN_REFILLS, b, 0, f, now)
                 ELSE IF phase # "blocked" THEN refill_update(s, m, b, p, f, now)
                 ELSE refill_new(m, b, p, f, now)
        /\ phase' \in IF phase = "blocked" THEN {"blocked"}
                      ELSE IF ~refill_ready(sc', now) THEN {"waiting"}
                      ELSE IF phase = "running" THEN {"running", "ready"}
                      ELSE {"ready"}
        /\ consumed' = 0 /\ UNCHANGED <<now, late>>
  BY SMTT(30) DEF ConfigureFlags
<1>3. /\ b \in Nat /\ p \in Nat /\ m \in Nat /\ f \in BOOLEAN /\ m >= 2 /\ MIN_BUDGET \in Nat
      /\ b >= MIN_BUDGET /\ b <= Max(Periods) /\ p <= Max(Periods) /\ Max(Periods) \in Nat
      /\ MAX_RELEASE_TIME \in Nat /\ MIN_REFILLS \in Nat /\ MIN_REFILLS >= 2 /\ 0 <= Max(Periods)
  <2>1. b \in Nat /\ p \in Nat /\ m \in Nat /\ f \in BOOLEAN /\ m >= 2
    BY SporadicConstants DEF MIN_REFILLS
  <2>2. p <= Max(Periods)
    BY ConstantFacts
  <2>3. /\ MAX_RELEASE_TIME \in Nat /\ MAX_RELEASE_TIME > 0 /\ MIN_BUDGET \in Nat /\ Max(Periods) \in Nat
    BY ConstantFacts
  <2>4. MIN_BUDGET <= b /\ b <= p
    BY <1>2
  <2>5. b >= MIN_BUDGET /\ b <= Max(Periods) /\ 0 <= Max(Periods)
    BY <2>1, <2>2, <2>3, <2>4, SMTT(30)
  <2> QED BY <2>1, <2>2, <2>3, <2>5, SMTT(30) DEF MIN_REFILLS
<1>4. /\ now \in Nat /\ late \in Nat /\ now < MAX_RELEASE_TIME /\ consumed \in Nat /\ ContextInv(sc)
      /\ sc.refills[1].rAmount >= MIN_BUDGET /\ AllReady(sc, now)
      /\ sc.refills[1].rTime < MAX_RELEASE_TIME + Max(Periods)
      /\ late = 0 => sc.refills[1].rTime <= now + Max(Periods)
      /\ phase = "running" => /\ sc.refills[1].rAmount >= consumed + MIN_BUDGET
                              /\ sc.refills[1].rTime + consumed <= now
      /\ phase # "running" => consumed = 0
  BY <1>1, SMTT(30) DEF Holds
<1>5. /\ ContextInv(s) /\ s.refills[1].rAmount >= MIN_BUDGET
      /\ s.refills[1].rTime < MAX_RELEASE_TIME + Max(Periods)
      /\ late = 0 => s.refills[1].rTime <= now + Max(Periods)
  <2>1. CASE phase # "running"
    <3>1. s = sc
      BY <1>4, <2>1 DEF commitTime
    <3> QED BY <1>4, <3>1
  <2>2. CASE phase = "running"
    <3>1. ContextInv(s) /\ s.refills[1].rAmount >= MIN_BUDGET /\ s.refills[1].rTime <= now
      BY <1>4, <2>2, CommitTime
    <3>2. s.refills[1].rTime \in Nat
      BY <3>1, InvFacts
    <3> HIDE DEF s
    <3> QED BY <1>3, <1>4, <3>1, <3>2, SMTT(30)
  <2> QED BY <2>1, <2>2, SMTT(30)
<1>6. /\ ContextInv(sc') /\ sc'.refills[1].rAmount >= MIN_BUDGET
      /\ sc'.refills[1].rTime < MAX_RELEASE_TIME + Max(Periods)
      /\ late = 0 => sc'.refills[1].rTime <= now + Max(Periods)
      /\ AllReady(sc', now)
  <2>1. now < MAX_RELEASE_TIME + Max(Periods) /\ now <= now + Max(Periods)
    BY <1>3, <1>4, SMTT(30)
  <2>2. CASE b = p
    <3>1. Parameters(MIN_REFILLS, b, 0, f) /\ sc' = refill_new(MIN_REFILLS, b, 0, f, now)
      <4>1. 0 \in Nat
        BY SMTT(30)
      <4> QED BY <1>2, <1>3, <2>2, <4>1 DEF Parameters
    <3>2. Fresh(sc', b, now)
      BY <1>4, <3>1, RefillNew
    <3> QED BY <1>3, <2>1, <3>2 DEF Fresh
  <2>3. CASE b # p /\ phase = "blocked"
    <3>1. Parameters(m, b, p, f) /\ sc' = refill_new(m, b, p, f, now)
      BY <1>2, <1>3, <2>3 DEF Parameters
    <3>2. Fresh(sc', b, now)
      BY <1>4, <3>1, RefillNew
    <3> QED BY <1>3, <2>1, <3>2 DEF Fresh
  <2>4. CASE b # p /\ phase # "blocked"
    <3>1. sc' = refill_update(s, m, b, p, f, now) /\ b < p
      BY <1>2, <1>3, <2>4, SMTT(30)
    <3> HIDE DEF s
    <3>2. Updated(sc', s, now)
      <4>1. Parameters(m, b, p, f)
        BY <1>2, <1>3 DEF Parameters
      <4> QED BY <1>4, <1>5, <3>1, <4>1, RefillUpdate
    <3> QED BY <1>5, <2>1, <3>2 DEF AllReady, Updated
  <2> QED BY <2>2, <2>3, <2>4, SMTT(30)
<1>7. /\ phase' \in {"running", "ready", "waiting", "blocked"}
      /\ phase' \in {"running", "ready"} => sc'.refills[1].rTime <= now
  BY <1>2, SMTT(30) DEF refill_ready, refill_head
<1> QED BY <1>2, <1>4, <1>6, <1>7, HoldsWith

\* The queue of refills, its head and the time consumed keep to the invariant through
\* every entry, charge, wake-up, switch and reconfiguration.
LEMMA SporadicInvariant == Spec => []SporadicInv
<1>1. SporadicInv /\ [Next]_vars => SporadicInv'
  <2> SUFFICES ASSUME SporadicInv, [Next]_vars PROVE SporadicInv'
    BY SMTT(30)
  <2>1. CASE Continue
    BY <2>1, InvContinue
  <2>2. CASE Commit
    BY <2>2, InvCommit
  <2>3. CASE handleYield
    BY <2>3, InvYield
  <2>4. CASE OutOfBudget
    BY <2>4, InvOutOfBudget
  <2>5. CASE Idle
    BY <2>5, InvIdle
  <2>6. CASE awaken
    BY <2>6, InvAwaken
  <2>7. CASE Unblock
    BY <2>7, InvUnblock
  <2>8. CASE switchSchedContext
    BY <2>8, InvSwitch
  <2>9. CASE ConfigureFlags
    BY <2>9, InvConfigure
  <2>10. CASE UNCHANGED vars
    <3>1. Holds(sc, phase, now, consumed, late)
      BY HoldsIsInv
    <3>2. Holds(sc', phase', now', consumed', late')
      BY <2>10, <3>1 DEF vars
    <3> QED BY <3>2, HoldsIsInvNext
  <2> QED BY <2>1, <2>2, <2>3, <2>4, <2>5, <2>6, <2>7, <2>8, <2>9, <2>10 DEF Next
<1> QED BY <1>1, InvInit, PTL DEF Spec

\* Whatever is charged, merged, delayed or reconfigured, and however late the timer is,
\* the refills add up to the budget, fit the buffer and stay in order: the assertions
\* REFILL_SANITY_CHECK and refill_ordered of sporadic.c.
THEOREM RefillsAreSane == Spec => []RefillSanity
<1>1. SporadicInv => RefillSanity
  <2> SUFFICES ASSUME ContextInv(sc) PROVE RefillSanity
    BY DEF SporadicInv
  <2> QED BY DEF ContextInv, RefillSanity, QueueInv
<1> QED BY <1>1, SporadicInvariant, PTL

\* The head refill can always pay for a kernel entry, and that of a thread the
\* scheduler may pick has begun: the assertions of chargeBudget, commitTime,
\* switchSchedContext and refill_unblock_check.
THEOREM HeadIsUsable == Spec => []HeadUsable
<1>1. SporadicInv => HeadUsable
  BY DEF SporadicInv
<1> QED BY <1>1, SporadicInvariant, PTL

\* No refill ends later than five periods after MAX_RELEASE_TIME, the room sporadic.h
\* keeps at the end of the counter, so that no release time wraps round.
THEOREM ReleaseTimesInRange == Spec => []NoOverflow
<1>1. SporadicInv => NoOverflow
  <2> SUFFICES ASSUME SporadicInv, NEW i \in 1 .. Len(sc.refills)
               PROVE  sc.refills[i].rTime + sc.refills[i].rAmount <= MAX_RELEASE_TIME + 5 * Max(Periods)
    BY DEF NoOverflow
  <2> DEFINE q == sc.refills
             P == Max(Periods)
  <2>1. /\ Holds(sc, phase, now, consumed, late) /\ ContextInv(sc)
        /\ now \in Nat /\ now < MAX_RELEASE_TIME /\ AllReady(sc, now)
        /\ q[1].rTime < MAX_RELEASE_TIME + P
    BY HoldsIsInv DEF Holds
  <2>2. /\ sc \in Context /\ q \in Seq(Refill) /\ sc.period \in Nat /\ sc.period <= P /\ P \in Nat
        /\ sc.budget \in Nat /\ refill_sum(sc) = sc.budget /\ MAX_RELEASE_TIME \in Nat
        /\ q[1].rTime \in Nat
        /\ sc.period # 0 => Queue(q, sc.period)
    BY <2>1, InvFacts
  <2>3. q[i].rTime \in Nat /\ q[i].rAmount \in Nat
    BY <2>2, ContextFacts
  <2>4. q[i].rAmount <= sc.budget /\ sc.budget <= P
    BY <2>1, <2>2, SumBounds DEF refill_sum, ContextInv
  <2>5. q[i].rTime <= q[1].rTime + sc.period \/ q[i].rTime <= now
    BY <2>1, <2>2 DEF AllReady, Queue
  <2>6. q[i].rTime + q[i].rAmount <= MAX_RELEASE_TIME + 5 * P
    <3> DEFINE a == q[i].rTime
               b == q[i].rAmount
               c == q[1].rTime
               d == sc.period
               g == sc.budget
    <3>1. /\ a \in Nat /\ b \in Nat /\ c \in Nat /\ d \in Nat /\ g \in Nat /\ P \in Nat /\ now \in Nat
          /\ MAX_RELEASE_TIME \in Nat /\ now < MAX_RELEASE_TIME /\ c < MAX_RELEASE_TIME + P
          /\ b <= g /\ g <= P /\ d <= P /\ (a <= c + d \/ a <= now)
      BY <2>1, <2>2, <2>3, <2>4, <2>5
    <3> HIDE DEF q, P, a, b, c, d, g
    <3>2. a + b <= MAX_RELEASE_TIME + 5 * P
      BY <3>1, SMTT(30)
    <3> QED BY <3>2 DEF a, b
  <2> QED BY <2>6 DEF q, P
<1> QED BY <1>1, SporadicInvariant, PTL

\* With a punctual timer a thread that waits for a refill is released within the
\* longest period, however often its refills were split, delayed and merged.
THEOREM WaitersAreReleased == Spec => []ReleasedWithinPeriod
<1>1. SporadicInv => ReleasedWithinPeriod
  BY DEF SporadicInv, ReleasedWithinPeriod
<1> QED BY <1>1, SporadicInvariant, PTL

-----------------------------------------------------------------------------
(* The circular buffer of refills implements the bounded sequence that     *)
(* Sporadic is written over, for every size of the buffer and every set of *)
(* refills.                                                                *)

CONSTANTS AnyRefill, N
VARIABLES buf, scRefillHead, scRefillTail, scRefillMax, op

Ring == INSTANCE RefillRing WITH Refill <- AnyRefill

\* Head and tail stay inside the part of the buffer in use, the bound every
\* access of refill_index relies on.
RingInv ==
  /\ scRefillMax \in Ring!Maxes
  /\ scRefillHead \in 0 .. scRefillMax - 1
  /\ scRefillTail \in 0 .. scRefillMax - 1
  /\ buf \in [0 .. N - 1 -> AnyRefill]

\* The distance from head to tail around the ring
Span(h, t, m) == IF h <= t THEN t - h ELSE t + m - h

\* The i-th slot from the head
Slot(h, i, m) == IF h + i - 1 < m THEN h + i - 1 ELSE h + i - 1 - m

\* The refills from the head on
Unrolled(b, h, t, m) == [i \in 1 .. Span(h, t, m) + 1 |-> b[Slot(h, i, m)]]

\* An index that has gone round the ring at most once comes back by one
\* subtraction, as refill_next does it: the walk of refill_sum and refill_ordered
\* without the arithmetic of the ring.
LEMMA WalkShape ==
  ASSUME NEW b, NEW m \in Nat \ {0}, NEW h \in 0 .. m - 1, NEW t \in 0 .. m - 1
  PROVE  /\ Span(h, t, m) \in 0 .. m - 1
         /\ \A i \in 1 .. Span(h, t, m) + 1 : Slot(h, i, m) \in 0 .. m - 1
         /\ Ring!walk(b, h, t, m) = Unrolled(b, h, t, m)
<1>1. Span(h, t, m) \in 0 .. m - 1
  BY SMTT(30) DEF Span
<1>2. (t + m - h) % m = Span(h, t, m)
  <2> DEFINE x == t + m - h
  <2>1. x \in Int /\ 0 <= x /\ x < m + m  BY SMTT(30)
  <2> HIDE DEF x
  <2>2. x % m = IF x < m THEN x ELSE x - m
    BY <2>1, SMTT(30)
  <2> QED  BY <2>2, SMTT(30) DEF x, Span
<1>3. ASSUME NEW i \in 1 .. Span(h, t, m) + 1
      PROVE  Slot(h, i, m) \in 0 .. m - 1 /\ (h + i - 1) % m = Slot(h, i, m)
  <2> DEFINE x == h + i - 1
  <2>1. x \in Int /\ 0 <= x /\ x < m + m  BY <1>1, SMTT(30)
  <2> HIDE DEF x
  <2>2. x % m = IF x < m THEN x ELSE x - m
    BY <2>1, SMTT(30)
  <2> QED  BY <2>1, <2>2, SMTT(30) DEF x, Slot
<1> QED  BY <1>1, <1>2, <1>3, SMTT(30) DEF Ring!walk, Unrolled

\* No operation moves the head or the tail out of the buffer in use.
LEMMA RingInvariant ==
  ASSUME N \in Nat, N >= 2
  PROVE  Ring!Spec => []RingInv
<1>1. Ring!Init => RingInv
  BY SMTT(30) DEF Ring!Init, RingInv, Ring!Maxes
<1>2. RingInv /\ [Ring!Next]_(Ring!vars) => RingInv'
  <2> SUFFICES ASSUME RingInv, [Ring!Next]_(Ring!vars) PROVE RingInv'
    BY SMTT(30)
  <2> USE DEF RingInv, Ring!Maxes
  <2>1. CASE Ring!refill_new  BY <2>1, SMTT(30) DEF Ring!refill_new
  <2>2. CASE Ring!refill_update  BY <2>2, SMTT(30) DEF Ring!refill_update
  <2>3. CASE Ring!refill_pop_head  BY <2>3, SMTT(30) DEF Ring!refill_pop_head, Ring!refill_next
  <2>4. CASE Ring!refill_add_tail  BY <2>4, SMTT(30) DEF Ring!refill_add_tail, Ring!refill_next
  <2>5. CASE Ring!refill_head  BY <2>5, SMTT(30) DEF Ring!refill_head
  <2>6. CASE Ring!refill_tail  BY <2>6, SMTT(30) DEF Ring!refill_tail
  <2>7. CASE UNCHANGED Ring!vars  BY <2>7, SMTT(30) DEF Ring!vars
  <2> QED  BY <2>1, <2>2, <2>3, <2>4, <2>5, <2>6, <2>7, SMTT(30) DEF Ring!Next
<1> QED  BY <1>1, <1>2, PTL DEF Ring!Spec

\* What the walk over the buffer is, before and after a step.
LEMMA ContentsShape ==
  ASSUME N \in Nat, N >= 2, RingInv, RingInv'
  PROVE  /\ Ring!Contents = Unrolled(buf, scRefillHead, scRefillTail, scRefillMax)
         /\ Ring!Contents' = Unrolled(buf', scRefillHead', scRefillTail', scRefillMax')
         /\ Len(Ring!Contents) = Span(scRefillHead, scRefillTail, scRefillMax) + 1
         /\ Span(scRefillHead, scRefillTail, scRefillMax) \in 0 .. scRefillMax - 1
<1>1. /\ scRefillMax \in Nat \ {0}
      /\ scRefillHead \in 0 .. scRefillMax - 1 /\ scRefillTail \in 0 .. scRefillMax - 1
  BY SMTT(30) DEF RingInv, Ring!Maxes
<1>0. /\ scRefillMax' \in Nat \ {0}
      /\ scRefillHead' \in 0 .. scRefillMax' - 1 /\ scRefillTail' \in 0 .. scRefillMax' - 1
  <2>1. /\ scRefillMax' \in Ring!Maxes
        /\ scRefillHead' \in 0 .. scRefillMax' - 1 /\ scRefillTail' \in 0 .. scRefillMax' - 1
    BY DEF RingInv, Ring!Maxes
  <2>2. scRefillMax' \in Nat \ {0}
    BY <2>1, SMTT(30) DEF Ring!Maxes
  <2> QED  BY <2>1, <2>2
<1>2. Ring!Contents = Unrolled(buf, scRefillHead, scRefillTail, scRefillMax)
  BY <1>1, WalkShape DEF Ring!Contents
<1>3. Ring!Contents' = Unrolled(buf', scRefillHead', scRefillTail', scRefillMax')
  BY <1>0, WalkShape DEF Ring!Contents
<1>4. Span(scRefillHead, scRefillTail, scRefillMax) \in 0 .. scRefillMax - 1
  BY <1>1, SMTT(30) DEF Span
<1>5. Len(Ring!Contents) = Span(scRefillHead, scRefillTail, scRefillMax) + 1
  BY <1>2, <1>4, SMTT(30) DEF Unrolled
<1> QED  BY <1>2, <1>3, <1>4, <1>5, SMTT(30)

\* A ring whose head is its tail holds one refill (refill_new, refill_update).
LEMMA UnrolledSingle ==
  ASSUME NEW b, NEW m \in Nat \ {0}
  PROVE  Unrolled(b, 0, 0, m) = <<b[0]>>
<1>1. Span(0, 0, m) + 1 = 1 /\ Slot(0, 1, m) = 0
  BY SMTT(30) DEF Span, Slot
<1>2. Unrolled(b, 0, 0, m) = [i \in 1 .. 1 |-> b[Slot(0, i, m)]]
  BY <1>1, SMTT(30) DEF Unrolled
<1>3. \A i \in 1 .. 1 : i = 1  BY SMTT(30)
<1> QED  BY <1>1, <1>2, <1>3, SMTT(30)

\* The circular buffer of a scheduling context (refill_index, refill_next,
\* refill_pop_head, refill_add_tail, refill_update) behaves as the bounded
\* sequence of RefillQueue, for every buffer size.
THEOREM RingImplementsQueue ==
  ASSUME N \in Nat, N >= 2
  PROVE  Ring!Spec => Ring!ImplementsQueue
<1>1. Ring!Init => Ring!Queue!Init
  <2> SUFFICES ASSUME Ring!Init PROVE Ring!Queue!Init
    BY SMTT(30)
  <2>1. scRefillMax \in Nat \ {0} /\ buf[0] \in AnyRefill /\ 0 \in 0 .. scRefillMax - 1
    BY SMTT(30) DEF Ring!Init, Ring!Maxes
  <2>2. Ring!Contents = Unrolled(buf, 0, 0, scRefillMax)
    BY <2>1, WalkShape DEF Ring!Init, Ring!Contents
  <2>3. Ring!Contents = <<buf[0]>>
    BY <2>1, <2>2, UnrolledSingle, SMTT(30)
  <2> QED  BY <2>1, <2>3, SMTT(30) DEF Ring!Init, Ring!Queue!Init
<1>2. RingInv /\ RingInv' /\ [Ring!Next]_(Ring!vars) => [Ring!Queue!Next]_(Ring!Queue!vars)
  <2> SUFFICES ASSUME RingInv, RingInv', [Ring!Next]_(Ring!vars) PROVE [Ring!Queue!Next]_(Ring!Queue!vars)
    BY SMTT(30)
  <2> DEFINE h == scRefillHead
             t == scRefillTail
             m == scRefillMax
             n == Span(h, t, m) + 1
  <2>0. /\ m \in Nat \ {0} /\ m <= N /\ N \in Nat /\ m' \in Nat \ {0}
        /\ h \in 0 .. m - 1 /\ t \in 0 .. m - 1
        /\ DOMAIN buf = 0 .. N - 1
    BY SMTT(30) DEF RingInv, Ring!Maxes
  <2>a. /\ Ring!Contents = [i \in 1 .. n |-> buf[Slot(h, i, m)]]
        /\ Ring!Contents' = [i \in 1 .. Span(h', t', m') + 1 |-> buf'[Slot(h', i, m')]]
        /\ Len(Ring!Contents) = n /\ n \in 1 .. m
    BY <2>0, ContentsShape, SMTT(30) DEF Unrolled
  <2>b. /\ Slot(h, 1, m) = h /\ Slot(h, n, m) = t
        /\ \A i \in 1 .. n : /\ Slot(h, i, m) \in 0 .. m - 1
                             /\ (Slot(h, i, m) = h) => (i = 1)
                             /\ (Slot(h, i, m) = t) => (i = n)
    BY <2>0, SMTT(30) DEF Slot, Span
  <2>1. CASE Ring!refill_new
    <3> PICK r \in AnyRefill, mm \in Ring!Maxes :
          /\ buf' = [buf EXCEPT ![0] = r] /\ h' = 0 /\ t' = 0
          /\ m' = mm /\ op' = "new"
      BY <2>1 DEF Ring!refill_new
    <3>1. Ring!Contents' = <<buf'[0]>>
      BY <2>0, ContentsShape, UnrolledSingle
    <3>2. Ring!Contents' = <<r>>
      BY <3>1, <2>0, SMTT(30)
    <3> QED  BY <3>2, SMTT(30) DEF Ring!Queue!Next, Ring!Queue!New
  <2>2. CASE Ring!refill_update
    <3>1. Ring!Contents' = <<buf'[0]>>
      BY <2>0, <2>2, ContentsShape, UnrolledSingle DEF Ring!refill_update
    <3>2. buf'[0] = buf[h]
      BY <2>0, <2>2, SMTT(30) DEF Ring!refill_update
    <3>3. Head(Ring!Contents) = buf[h]
      BY <2>a, <2>b, SMTT(30)
    <3> QED  BY <2>2, <3>1, <3>2, <3>3, SMTT(30) DEF Ring!refill_update, Ring!Queue!Next, Ring!Queue!Truncate
  <2>3. CASE Ring!refill_pop_head
    <3>1. /\ h # t /\ h' = IF h = m - 1 THEN 0 ELSE h + 1
          /\ UNCHANGED <<buf, t, m>>
      BY <2>3, SMTT(30) DEF Ring!refill_pop_head, Ring!refill_single, Ring!refill_next
    <3>2. n \in 2 .. m /\ Span(h', t', m') + 1 = n - 1
      BY <2>0, <3>1, SMTT(30) DEF Span
    <3>3. \A i \in 1 .. n - 1 : Slot(h', i, m') = Slot(h, i + 1, m)
      BY <2>0, <2>a, <3>1, SMTT(30) DEF Slot
    <3>4. Tail(Ring!Contents) = [i \in 1 .. n - 1 |-> buf[Slot(h, i + 1, m)]]
      BY <2>a, <3>2, SMTT(30)
    <3>5. Ring!Contents' = [i \in 1 .. n - 1 |-> buf[Slot(h', i, m')]]
      BY <2>a, <3>1, <3>2, SMTT(30)
    <3>6. Ring!Contents' = Tail(Ring!Contents)
      BY <3>3, <3>4, <3>5, SMTT(30)
    <3>7. Len(Ring!Contents) > 1
      BY <2>a, <3>2, SMTT(30)
    <3> QED  BY <2>3, <3>6, <3>7, SMTT(30) DEF Ring!refill_pop_head, Ring!Queue!Next, Ring!Queue!Pop
  <2>4. CASE Ring!refill_add_tail
    <3> PICK r \in AnyRefill :
          /\ ~Ring!refill_full
          /\ t' = Ring!refill_next(t)
          /\ buf' = [buf EXCEPT ![Ring!refill_next(t)] = r]
          /\ UNCHANGED <<h, m>> /\ op' = "add"
      BY <2>4 DEF Ring!refill_add_tail
    <3>1. n < m
      BY <2>0, SMTT(30) DEF Ring!refill_full, Ring!refill_size, Span
    <3>2. /\ t' = IF t = m - 1 THEN 0 ELSE t + 1
          /\ Span(h', t', m') + 1 = n + 1
      BY <2>0, <3>1, SMTT(30) DEF Span, Ring!refill_next
    <3>3. Slot(h, n + 1, m) = t' /\ t' \in 0 .. N - 1
      BY <2>0, <3>1, <3>2, SMTT(30) DEF Slot, Span
    <3>4. \A i \in 1 .. n : Slot(h, i, m) # t'
      BY <2>0, <3>1, <3>2, SMTT(30) DEF Slot, Span
    <3>5. \A i \in 1 .. n + 1 : buf'[Slot(h, i, m)] = IF i = n + 1 THEN r ELSE Ring!Contents[i]
      BY <2>0, <2>a, <2>b, <3>3, <3>4, SMTT(30)
    <3>6. Ring!Contents' = [i \in 1 .. n + 1 |-> buf'[Slot(h, i, m)]]
      BY <2>a, <3>2, SMTT(30)
    <3>7. Append(Ring!Contents, r) = [i \in 1 .. n + 1 |-> IF i = n + 1 THEN r ELSE Ring!Contents[i]]
      BY <2>a, SMTT(30)
    <3>8. Ring!Contents' = Append(Ring!Contents, r)
      BY <3>5, <3>6, <3>7, SMTT(30)
    <3> QED  BY <2>a, <3>1, <3>8 DEF Ring!Queue!Next, Ring!Queue!Add
  <2>5. CASE Ring!refill_head
    <3> PICK r \in AnyRefill : /\ buf' = [buf EXCEPT ![h] = r]
                            /\ UNCHANGED <<h, t, m>>
                            /\ op' = "head"
      BY <2>5 DEF Ring!refill_head
    <3>1. \A i \in 1 .. n : buf'[Slot(h, i, m)] = IF i = 1 THEN r ELSE Ring!Contents[i]
      BY <2>0, <2>a, <2>b, SMTT(30)
    <3>2. Ring!Contents' = [i \in 1 .. n |-> buf'[Slot(h, i, m)]]
      BY <2>a, SMTT(30)
    <3>3. [Ring!Contents EXCEPT ![1] = r] = [i \in 1 .. n |-> IF i = 1 THEN r ELSE Ring!Contents[i]]
      BY <2>a
    <3>4. Ring!Contents' = [Ring!Contents EXCEPT ![1] = r]
      BY <3>1, <3>2, <3>3
    <3> QED  BY <3>4 DEF Ring!Queue!Next, Ring!Queue!SetHead
  <2>6. CASE Ring!refill_tail
    <3> PICK r \in AnyRefill : /\ buf' = [buf EXCEPT ![t] = r]
                            /\ UNCHANGED <<h, t, m>>
                            /\ op' = "tail"
      BY <2>6 DEF Ring!refill_tail
    <3>1. \A i \in 1 .. n : buf'[Slot(h, i, m)] = IF i = n THEN r ELSE Ring!Contents[i]
      BY <2>0, <2>a, <2>b, SMTT(30)
    <3>2. Ring!Contents' = [i \in 1 .. n |-> buf'[Slot(h, i, m)]]
      BY <2>a, SMTT(30)
    <3>3. [Ring!Contents EXCEPT ![n] = r] = [i \in 1 .. n |-> IF i = n THEN r ELSE Ring!Contents[i]]
      BY <2>a, SMTT(30)
    <3>4. Ring!Contents' = [Ring!Contents EXCEPT ![n] = r]
      BY <3>1, <3>2, <3>3
    <3>5. Len(Ring!Contents) = n
      BY <2>a, SMTT(30)
    <3> QED  BY <3>4, <3>5 DEF Ring!Queue!Next, Ring!Queue!SetTail
  <2>7. CASE UNCHANGED Ring!vars
    BY <2>7, SMTT(30) DEF Ring!vars, Ring!Queue!vars, Ring!Contents
  <2> QED  BY <2>1, <2>2, <2>3, <2>4, <2>5, <2>6, <2>7, SMTT(30) DEF Ring!Next
<1> QED  BY <1>1, <1>2, RingInvariant, PTL DEF Ring!Spec, Ring!ImplementsQueue, Ring!Queue!Spec
=============================================================================
