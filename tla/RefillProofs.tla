---------------------------- MODULE RefillProofs ----------------------------
(***************************************************************************)
(* The refills of a scheduling context, for every configuration of its     *)
(* budget, period and number of refills, however late the timer is: what   *)
(* the functions of sporadic.c keep of the queue, their loops included.    *)
(* The last parts are about where in time the budget stands: charging puts *)
(* what was used a period off, and merging only moves refills later.       *)
(***************************************************************************)
EXTENDS Sporadic, WellFoundedInduction, TLAPS

\* The prover of a leaf that names none
USE SMTT(60)

\* The least element of a set of natural numbers: a loop is reasoned about by the
\* first round that breaks its invariant
LEMMA LeastOfSet ==
  ASSUME NEW T, T \subseteq Nat, T # {}
  PROVE  \E m \in T : \A y \in T : m <= y
<1>1. \E x \in T : \A y \in T : ~(<<y, x>> \in OpToRel(<, Nat))
  BY WFMin, NatLessThanWellFounded, Zenon
<1>2. PICK x \in T : \A y \in T : ~(y < x)
  BY <1>1, Zenon DEF OpToRel
<1>3. \A y \in T : y \in Int /\ x \in Int
  OBVIOUS
<1> QED BY <1>2, <1>3

\* Arithmetic that the lemmas below keep needing: a queue that is not single has two refills
LEMMA MoreThanOne ==
  ASSUME NEW n \in Nat, NEW m \in Nat, n \in 1 .. m, n # 1
  PROVE  n \in 2 .. m
  OBVIOUS

\* A time before a bound is before every later one
LEMMA AtMost ==
  ASSUME NEW a \in Int, NEW b \in Int, NEW c \in Int, a <= b, b <= c
  PROVE  a <= c
  OBVIOUS

\* A head that is charged for u ticks ends when it did
LEMMA SameEnd ==
  ASSUME NEW a \in Nat, NEW b \in Nat, NEW u \in Nat
  PROVE  (a + u) + (b - u) = a + b
  OBVIOUS

\* A refill is a record of two numbers
LEMMA RefillFacts ==
  ASSUME NEW r \in Refill
  PROVE  /\ r.rTime \in Nat /\ r.rAmount \in Nat
         /\ r = [rTime |-> r.rTime, rAmount |-> r.rAmount]
  BY DEF Refill

\* The refills of a queue
LEMMA Elements ==
  ASSUME NEW q \in Seq(Refill)
  PROVE  /\ Len(q) \in Nat
         /\ \A i \in 1 .. Len(q) : q[i] \in Refill /\ q[i].rTime \in Nat /\ q[i].rAmount \in Nat
<1>1. Len(q) \in Nat /\ \A i \in 1 .. Len(q) : q[i] \in Refill
  OBVIOUS
<1> QED BY <1>1, RefillFacts, Zenon

\* A queue with one refill replaced
LEMMA Replaced ==
  ASSUME NEW q \in Seq(Refill), NEW j \in 1 .. Len(q), NEW r \in Refill
  PROVE  /\ [q EXCEPT ![j] = r] \in Seq(Refill) /\ Len([q EXCEPT ![j] = r]) = Len(q)
         /\ \A i \in 1 .. Len(q) : [q EXCEPT ![j] = r][i] = IF i = j THEN r ELSE q[i]
  OBVIOUS

-----------------------------------------------------------------------------
(* The sum of a queue *)

\* The partial sums of a queue, from the head
Sums(q, g) ==
  /\ g \in [0 .. Len(q) -> Nat]
  /\ g[0] = 0
  /\ \A i \in 1 .. Len(q) : g[i] = g[i - 1] + q[i].rAmount

\* Every queue has partial sums: the loop of refill_sum ends
LEMMA SumsExist ==
  ASSUME NEW q \in Seq(Refill)
  PROVE  \E g : Sums(q, g)
<1> DEFINE P(m) == \E g \in [0 .. m -> Nat] :
                      g[0] = 0 /\ \A i \in 1 .. m : g[i] = g[i - 1] + q[i].rAmount
           T == {m \in 0 .. Len(q) : ~P(m)}
<1>1. Len(q) \in Nat /\ \A i \in 1 .. Len(q) : q[i].rAmount \in Nat
  BY Elements, Zenon
<1>2. SUFFICES ASSUME T # {} PROVE FALSE
  <2>1. Len(q) \in 0 .. Len(q)
    BY <1>1
  <2>2. P(Len(q)) => \E g : Sums(q, g)
    BY DEF Sums
  <2> QED BY <2>1, <2>2, Zenon
<1>3. PICK m \in T : \A y \in T : m <= y
  <2>1. T \subseteq Nat
    BY <1>1
  <2> HIDE DEF T
  <2> QED BY <1>2, <2>1, LeastOfSet, Zenon
<1>4. P(0)
  <2> DEFINE g == [i \in 0 .. 0 |-> 0]
  <2>1. g \in [0 .. 0 -> Nat] /\ g[0] = 0 /\ \A i \in 1 .. 0 : g[i] = g[i - 1] + q[i].rAmount
    OBVIOUS
  <2> QED BY <2>1, Zenon
<1>5. m # 0 /\ m \in 1 .. Len(q) /\ m - 1 \in 0 .. Len(q)
  <2>1. m # 0
    BY <1>4, Zenon
  <2> QED BY <2>1, <1>1
<1>6. P(m - 1)
  <2>1. m - 1 \notin T
    <3>1. ~(m <= m - 1)
      BY <1>5, <1>1
    <3> HIDE DEF T
    <3> QED BY <1>3, <3>1, Zenon
  <2> HIDE DEF P
  <2> QED BY <1>5, <2>1, Zenon
<1>7. PICK g \in [0 .. m - 1 -> Nat] :
         g[0] = 0 /\ \A i \in 1 .. m - 1 : g[i] = g[i - 1] + q[i].rAmount
  BY <1>6, Zenon
<1> DEFINE h == [i \in 0 .. m |-> IF i = m THEN g[m - 1] + q[m].rAmount ELSE g[i]]
<1>8. /\ h \in [0 .. m -> Nat] /\ h[0] = 0
      /\ \A i \in 1 .. m : h[i] = h[i - 1] + q[i].rAmount
  BY <1>1, <1>5, <1>7
<1>9. P(m)
  <2> HIDE DEF h
  <2> QED BY <1>8, Zenon
<1> QED BY <1>3, <1>9, Zenon

\* What refill_sum returns is the last of the partial sums
LEMMA SumIs ==
  ASSUME NEW q \in Seq(Refill), NEW g, Sums(q, g)
  PROVE  sumOf(q) = g[Len(q)] /\ sumOf(q) \in Nat
<1> DEFINE R(f) == [i \in 0 .. Len(q) |-> IF i = 0 THEN 0 ELSE f[i - 1] + q[i].rAmount]
           F == CHOOSE f : f = R(f)
           T == {m \in 0 .. Len(q) : F[m] # g[m]}
<1>1. Len(q) \in Nat
  OBVIOUS
<1>2. g = R(g)
  BY <1>1 DEF Sums
<1>3. F = R(F)
  <2> HIDE DEF R
  <2> QED BY <1>2, Zenon
<1>4. sumOf(q) = F[Len(q)]
  BY Zenon DEF sumOf
<1>5. F[0] = g[0] /\ \A i \in 1 .. Len(q) : F[i] = F[i - 1] + q[i].rAmount
  <2> HIDE DEF F
  <2> QED BY <1>1, <1>3 DEF Sums
<1> HIDE DEF F
<1>6. T = {}
  <2> SUFFICES ASSUME T # {} PROVE FALSE
    OBVIOUS
  <2>1. PICK m \in T : \A y \in T : m <= y
    <3>1. T \subseteq Nat
      BY <1>1
    <3> HIDE DEF T
    <3> QED BY <3>1, LeastOfSet, Zenon
  <2>2. m \in 1 .. Len(q) /\ m - 1 \in 0 .. Len(q) /\ ~(m <= m - 1)
    BY <1>1, <1>5
  <2>3. F[m - 1] = g[m - 1]
    BY <2>1, <2>2, Zenon
  <2>4. F[m] = g[m]
    BY <1>5, <2>2, <2>3, Zenon DEF Sums
  <2> QED BY <2>1, <2>4, Zenon
<1> QED BY <1>1, <1>4, <1>6 DEF Sums

\* No refill is more than the whole, and a single refill is the whole
LEMMA SumBounds ==
  ASSUME NEW q \in Seq(Refill)
  PROVE  /\ sumOf(q) \in Nat
         /\ \A i \in 1 .. Len(q) : q[i].rAmount <= sumOf(q)
         /\ Len(q) = 1 => sumOf(q) = q[1].rAmount
         /\ Len(q) = 2 => sumOf(q) = q[1].rAmount + q[2].rAmount
<1>1. PICK g : Sums(q, g)
  BY SumsExist, Zenon
<1>2. sumOf(q) = g[Len(q)] /\ sumOf(q) \in Nat
  BY <1>1, SumIs, Zenon
<1>3. Len(q) \in Nat /\ \A i \in 1 .. Len(q) : q[i].rAmount \in Nat
  BY Elements, Zenon
<1>4. Len(q) = 1 => sumOf(q) = q[1].rAmount
  BY <1>1, <1>2, <1>3 DEF Sums
<1>5. Len(q) = 2 => sumOf(q) = q[1].rAmount + q[2].rAmount
  BY <1>1, <1>2, <1>3 DEF Sums
<1>6. ASSUME NEW i \in 1 .. Len(q) PROVE q[i].rAmount <= sumOf(q)
  <2> DEFINE T == {m \in i .. Len(q) : ~(q[i].rAmount <= g[m])}
  <2>1. T = {}
    <3> SUFFICES ASSUME T # {} PROVE FALSE
      OBVIOUS
    <3>1. PICK m \in T : \A y \in T : m <= y
      <4>1. T \subseteq Nat
        BY <1>3
      <4> HIDE DEF T
      <4> QED BY <4>1, LeastOfSet, Zenon
    <3>2. m \in 1 .. Len(q) /\ g[m] = g[m - 1] + q[m].rAmount /\ g[m - 1] \in Nat
      <4>1. m \in 1 .. Len(q) /\ m - 1 \in 0 .. Len(q)
        BY <1>3
      <4> HIDE DEF T
      <4> QED BY <1>1, <4>1, Zenon DEF Sums
    <3>3. m # i
      BY <1>3, <3>2
    <3>4. m - 1 \in i .. Len(q) /\ ~(m <= m - 1)
      BY <1>3, <3>3
    <3>5. q[i].rAmount <= g[m - 1]
      BY <3>1, <3>4, Zenon
    <3> QED BY <1>3, <3>1, <3>2, <3>5
  <2> QED BY <1>2, <1>3, <2>1
<1> QED BY <1>2, <1>4, <1>5, <1>6

\* The sum after a refill has been added at the tail
LEMMA SumAppend ==
  ASSUME NEW q \in Seq(Refill), NEW r \in Refill
  PROVE  sumOf(Append(q, r)) = sumOf(q) + r.rAmount
<1>1. PICK g : Sums(q, g)
  BY SumsExist, Zenon
<1> DEFINE n == Len(q)
           a == Append(q, r)
           h == [i \in 0 .. n + 1 |-> IF i = n + 1 THEN g[n] + r.rAmount ELSE g[i]]
<1>2. n \in Nat /\ r.rAmount \in Nat
  BY DEF Refill
<1>3. a \in Seq(Refill) /\ Len(a) = n + 1 /\ \A i \in 1 .. n + 1 : a[i] = IF i = n + 1 THEN r ELSE q[i]
  OBVIOUS
<1>4. Sums(a, h)
  <2> HIDE DEF a
  <2>1. h \in [0 .. n + 1 -> Nat] /\ h[0] = 0
    BY <1>1, <1>2 DEF Sums
  <2>2. \A i \in 1 .. n + 1 : h[i] = h[i - 1] + a[i].rAmount
    BY <1>1, <1>2, <1>3 DEF Sums
  <2> QED BY <1>3, <2>1, <2>2 DEF Sums
<1>5. sumOf(a) = h[n + 1] /\ sumOf(q) = g[n]
  <2> HIDE DEF a, h
  <2> QED BY <1>1, <1>3, <1>4, SumIs
<1> QED BY <1>2, <1>5

\* The sum after the head has been popped
LEMMA SumTail ==
  ASSUME NEW q \in Seq(Refill), Len(q) > 0
  PROVE  sumOf(Tail(q)) = sumOf(q) - q[1].rAmount
<1>1. PICK g : Sums(q, g)
  BY SumsExist, Zenon
<1> DEFINE n == Len(q)
           a == Tail(q)
           h == [i \in 0 .. n - 1 |-> g[i + 1] - g[1]]
           T == {m \in 1 .. n : ~(g[1] <= g[m])}
<1>2. n \in Nat /\ n > 0 /\ \A i \in 1 .. n : q[i].rAmount \in Nat
  BY Elements, Zenon
<1>3. a \in Seq(Refill) /\ Len(a) = n - 1 /\ \A i \in 1 .. n - 1 : a[i] = q[i + 1]
  OBVIOUS
<1>4. T = {}
  <2> SUFFICES ASSUME T # {} PROVE FALSE
    OBVIOUS
  <2>1. PICK m \in T : \A y \in T : m <= y
    <3>1. T \subseteq Nat
      BY <1>2
    <3> HIDE DEF T
    <3> QED BY <3>1, LeastOfSet, Zenon
  <2>2. m \in 1 .. n /\ g[m] = g[m - 1] + q[m].rAmount /\ g[m - 1] \in Nat /\ g[1] \in Nat
    <3>1. m \in 1 .. n /\ m - 1 \in 0 .. n /\ 1 \in 0 .. n
      BY <1>2
    <3> HIDE DEF T
    <3> QED BY <1>1, <3>1, Zenon DEF Sums
  <2>3. m # 1
    BY <2>2
  <2>4. m - 1 \in 1 .. n /\ ~(m <= m - 1)
    BY <1>2, <2>3
  <2>5. g[1] <= g[m - 1]
    BY <2>1, <2>4, Zenon
  <2> QED BY <1>2, <2>1, <2>2, <2>5
<1>5. Sums(a, h)
  <2>0. /\ \A i \in 0 .. n : g[i] \in Nat
        /\ \A i \in 1 .. n : g[1] <= g[i] /\ g[i] = g[i - 1] + q[i].rAmount
    BY <1>1, <1>4, Zenon DEF Sums
  <2>1. h \in [0 .. n - 1 -> Nat] /\ h[0] = 0
    <3>1. ASSUME NEW i \in 0 .. n - 1 PROVE g[i + 1] - g[1] \in Nat
      <4>1. i + 1 \in 1 .. n /\ i + 1 \in 0 .. n /\ 1 \in 0 .. n
        BY <1>2
      <4> QED BY <2>0, <4>1
    <3>2. 0 \in 0 .. n - 1 /\ 1 \in 0 .. n /\ 0 + 1 = 1
      BY <1>2
    <3>3. h[0] = g[1] - g[1]
      BY <3>2
    <3>4. h \in [0 .. n - 1 -> Nat]
      BY <3>1, Zenon
    <3> HIDE DEF h
    <3> QED BY <2>0, <3>2, <3>3, <3>4
  <2>2. ASSUME NEW i \in 1 .. n - 1 PROVE h[i] = h[i - 1] + a[i].rAmount
    <3> HIDE DEF a
    <3>1. /\ i + 1 \in 1 .. n /\ (i + 1) - 1 = i /\ i \in 0 .. n - 1 /\ i - 1 \in 0 .. n - 1
          /\ (i - 1) + 1 = i /\ i \in 0 .. n /\ 1 \in 0 .. n
      BY <1>2
    <3>2. h[i] = g[i + 1] - g[1] /\ h[i - 1] = g[i] - g[1]
      BY <3>1
    <3>3. g[i + 1] = g[i] + a[i].rAmount /\ a[i] = q[i + 1]
      BY <1>3, <2>0, <3>1
    <3> HIDE DEF h
    <3> QED BY <1>2, <2>0, <3>1, <3>2, <3>3
  <2> HIDE DEF h
  <2> QED BY <1>3, <2>1, <2>2 DEF Sums
<1>6. sumOf(a) = h[n - 1] /\ sumOf(q) = g[n]
  <2> HIDE DEF a, h
  <2> QED BY <1>1, <1>3, <1>5, SumIs
<1>7. g[1] = q[1].rAmount
  BY <1>1, <1>2 DEF Sums
<1> QED BY <1>2, <1>6, <1>7

\* The sum after one refill has been replaced
LEMMA SumReplace ==
  ASSUME NEW q \in Seq(Refill), NEW j \in 1 .. Len(q), NEW r \in Refill
  PROVE  sumOf([q EXCEPT ![j] = r]) = sumOf(q) - q[j].rAmount + r.rAmount
<1>1. PICK g : Sums(q, g)
  BY SumsExist, Zenon
<1> DEFINE n == Len(q)
           a == [q EXCEPT ![j] = r]
           d == r.rAmount - q[j].rAmount
           h == [i \in 0 .. n |-> IF i >= j THEN g[i] + d ELSE g[i]]
           T == {m \in j .. n : ~(q[j].rAmount <= g[m])}
<1>2. n \in Nat /\ r.rAmount \in Nat /\ \A i \in 1 .. n : q[i].rAmount \in Nat
  BY Elements, RefillFacts, Zenon
<1>3. a \in Seq(Refill) /\ Len(a) = n /\ \A i \in 1 .. n : a[i] = IF i = j THEN r ELSE q[i]
  OBVIOUS
<1>4. T = {}
  <2> SUFFICES ASSUME T # {} PROVE FALSE
    OBVIOUS
  <2>1. PICK m \in T : \A y \in T : m <= y
    <3>1. T \subseteq Nat
      BY <1>2
    <3> HIDE DEF T
    <3> QED BY <3>1, LeastOfSet, Zenon
  <2>2. m \in 1 .. n /\ g[m] = g[m - 1] + q[m].rAmount /\ g[m - 1] \in Nat
    <3>1. m \in 1 .. n /\ m - 1 \in 0 .. n
      BY <1>2
    <3> HIDE DEF T
    <3> QED BY <1>1, <3>1, Zenon DEF Sums
  <2>3. m # j
    BY <1>2, <2>2
  <2>4. m - 1 \in j .. n /\ ~(m <= m - 1)
    BY <1>2, <2>3
  <2>5. q[j].rAmount <= g[m - 1]
    BY <2>1, <2>4, Zenon
  <2> QED BY <1>2, <2>1, <2>2, <2>5
<1>5. Sums(a, h)
  <2>0. /\ g[0] = 0 /\ \A i \in 0 .. n : g[i] \in Nat
        /\ \A i \in 1 .. n : g[i] = g[i - 1] + q[i].rAmount
        /\ \A i \in j .. n : q[j].rAmount <= g[i]
    BY <1>1, <1>4, Zenon DEF Sums
  <2>1. h \in [0 .. n -> Nat] /\ h[0] = 0
    BY <1>2, <2>0
  <2>2. ASSUME NEW i \in 1 .. n PROVE h[i] = h[i - 1] + a[i].rAmount
    <3> HIDE DEF a
    <3>1. /\ i \in 0 .. n /\ i - 1 \in 0 .. n /\ i \in Int /\ j \in Int
          /\ g[i] = g[i - 1] + q[i].rAmount /\ a[i] = IF i = j THEN r ELSE q[i]
      BY <1>2, <1>3, <2>0
    <3>2. h[i] = (IF i >= j THEN g[i] + d ELSE g[i]) /\ h[i - 1] = (IF i - 1 >= j THEN g[i - 1] + d ELSE g[i - 1])
      BY <3>1
    <3> HIDE DEF h
    <3>3. g[i] \in Nat /\ g[i - 1] \in Nat /\ r.rAmount \in Nat /\ q[j].rAmount \in Nat
      BY <1>2, <2>0, <3>1
    <3>4. CASE i = j
      <4>1. h[i] = g[i] + d /\ h[i - 1] = g[i - 1] /\ a[i] = r /\ q[i] = q[j]
        BY <3>1, <3>2, <3>4
      <4> QED BY <3>1, <3>3, <4>1
    <3>5. CASE i # j
      <4>1. a[i] = q[i] /\ (i >= j <=> i - 1 >= j) /\ q[i].rAmount \in Nat
        BY <1>2, <3>1, <3>5
      <4> HIDE DEF d
      <4>2. d \in Int
        BY <3>3 DEF d
      <4> QED BY <3>1, <3>2, <3>3, <4>1, <4>2
    <3> QED BY <3>4, <3>5
  <2> HIDE DEF h
  <2> QED BY <1>3, <2>1, <2>2 DEF Sums
<1>6. sumOf(a) = h[n] /\ sumOf(q) = g[n]
  <2> HIDE DEF a, h
  <2> QED BY <1>1, <1>3, <1>5, SumIs
<1>7. g[n] \in Nat /\ h[n] = g[n] + d
  <2>1. n \in 0 .. n /\ n >= j
    BY <1>2
  <2> QED BY <1>1, <2>1 DEF Sums
<1> QED BY <1>2, <1>6, <1>7

-----------------------------------------------------------------------------
(* The operations on a queue *)

\* QueueInv of the refills alone
Queue(q, p) ==
  /\ \A i \in 1 .. Len(q) : q[i].rAmount > 0 /\ q[i].rTime <= q[1].rTime + p
  /\ \A i \in 1 .. Len(q) - 1 : q[i].rTime + q[i].rAmount <= q[i + 1].rTime

\* A queue with another tail, no earlier than the one it had
LEMMA QueueTail ==
  ASSUME NEW q \in Seq(Refill), Len(q) >= 1, NEW p \in Nat, Queue(q, p), NEW r \in Refill,
         r.rAmount > 0, r.rTime >= q[Len(q)].rTime, r.rTime <= q[1].rTime + p,
         Len(q) = 1 => r.rTime = q[1].rTime
  PROVE  Queue([q EXCEPT ![Len(q)] = r], p)
<1> DEFINE n == Len(q)
           a == [q EXCEPT ![n] = r]
<1>1. n \in Nat /\ n \in 1 .. n /\ 1 \in 1 .. n /\ \A i \in 1 .. n : q[i].rTime \in Nat /\ q[i].rAmount \in Nat
  BY Elements
<1>2. Len(a) = n /\ \A i \in 1 .. n : a[i] = IF i = n THEN r ELSE q[i]
  BY <1>1, Replaced
<1>3. r.rTime \in Nat /\ r.rAmount \in Nat
  BY RefillFacts, Zenon
<1> HIDE DEF a
<1>4. a[1].rTime = q[1].rTime
  BY <1>1, <1>2
<1>5. ASSUME NEW i \in 1 .. n PROVE a[i].rAmount > 0 /\ a[i].rTime <= a[1].rTime + p
  BY <1>2, <1>4, Zenon DEF Queue
<1>6. ASSUME NEW i \in 1 .. n - 1 PROVE a[i].rTime + a[i].rAmount <= a[i + 1].rTime
  <2>1. i \in 1 .. n /\ i + 1 \in 1 .. n /\ i # n /\ a[i] = q[i] /\ q[i + 1].rTime <= a[i + 1].rTime
    BY <1>1, <1>2
  <2>2. q[i].rTime + q[i].rAmount <= q[i + 1].rTime
    BY Zenon DEF Queue
  <2>3. a[i + 1].rTime \in Nat
    BY <1>1, <1>2, <1>3, <2>1, Zenon
  <2> QED BY <1>1, <2>1, <2>2, <2>3
<1> QED BY <1>2, <1>5, <1>6, Zenon DEF Queue, a

\* A queue with one more refill, after the tail
LEMMA QueueAppend ==
  ASSUME NEW q \in Seq(Refill), Len(q) >= 1, NEW p \in Nat, Queue(q, p), NEW r \in Refill,
         r.rAmount > 0, q[Len(q)].rTime + q[Len(q)].rAmount <= r.rTime, r.rTime <= q[1].rTime + p
  PROVE  Queue(Append(q, r), p)
<1> DEFINE n == Len(q)
           a == Append(q, r)
<1>1. n \in Nat /\ n \in 1 .. n /\ 1 \in 1 .. n /\ 1 # n + 1
  BY Elements
<1>2. Len(a) = n + 1 /\ \A i \in 1 .. n + 1 : a[i] = IF i = n + 1 THEN r ELSE q[i]
  OBVIOUS
<1> HIDE DEF a
<1>3. a[1] = q[1]
  BY <1>1, <1>2
<1>4. ASSUME NEW i \in 1 .. n + 1 PROVE a[i].rAmount > 0 /\ a[i].rTime <= a[1].rTime + p
  <2>1. i = n + 1 \/ i \in 1 .. n
    BY <1>1
  <2> QED BY <1>2, <1>3, <2>1, Zenon DEF Queue
<1>5. ASSUME NEW i \in 1 .. n PROVE a[i].rTime + a[i].rAmount <= a[i + 1].rTime
  <2>1. i \in 1 .. n + 1 /\ i + 1 \in 1 .. n + 1 /\ i # n + 1 /\ (i = n \/ (i \in 1 .. n - 1 /\ i + 1 # n + 1))
    BY <1>1
  <2>2. CASE i = n
    BY <1>2, <2>1, <2>2, Zenon
  <2>3. CASE i \in 1 .. n - 1 /\ i + 1 # n + 1
    BY <1>2, <2>1, <2>3, Zenon DEF Queue
  <2> QED BY <2>1, <2>2, <2>3, Zenon
<1>6. (n + 1) - 1 = n
  BY <1>1
<1> QED BY <1>2, <1>4, <1>5, <1>6, Zenon DEF Queue, a

\* A queue without its head
LEMMA QueuePop ==
  ASSUME NEW q \in Seq(Refill), Len(q) >= 2, NEW p \in Nat, Queue(q, p)
  PROVE  /\ Queue(Tail(q), p) /\ Tail(q) \in Seq(Refill) /\ Len(Tail(q)) = Len(q) - 1
         /\ \A i \in 1 .. Len(q) - 1 : Tail(q)[i] = q[i + 1]
<1> DEFINE n == Len(q)
           a == Tail(q)
<1>1. n \in Nat /\ \A i \in 1 .. n : q[i].rTime \in Nat /\ q[i].rAmount \in Nat
  BY Elements, Zenon
<1>2. a \in Seq(Refill) /\ Len(a) = n - 1 /\ \A i \in 1 .. n - 1 : a[i] = q[i + 1]
  OBVIOUS
<1> HIDE DEF a
<1>3. 1 \in 1 .. n - 1 /\ 1 \in 1 .. n /\ 2 \in 1 .. n /\ 1 + 1 = 2
  BY <1>1
<1>4. a[1] = q[2] /\ q[1].rTime <= q[2].rTime
  <2>1. q[1].rTime + q[1].rAmount <= q[2].rTime /\ a[1] = q[2]
    BY <1>2, <1>3, Zenon DEF Queue
  <2> QED BY <1>1, <1>3, <2>1
<1>5. ASSUME NEW i \in 1 .. n - 1 PROVE a[i].rAmount > 0 /\ a[i].rTime <= a[1].rTime + p
  <2>1. i + 1 \in 1 .. n /\ a[i] = q[i + 1]
    BY <1>1, <1>2
  <2>2. q[i + 1].rAmount > 0 /\ q[i + 1].rTime <= q[1].rTime + p
    BY <2>1, Zenon DEF Queue
  <2> QED BY <1>1, <1>3, <1>4, <2>1, <2>2
<1>6. ASSUME NEW i \in 1 .. (n - 1) - 1 PROVE a[i].rTime + a[i].rAmount <= a[i + 1].rTime
  <2>1. i \in 1 .. n - 1 /\ i + 1 \in 1 .. n - 1
    BY <1>1
  <2>2. q[i + 1].rTime + q[i + 1].rAmount <= q[(i + 1) + 1].rTime
    BY <2>1, Zenon DEF Queue
  <2> QED BY <1>2, <2>1, <2>2, Zenon
<1> QED BY <1>2, <1>5, <1>6, Zenon DEF Queue, a

\* A queue with another head, no earlier than the one it had and still before the next
LEMMA QueueHead ==
  ASSUME NEW q \in Seq(Refill), Len(q) >= 1, NEW p \in Nat, Queue(q, p), NEW r \in Refill,
         r.rAmount > 0, r.rTime >= q[1].rTime, Len(q) >= 2 => r.rTime + r.rAmount <= q[2].rTime
  PROVE  Queue([q EXCEPT ![1] = r], p)
<1> DEFINE n == Len(q)
           a == [q EXCEPT ![1] = r]
<1>1. n \in Nat /\ 1 \in 1 .. n /\ \A i \in 1 .. n : q[i].rTime \in Nat /\ q[i].rAmount \in Nat
  BY Elements
<1>2. Len(a) = n /\ \A i \in 1 .. n : a[i] = IF i = 1 THEN r ELSE q[i]
  BY <1>1, Replaced
<1>3. r.rTime \in Nat /\ r.rAmount \in Nat
  BY RefillFacts, Zenon
<1> HIDE DEF a
<1>4. a[1] = r
  BY <1>1, <1>2
<1>5. ASSUME NEW i \in 1 .. n PROVE a[i].rAmount > 0 /\ a[i].rTime <= a[1].rTime + p
  <2>1. CASE i = 1
    BY <1>3, <1>4, <2>1
  <2>2. CASE i # 1
    <3>1. a[i] = q[i] /\ q[i].rAmount > 0 /\ q[i].rTime <= q[1].rTime + p
      BY <1>2, <2>2, Zenon DEF Queue
    <3> QED BY <1>1, <1>3, <1>4, <3>1
  <2> QED BY <2>1, <2>2, Zenon
<1>6. ASSUME NEW i \in 1 .. n - 1 PROVE a[i].rTime + a[i].rAmount <= a[i + 1].rTime
  <2>1. i \in 1 .. n /\ i + 1 \in 1 .. n /\ i + 1 # 1 /\ n >= 2 /\ 1 + 1 = 2
    BY <1>1
  <2> QED BY <1>2, <2>1, Zenon DEF Queue
<1> QED BY <1>2, <1>5, <1>6, Zenon DEF Queue, a

\* s1 is s with refills in order, none later than X
Keeps(s, s1, X) ==
  /\ s1 \in Context
  /\ s1.period = s.period /\ s1.max = s.max /\ s1.sporadic = s.sporadic /\ s1.budget = s.budget
  /\ Len(s1.refills) \in 1 .. s1.max
  /\ Queue(s1.refills, s1.period)
  /\ \A i \in 1 .. Len(s1.refills) : s1.refills[i].rTime <= X

\* A context has refills, and they are records of numbers
LEMMA ContextFacts ==
  ASSUME NEW s \in Context
  PROVE  /\ s.refills \in Seq(Refill) /\ Len(s.refills) \in Nat
         /\ s.period \in Nat /\ s.max \in Nat /\ s.budget \in Nat /\ s.sporadic \in BOOLEAN
         /\ \A i \in 1 .. Len(s.refills) :
              /\ s.refills[i] \in Refill
              /\ s.refills[i].rTime \in Nat /\ s.refills[i].rAmount \in Nat
              /\ s.refills[i] = [rTime |-> s.refills[i].rTime, rAmount |-> s.refills[i].rAmount]
<1>1. s.refills \in Seq(Refill)
  BY DEF Context
<1>2. \A r \in Refill : r.rTime \in Nat /\ r.rAmount \in Nat /\ r = [rTime |-> r.rTime, rAmount |-> r.rAmount]
  BY DEF Refill
<1>3. Len(s.refills) \in Nat /\ \A i \in 1 .. Len(s.refills) : s.refills[i] \in Refill
  BY <1>1
<1>4. s.period \in Nat /\ s.max \in Nat /\ s.budget \in Nat /\ s.sporadic \in BOOLEAN
  BY DEF Context
<1> QED BY <1>1, <1>2, <1>3, <1>4, Zenon

\* A queue that is in order has a head, and it is not empty
LEMMA HeadFacts ==
  ASSUME NEW s \in Context, Len(s.refills) \in 1 .. s.max, Queue(s.refills, s.period)
  PROVE  /\ Len(s.refills) \in Nat /\ s.max \in Nat /\ s.period \in Nat
         /\ Len(s.refills) >= 1 /\ Len(s.refills) <= s.max /\ 1 \in 1 .. Len(s.refills)
         /\ s.refills[1] \in Refill /\ s.refills[1].rTime \in Nat
         /\ s.refills[1].rAmount \in Nat /\ s.refills[1].rAmount > 0
<1>1. Len(s.refills) \in Nat /\ s.max \in Nat /\ s.period \in Nat
  BY ContextFacts, Zenon
<1>2. Len(s.refills) >= 1 /\ Len(s.refills) <= s.max /\ 1 \in 1 .. Len(s.refills)
  BY <1>1
<1> QED BY <1>1, <1>2, ContextFacts, Zenon DEF Queue

\* A context with other refills
LEMMA ContextWith ==
  ASSUME NEW s \in Context, NEW q \in Seq(Refill)
  PROVE  LET s1 == [s EXCEPT !.refills = q]
         IN /\ s1 \in Context /\ s1.refills = q
            /\ s1.period = s.period /\ s1.max = s.max /\ s1.sporadic = s.sporadic /\ s1.budget = s.budget
  BY DEF Context

\* A context with other refills that are in order
LEMMA WithRefills ==
  ASSUME NEW s \in Context, NEW q \in Seq(Refill), NEW X,
         Len(q) \in 1 .. s.max, Queue(q, s.period), \A i \in 1 .. Len(q) : q[i].rTime <= X
  PROVE  /\ Keeps(s, [s EXCEPT !.refills = q], X)
         /\ [s EXCEPT !.refills = q].refills = q
<1> DEFINE s1 == [s EXCEPT !.refills = q]
<1>1. /\ s1 \in Context /\ s1.refills = q
      /\ s1.period = s.period /\ s1.max = s.max /\ s1.sporadic = s.sporadic /\ s1.budget = s.budget
  BY ContextWith, Zenon
<1> HIDE DEF s1
<1> QED BY <1>1, Zenon DEF Keeps, s1

\* Keeping is transitive, with the later bound
LEMMA KeepsTwice ==
  ASSUME NEW s, NEW s1, NEW s2, NEW X, NEW Y, Keeps(s, s1, X), Keeps(s1, s2, Y)
  PROVE  Keeps(s, s2, Y)
  BY Zenon DEF Keeps

\* Used time goes to the tail: into it, behind it, or, when the buffer is full, the
\* tail is put off.  The new refill is not before the tail, nor more than a period
\* after the head; so the order is kept, and the head is not touched.
LEMMA ScheduleUsed ==
  ASSUME NEW s \in Context, NEW new \in Refill, NEW X \in Int,
         Len(s.refills) \in 1 .. s.max, s.max >= 2, Queue(s.refills, s.period),
         new.rAmount > 0, new.rTime <= X,
         \A i \in 1 .. Len(s.refills) : s.refills[i].rTime <= new.rTime,
         new.rTime <= s.refills[1].rTime + s.period
  PROVE  /\ Keeps(s, schedule_used(s, new), X)
         /\ refill_sum(schedule_used(s, new)) = refill_sum(s) + new.rAmount
         /\ schedule_used(s, new).refills[1].rTime = s.refills[1].rTime
         /\ schedule_used(s, new).refills[1].rAmount >= s.refills[1].rAmount
<1> DEFINE q == s.refills
           n == Len(q)
           p == s.period
           t == q[n]
<1>1. /\ q \in Seq(Refill) /\ n \in Nat /\ n >= 1 /\ p \in Nat /\ s.max \in Nat
      /\ \A i \in 1 .. n : q[i] \in Refill /\ q[i].rTime \in Nat /\ q[i].rAmount \in Nat
  <2>1. n \in 1 .. s.max
    OBVIOUS
  <2>2. /\ q \in Seq(Refill) /\ n \in Nat /\ p \in Nat /\ s.max \in Nat
        /\ \A i \in 1 .. n : q[i] \in Refill /\ q[i].rTime \in Nat /\ q[i].rAmount \in Nat
    BY ContextFacts, Zenon
  <2> HIDE DEF n, q, p
  <2> QED BY <2>1, <2>2
<1>2. new.rTime \in Nat /\ new.rAmount \in Nat /\ new.rAmount > 0 /\ new.rTime <= X
  BY RefillFacts, Zenon
<1>3. n \in 1 .. n /\ t.rTime \in Nat /\ t.rAmount \in Nat /\ 1 \in 1 .. n
  <2>1. n \in 1 .. n /\ 1 \in 1 .. n
    BY <1>1
  <2> QED BY <1>1, <2>1, Zenon
<1>4. /\ Queue(q, p) /\ (\A i \in 1 .. n : q[i].rTime <= new.rTime) /\ new.rTime <= q[1].rTime + p
      /\ n <= s.max /\ s.max >= 2
  <2>1. n \in 1 .. s.max
    OBVIOUS
  <2> HIDE DEF n, q, p
  <2>2. n <= s.max
    BY <1>1, <2>1
  <2> QED BY <2>2, Zenon DEF n, q, p
<1>9. /\ t.rTime <= new.rTime /\ t.rAmount > 0 /\ (n = 1 => t = q[1]) /\ t.rTime <= q[1].rTime + p
      /\ q[1].rTime \in Nat /\ q[1].rAmount \in Nat /\ p \in Nat /\ new.rTime <= q[1].rTime + p
  BY <1>1, <1>3, <1>4, Zenon DEF Queue
<1>5. CASE t.rTime + t.rAmount >= new.rTime
  <2> DEFINE r == [rTime |-> t.rTime, rAmount |-> t.rAmount + new.rAmount]
             q1 == [q EXCEPT ![n] = r]
  <2>1. r \in Refill /\ r.rTime = t.rTime /\ r.rAmount = t.rAmount + new.rAmount
    BY <1>2, <1>3 DEF Refill
  <2>2. schedule_used(s, new) = [s EXCEPT !.refills = q1]
    <3>1. schedule_used(s, new) = [s EXCEPT !.refills[n].rAmount = t.rAmount + new.rAmount]
      BY <1>5, Zenon DEF schedule_used
    <3>2. [q EXCEPT ![n].rAmount = t.rAmount + new.rAmount] = q1
      <4>1. t \in Refill
        BY <1>1, <1>3, Zenon
      <4>2. t = [rTime |-> t.rTime, rAmount |-> t.rAmount]
        BY <4>1, RefillFacts, Zenon
      <4>3. [t EXCEPT !.rAmount = t.rAmount + new.rAmount] = r
        BY <4>2
      <4> HIDE DEF t, r
      <4> QED BY <4>3, Zenon DEF t
    <3>3. [s EXCEPT !.refills[n].rAmount = t.rAmount + new.rAmount]
            = [s EXCEPT !.refills = [q EXCEPT ![n].rAmount = t.rAmount + new.rAmount]]
      BY DEF Context
    <3> QED BY <3>1, <3>2, <3>3, Zenon
  <2> HIDE DEF r
  <2>3. q1 \in Seq(Refill) /\ Len(q1) = n /\ \A i \in 1 .. n : q1[i] = IF i = n THEN r ELSE q[i]
    BY <1>1, <1>3, <2>1, Replaced
  <2>4. sumOf(q1) = sumOf(q) - t.rAmount + r.rAmount
    BY <1>1, <1>3, <2>1, SumReplace, Zenon
  <2>5. Queue(q1, p)
    <3>1. r.rAmount > 0 /\ r.rTime >= t.rTime /\ r.rTime <= q[1].rTime + p /\ (n = 1 => r.rTime = q[1].rTime)
      <4> HIDE DEF t, n, q, p
      <4> QED BY <1>2, <1>3, <1>9, <2>1
    <3> HIDE DEF r
    <3> QED BY <1>1, <1>4, <2>1, <3>1, QueueTail, Zenon
  <2> HIDE DEF q1
  <2>8. ASSUME NEW i \in 1 .. n PROVE q1[i].rTime <= X
    <3>1. (q1[i] = q[i] \/ q1[i].rTime = r.rTime) /\ q[i].rTime \in Nat
      BY <1>1, <2>3, Zenon
    <3>2. q[i].rTime <= new.rTime
      BY <1>4, Zenon
    <3>3. r.rTime <= new.rTime
      <4> HIDE DEF t, n, q, p
      <4> QED BY <1>2, <1>3, <1>9, <2>1
    <3>4. q1[i].rTime \in Nat /\ q1[i].rTime <= new.rTime
      BY <1>3, <2>1, <2>3, <3>1, <3>2, <3>3, Elements, Zenon
    <3> QED BY <1>2, <3>4
  <2>6. Keeps(s, [s EXCEPT !.refills = q1], X) /\ [s EXCEPT !.refills = q1].refills = q1
    BY <2>3, <2>5, <2>8, WithRefills
  <2>7. sumOf(q1) = sumOf(q) + new.rAmount /\ q1[1].rTime = q[1].rTime /\ q1[1].rAmount >= q[1].rAmount
    <3>1. sumOf(q) \in Nat
      BY <1>1, SumBounds, Zenon
    <3>2. (n = 1 /\ q1[1] = r) \/ (n # 1 /\ q1[1] = q[1])
      BY <1>3, <2>3, Zenon
    <3> HIDE DEF t, n, q, p
    <3>3. sumOf(q1) = sumOf(q) + new.rAmount
      BY <1>2, <1>3, <2>1, <2>4, <3>1
    <3>4. q1[1].rTime = q[1].rTime /\ q1[1].rAmount >= q[1].rAmount
      BY <1>2, <1>3, <1>9, <2>1, <3>2
    <3> QED BY <3>3, <3>4
  <2> QED BY <2>2, <2>6, <2>7 DEF refill_sum
<1>6. CASE ~(t.rTime + t.rAmount >= new.rTime) /\ n < s.max
  <2> DEFINE q1 == Append(q, new)
  <2>2. schedule_used(s, new) = [s EXCEPT !.refills = q1]
    BY <1>6, Zenon DEF schedule_used
  <2>3. q1 \in Seq(Refill) /\ Len(q1) = n + 1 /\ \A i \in 1 .. n + 1 : q1[i] = IF i = n + 1 THEN new ELSE q[i]
    <3> HIDE DEF q, n
    <3> QED BY <1>1 DEF n
  <2>4. sumOf(q1) = sumOf(q) + new.rAmount
    BY <1>1, SumAppend, Zenon
  <2>5. Queue(q1, p)
    <3>1. t.rTime + t.rAmount <= new.rTime
      BY <1>2, <1>3, <1>6
    <3> QED BY <1>1, <1>2, <1>4, <3>1, QueueAppend, Zenon
  <2> HIDE DEF q1
  <2>8. ASSUME NEW i \in 1 .. n + 1 PROVE q1[i].rTime <= X
    <3>1. q1[i] = new \/ (i \in 1 .. n /\ q1[i] = q[i])
      BY <1>1, <2>3
    <3> QED BY <1>1, <1>2, <1>4, <3>1
  <2>6. Keeps(s, [s EXCEPT !.refills = q1], X) /\ [s EXCEPT !.refills = q1].refills = q1
    <3>1. Len(q1) \in 1 .. s.max
      BY <1>1, <1>6, <2>3
    <3>2. \A i \in 1 .. Len(q1) : q1[i].rTime <= X
      BY <2>3, <2>8, Zenon
    <3> QED BY <2>3, <2>5, <3>1, <3>2, WithRefills, Zenon
  <2>7. q1[1].rTime = q[1].rTime /\ q1[1].rAmount >= q[1].rAmount
    <3>1. 1 \in 1 .. n + 1 /\ 1 # n + 1
      BY <1>1
    <3>2. q1[1] = q[1]
      BY <2>3, <3>1, Zenon
    <3> QED BY <1>9, <3>2
  <2> QED BY <2>2, <2>4, <2>6, <2>7 DEF refill_sum
<1>7. CASE ~(t.rTime + t.rAmount >= new.rTime) /\ ~(n < s.max)
  <2> DEFINE r == [rTime |-> new.rTime - t.rAmount, rAmount |-> t.rAmount + new.rAmount]
             q1 == [q EXCEPT ![n] = r]
  <2>1. r \in Refill /\ r.rTime = new.rTime - t.rAmount /\ r.rAmount = t.rAmount + new.rAmount
    <3>1. new.rTime - t.rAmount \in Nat /\ t.rAmount + new.rAmount \in Nat
      <4> HIDE DEF t, n
      <4> QED BY <1>2, <1>3, <1>7
    <3> QED BY <3>1 DEF Refill
  <2>2. schedule_used(s, new) = [s EXCEPT !.refills = q1]
    <3>1. schedule_used(s, new) = [s EXCEPT !.refills[n] = r]
      BY <1>7, Zenon DEF schedule_used
    <3> QED BY <3>1 DEF Context
  <2> HIDE DEF r
  <2>3. q1 \in Seq(Refill) /\ Len(q1) = n /\ \A i \in 1 .. n : q1[i] = IF i = n THEN r ELSE q[i]
    BY <1>1, <1>3, <2>1, Replaced
  <2>4. sumOf(q1) = sumOf(q) - t.rAmount + r.rAmount
    BY <1>1, <1>3, <2>1, SumReplace, Zenon
  <2>5. Queue(q1, p)
    <3>1. r.rAmount > 0 /\ r.rTime >= t.rTime /\ r.rTime <= q[1].rTime + p /\ (n = 1 => r.rTime = q[1].rTime)
      <4> HIDE DEF t, n, q, p
      <4>1. n # 1
        BY <1>1, <1>4, <1>7
      <4>2. t.rTime + t.rAmount < new.rTime
        BY <1>2, <1>3, <1>7
      <4>3. r.rAmount > 0 /\ r.rTime >= t.rTime
        BY <1>2, <1>3, <1>9, <2>1, <4>2
      <4>4. r.rTime <= q[1].rTime + p
        BY <1>2, <1>3, <1>9, <2>1
      <4> QED BY <4>1, <4>3, <4>4
    <3> HIDE DEF r
    <3> QED BY <1>1, <1>4, <2>1, <3>1, QueueTail, Zenon
  <2> HIDE DEF q1
  <2>8. ASSUME NEW i \in 1 .. n PROVE q1[i].rTime <= X
    <3>1. (q1[i] = q[i] \/ q1[i].rTime = r.rTime) /\ q[i].rTime \in Nat
      BY <1>1, <2>3, Zenon
    <3>2. q[i].rTime <= new.rTime
      BY <1>4, Zenon
    <3>3. r.rTime <= new.rTime
      <4> HIDE DEF t, n, q, p
      <4> QED BY <1>2, <1>3, <1>9, <2>1
    <3>4. q1[i].rTime \in Nat /\ q1[i].rTime <= new.rTime
      BY <1>3, <2>1, <2>3, <3>1, <3>2, <3>3, Elements, Zenon
    <3> QED BY <1>2, <3>4
  <2>6. Keeps(s, [s EXCEPT !.refills = q1], X) /\ [s EXCEPT !.refills = q1].refills = q1
    BY <2>3, <2>5, <2>8, WithRefills
  <2>7. sumOf(q1) = sumOf(q) + new.rAmount /\ q1[1].rTime = q[1].rTime /\ q1[1].rAmount >= q[1].rAmount
    <3>1. sumOf(q) \in Nat
      BY <1>1, SumBounds, Zenon
    <3>2. (n = 1 /\ q1[1] = r) \/ (n # 1 /\ q1[1] = q[1])
      BY <1>3, <2>3, Zenon
    <3> HIDE DEF t, n, q, p
    <3>3. sumOf(q1) = sumOf(q) + new.rAmount
      BY <1>2, <1>3, <2>1, <2>4, <3>1
    <3>4. q1[1].rTime = q[1].rTime /\ q1[1].rAmount >= q[1].rAmount
      <4>1. n # 1
        BY <1>1, <1>4, <1>7
      <4> QED BY <1>9, <3>2, <4>1
    <3> QED BY <3>3, <3>4
  <2> QED BY <2>2, <2>6, <2>7 DEF refill_sum
<1> QED BY <1>5, <1>6, <1>7

\* The queue without its head is in order, and no refill is further from the new head
LEMMA PopHead ==
  ASSUME NEW s \in Context, NEW X, Len(s.refills) \in 2 .. s.max, Queue(s.refills, s.period),
         \A i \in 1 .. Len(s.refills) : s.refills[i].rTime <= X
  PROVE  /\ Keeps(s, refill_pop_head(s), X)
         /\ refill_sum(refill_pop_head(s)) = refill_sum(s) - s.refills[1].rAmount
         /\ Len(refill_pop_head(s).refills) = Len(s.refills) - 1
         /\ \A i \in 1 .. Len(s.refills) - 1 : refill_pop_head(s).refills[i] = s.refills[i + 1]
<1> DEFINE q == s.refills
           n == Len(q)
           q1 == Tail(q)
<1>1. /\ q \in Seq(Refill) /\ n \in Nat /\ n >= 2 /\ n <= s.max /\ s.period \in Nat /\ s.max \in Nat
      /\ \A i \in 1 .. n : q[i].rTime \in Nat /\ q[i].rAmount \in Nat
  <2>1. n \in 2 .. s.max
    OBVIOUS
  <2>2. /\ q \in Seq(Refill) /\ n \in Nat /\ s.period \in Nat /\ s.max \in Nat
        /\ \A i \in 1 .. n : q[i].rTime \in Nat /\ q[i].rAmount \in Nat
    BY ContextFacts, Zenon
  <2> HIDE DEF n, q
  <2> QED BY <2>1, <2>2
<1>2. refill_pop_head(s) = [s EXCEPT !.refills = q1]
  BY Zenon DEF refill_pop_head
<1>3. /\ Queue(q1, s.period) /\ q1 \in Seq(Refill) /\ Len(q1) = n - 1
      /\ \A i \in 1 .. n - 1 : q1[i] = q[i + 1]
  BY <1>1, QueuePop
<1>4. sumOf(q1) = sumOf(q) - q[1].rAmount
  BY <1>1, SumTail
<1> HIDE DEF q1
<1>5. ASSUME NEW i \in 1 .. n - 1 PROVE q1[i].rTime <= X
  <2>1. i + 1 \in 1 .. n
    BY <1>1
  <2> QED BY <1>3, <2>1, Zenon
<1>6. Keeps(s, [s EXCEPT !.refills = q1], X) /\ [s EXCEPT !.refills = q1].refills = q1
  <2>1. Len(q1) \in 1 .. s.max
    BY <1>1, <1>3
  <2> QED BY <1>3, <1>5, <2>1, WithRefills
<1> QED BY <1>2, <1>3, <1>4, <1>6 DEF refill_sum

\* The refills after the head has been replaced
LEMMA SetHead ==
  ASSUME NEW s \in Context, NEW r \in Refill, Len(s.refills) >= 1
  PROVE  /\ setHead(s, r) = [s EXCEPT !.refills = [s.refills EXCEPT ![1] = r]]
         /\ [s.refills EXCEPT ![1] = r] \in Seq(Refill)
         /\ Len([s.refills EXCEPT ![1] = r]) = Len(s.refills)
         /\ \A i \in 1 .. Len(s.refills) : [s.refills EXCEPT ![1] = r][i] = IF i = 1 THEN r ELSE s.refills[i]
         /\ sumOf([s.refills EXCEPT ![1] = r]) = sumOf(s.refills) - s.refills[1].rAmount + r.rAmount
<1>1. s.refills \in Seq(Refill) /\ Len(s.refills) \in Nat /\ 1 \in 1 .. Len(s.refills)
  BY ContextFacts
<1>2. setHead(s, r) = [s EXCEPT !.refills = [s.refills EXCEPT ![1] = r]]
  BY DEF setHead, Context
<1>3. sumOf([s.refills EXCEPT ![1] = r]) = sumOf(s.refills) - s.refills[1].rAmount + r.rAmount
  BY <1>1, SumReplace, Zenon
<1> QED BY <1>1, <1>2, <1>3

\* The head is charged whole and comes back a period later
LEMMA ChargeEntire ==
  ASSUME NEW s \in Context, NEW X \in Int,
         Len(s.refills) \in 1 .. s.max, s.max >= 2, Queue(s.refills, s.period),
         s.refills[1].rTime + s.period <= X
  PROVE  /\ Keeps(s, charge_entire_head_refill(s), X)
         /\ refill_sum(charge_entire_head_refill(s)) = refill_sum(s)
<1> DEFINE q == s.refills
           n == Len(q)
           h == q[1]
           d == [rTime |-> h.rTime + s.period, rAmount |-> h.rAmount]
<1>1. /\ q \in Seq(Refill) /\ n \in Nat /\ n >= 1 /\ n <= s.max /\ s.period \in Nat /\ s.max \in Nat
      /\ \A i \in 1 .. n : q[i].rTime \in Nat /\ q[i].rAmount \in Nat
  <2>1. n \in 1 .. s.max
    OBVIOUS
  <2>2. /\ q \in Seq(Refill) /\ n \in Nat /\ s.period \in Nat /\ s.max \in Nat
        /\ \A i \in 1 .. n : q[i].rTime \in Nat /\ q[i].rAmount \in Nat
    BY ContextFacts, Zenon
  <2> HIDE DEF n, q
  <2> QED BY <2>1, <2>2
<1>2. h.rTime \in Nat /\ h.rAmount \in Nat /\ h.rAmount > 0 /\ \A i \in 1 .. n : q[i].rTime <= h.rTime + s.period
  BY <1>1 DEF Queue
<1>3. d \in Refill /\ d.rTime = h.rTime + s.period /\ d.rAmount = h.rAmount
  BY <1>1, <1>2 DEF Refill
<1>4. [refill_head(s) EXCEPT !.rTime = @ + s.period] = d
  <2>1. 1 \in 1 .. n
    BY <1>1
  <2>2. refill_head(s) = h /\ h = [rTime |-> h.rTime, rAmount |-> h.rAmount]
    BY <2>1, ContextFacts, Zenon DEF refill_head
  <2> HIDE DEF h
  <2> QED BY <2>2
<1>5. charge_entire_head_refill(s) = IF n = 1 THEN setHead(s, d) ELSE schedule_used(refill_pop_head(s), d)
  BY <1>4, Zenon DEF charge_entire_head_refill, refill_single
<1> HIDE DEF d
<1>6. sumOf(q) \in Nat
  BY <1>1, SumBounds, Zenon
<1>7. CASE n = 1
  <2> DEFINE q1 == [q EXCEPT ![1] = d]
  <2>1. /\ setHead(s, d) = [s EXCEPT !.refills = q1] /\ q1 \in Seq(Refill) /\ Len(q1) = n
        /\ \A i \in 1 .. n : q1[i] = IF i = 1 THEN d ELSE q[i]
        /\ sumOf(q1) = sumOf(q) - h.rAmount + d.rAmount
    BY <1>1, <1>3, SetHead
  <2> HIDE DEF q1
  <2>2. Queue(q1, s.period) /\ \A i \in 1 .. n : q1[i].rTime <= X
    BY <1>1, <1>2, <1>3, <1>7, <2>1 DEF Queue
  <2>3. Keeps(s, [s EXCEPT !.refills = q1], X) /\ [s EXCEPT !.refills = q1].refills = q1
    BY <1>1, <2>1, <2>2, WithRefills
  <2>4. sumOf(q1) = sumOf(q)
    BY <1>2, <1>3, <1>6, <2>1
  <2> QED BY <1>5, <1>7, <2>1, <2>3, <2>4, Zenon DEF refill_sum
<1>8. CASE n # 1
  <2> DEFINE s1 == refill_pop_head(s)
  <2>1. n \in 2 .. s.max /\ \A i \in 1 .. n : q[i].rTime <= X
    <3>1. h.rTime + s.period <= X
      OBVIOUS
    <3> HIDE DEF h, n, q
    <3> QED BY <1>1, <1>2, <1>8, <3>1
  <2>2. /\ Keeps(s, s1, X) /\ refill_sum(s1) = refill_sum(s) - h.rAmount
        /\ Len(s1.refills) = n - 1 /\ \A i \in 1 .. n - 1 : s1.refills[i] = q[i + 1]
    BY <2>1, PopHead, Zenon
  <2> HIDE DEF s1
  <2>3. /\ s1 \in Context /\ Len(s1.refills) \in 1 .. s1.max /\ s1.max >= 2
        /\ Queue(s1.refills, s1.period) /\ s1.period = s.period
    BY <2>2 DEF Keeps
  <2>4. \A i \in 1 .. Len(s1.refills) : s1.refills[i].rTime <= d.rTime
    <3> SUFFICES ASSUME NEW i \in 1 .. n - 1 PROVE s1.refills[i].rTime <= d.rTime
      BY <2>2
    <3>1. i + 1 \in 1 .. n /\ s1.refills[i] = q[i + 1]
      BY <1>1, <2>2
    <3> QED BY <1>2, <1>3, <3>1
  <2>5. d.rTime <= s1.refills[1].rTime + s1.period
    <3>1. 2 \in 1 .. n /\ 1 \in 1 .. n - 1 /\ s1.refills[1] = q[2] /\ q[1].rTime + q[1].rAmount <= q[2].rTime
      BY <1>1, <2>1, <2>2 DEF Queue
    <3> QED BY <1>1, <1>2, <1>3, <2>3, <3>1
  <2>6. /\ Keeps(s1, schedule_used(s1, d), X)
        /\ refill_sum(schedule_used(s1, d)) = refill_sum(s1) + d.rAmount
    <3>1. d.rAmount > 0 /\ d.rTime <= X
      BY <1>2, <1>3
    <3> QED BY <1>3, <2>3, <2>4, <2>5, <3>1, ScheduleUsed, Zenon
  <2>7. Keeps(s, schedule_used(s1, d), X)
    BY <2>2, <2>6, KeepsTwice, Zenon
  <2>8. refill_sum(schedule_used(s1, d)) = refill_sum(s)
    BY <1>2, <1>3, <1>6, <2>2, <2>6 DEF refill_sum
  <2> QED BY <1>5, <1>8, <2>7, <2>8, Zenon DEF s1
<1> QED BY <1>7, <1>8

-----------------------------------------------------------------------------
(* The loop of handle_overrun *)

\* What holds before every round: the time left is charged to the head, and does not
\* put a refill later than X
OverrunInv(s, X, o) ==
  /\ Keeps(s, o.sc, X) /\ refill_sum(o.sc) = refill_sum(s)
  /\ o.usage \in Nat
  /\ X >= MAX_RELEASE_TIME + s.period - 1 \/ o.usage <= o.sc.refills[1].rAmount
  /\ o.usage > 0 /\ o.sc.refills[1].rTime < MAX_RELEASE_TIME => o.sc.refills[1].rTime + s.period <= X

\* The loop is a sequence of rounds
LEMMA OverrunRounds ==
  ASSUME NEW s, NEW usage \in Nat
  PROVE  \E g : /\ g[0] = [sc |-> s, usage |-> usage]
                /\ \A i \in 1 .. usage : g[i] = overrunRound(g[i - 1])
                /\ handle_overrun(s, usage) = g[usage]
<1> DEFINE a == [sc |-> s, usage |-> usage]
           R(f, m) == [i \in 0 .. m |-> IF i = 0 THEN a ELSE overrunRound(f[i - 1])]
           P(m) == \E f : f = R(f, m)
           T == {m \in 0 .. usage : ~P(m)}
           g == CHOOSE f : f = R(f, usage)
<1> HIDE DEF a
<1>1. T = {}
  <2> SUFFICES ASSUME T # {} PROVE FALSE
    OBVIOUS
  <2>1. PICK m \in T : \A y \in T : m <= y
    <3>1. T \subseteq Nat
      OBVIOUS
    <3> HIDE DEF T
    <3> QED BY <3>1, LeastOfSet, Zenon
  <2>2. P(0)
    <3> DEFINE f == [i \in 0 .. 0 |-> a]
    <3>1. f = R(f, 0)
      OBVIOUS
    <3> QED BY <3>1, Zenon
  <2>3. m # 0
    BY <2>2, Zenon
  <2>4. m \in Nat /\ m - 1 \in 0 .. usage /\ ~(m <= m - 1)
    BY <2>3
  <2>5. P(m - 1)
    <3> HIDE DEF P
    <3> QED BY <2>1, <2>4, Zenon
  <2>6. PICK f : f = R(f, m - 1)
    BY <2>5, Zenon
  <2> DEFINE h == [i \in 0 .. m |-> IF i = m THEN overrunRound(f[m - 1]) ELSE f[i]]
  <2>7. \A i \in 0 .. m : h[i] = IF i = 0 THEN a ELSE overrunRound(h[i - 1])
    <3> TAKE i \in 0 .. m
    <3>1. CASE i = 0
      BY <2>3, <2>4, <2>6, <3>1
    <3>2. CASE i = m
      BY <2>3, <2>4, <3>2
    <3>3. CASE i # 0 /\ i # m
      <4>1. i \in 0 .. m - 1 /\ i - 1 \in 0 .. m /\ i - 1 # m
        BY <2>4, <3>3
      <4>2. f[i] = overrunRound(f[i - 1])
        BY <2>6, <3>3, <4>1, Zenon
      <4> QED BY <3>3, <4>1, <4>2, Zenon
    <3> QED BY <3>1, <3>2, <3>3
  <2>8. h = R(h, m)
    <3>1. h = [i \in 0 .. m |-> h[i]]
      BY Zenon
    <3> HIDE DEF h
    <3>2. [i \in 0 .. m |-> h[i]] = R(h, m)
      BY <2>7, Zenon
    <3> QED BY <3>1, <3>2, Zenon
  <2>9. P(m)
    <3> HIDE DEF R, h
    <3> QED BY <2>8, Zenon
  <2> QED BY <2>1, <2>9, Zenon
<1>2. g = R(g, usage)
  <2>1. P(usage)
    <3>1. usage \in 0 .. usage
      OBVIOUS
    <3> HIDE DEF P
    <3> QED BY <1>1, <3>1, Zenon
  <2> HIDE DEF R
  <2> QED BY <2>1, Zenon
<1>3. handle_overrun(s, usage) = g[usage]
  BY Zenon DEF handle_overrun, a
<1> HIDE DEF g
<1>4. g[0] = a /\ \A i \in 1 .. usage : g[i] = overrunRound(g[i - 1])
  <2>1. 0 \in 0 .. usage /\ \A i \in 1 .. usage : i \in 0 .. usage /\ i # 0
    OBVIOUS
  <2> QED BY <1>2, <2>1, Zenon
<1> QED BY <1>3, <1>4, Zenon DEF a

\* One round keeps the invariant, and charges a tick at least
LEMMA OverrunStep ==
  ASSUME NEW s \in Context, s.max >= 2, NEW X \in Int, NEW o, OverrunInv(s, X, o)
  PROVE  /\ OverrunInv(s, X, overrunRound(o))
         /\ head_refill_overrun(o.sc, o.usage) => overrunRound(o).usage < o.usage
<1>1. CASE ~head_refill_overrun(o.sc, o.usage)
  BY <1>1, Zenon DEF overrunRound
<1>2. CASE head_refill_overrun(o.sc, o.usage)
  <2> DEFINE s1 == o.sc
             h == s1.refills[1]
             s2 == charge_entire_head_refill(s1)
  <2>1. overrunRound(o) = [sc |-> s2, usage |-> o.usage - h.rAmount]
    BY <1>2, Zenon DEF overrunRound, refill_head
  <2>2. /\ s1 \in Context /\ Len(s1.refills) \in 1 .. s1.max /\ s1.max >= 2 /\ s1.max = s.max
        /\ Queue(s1.refills, s1.period) /\ s1.period = s.period
    BY DEF OverrunInv, Keeps
  <2>3. /\ h.rTime \in Nat /\ h.rAmount \in Nat /\ h.rAmount > 0
        /\ h.rAmount <= o.usage /\ h.rTime < MAX_RELEASE_TIME
    BY <1>2, <2>2, HeadFacts, Zenon DEF head_refill_overrun, refill_head
  <2>4. o.usage \in Nat /\ o.usage > 0 /\ MAX_RELEASE_TIME \in Nat /\ s.period \in Nat
    BY <2>3, SporadicConstants, ContextFacts DEF OverrunInv
  <2>5. s1.refills[1].rTime + s1.period <= X
    BY <2>2, <2>3, <2>4 DEF OverrunInv
  <2>6. Keeps(s1, s2, X) /\ refill_sum(s2) = refill_sum(s1)
    BY <2>2, <2>5, ChargeEntire, Zenon
  <2> HIDE DEF s2
  <2>7. Keeps(s, s2, X) /\ refill_sum(s2) = refill_sum(s)
    BY <2>6, KeepsTwice, Zenon DEF OverrunInv
  <2>8. /\ s2 \in Context /\ s2.refills[1].rTime \in Nat /\ s2.refills[1].rAmount \in Nat
        /\ s2.refills[1].rTime <= X
    <3>1. /\ s2 \in Context /\ Len(s2.refills) \in 1 .. s2.max /\ Queue(s2.refills, s2.period)
          /\ \A i \in 1 .. Len(s2.refills) : s2.refills[i].rTime <= X
      BY <2>7, Zenon DEF Keeps
    <3> QED BY <3>1, HeadFacts, Zenon
  <2>9. /\ X >= MAX_RELEASE_TIME + s.period - 1 \/ o.usage - h.rAmount <= s2.refills[1].rAmount
        /\ o.usage - h.rAmount > 0 /\ s2.refills[1].rTime < MAX_RELEASE_TIME
           => s2.refills[1].rTime + s.period <= X
    <3>1. X >= MAX_RELEASE_TIME + s.period - 1 \/ o.usage <= h.rAmount
      BY Zenon DEF OverrunInv
    <3> HIDE DEF h
    <3> QED BY <2>3, <2>4, <2>8, <3>1
  <2>10. o.usage - h.rAmount \in Nat /\ o.usage - h.rAmount < o.usage
    <3> HIDE DEF h
    <3> QED BY <2>3, <2>4
  <2> DEFINE o2 == [sc |-> s2, usage |-> o.usage - h.rAmount]
  <2>11. o2.sc = s2 /\ o2.usage = o.usage - h.rAmount
    OBVIOUS
  <2> HIDE DEF o2, h
  <2>12. OverrunInv(s, X, o2)
    BY <2>7, <2>9, <2>10, <2>11, Zenon DEF OverrunInv
  <2> QED BY <2>1, <2>10, <2>11, <2>12, Zenon DEF o2
<1> QED BY <1>1, <1>2

\* The loop ends with less time than the head has, or with the head out of range;
\* when the head pays for all there is no round
LEMMA Overrun ==
  ASSUME NEW s \in Context, s.max >= 2, NEW X \in Int, NEW usage \in Nat,
         OverrunInv(s, X, [sc |-> s, usage |-> usage])
  PROVE  LET o == handle_overrun(s, usage)
         IN /\ OverrunInv(s, X, o)
            /\ ~head_refill_overrun(o.sc, o.usage)
            /\ ~head_refill_overrun(s, usage) => o = [sc |-> s, usage |-> usage]
<1>1. PICK g : /\ g[0] = [sc |-> s, usage |-> usage]
               /\ \A i \in 1 .. usage : g[i] = overrunRound(g[i - 1])
               /\ handle_overrun(s, usage) = g[usage]
  BY OverrunRounds, Zenon
<1> DEFINE I(i) == /\ OverrunInv(s, X, g[i])
                   /\ ~head_refill_overrun(g[i].sc, g[i].usage) \/ g[i].usage <= usage - i
                   /\ ~head_refill_overrun(s, usage) => g[i] = g[0]
           T == {i \in 0 .. usage : ~I(i)}
<1>2. g[0].usage = usage /\ g[0].sc = s
  BY <1>1
<1>3. I(0)
  BY <1>1, <1>2
<1>4. ASSUME NEW i \in 1 .. usage, I(i - 1) PROVE I(i)
  <2>1. g[i] = overrunRound(g[i - 1])
    BY <1>1, Zenon
  <2>2. /\ OverrunInv(s, X, g[i])
        /\ head_refill_overrun(g[i - 1].sc, g[i - 1].usage) => g[i].usage < g[i - 1].usage
    BY <1>4, <2>1, OverrunStep, Zenon
  <2>3. g[i].usage \in Nat /\ g[i - 1].usage \in Nat
    BY <1>4, <2>2, Zenon DEF OverrunInv
  <2>4. CASE ~head_refill_overrun(g[i - 1].sc, g[i - 1].usage)
    <3>1. g[i] = g[i - 1]
      BY <2>1, <2>4, Zenon DEF overrunRound
    <3> QED BY <1>4, <2>2, <2>4, <3>1, Zenon
  <2>5. CASE head_refill_overrun(g[i - 1].sc, g[i - 1].usage)
    <3>1. g[i - 1].usage <= usage - (i - 1) /\ g[i].usage < g[i - 1].usage
      BY <1>4, <2>2, <2>5, Zenon
    <3>2. g[i].usage <= usage - i
      BY <2>3, <3>1
    <3>3. head_refill_overrun(s, usage)
      BY <1>2, <1>4, <2>5, Zenon
    <3> QED BY <2>2, <3>2, <3>3, Zenon
  <2> QED BY <2>4, <2>5
<1>5. T = {}
  <2> SUFFICES ASSUME T # {} PROVE FALSE
    OBVIOUS
  <2> HIDE DEF I
  <2>1. PICK m \in T : \A y \in T : m <= y
    <3>1. T \subseteq Nat
      OBVIOUS
    <3> HIDE DEF T
    <3> QED BY <3>1, LeastOfSet, Zenon
  <2>2. m # 0
    BY <1>3, Zenon
  <2>3. m \in 1 .. usage /\ m - 1 \in 0 .. usage /\ ~(m <= m - 1)
    BY <2>2
  <2>4. I(m - 1)
    BY <2>1, <2>3, Zenon
  <2> QED BY <1>4, <2>1, <2>3, <2>4, Zenon
<1>6. I(usage)
  <2>1. usage \in 0 .. usage
    OBVIOUS
  <2> HIDE DEF I
  <2> QED BY <1>5, <2>1, Zenon
<1>7. ~head_refill_overrun(g[usage].sc, g[usage].usage)
  <2> SUFFICES ASSUME head_refill_overrun(g[usage].sc, g[usage].usage) PROVE FALSE
    OBVIOUS
  <2>1. g[usage].usage \in Nat /\ g[usage].usage <= usage - usage
    BY <1>6 DEF OverrunInv
  <2>2. /\ g[usage].sc \in Context /\ Len(g[usage].sc.refills) \in 1 .. g[usage].sc.max
        /\ Queue(g[usage].sc.refills, g[usage].sc.period)
    BY <1>6, Zenon DEF OverrunInv, Keeps
  <2>3. g[usage].sc.refills[1].rAmount > 0 /\ g[usage].sc.refills[1].rAmount \in Nat
    BY <2>2, HeadFacts, Zenon
  <2> QED BY <2>1, <2>3 DEF head_refill_overrun, refill_head
<1> QED BY <1>1, <1>6, <1>7, Zenon

-----------------------------------------------------------------------------
(* The loop that makes the head sufficient *)

\* The head goes into the next refill: the order, the sum and the end stay
LEMMA MergeNonoverlapping ==
  ASSUME NEW s \in Context, NEW X \in Int, Len(s.refills) \in 2 .. s.max, Queue(s.refills, s.period),
         \A i \in 1 .. Len(s.refills) : s.refills[i].rTime <= X
  PROVE  LET s1 == merge_nonoverlapping_head_refill(s)
         IN /\ Keeps(s, s1, X) /\ refill_sum(s1) = refill_sum(s)
            /\ Len(s1.refills) = Len(s.refills) - 1
<1> DEFINE q == s.refills
           n == Len(q)
           s1 == refill_pop_head(s)
           r == [rTime |-> q[2].rTime - q[1].rAmount, rAmount |-> q[2].rAmount + q[1].rAmount]
           q2 == [s1.refills EXCEPT ![1] = r]
<1>1. /\ q \in Seq(Refill) /\ n \in Nat /\ n >= 2 /\ n <= s.max /\ s.period \in Nat /\ s.max \in Nat
      /\ \A i \in 1 .. n : q[i].rTime \in Nat /\ q[i].rAmount \in Nat
  <2>1. n \in 2 .. s.max
    OBVIOUS
  <2>2. /\ q \in Seq(Refill) /\ n \in Nat /\ s.period \in Nat /\ s.max \in Nat
        /\ \A i \in 1 .. n : q[i].rTime \in Nat /\ q[i].rAmount \in Nat
    BY ContextFacts, Zenon
  <2> HIDE DEF n, q
  <2> QED BY <2>1, <2>2
<1>2. /\ q[1].rTime \in Nat /\ q[1].rAmount \in Nat /\ q[2].rTime \in Nat /\ q[2].rAmount \in Nat
      /\ q[1].rTime + q[1].rAmount <= q[2].rTime /\ q[2].rAmount > 0 /\ q[1].rAmount > 0
      /\ q[2].rTime <= X
  <2>1. 1 \in 1 .. n /\ 2 \in 1 .. n /\ 1 \in 1 .. n - 1 /\ 1 + 1 = 2
    BY <1>1
  <2> QED BY <1>1, <2>1, Zenon DEF Queue
<1>3. /\ r \in Refill /\ r.rTime = q[2].rTime - q[1].rAmount /\ r.rAmount = q[2].rAmount + q[1].rAmount
      /\ r.rTime >= q[1].rTime /\ r.rTime <= X
  <2>1. q[2].rTime - q[1].rAmount \in Nat /\ q[2].rAmount + q[1].rAmount \in Nat
    BY <1>2
  <2>2. r \in Refill /\ r.rTime = q[2].rTime - q[1].rAmount /\ r.rAmount = q[2].rAmount + q[1].rAmount
    BY <2>1 DEF Refill
  <2> HIDE DEF r
  <2> QED BY <1>2, <2>2
<1>4. merge_nonoverlapping_head_refill(s) = setHead(s1, r)
  BY Zenon DEF merge_nonoverlapping_head_refill, refill_head
<1>5. /\ Keeps(s, s1, X) /\ refill_sum(s1) = refill_sum(s) - q[1].rAmount
      /\ Len(s1.refills) = n - 1 /\ \A i \in 1 .. n - 1 : s1.refills[i] = q[i + 1]
  BY PopHead, Zenon
<1> HIDE DEF r, s1
<1>6. s1 \in Context /\ s1.max = s.max /\ s1.period = s.period
  BY <1>5, Zenon DEF Keeps
<1>7. /\ setHead(s1, r) = [s1 EXCEPT !.refills = q2] /\ q2 \in Seq(Refill) /\ Len(q2) = n - 1
      /\ \A i \in 1 .. n - 1 : q2[i] = IF i = 1 THEN r ELSE q[i + 1]
      /\ sumOf(q2) = sumOf(s1.refills) - s1.refills[1].rAmount + r.rAmount
  <2>1. Len(s1.refills) >= 1
    BY <1>1, <1>5
  <2>2. /\ setHead(s1, r) = [s1 EXCEPT !.refills = q2] /\ q2 \in Seq(Refill) /\ Len(q2) = Len(s1.refills)
        /\ \A i \in 1 .. Len(s1.refills) : q2[i] = IF i = 1 THEN r ELSE s1.refills[i]
        /\ sumOf(q2) = sumOf(s1.refills) - s1.refills[1].rAmount + r.rAmount
    BY <1>3, <1>6, <2>1, SetHead
  <2> HIDE DEF q2
  <2>3. \A i \in 1 .. n - 1 : q2[i] = IF i = 1 THEN r ELSE q[i + 1]
    BY <1>5, <2>2, Zenon
  <2> QED BY <1>5, <2>2, <2>3, Zenon
<1> HIDE DEF q2
<1>8. Queue(q2, s.period) /\ \A i \in 1 .. n - 1 : q2[i].rTime <= X
  <2>1. ASSUME NEW i \in 1 .. n - 1
        PROVE  q2[i].rAmount > 0 /\ q2[i].rTime <= q2[1].rTime + s.period /\ q2[i].rTime <= X
    <3>0. 1 \in 1 .. n - 1
      BY <1>1
    <3>1. q2[1] = r
      BY <1>7, <3>0, Zenon
    <3>2. CASE i = 1
      <4>1. q2[i] = r /\ q2[1] = r /\ s.period \in Nat
        BY <1>1, <3>1, <3>2, Zenon
      <4> HIDE DEF q, n
      <4> QED BY <1>2, <1>3, <4>1
    <3>3. CASE i # 1
      <4>1. i + 1 \in 1 .. n /\ q2[i] = q[i + 1]
        <5>1. i + 1 \in 1 .. n
          BY <1>1
        <5> QED BY <1>7, <3>3, <5>1, Zenon
      <4>2. q[i + 1].rAmount > 0 /\ q[i + 1].rTime <= q[1].rTime + s.period /\ q[i + 1].rTime <= X
        BY <4>1, Zenon DEF Queue
      <4>3. q[i + 1].rTime \in Nat /\ s.period \in Nat
        BY <1>1, <4>1, Zenon
      <4> HIDE DEF q, n
      <4>4. r.rTime \in Nat
        BY <1>3, RefillFacts, Zenon
      <4>5. q[i + 1].rTime <= r.rTime + s.period
        BY <1>2, <1>3, <4>2, <4>3, <4>4
      <4> QED BY <3>1, <4>1, <4>2, <4>5, Zenon
    <3> QED BY <3>2, <3>3, Zenon
  <2>2. ASSUME NEW i \in 1 .. (n - 1) - 1 PROVE q2[i].rTime + q2[i].rAmount <= q2[i + 1].rTime
    <3>1. i \in 1 .. n - 1 /\ i + 1 \in 1 .. n - 1 /\ i + 1 # 1 /\ i \in Int
      BY <1>1
    <3>2. q[i + 1].rTime + q[i + 1].rAmount <= q[(i + 1) + 1].rTime /\ q2[i + 1] = q[(i + 1) + 1]
      BY <1>7, <3>1, Zenon DEF Queue
    <3>3. q2[i].rTime + q2[i].rAmount = q[i + 1].rTime + q[i + 1].rAmount
      <4>1. CASE i = 1
        <5>1. q2[i] = r /\ i + 1 = 2
          BY <1>7, <3>1, <4>1
        <5> QED BY <1>2, <1>3, <5>1
      <4>2. CASE i # 1
        BY <1>7, <3>1, <4>2, Zenon
      <4> QED BY <4>1, <4>2, Zenon
    <3> QED BY <3>2, <3>3, Zenon
  <2> QED BY <1>7, <2>1, <2>2, Zenon DEF Queue
<1>9. Keeps(s1, [s1 EXCEPT !.refills = q2], X) /\ [s1 EXCEPT !.refills = q2].refills = q2
  <2>1. Len(q2) \in 1 .. s1.max
    BY <1>1, <1>6, <1>7
  <2>2. \A i \in 1 .. Len(q2) : q2[i].rTime <= X
    BY <1>7, <1>8, Zenon
  <2> QED BY <1>6, <1>7, <1>8, <2>1, <2>2, WithRefills, Zenon
<1>10. Keeps(s, [s1 EXCEPT !.refills = q2], X)
  BY <1>5, <1>9, KeepsTwice, Zenon
<1>11. sumOf(q2) = sumOf(q)
  <2>1. sumOf(q) \in Nat /\ s1.refills[1] = q[2] /\ sumOf(s1.refills) = sumOf(q) - q[1].rAmount
    <3>1. 1 \in 1 .. n - 1 /\ 1 + 1 = 2
      BY <1>1
    <3> QED BY <1>1, <1>5, <3>1, SumBounds, Zenon DEF refill_sum
  <2> QED BY <1>2, <1>3, <1>7, <2>1
<1> QED BY <1>4, <1>7, <1>9, <1>10, <1>11, Zenon DEF refill_sum

\* What holds before every round of the loop
InsufficientInv(s, X, o) == Keeps(s, o, X) /\ refill_sum(o) = refill_sum(s)

\* The loop is a sequence of rounds
LEMMA InsufficientRounds ==
  ASSUME NEW s, Len(s.refills) \in Nat
  PROVE  \E g : /\ g[0] = s
                /\ \A i \in 1 .. Len(s.refills) : g[i] = insufficientRound(g[i - 1])
                /\ merge_insufficient(s) = g[Len(s.refills)]
<1> DEFINE n == Len(s.refills)
           R(f, m) == [i \in 0 .. m |-> IF i = 0 THEN s ELSE insufficientRound(f[i - 1])]
           P(m) == \E f : f = R(f, m)
           T == {m \in 0 .. n : ~P(m)}
           g == CHOOSE f : f = R(f, n)
<1>1. T = {}
  <2> SUFFICES ASSUME T # {} PROVE FALSE
    OBVIOUS
  <2>1. PICK m \in T : \A y \in T : m <= y
    <3>1. T \subseteq Nat
      OBVIOUS
    <3> HIDE DEF T
    <3> QED BY <3>1, LeastOfSet, Zenon
  <2>2. P(0)
    <3> DEFINE f == [i \in 0 .. 0 |-> s]
    <3>1. f = R(f, 0)
      OBVIOUS
    <3> QED BY <3>1, Zenon
  <2>3. m # 0
    BY <2>2, Zenon
  <2>4. m \in Nat /\ m - 1 \in 0 .. n /\ ~(m <= m - 1)
    BY <2>3
  <2>5. P(m - 1)
    <3> HIDE DEF P
    <3> QED BY <2>1, <2>4, Zenon
  <2>6. PICK f : f = R(f, m - 1)
    BY <2>5, Zenon
  <2> DEFINE h == [i \in 0 .. m |-> IF i = m THEN insufficientRound(f[m - 1]) ELSE f[i]]
  <2>7. \A i \in 0 .. m : h[i] = IF i = 0 THEN s ELSE insufficientRound(h[i - 1])
    <3> TAKE i \in 0 .. m
    <3>1. CASE i = 0
      BY <2>3, <2>4, <2>6, <3>1
    <3>2. CASE i = m
      BY <2>3, <2>4, <3>2
    <3>3. CASE i # 0 /\ i # m
      <4>1. i \in 0 .. m - 1 /\ i - 1 \in 0 .. m /\ i - 1 # m
        BY <2>4, <3>3
      <4>2. f[i] = insufficientRound(f[i - 1])
        BY <2>6, <3>3, <4>1, Zenon
      <4> QED BY <3>3, <4>1, <4>2, Zenon
    <3> QED BY <3>1, <3>2, <3>3
  <2>8. h = R(h, m)
    <3>1. h = [i \in 0 .. m |-> h[i]]
      BY Zenon
    <3> HIDE DEF h
    <3>2. [i \in 0 .. m |-> h[i]] = R(h, m)
      BY <2>7, Zenon
    <3> QED BY <3>1, <3>2, Zenon
  <2>9. P(m)
    <3> HIDE DEF R, h
    <3> QED BY <2>8, Zenon
  <2> QED BY <2>1, <2>9, Zenon
<1>2. g = R(g, n)
  <2>1. P(n)
    <3>1. n \in 0 .. n
      OBVIOUS
    <3> HIDE DEF P
    <3> QED BY <1>1, <3>1, Zenon
  <2> HIDE DEF R
  <2> QED BY <2>1, Zenon
<1>3. merge_insufficient(s) = g[n]
  BY Zenon DEF merge_insufficient
<1> HIDE DEF g
<1>4. g[0] = s /\ \A i \in 1 .. n : g[i] = insufficientRound(g[i - 1])
  <2>1. 0 \in 0 .. n /\ \A i \in 1 .. n : i \in 0 .. n /\ i # 0
    OBVIOUS
  <2> QED BY <1>2, <2>1, Zenon
<1> QED BY <1>3, <1>4, Zenon

\* One round keeps the invariant, and takes a refill off the queue
LEMMA InsufficientStep ==
  ASSUME NEW s \in Context, NEW X \in Int, NEW o, InsufficientInv(s, X, o)
  PROVE  /\ InsufficientInv(s, X, insufficientRound(o))
         /\ insufficientRound(o) # o => Len(insufficientRound(o).refills) < Len(o.refills)
<1>1. CASE insufficientRound(o) = o
  BY <1>1, Zenon
<1>2. CASE insufficientRound(o) # o
  <2> DEFINE o1 == merge_nonoverlapping_head_refill(o)
  <2>1. insufficientRound(o) = o1 /\ Len(o.refills) # 1
    BY <1>2, Zenon DEF insufficientRound, refill_single
  <2>2. /\ o \in Context /\ Len(o.refills) \in 2 .. o.max /\ Queue(o.refills, o.period)
        /\ \A i \in 1 .. Len(o.refills) : o.refills[i].rTime <= X
    <3>1. /\ o \in Context /\ Len(o.refills) \in 1 .. o.max /\ Queue(o.refills, o.period)
          /\ \A i \in 1 .. Len(o.refills) : o.refills[i].rTime <= X
      BY Zenon DEF InsufficientInv, Keeps
    <3>2. Len(o.refills) \in 2 .. o.max
      <4>1. Len(o.refills) \in Nat /\ o.max \in Nat /\ Len(o.refills) \in 1 .. o.max
        BY <3>1, ContextFacts, Zenon
      <4> QED BY <2>1, <4>1, MoreThanOne, Zenon
    <3> QED BY <3>1, <3>2, Zenon
  <2>3. Keeps(o, o1, X) /\ refill_sum(o1) = refill_sum(o) /\ Len(o1.refills) = Len(o.refills) - 1
    BY <2>2, MergeNonoverlapping, Zenon
  <2>4. Len(o1.refills) < Len(o.refills)
    BY <2>2, <2>3
  <2> HIDE DEF o1
  <2>5. InsufficientInv(s, X, o1)
    BY <2>3, KeepsTwice, Zenon DEF InsufficientInv
  <2> QED BY <2>1, <2>4, <2>5, Zenon
<1> QED BY <1>1, <1>2

\* The loop ends with a head that can pay for a kernel entry, and never pops the last
\* refill: that one is the whole budget
LEMMA MergeInsufficient ==
  ASSUME NEW s \in Context, NEW X \in Int, Keeps(s, s, X), refill_sum(s) >= MIN_BUDGET
  PROVE  LET s1 == merge_insufficient(s)
         IN /\ Keeps(s, s1, X) /\ refill_sum(s1) = refill_sum(s)
            /\ s1.refills[1].rAmount >= MIN_BUDGET
            /\ s.refills[1].rAmount >= MIN_BUDGET => s1 = s
<1> DEFINE n == Len(s.refills)
<1>1. n \in Nat /\ n >= 1
  BY HeadFacts, Zenon DEF Keeps
<1>2. PICK g : /\ g[0] = s
               /\ \A i \in 1 .. n : g[i] = insufficientRound(g[i - 1])
               /\ merge_insufficient(s) = g[n]
  BY <1>1, InsufficientRounds, Zenon
<1> DEFINE I(i) == /\ InsufficientInv(s, X, g[i])
                   /\ insufficientRound(g[i]) = g[i] \/ Len(g[i].refills) <= n - i
                   /\ s.refills[1].rAmount >= MIN_BUDGET => g[i] = s
           T == {i \in 0 .. n : ~I(i)}
<1>3. I(0)
  BY <1>1, <1>2 DEF InsufficientInv
<1>4. ASSUME NEW i \in 1 .. n, I(i - 1) PROVE I(i)
  <2>1. g[i] = insufficientRound(g[i - 1])
    BY <1>2, Zenon
  <2>2. InsufficientInv(s, X, g[i]) /\ (g[i] # g[i - 1] => Len(g[i].refills) < Len(g[i - 1].refills))
    BY <1>4, <2>1, InsufficientStep, Zenon
  <2>3. CASE g[i] = g[i - 1]
    BY <1>4, <2>1, <2>2, <2>3, Zenon
  <2>4. CASE g[i] # g[i - 1]
    <3>1. Len(g[i - 1].refills) <= n - (i - 1) /\ Len(g[i].refills) < Len(g[i - 1].refills)
      BY <1>4, <2>1, <2>2, <2>4, Zenon
    <3>2. Len(g[i].refills) \in Nat /\ Len(g[i - 1].refills) \in Nat
      BY <1>4, <2>2, ContextFacts, Zenon DEF InsufficientInv, Keeps
    <3>3. Len(g[i].refills) <= n - i
      <4> HIDE DEF n, I
      <4> QED BY <1>1, <3>1, <3>2
    <3>4. ~(s.refills[1].rAmount >= MIN_BUDGET)
      <4> SUFFICES ASSUME s.refills[1].rAmount >= MIN_BUDGET PROVE FALSE
        OBVIOUS
      <4>1. g[i - 1] = s
        BY <1>4, Zenon
      <4>2. ~head_refill_insufficient(s)
        <5>1. s.refills[1].rAmount \in Nat /\ MIN_BUDGET \in Nat
          BY HeadFacts, SporadicConstants, Zenon DEF Keeps
        <5> QED BY <5>1 DEF head_refill_insufficient, refill_head
      <4> QED BY <2>1, <2>4, <4>1, <4>2, Zenon DEF insufficientRound
    <3> QED BY <2>2, <3>3, <3>4, Zenon
  <2> QED BY <2>3, <2>4
<1>5. T = {}
  <2> SUFFICES ASSUME T # {} PROVE FALSE
    OBVIOUS
  <2> HIDE DEF I
  <2>1. PICK m \in T : \A y \in T : m <= y
    <3>1. T \subseteq Nat
      OBVIOUS
    <3> HIDE DEF T
    <3> QED BY <3>1, LeastOfSet, Zenon
  <2>2. m # 0
    BY <1>3, Zenon
  <2>3. m \in 1 .. n /\ m - 1 \in 0 .. n /\ ~(m <= m - 1)
    BY <1>1, <2>2
  <2>4. I(m - 1)
    BY <2>1, <2>3, Zenon
  <2> QED BY <1>4, <2>1, <2>3, <2>4, Zenon
<1>6. I(n)
  <2>1. n \in 0 .. n
    BY <1>1
  <2> HIDE DEF I
  <2> QED BY <1>5, <2>1, Zenon
<1> DEFINE s1 == g[n]
<1>7. s1 \in Context /\ Len(s1.refills) \in Nat /\ Len(s1.refills) >= 1 /\ s1.refills \in Seq(Refill)
  BY <1>6, ContextFacts, HeadFacts, Zenon DEF InsufficientInv, Keeps
<1>8. s1.refills[1].rAmount \in Nat /\ MIN_BUDGET \in Nat
  BY <1>6, HeadFacts, SporadicConstants, Zenon DEF InsufficientInv, Keeps
<1>9. insufficientRound(s1) = s1
  <2>1. insufficientRound(s1) = s1 \/ Len(s1.refills) <= n - n
    BY <1>6, Zenon
  <2> HIDE DEF n, s1
  <2> QED BY <1>1, <1>7, <2>1
<1>10. s1.refills[1].rAmount >= MIN_BUDGET
  <2>1. CASE Len(s1.refills) = 1
    <3>1. sumOf(s1.refills) = s1.refills[1].rAmount
      BY <1>7, <2>1, SumBounds, Zenon
    <3> QED BY <1>6, <3>1, Zenon DEF InsufficientInv, refill_sum
  <2>2. CASE Len(s1.refills) # 1
    <3> SUFFICES ASSUME ~(s1.refills[1].rAmount >= MIN_BUDGET) PROVE FALSE
      OBVIOUS
    <3>1. head_refill_insufficient(s1)
      BY <1>8 DEF head_refill_insufficient, refill_head
    <3>2. merge_nonoverlapping_head_refill(s1) = s1
      BY <1>9, <2>2, <3>1, Zenon DEF insufficientRound, refill_single
    <3>3. /\ Len(s1.refills) \in 2 .. s1.max /\ Queue(s1.refills, s1.period)
          /\ \A i \in 1 .. Len(s1.refills) : s1.refills[i].rTime <= X
      <4>1. /\ Len(s1.refills) \in 1 .. s1.max /\ Queue(s1.refills, s1.period) /\ s1.max \in Nat
            /\ \A i \in 1 .. Len(s1.refills) : s1.refills[i].rTime <= X
        BY <1>6, ContextFacts, Zenon DEF InsufficientInv, Keeps
      <4>2. Len(s1.refills) \in 2 .. s1.max
        <5>1. Len(s1.refills) \in 1 .. s1.max /\ s1.max \in Nat /\ Len(s1.refills) \in Nat
          BY <1>7, <4>1, Zenon
        <5> QED BY <2>2, <5>1, MoreThanOne, Zenon
      <4> QED BY <4>1, <4>2, Zenon
    <3>4. Len(s1.refills) = Len(s1.refills) - 1
      BY <1>7, <3>2, <3>3, MergeNonoverlapping, Zenon
    <3> QED BY <1>7, <3>4
  <2> QED BY <2>1, <2>2
<1> QED BY <1>2, <1>6, <1>10, Zenon DEF InsufficientInv

-----------------------------------------------------------------------------
(* Charging *)

\* The part of the head that was used goes behind the queue, and the head begins later
LEMMA ChargePart ==
  ASSUME NEW s \in Context, NEW X \in Int, NEW u \in Nat,
         Len(s.refills) \in 1 .. s.max, s.max >= 2, Queue(s.refills, s.period),
         u > 0, u < s.refills[1].rAmount, u <= s.period, s.refills[1].rTime + s.period <= X
  PROVE  LET used == [rTime |-> s.refills[1].rTime + s.period, rAmount |-> u]
             left == [rTime |-> s.refills[1].rTime + u, rAmount |-> s.refills[1].rAmount - u]
             s1 == schedule_used(setHead(s, left), used)
         IN /\ Keeps(s, s1, X) /\ refill_sum(s1) = refill_sum(s)
            /\ s1.refills[1].rTime = s.refills[1].rTime + u
            /\ s1.refills[1].rAmount >= s.refills[1].rAmount - u
<1> DEFINE q == s.refills
           n == Len(q)
           h == q[1]
           used == [rTime |-> h.rTime + s.period, rAmount |-> u]
           left == [rTime |-> h.rTime + u, rAmount |-> h.rAmount - u]
           q1 == [q EXCEPT ![1] = left]
           s1 == [s EXCEPT !.refills = q1]
<1>1. /\ q \in Seq(Refill) /\ n \in Nat /\ n >= 1 /\ n <= s.max /\ s.period \in Nat /\ s.max \in Nat
      /\ \A i \in 1 .. n : q[i].rTime \in Nat /\ q[i].rAmount \in Nat
  <2>1. n \in 1 .. s.max
    OBVIOUS
  <2>2. /\ q \in Seq(Refill) /\ n \in Nat /\ s.period \in Nat /\ s.max \in Nat
        /\ \A i \in 1 .. n : q[i].rTime \in Nat /\ q[i].rAmount \in Nat
    BY ContextFacts, Zenon
  <2> HIDE DEF n, q
  <2> QED BY <2>1, <2>2
<1>2. h.rTime \in Nat /\ h.rAmount \in Nat /\ 1 \in 1 .. n /\ s.period \in Nat
  BY HeadFacts, Zenon
<1>0. u \in Nat /\ u > 0 /\ u < h.rAmount /\ u <= s.period /\ h.rTime + s.period <= X
  OBVIOUS
<1>3. /\ used \in Refill /\ used.rTime = h.rTime + s.period /\ used.rAmount = u
      /\ left \in Refill /\ left.rTime = h.rTime + u /\ left.rAmount = h.rAmount - u
  <2> HIDE DEF h
  <2>1. h.rTime + s.period \in Nat /\ h.rTime + u \in Nat /\ h.rAmount - u \in Nat
    BY <1>0, <1>2
  <2> QED BY <1>0, <2>1 DEF Refill
<1> HIDE DEF used, left
<1>4. /\ setHead(s, left) = s1 /\ q1 \in Seq(Refill) /\ Len(q1) = n
      /\ \A i \in 1 .. n : q1[i] = IF i = 1 THEN left ELSE q[i]
      /\ sumOf(q1) = sumOf(q) - h.rAmount + left.rAmount
  BY <1>1, <1>3, SetHead
<1>5. Queue(q1, s.period)
  <2>1. left.rAmount > 0 /\ left.rTime >= h.rTime
    <3> HIDE DEF h
    <3> QED BY <1>0, <1>2, <1>3
  <2>2. n >= 2 => left.rTime + left.rAmount <= q[2].rTime
    <3> SUFFICES ASSUME n >= 2 PROVE left.rTime + left.rAmount <= q[2].rTime
      OBVIOUS
    <3>1. 1 \in 1 .. n - 1 /\ 1 + 1 = 2
      BY <1>1
    <3>2. h.rTime + h.rAmount <= q[2].rTime
      BY <3>1, Zenon DEF Queue
    <3>3. left.rTime + left.rAmount = h.rTime + h.rAmount
      <4>1. (h.rTime + u) + (h.rAmount - u) = h.rTime + h.rAmount
        BY <1>2, SameEnd, ZenonT(60)
      <4> HIDE DEF h
      <4> QED BY <1>3, <4>1, Zenon
    <3> QED BY <3>2, <3>3, Zenon
  <2> QED BY <1>1, <1>3, <2>1, <2>2, QueueHead, Zenon
<1> HIDE DEF q1
<1>14. ASSUME NEW i \in 1 .. n PROVE q1[i].rTime <= used.rTime
  <2>1. q1[i] = left \/ q1[i] = q[i]
    BY <1>4, Zenon
  <2>2. q[i].rTime <= used.rTime /\ left.rTime <= used.rTime
    <3>1. q[i].rTime <= h.rTime + s.period
      BY Zenon DEF Queue
    <3> HIDE DEF h
    <3> QED BY <1>0, <1>2, <1>3, <3>1
  <2> QED BY <2>1, <2>2, Zenon
<1>6. ASSUME NEW i \in 1 .. n PROVE q1[i].rTime <= X
  <2>1. q1[i].rTime <= used.rTime /\ q1[i].rTime \in Nat
    BY <1>4, <1>14, Elements, Zenon
  <2>2. used.rTime <= X /\ used.rTime \in Nat
    BY <1>0, <1>3, RefillFacts, Zenon
  <2> QED BY <2>1, <2>2
<1>7. Keeps(s, s1, X) /\ s1.refills = q1
  <2>1. Len(q1) \in 1 .. s.max /\ \A i \in 1 .. Len(q1) : q1[i].rTime <= X
    BY <1>4, <1>6, Zenon
  <2> QED BY <1>4, <1>5, <2>1, WithRefills, Zenon
<1> HIDE DEF s1
<1>8. /\ s1 \in Context /\ Len(s1.refills) \in 1 .. s1.max /\ s1.max >= 2 /\ Queue(s1.refills, s1.period)
      /\ s1.period = s.period
  BY <1>7, Zenon DEF Keeps
<1>12. s1.refills[1] = left
  BY <1>2, <1>4, <1>7, Zenon
<1>9. used.rAmount > 0 /\ used.rTime <= X /\ used.rTime <= s1.refills[1].rTime + s1.period
  <2> HIDE DEF h
  <2> QED BY <1>0, <1>2, <1>3, <1>8, <1>12
<1>10. /\ Keeps(s1, schedule_used(s1, used), X)
       /\ refill_sum(schedule_used(s1, used)) = refill_sum(s1) + used.rAmount
       /\ schedule_used(s1, used).refills[1].rTime = s1.refills[1].rTime
       /\ schedule_used(s1, used).refills[1].rAmount >= s1.refills[1].rAmount
  <2>1. \A i \in 1 .. Len(s1.refills) : s1.refills[i].rTime <= used.rTime
    BY <1>4, <1>7, <1>14, Zenon
  <2> QED BY <1>3, <1>8, <1>9, <2>1, ScheduleUsed, Zenon
<1>11. Keeps(s, schedule_used(s1, used), X)
  BY <1>7, <1>10, KeepsTwice, Zenon
<1>13. refill_sum(s1) + used.rAmount = refill_sum(s)
  <2>1. sumOf(q) \in Nat
    BY <1>1, SumBounds, Zenon
  <2>2. refill_sum(s1) = sumOf(q) - h.rAmount + left.rAmount /\ refill_sum(s) = sumOf(q)
    BY <1>4, <1>7, Zenon DEF refill_sum
  <2> HIDE DEF h, q
  <2> QED BY <1>0, <1>2, <1>3, <2>1, <2>2
<1> QED BY <1>3, <1>4, <1>10, <1>11, <1>12, <1>13, Zenon DEF used, left

\* A charge keeps the order and the sum and leaves a head that can pay for a kernel
\* entry, whatever was used; refills come back no later than X, a period after the
\* last of the heads that were charged
LEMMA BudgetCheck ==
  ASSUME NEW s \in Context, NEW X \in Int, NEW usage \in Nat,
         Len(s.refills) \in 1 .. s.max, s.max >= 2, Queue(s.refills, s.period),
         refill_sum(s) <= s.period, refill_sum(s) >= MIN_BUDGET,
         s.refills[1].rTime + s.period <= X,
         X >= MAX_RELEASE_TIME + s.period - 1 \/ usage <= s.refills[1].rAmount
  PROVE  LET s1 == refill_budget_check(s, usage)
         IN /\ Keeps(s, s1, X) /\ refill_sum(s1) = refill_sum(s)
            /\ s1.refills[1].rAmount >= MIN_BUDGET
            /\ s.refills[1].rAmount >= usage + MIN_BUDGET => s1.refills[1].rTime <= s.refills[1].rTime + usage
<1> DEFINE a == [sc |-> s, usage |-> usage]
           o == handle_overrun(s, usage)
           s0 == o.sc
           u == o.usage
           h == s0.refills[1]
           used == [rTime |-> h.rTime + s.period, rAmount |-> u]
           left == [rTime |-> h.rTime + u, rAmount |-> h.rAmount - u]
           charged == IF u > 0 /\ h.rTime < MAX_RELEASE_TIME
                      THEN schedule_used(setHead(s0, left), used) ELSE s0
<1>1. /\ s.refills \in Seq(Refill) /\ Len(s.refills) \in Nat /\ s.period \in Nat /\ s.max \in Nat
      /\ s.refills[1].rTime \in Nat /\ s.refills[1].rAmount \in Nat
      /\ MIN_BUDGET \in Nat /\ MIN_BUDGET > 0 /\ MAX_RELEASE_TIME \in Nat
  <2>1. MIN_BUDGET \in Nat /\ MIN_BUDGET > 0 /\ MAX_RELEASE_TIME \in Nat
    BY SporadicConstants
  <2> QED BY <2>1, ContextFacts, HeadFacts, Zenon
<1>2. Keeps(s, s, X)
  <2>1. ASSUME NEW i \in 1 .. Len(s.refills) PROVE s.refills[i].rTime <= X
    <3>1. s.refills[i].rTime <= s.refills[1].rTime + s.period /\ s.refills[i].rTime \in Nat
      BY ContextFacts, Zenon DEF Queue
    <3>2. s.refills[1].rTime + s.period \in Int /\ s.refills[i].rTime \in Int
      BY <1>1, <3>1
    <3> QED BY <3>1, <3>2, AtMost, Zenon
  <2> QED BY <2>1, Zenon DEF Keeps
<1>3. OverrunInv(s, X, a)
  <2>1. a.sc = s /\ a.usage = usage
    OBVIOUS
  <2> HIDE DEF a
  <2> QED BY <1>2, <2>1, Zenon DEF OverrunInv
<1>4. /\ OverrunInv(s, X, o) /\ ~head_refill_overrun(s0, u)
      /\ ~head_refill_overrun(s, usage) => o = a
  BY <1>3, Overrun, Zenon
<1>5. refill_budget_check(s, usage) = merge_insufficient(charged)
  BY Zenon DEF refill_budget_check, refill_head
<1> HIDE DEF o
<1>6. /\ Keeps(s, s0, X) /\ refill_sum(s0) = refill_sum(s) /\ u \in Nat
      /\ u > 0 /\ h.rTime < MAX_RELEASE_TIME => h.rTime + s.period <= X
  BY <1>4, Zenon DEF OverrunInv
<1>7. /\ s0 \in Context /\ Len(s0.refills) \in 1 .. s0.max /\ s0.max >= 2 /\ Queue(s0.refills, s0.period)
      /\ s0.period = s.period /\ h.rTime \in Nat /\ h.rAmount \in Nat /\ s0.refills \in Seq(Refill)
      /\ h.rAmount <= refill_sum(s0)
  <2>1. /\ s0 \in Context /\ Len(s0.refills) \in 1 .. s0.max /\ s0.max >= 2 /\ Queue(s0.refills, s0.period)
        /\ s0.period = s.period
    BY <1>6, Zenon DEF Keeps
  <2>2. s0.refills \in Seq(Refill) /\ 1 \in 1 .. Len(s0.refills)
    BY <2>1, ContextFacts, HeadFacts, Zenon
  <2>3. h.rAmount <= refill_sum(s0)
    BY <2>2, SumBounds, Zenon DEF refill_sum
  <2>4. h.rTime \in Nat /\ h.rAmount \in Nat
    BY <2>1, <2>2, ContextFacts, Zenon
  <2> QED BY <2>1, <2>2, <2>3, <2>4, Zenon
<1>8. /\ Keeps(s, charged, X) /\ refill_sum(charged) = refill_sum(s)
      /\ charged.refills[1].rTime <= h.rTime + u /\ charged.refills[1].rAmount >= h.rAmount - u
  <2>1. CASE u > 0 /\ h.rTime < MAX_RELEASE_TIME
    <3>1. u < h.rAmount
      <4>1. ~(h.rAmount <= u)
        BY <1>4, <2>1, Zenon DEF head_refill_overrun, refill_head
      <4> HIDE DEF h, u
      <4> QED BY <1>6, <1>7, <4>1
    <3>2. u <= s0.period /\ h.rTime + s0.period <= X
      <4>1. refill_sum(s) \in Nat
        BY <1>1, SumBounds, Zenon DEF refill_sum
      <4> HIDE DEF h, u, s0
      <4>2. h.rAmount <= s0.period
        BY <1>1, <1>6, <1>7, <4>1
      <4> QED BY <1>1, <1>6, <1>7, <2>1, <3>1, <4>2
    <3>3. charged = schedule_used(setHead(s0, left), used)
      BY <2>1, Zenon
    <3>4. /\ Keeps(s0, charged, X) /\ refill_sum(charged) = refill_sum(s0)
          /\ charged.refills[1].rTime = h.rTime + u
          /\ charged.refills[1].rAmount >= h.rAmount - u
      <4>1. used = [rTime |-> s0.refills[1].rTime + s0.period, rAmount |-> u]
        BY <1>7, Zenon
      <4> DEFINE c == schedule_used(setHead(s0, left),
                                    [rTime |-> s0.refills[1].rTime + s0.period, rAmount |-> u])
      <4>2. u \in Nat /\ u > 0 /\ u < s0.refills[1].rAmount
        BY <1>6, <2>1, <3>1, Zenon
      <4>3. charged = c
        BY <3>3, <4>1, Zenon
      <4> HIDE DEF charged, s0, u, o
      <4>4. /\ Keeps(s0, c, X) /\ refill_sum(c) = refill_sum(s0)
            /\ c.refills[1].rTime = s0.refills[1].rTime + u
            /\ c.refills[1].rAmount >= s0.refills[1].rAmount - u
        BY <1>7, <3>2, <4>2, ChargePart, Zenon
      <4> HIDE DEF c
      <4> QED BY <4>3, <4>4, Zenon
    <3>5. h.rTime + u <= h.rTime + u
      <4> HIDE DEF h, u
      <4> QED BY <1>6, <1>7
    <3> HIDE DEF charged
    <3>6. Keeps(s, charged, X)
      BY <1>6, <3>4, KeepsTwice, Zenon
    <3> QED BY <1>6, <3>4, <3>5, <3>6, Zenon
  <2>2. CASE ~(u > 0 /\ h.rTime < MAX_RELEASE_TIME)
    <3>1. charged = s0
      BY <2>2, Zenon
    <3>2. h.rTime <= h.rTime + u /\ h.rAmount >= h.rAmount - u
      <4> HIDE DEF h, u
      <4> QED BY <1>6, <1>7
    <3> HIDE DEF charged
    <3> QED BY <1>6, <3>1, <3>2, Zenon
  <2> QED BY <2>1, <2>2, Zenon
<1> HIDE DEF charged
<1> DEFINE s1 == merge_insufficient(charged)
<1>9. charged \in Context /\ Keeps(charged, charged, X) /\ refill_sum(charged) >= MIN_BUDGET
  <2>1. charged \in Context /\ Keeps(charged, charged, X)
    BY <1>8, Zenon DEF Keeps
  <2> QED BY <1>8, <2>1, Zenon
<1>10. /\ Keeps(charged, s1, X) /\ refill_sum(s1) = refill_sum(charged)
       /\ s1.refills[1].rAmount >= MIN_BUDGET
       /\ charged.refills[1].rAmount >= MIN_BUDGET => s1 = charged
  BY <1>9, MergeInsufficient, Zenon
<1>11. ASSUME s.refills[1].rAmount >= usage + MIN_BUDGET
       PROVE  s1.refills[1].rTime <= s.refills[1].rTime + usage
  <2>1. o = a
    <3>1. ~head_refill_overrun(s, usage)
      BY <1>1, <1>11 DEF head_refill_overrun, refill_head
    <3> QED BY <1>4, <3>1, Zenon
  <2>2. s0 = s /\ u = usage
    BY <2>1
  <2>3. charged.refills[1].rAmount >= MIN_BUDGET
    <3>1. charged.refills[1].rAmount \in Nat
      BY <1>9, HeadFacts, Zenon DEF Keeps
    <3>2. charged.refills[1].rAmount >= s.refills[1].rAmount - usage
      BY <1>8, <2>2, Zenon
    <3> QED BY <1>1, <1>11, <3>1, <3>2
  <2> QED BY <1>8, <1>10, <2>2, <2>3, Zenon
<1> HIDE DEF s1
<1>12. Keeps(s, s1, X)
  BY <1>8, <1>10, KeepsTwice, Zenon
<1> QED BY <1>5, <1>8, <1>10, <1>11, <1>12, Zenon DEF s1

-----------------------------------------------------------------------------
(* The loop that merges what has become available *)

\* The queue once its head has been moved to now: the next refills may have begun
Loose(q, p) ==
  /\ \A i \in 1 .. Len(q) : q[i].rAmount > 0 /\ q[i].rTime <= q[1].rTime + p
  /\ \A i \in 2 .. Len(q) - 1 : q[i].rTime + q[i].rAmount <= q[i + 1].rTime

\* What holds before every round of the loop
OverlappingInv(s, o) ==
  /\ o \in Context
  /\ o.period = s.period /\ o.max = s.max /\ o.sporadic = s.sporadic /\ o.budget = s.budget
  /\ Len(o.refills) \in 1 .. o.max
  /\ Loose(o.refills, o.period)
  /\ refill_sum(o) = refill_sum(s)
  /\ o.refills[1].rTime = s.refills[1].rTime
  /\ o.refills[1].rAmount >= s.refills[1].rAmount

\* The head of such a queue
LEMMA LooseHead ==
  ASSUME NEW s \in Context, Len(s.refills) >= 1
  PROVE  /\ 1 \in 1 .. Len(s.refills) /\ s.refills[1] \in Refill
         /\ s.refills[1].rTime \in Nat /\ s.refills[1].rAmount \in Nat
<1>1. 1 \in 1 .. Len(s.refills)
  BY ContextFacts
<1> QED BY <1>1, ContextFacts, Zenon

\* The loop is a sequence of rounds
LEMMA OverlappingRounds ==
  ASSUME NEW s, Len(s.refills) \in Nat
  PROVE  \E g : /\ g[0] = s
                /\ \A i \in 1 .. Len(s.refills) : g[i] = overlappingRound(g[i - 1])
                /\ merge_overlapping(s) = g[Len(s.refills)]
<1> DEFINE n == Len(s.refills)
           R(f, m) == [i \in 0 .. m |-> IF i = 0 THEN s ELSE overlappingRound(f[i - 1])]
           P(m) == \E f : f = R(f, m)
           T == {m \in 0 .. n : ~P(m)}
           g == CHOOSE f : f = R(f, n)
<1>1. T = {}
  <2> SUFFICES ASSUME T # {} PROVE FALSE
    OBVIOUS
  <2>1. PICK m \in T : \A y \in T : m <= y
    <3>1. T \subseteq Nat
      OBVIOUS
    <3> HIDE DEF T
    <3> QED BY <3>1, LeastOfSet, Zenon
  <2>2. P(0)
    <3> DEFINE f == [i \in 0 .. 0 |-> s]
    <3>1. f = R(f, 0)
      OBVIOUS
    <3> QED BY <3>1, Zenon
  <2>3. m # 0
    BY <2>2, Zenon
  <2>4. m \in Nat /\ m - 1 \in 0 .. n /\ ~(m <= m - 1)
    BY <2>3
  <2>5. P(m - 1)
    <3> HIDE DEF P
    <3> QED BY <2>1, <2>4, Zenon
  <2>6. PICK f : f = R(f, m - 1)
    BY <2>5, Zenon
  <2> DEFINE h == [i \in 0 .. m |-> IF i = m THEN overlappingRound(f[m - 1]) ELSE f[i]]
  <2>7. \A i \in 0 .. m : h[i] = IF i = 0 THEN s ELSE overlappingRound(h[i - 1])
    <3> TAKE i \in 0 .. m
    <3>1. CASE i = 0
      BY <2>3, <2>4, <2>6, <3>1
    <3>2. CASE i = m
      BY <2>3, <2>4, <3>2
    <3>3. CASE i # 0 /\ i # m
      <4>1. i \in 0 .. m - 1 /\ i - 1 \in 0 .. m /\ i - 1 # m
        BY <2>4, <3>3
      <4>2. f[i] = overlappingRound(f[i - 1])
        BY <2>6, <3>3, <4>1, Zenon
      <4> QED BY <3>3, <4>1, <4>2, Zenon
    <3> QED BY <3>1, <3>2, <3>3
  <2>8. h = R(h, m)
    <3>1. h = [i \in 0 .. m |-> h[i]]
      BY Zenon
    <3> HIDE DEF h
    <3>2. [i \in 0 .. m |-> h[i]] = R(h, m)
      BY <2>7, Zenon
    <3> QED BY <3>1, <3>2, Zenon
  <2>9. P(m)
    <3> HIDE DEF R, h
    <3> QED BY <2>8, Zenon
  <2> QED BY <2>1, <2>9, Zenon
<1>2. g = R(g, n)
  <2>1. P(n)
    <3>1. n \in 0 .. n
      OBVIOUS
    <3> HIDE DEF P
    <3> QED BY <1>1, <3>1, Zenon
  <2> HIDE DEF R
  <2> QED BY <2>1, Zenon
<1>3. merge_overlapping(s) = g[n]
  BY Zenon DEF merge_overlapping
<1> HIDE DEF g
<1>4. g[0] = s /\ \A i \in 1 .. n : g[i] = overlappingRound(g[i - 1])
  <2>1. 0 \in 0 .. n /\ \A i \in 1 .. n : i \in 0 .. n /\ i # 0
    OBVIOUS
  <2> QED BY <1>2, <2>1, Zenon
<1> QED BY <1>3, <1>4, Zenon

\* One round puts the second refill into the head
LEMMA MergeOverlapping ==
  ASSUME NEW s \in Context, Len(s.refills) \in 2 .. s.max, Loose(s.refills, s.period)
  PROVE  /\ OverlappingInv(s, merge_overlapping_head_refill(s))
         /\ Len(merge_overlapping_head_refill(s).refills) = Len(s.refills) - 1
<1> DEFINE q == s.refills
           n == Len(q)
           q1 == Tail(q)
           s1 == [s EXCEPT !.refills = q1]
           r == [rTime |-> q[1].rTime, rAmount |-> q[2].rAmount + q[1].rAmount]
           q2 == [q1 EXCEPT ![1] = r]
           s2 == [s1 EXCEPT !.refills = q2]
<1>1. /\ q \in Seq(Refill) /\ n \in Nat /\ n >= 2 /\ n <= s.max /\ s.period \in Nat /\ s.max \in Nat
      /\ \A i \in 1 .. n : q[i].rTime \in Nat /\ q[i].rAmount \in Nat
  <2>1. n \in 2 .. s.max
    OBVIOUS
  <2>2. /\ q \in Seq(Refill) /\ n \in Nat /\ s.period \in Nat /\ s.max \in Nat
        /\ \A i \in 1 .. n : q[i].rTime \in Nat /\ q[i].rAmount \in Nat
    BY ContextFacts, Zenon
  <2> HIDE DEF n, q
  <2> QED BY <2>1, <2>2
<1>2. /\ q[1].rTime \in Nat /\ q[1].rAmount \in Nat /\ q[2].rTime \in Nat /\ q[2].rAmount \in Nat
      /\ q[2].rAmount > 0 /\ q[1].rAmount > 0
  <2>1. 1 \in 1 .. n /\ 2 \in 1 .. n
    BY <1>1
  <2> QED BY <1>1, <2>1, Zenon DEF Loose
<1>3. r \in Refill /\ r.rTime = q[1].rTime /\ r.rAmount = q[2].rAmount + q[1].rAmount
  <2>1. q[2].rAmount + q[1].rAmount \in Nat
    BY <1>2
  <2> QED BY <1>2, <2>1 DEF Refill
<1>4. merge_overlapping_head_refill(s) = setHead(s1, r)
  BY Zenon DEF merge_overlapping_head_refill, refill_head, refill_pop_head
<1> HIDE DEF r
<1>5. q1 \in Seq(Refill) /\ Len(q1) = n - 1 /\ \A i \in 1 .. n - 1 : q1[i] = q[i + 1]
  BY <1>1
<1>6. sumOf(q1) = sumOf(q) - q[1].rAmount
  BY <1>1, SumTail
<1> HIDE DEF q1
<1>7. /\ s1 \in Context /\ s1.refills = q1
      /\ s1.period = s.period /\ s1.max = s.max /\ s1.sporadic = s.sporadic /\ s1.budget = s.budget
  BY <1>5, ContextWith, Zenon
<1> HIDE DEF s1
<1>8. /\ setHead(s1, r) = s2 /\ q2 \in Seq(Refill) /\ Len(q2) = n - 1
      /\ \A i \in 1 .. n - 1 : q2[i] = IF i = 1 THEN r ELSE q[i + 1]
      /\ sumOf(q2) = sumOf(q1) - q1[1].rAmount + r.rAmount
  <2>1. Len(s1.refills) >= 1
    BY <1>1, <1>5, <1>7
  <2>2. /\ setHead(s1, r) = s2 /\ q2 \in Seq(Refill) /\ Len(q2) = Len(q1)
        /\ \A i \in 1 .. Len(q1) : q2[i] = IF i = 1 THEN r ELSE q1[i]
        /\ sumOf(q2) = sumOf(q1) - q1[1].rAmount + r.rAmount
    BY <1>3, <1>7, <2>1, SetHead
  <2> HIDE DEF q2
  <2>3. \A i \in 1 .. n - 1 : q2[i] = IF i = 1 THEN r ELSE q[i + 1]
    BY <1>5, <2>2, Zenon
  <2> QED BY <1>5, <2>2, <2>3, Zenon
<1> HIDE DEF q2
<1>9. /\ s2 \in Context /\ s2.refills = q2
      /\ s2.period = s.period /\ s2.max = s.max /\ s2.sporadic = s.sporadic /\ s2.budget = s.budget
  BY <1>7, <1>8, ContextWith, ZenonT(60)
<1> HIDE DEF s2
<1>0. 1 \in 1 .. n - 1 /\ 1 + 1 = 2 /\ q2[1] = r
  <2>1. 1 \in 1 .. n - 1 /\ 1 + 1 = 2
    BY <1>1
  <2> QED BY <1>8, <2>1, Zenon
<1>10. Loose(q2, s.period)
  <2>1. ASSUME NEW i \in 1 .. n - 1 PROVE q2[i].rAmount > 0 /\ q2[i].rTime <= q2[1].rTime + s.period
    <3>1. CASE i = 1
      <4>1. q2[i] = r /\ s.period \in Nat
        BY <1>0, <1>1, <3>1, Zenon
      <4> HIDE DEF q, n
      <4> QED BY <1>0, <1>2, <1>3, <4>1
    <3>2. CASE i # 1
      <4>1. i + 1 \in 1 .. n
        BY <1>1
      <4> QED BY <1>0, <1>3, <1>8, <3>2, <4>1, Zenon DEF Loose
    <3> QED BY <3>1, <3>2, Zenon
  <2>2. ASSUME NEW i \in 2 .. (n - 1) - 1 PROVE q2[i].rTime + q2[i].rAmount <= q2[i + 1].rTime
    <3>1. /\ i \in 1 .. n - 1 /\ i # 1 /\ i + 1 \in 1 .. n - 1 /\ i + 1 # 1
          /\ i + 1 \in 2 .. n - 1
      BY <1>1
    <3> QED BY <1>8, <3>1, Zenon DEF Loose
  <2> QED BY <1>8, <2>1, <2>2, Zenon DEF Loose
<1>11. sumOf(q2) = sumOf(q)
  <2>1. sumOf(q) \in Nat /\ q1[1] = q[2]
    BY <1>0, <1>1, <1>5, SumBounds, Zenon
  <2> HIDE DEF q, n
  <2> QED BY <1>2, <1>3, <1>6, <1>8, <2>1
<1>12. q2[1].rTime = q[1].rTime /\ q2[1].rAmount >= q[1].rAmount
  <2> HIDE DEF q, n
  <2> QED BY <1>0, <1>2, <1>3
<1>13. Len(q2) \in 1 .. s.max
  <2> HIDE DEF q, n
  <2> QED BY <1>1, <1>8
<1>14. OverlappingInv(s, s2)
  BY <1>9, <1>10, <1>11, <1>12, <1>13, Zenon DEF OverlappingInv, refill_sum
<1> QED BY <1>4, <1>8, <1>9, <1>14, Zenon

\* One round keeps the invariant, and takes a refill off the queue
LEMMA OverlappingStep ==
  ASSUME NEW s \in Context, Len(s.refills) >= 1, NEW o, OverlappingInv(s, o)
  PROVE  /\ OverlappingInv(s, overlappingRound(o))
         /\ refill_head_overlapping(o) => Len(overlappingRound(o).refills) < Len(o.refills)
<1>1. CASE ~refill_head_overlapping(o)
  BY <1>1, Zenon DEF overlappingRound
<1>2. CASE refill_head_overlapping(o)
  <2> DEFINE o1 == merge_overlapping_head_refill(o)
  <2>1. overlappingRound(o) = o1 /\ Len(o.refills) # 1
    BY <1>2, Zenon DEF overlappingRound, refill_head_overlapping, refill_single
  <2>2. o \in Context /\ Len(o.refills) \in 2 .. o.max /\ Loose(o.refills, o.period)
    <3>1. o \in Context /\ Len(o.refills) \in 1 .. o.max /\ Loose(o.refills, o.period)
      BY Zenon DEF OverlappingInv
    <3>2. Len(o.refills) \in Nat /\ o.max \in Nat
      BY <3>1, ContextFacts, Zenon
    <3> QED BY <2>1, <3>1, <3>2, MoreThanOne, Zenon
  <2>3. OverlappingInv(o, o1) /\ Len(o1.refills) = Len(o.refills) - 1
    BY <2>2, MergeOverlapping, Zenon
  <2>4. Len(o1.refills) < Len(o.refills)
    BY <2>2, <2>3
  <2> HIDE DEF o1
  <2>5. o1.refills[1].rAmount >= s.refills[1].rAmount
    <3>1. /\ o1.refills[1].rAmount \in Nat /\ o.refills[1].rAmount \in Nat
          /\ s.refills[1].rAmount \in Nat
      <4>1. /\ o1 \in Context /\ o \in Context /\ Len(o1.refills) \in 1 .. o1.max /\ Len(o.refills) \in 1 .. o.max
        BY <2>3, Zenon DEF OverlappingInv
      <4>2. o1.max \in Nat /\ Len(o1.refills) \in Nat /\ o.max \in Nat /\ Len(o.refills) \in Nat
        BY <4>1, ContextFacts, Zenon
      <4>3. Len(o1.refills) >= 1 /\ Len(o.refills) >= 1
        BY <4>1, <4>2
      <4> QED BY <4>1, <4>3, LooseHead, Zenon
    <3>2. o1.refills[1].rAmount >= o.refills[1].rAmount /\ o.refills[1].rAmount >= s.refills[1].rAmount
      BY <2>3, Zenon DEF OverlappingInv
    <3> QED BY <3>1, <3>2
  <2>6. OverlappingInv(s, o1)
    BY <2>3, <2>5, Zenon DEF OverlappingInv
  <2> QED BY <2>1, <2>4, <2>6, Zenon
<1> QED BY <1>1, <1>2

\* When the loop ends the refills are in order again; the head begins where it did
LEMMA Merged ==
  ASSUME NEW s \in Context, Len(s.refills) \in 1 .. s.max, Loose(s.refills, s.period)
  PROVE  LET s1 == merge_overlapping(s)
         IN OverlappingInv(s, s1) /\ Queue(s1.refills, s1.period) /\ ~refill_head_overlapping(s1)
<1> DEFINE n == Len(s.refills)
<1>1. n \in Nat /\ n >= 1 /\ s.refills[1].rAmount \in Nat
  <2>1. n \in Nat /\ s.max \in Nat
    BY ContextFacts, Zenon
  <2>2. n >= 1
    BY <2>1
  <2> QED BY <2>1, <2>2, LooseHead, Zenon
<1>2. PICK g : /\ g[0] = s
               /\ \A i \in 1 .. n : g[i] = overlappingRound(g[i - 1])
               /\ merge_overlapping(s) = g[n]
  BY <1>1, OverlappingRounds, Zenon
<1> DEFINE I(i) == /\ OverlappingInv(s, g[i])
                   /\ ~refill_head_overlapping(g[i]) \/ Len(g[i].refills) <= n - i
           T == {i \in 0 .. n : ~I(i)}
<1>3. I(0)
  <2>1. s.refills[1].rAmount >= s.refills[1].rAmount
    BY <1>1
  <2>2. OverlappingInv(s, s)
    BY <2>1, Zenon DEF OverlappingInv
  <2>3. Len(s.refills) <= n - 0
    BY <1>1
  <2> QED BY <1>2, <2>2, <2>3, Zenon
<1>4. ASSUME NEW i \in 1 .. n, I(i - 1) PROVE I(i)
  <2>1. g[i] = overlappingRound(g[i - 1])
    BY <1>2, Zenon
  <2>2. /\ OverlappingInv(s, g[i])
        /\ refill_head_overlapping(g[i - 1]) => Len(g[i].refills) < Len(g[i - 1].refills)
    BY <1>1, <1>4, <2>1, OverlappingStep, Zenon
  <2>3. CASE ~refill_head_overlapping(g[i - 1])
    <3>1. g[i] = g[i - 1]
      BY <2>1, <2>3, Zenon DEF overlappingRound
    <3> QED BY <2>2, <2>3, <3>1, Zenon
  <2>4. CASE refill_head_overlapping(g[i - 1])
    <3>1. Len(g[i - 1].refills) <= n - (i - 1) /\ Len(g[i].refills) < Len(g[i - 1].refills)
      BY <1>4, <2>2, <2>4, Zenon
    <3>2. Len(g[i].refills) \in Nat /\ Len(g[i - 1].refills) \in Nat
      BY <1>4, <2>2, ContextFacts, Zenon DEF OverlappingInv
    <3>3. Len(g[i].refills) <= n - i
      <4> HIDE DEF n, I
      <4> QED BY <1>1, <3>1, <3>2
    <3> QED BY <2>2, <3>3, Zenon
  <2> QED BY <2>3, <2>4
<1>5. T = {}
  <2> SUFFICES ASSUME T # {} PROVE FALSE
    OBVIOUS
  <2> HIDE DEF I
  <2>1. PICK m \in T : \A y \in T : m <= y
    <3>1. T \subseteq Nat
      OBVIOUS
    <3> HIDE DEF T
    <3> QED BY <3>1, LeastOfSet, Zenon
  <2>2. m # 0
    BY <1>3, Zenon
  <2>3. m \in 1 .. n /\ m - 1 \in 0 .. n /\ ~(m <= m - 1)
    BY <1>1, <2>2
  <2>4. I(m - 1)
    BY <2>1, <2>3, Zenon
  <2> QED BY <1>4, <2>1, <2>3, <2>4, Zenon
<1>6. I(n)
  <2>1. n \in 0 .. n
    BY <1>1
  <2> HIDE DEF I
  <2> QED BY <1>5, <2>1, Zenon
<1> DEFINE s1 == g[n]
           q == s1.refills
<1>7. /\ s1 \in Context /\ Loose(q, s1.period) /\ Len(q) \in 1 .. s1.max /\ Len(q) \in Nat /\ s1.max \in Nat
      /\ \A i \in 1 .. Len(q) : q[i].rTime \in Nat /\ q[i].rAmount \in Nat
  BY <1>6, ContextFacts, Zenon DEF OverlappingInv
<1>0. Len(q) \in Nat /\ Len(q) >= 1
  <2>1. Len(q) \in 1 .. s1.max /\ Len(q) \in Nat /\ s1.max \in Nat
    BY <1>7, Zenon
  <2> HIDE DEF q, s1
  <2> QED BY <2>1
<1>8. ~refill_head_overlapping(s1)
  <2>1. ~refill_head_overlapping(s1) \/ Len(q) <= n - n
    BY <1>6, Zenon
  <2> HIDE DEF n, q, s1
  <2> QED BY <1>0, <1>1, <2>1
<1>9. Len(q) = 1 \/ ~(q[2].rTime <= q[1].rTime + q[1].rAmount)
  BY <1>8, Zenon DEF refill_head_overlapping, refill_single, refill_head
<1> HIDE DEF q
<1>10. Queue(q, s1.period)
  <2>1. ASSUME NEW i \in 1 .. Len(q) - 1 PROVE q[i].rTime + q[i].rAmount <= q[i + 1].rTime
    <3>1. CASE i = 1
      <4>1. Len(q) # 1 /\ 1 \in 1 .. Len(q) /\ 2 \in 1 .. Len(q) /\ i + 1 = 2
        <5>1. \A k \in Nat : k >= 1 /\ 1 \in 1 .. k - 1 => k # 1 /\ 1 \in 1 .. k /\ 2 \in 1 .. k /\ 1 + 1 = 2
          OBVIOUS
        <5> QED BY <1>0, <3>1, <5>1, Zenon
      <4>2. ~(q[2].rTime <= q[1].rTime + q[1].rAmount) /\ q[2].rTime \in Nat /\ q[1].rTime \in Nat /\ q[1].rAmount \in Nat
        BY <1>7, <1>9, <4>1, Zenon
      <4>3. q[1].rTime + q[1].rAmount <= q[2].rTime
        BY <4>2
      <4> QED BY <3>1, <4>1, <4>3, Zenon
    <3>2. CASE i # 1
      <4>1. i \in 2 .. Len(q) - 1
        BY <1>0, <3>2
      <4> QED BY <1>7, <4>1, Zenon DEF Loose
    <3> QED BY <3>1, <3>2, Zenon
  <2> QED BY <1>7, <2>1, Zenon DEF Loose, Queue
<1> QED BY <1>2, <1>6, <1>8, <1>10, Zenon DEF q

\* A context that is unblocked, or switched to, starts its head refill now
LEMMA UnblockCheck ==
  ASSUME NEW s \in Context, NEW t \in Nat, Len(s.refills) \in 1 .. s.max,
         Queue(s.refills, s.period), s.refills[1].rTime <= t, s.period # 0
  PROVE  LET s1 == refill_unblock_check(s, t)
         IN /\ Keeps(s, s1, t + s.period) /\ refill_sum(s1) = refill_sum(s)
            /\ s1.refills[1].rTime = t
            /\ s1.refills[1].rAmount >= s.refills[1].rAmount
            /\ ~refill_head_overlapping(s1)
<1> DEFINE q == s.refills
           n == Len(q)
           r == [rTime |-> t, rAmount |-> q[1].rAmount]
           q1 == [q EXCEPT ![1] = r]
           s0 == [s EXCEPT !.refills = q1]
           s1 == merge_overlapping(s0)
<1>1. /\ q \in Seq(Refill) /\ n \in Nat /\ n >= 1 /\ s.period \in Nat /\ s.max \in Nat
      /\ \A i \in 1 .. n : q[i].rTime \in Nat /\ q[i].rAmount \in Nat
  BY ContextFacts, HeadFacts, Zenon
<1>2. /\ r \in Refill /\ r.rTime = t /\ r.rAmount = q[1].rAmount /\ q[1].rTime \in Nat /\ q[1].rAmount \in Nat
      /\ q[1].rTime <= t /\ 1 \in 1 .. n /\ q[1].rAmount > 0
  <2>1. /\ q[1].rTime \in Nat /\ q[1].rAmount \in Nat /\ q[1].rTime <= t /\ 1 \in 1 .. n
        /\ q[1].rAmount > 0
    BY HeadFacts, Zenon
  <2>2. r \in Refill /\ r.rTime = t /\ r.rAmount = q[1].rAmount
    BY <2>1 DEF Refill
  <2> QED BY <2>1, <2>2, Zenon
<1>3. [s EXCEPT !.refills[1].rTime = t] = setHead(s, r)
  <2>1. q[1] = [rTime |-> q[1].rTime, rAmount |-> q[1].rAmount]
    BY <1>2, ContextFacts, Zenon
  <2>2. [q[1] EXCEPT !.rTime = t] = r
    BY <2>1
  <2> HIDE DEF r
  <2> QED BY <2>2, Zenon DEF setHead
<1>4. refill_unblock_check(s, t) = merge_overlapping(setHead(s, r))
  <2>1. ~isRoundRobin(s) /\ refill_ready(s, t)
    BY Zenon DEF isRoundRobin, refill_ready, refill_head
  <2> HIDE DEF r
  <2> QED BY <1>3, <2>1, Zenon DEF refill_unblock_check
<1> HIDE DEF r
<1>5. /\ setHead(s, r) = s0 /\ q1 \in Seq(Refill) /\ Len(q1) = n
      /\ \A i \in 1 .. n : q1[i] = IF i = 1 THEN r ELSE q[i]
      /\ sumOf(q1) = sumOf(q) - q[1].rAmount + r.rAmount
  BY <1>1, <1>2, SetHead
<1> HIDE DEF q1
<1>6. /\ s0 \in Context /\ s0.refills = q1
      /\ s0.period = s.period /\ s0.max = s.max /\ s0.sporadic = s.sporadic /\ s0.budget = s.budget
  BY <1>5, ContextWith, Zenon
<1> HIDE DEF s0
<1>7. Loose(q1, s.period)
  <2>1. q1[1] = r
    BY <1>2, <1>5, Zenon
  <2>2. ASSUME NEW i \in 1 .. n PROVE q1[i].rAmount > 0 /\ q1[i].rTime <= q1[1].rTime + s.period
    <3>1. CASE i = 1
      <4>1. t <= t + s.period
        BY <1>1
      <4> QED BY <1>2, <2>1, <3>1, <4>1, Zenon
    <3>2. CASE i # 1
      <4>1. q1[i] = q[i] /\ q[i].rAmount > 0 /\ q[i].rTime <= q[1].rTime + s.period
        BY <1>5, <3>2, Zenon DEF Queue
      <4>2. q[i].rTime \in Int /\ q[1].rTime + s.period \in Int /\ t + s.period \in Int
        BY <1>1, <1>2
      <4>3. q[1].rTime + s.period <= t + s.period
        <5>1. s.period \in Nat
          BY <1>1, Zenon
        <5> QED BY <1>2, <5>1
      <4>4. q[i].rTime <= t + s.period
        BY <4>1, <4>2, <4>3, AtMost, Zenon
      <4> QED BY <1>2, <2>1, <4>1, <4>4, Zenon
    <3> QED BY <3>1, <3>2, Zenon
  <2>3. ASSUME NEW i \in 2 .. n - 1 PROVE q1[i].rTime + q1[i].rAmount <= q1[i + 1].rTime
    <3>1. i \in 1 .. n - 1 /\ i \in 1 .. n /\ i # 1 /\ i + 1 \in 1 .. n /\ i + 1 # 1
      BY <1>1
    <3> QED BY <1>5, <3>1, Zenon DEF Queue
  <2> QED BY <1>5, <2>2, <2>3, Zenon DEF Loose
<1>8. OverlappingInv(s0, s1) /\ Queue(s1.refills, s1.period) /\ ~refill_head_overlapping(s1)
  BY <1>5, <1>6, <1>7, Merged, Zenon
<1> HIDE DEF s1
<1>9. sumOf(q1) = sumOf(q)
  <2>1. sumOf(q) \in Nat
    BY <1>1, SumBounds, Zenon
  <2> QED BY <1>2, <1>5, <2>1
<1>10. q1[1] = r
  BY <1>2, <1>5, Zenon
<1>11. \A i \in 1 .. Len(s1.refills) : s1.refills[i].rTime <= t + s.period
  BY <1>2, <1>6, <1>8, <1>10, Zenon DEF OverlappingInv, Loose
<1>12. Keeps(s, s1, t + s.period)
  BY <1>6, <1>8, <1>11, Zenon DEF OverlappingInv, Keeps
<1>13. refill_sum(s1) = refill_sum(s) /\ s1.refills[1].rTime = t /\ s1.refills[1].rAmount >= q[1].rAmount
  BY <1>2, <1>6, <1>8, <1>9, <1>10, Zenon DEF OverlappingInv, refill_sum
<1> QED BY <1>4, <1>5, <1>8, <1>12, <1>13, Zenon DEF s1

-----------------------------------------------------------------------------
(* What the refills hold from a moment on.  BandwidthProofs compares it with the ticks the *)
(* thread has run.                                                                         *)

\* The constants a context is configured with
LEMMA ConstantFacts ==
  /\ MIN_BUDGET \in Nat /\ MIN_BUDGET > 0 /\ MAX_RELEASE_TIME \in Nat /\ MAX_RELEASE_TIME > 0
  /\ Max(Periods) \in Nat /\ Max(Periods) >= 0
  /\ \A p \in Periods : p \in Nat /\ p <= Max(Periods)
<1>1. Max(Periods) \in Nat /\ \A p \in Periods : p \in Nat /\ p <= Max(Periods)
  BY SporadicConstants, Zenon
<1>2. MIN_BUDGET \in Nat \ {0} /\ MAX_RELEASE_TIME \in Nat \ {0}
  BY SporadicConstants, Zenon
<1> HIDE DEF Max
<1>3. /\ MIN_BUDGET \in Nat /\ MIN_BUDGET > 0 /\ MAX_RELEASE_TIME \in Nat /\ MAX_RELEASE_TIME > 0
  BY <1>2
<1>4. \A k \in Nat : k >= 0
  OBVIOUS
<1> QED BY <1>1, <1>3, <1>4, Zenon

\* Induction up to n, for a set
LEMMA UpTo ==
  ASSUME NEW n \in Nat, NEW S, 0 \in S, \A i \in 1 .. n : i - 1 \in S => i \in S
  PROVE  \A i \in 0 .. n : i \in S
<1> DEFINE T == {i \in 0 .. n : i \notin S}
<1> SUFFICES ASSUME T # {} PROVE FALSE
  OBVIOUS
<1>1. PICK m \in T : \A y \in T : m <= y
  <2>1. T \subseteq Nat
    OBVIOUS
  <2> HIDE DEF T
  <2> QED BY <2>1, LeastOfSet, Zenon
<1>2. m # 0
  BY Zenon
<1>3. m \in 1 .. n /\ m - 1 \in 0 .. n /\ ~(m <= m - 1)
  BY <1>2
<1>4. m - 1 \in S
  BY <1>1, <1>3, Zenon
<1> QED BY <1>3, <1>4, Zenon

-----------------------------------------------------------------------------
(* The ticks of a refill *)

\* The rest of an interval is part of it
LEMMA TicksFrom ==
  ASSUME NEW t \in Int, NEW a \in Nat, NEW y \in Int
  PROVE  ticksFrom(t, a, y) \in Nat /\ ticksFrom(t, a, y) <= a
  BY DEF ticksFrom

\* An interval that begins later has no less of it left
LEMMA TicksLater ==
  ASSUME NEW t \in Int, NEW u \in Int, NEW a \in Nat, NEW y \in Int, t <= u
  PROVE  ticksFrom(t, a, y) <= ticksFrom(u, a, y)
  BY DEF ticksFrom

\* A refill that grows at its end holds the refill merged into it if that began no later;
\* one that is put off to end where the other does holds both.
LEMMA TicksMerged ==
  ASSUME NEW t \in Int, NEW a \in Nat, NEW u \in Int, NEW b \in Nat, NEW y \in Int
  PROVE  /\ t + a >= u => ticksFrom(t, a, y) + ticksFrom(u, b, y) <= ticksFrom(t, a + b, y)
         /\ t + a <= u => ticksFrom(t, a, y) + ticksFrom(u, b, y) <= ticksFrom(u - a, a + b, y)
  BY DEF ticksFrom

\* The rest of a refill is a refill
LEMMA RefillFrom ==
  ASSUME NEW r \in Refill, NEW y \in Int
  PROVE  /\ refillFrom(r, y) \in Refill
         /\ refillFrom(r, y).rAmount = ticksFrom(r.rTime, r.rAmount, y)
         /\ ticksFrom(r.rTime, r.rAmount, y) \in Nat
         /\ ticksFrom(r.rTime, r.rAmount, y) <= r.rAmount
<1>1. r.rTime \in Nat /\ r.rTime \in Int /\ r.rAmount \in Nat
  BY RefillFacts
<1>2. ticksFrom(r.rTime, r.rAmount, y) \in Nat /\ ticksFrom(r.rTime, r.rAmount, y) <= r.rAmount
  BY <1>1, TicksFrom, Zenon
<1> QED BY <1>1, <1>2 DEF refillFrom, Refill

\* The rests of the refills are a queue of the same length
LEMMA RefillsFrom ==
  ASSUME NEW q \in Seq(Refill), NEW y \in Int
  PROVE  /\ refillsFrom(q, y) \in Seq(Refill) /\ Len(refillsFrom(q, y)) = Len(q)
         /\ \A i \in 1 .. Len(q) : refillsFrom(q, y)[i] = refillFrom(q[i], y)
<1>1. Len(q) \in Nat /\ \A i \in 1 .. Len(q) : refillFrom(q[i], y) \in Refill
  BY Elements, RefillFrom, Zenon
<1> QED BY <1>1 DEF refillsFrom

\* Two queues with the same refills are the same
LEMMA SameQueue ==
  ASSUME NEW q \in Seq(Refill), NEW r \in Seq(Refill), Len(q) = Len(r),
         \A i \in 1 .. Len(q) : q[i] = r[i]
  PROVE  q = r
  OBVIOUS

\* What the refills hold from y on, after the head has been popped
LEMMA FromTail ==
  ASSUME NEW q \in Seq(Refill), Len(q) > 0, NEW y \in Int
  PROVE  budgetFrom(Tail(q), y) = budgetFrom(q, y) - ticksFrom(q[1].rTime, q[1].rAmount, y)
<1> DEFINE a == refillsFrom(q, y)
           b == refillsFrom(Tail(q), y)
           n == Len(q)
<1>1. n \in Nat /\ n >= 1 /\ 1 \in 1 .. n
  OBVIOUS
<1>2. a \in Seq(Refill) /\ Len(a) = n /\ \A i \in 1 .. n : a[i] = refillFrom(q[i], y)
  BY RefillsFrom, Zenon
<1>3. Tail(q) \in Seq(Refill) /\ Len(Tail(q)) = n - 1 /\ \A i \in 1 .. n - 1 : Tail(q)[i] = q[i + 1]
  OBVIOUS
<1>4. b \in Seq(Refill) /\ Len(b) = n - 1 /\ \A i \in 1 .. n - 1 : b[i] = refillFrom(q[i + 1], y)
  <2>1. /\ b \in Seq(Refill) /\ Len(b) = Len(Tail(q))
        /\ \A i \in 1 .. Len(Tail(q)) : b[i] = refillFrom(Tail(q)[i], y)
    BY <1>3, RefillsFrom, Zenon
  <2> HIDE DEF b
  <2> QED BY <1>3, <2>1, Zenon
<1> HIDE DEF a, b
<1>5. Tail(a) \in Seq(Refill) /\ Len(Tail(a)) = n - 1 /\ \A i \in 1 .. n - 1 : Tail(a)[i] = a[i + 1]
  BY <1>1, <1>2
<1>6. b = Tail(a)
  <2>1. ASSUME NEW i \in 1 .. n - 1 PROVE b[i] = Tail(a)[i]
    <3>1. i + 1 \in 1 .. n
      BY <1>1
    <3> QED BY <1>2, <1>4, <1>5, <3>1, Zenon
  <2> QED BY <1>4, <1>5, <2>1, SameQueue, Zenon
<1>7. sumOf(Tail(a)) = sumOf(a) - a[1].rAmount
  BY <1>1, <1>2, SumTail
<1>8. a[1].rAmount = ticksFrom(q[1].rTime, q[1].rAmount, y)
  BY <1>1, <1>2, Elements, RefillFrom, Zenon
<1> QED BY <1>6, <1>7, <1>8, Zenon DEF a, b, budgetFrom

\* What they hold after a refill has been added at the tail
LEMMA FromAppend ==
  ASSUME NEW q \in Seq(Refill), NEW r \in Refill, NEW y \in Int
  PROVE  budgetFrom(Append(q, r), y) = budgetFrom(q, y) + ticksFrom(r.rTime, r.rAmount, y)
<1> DEFINE a == refillsFrom(q, y)
           b == refillsFrom(Append(q, r), y)
           n == Len(q)
           c == refillFrom(r, y)
<1>1. n \in Nat
  OBVIOUS
<1>2. a \in Seq(Refill) /\ Len(a) = n /\ \A i \in 1 .. n : a[i] = refillFrom(q[i], y)
  BY RefillsFrom, Zenon
<1>3. /\ Append(q, r) \in Seq(Refill) /\ Len(Append(q, r)) = n + 1
      /\ \A i \in 1 .. n + 1 : Append(q, r)[i] = IF i = n + 1 THEN r ELSE q[i]
  OBVIOUS
<1>4. /\ b \in Seq(Refill) /\ Len(b) = n + 1
      /\ \A i \in 1 .. n + 1 : b[i] = IF i = n + 1 THEN c ELSE refillFrom(q[i], y)
  <2>1. /\ b \in Seq(Refill) /\ Len(b) = Len(Append(q, r))
        /\ \A i \in 1 .. Len(Append(q, r)) : b[i] = refillFrom(Append(q, r)[i], y)
    BY <1>3, RefillsFrom, Zenon
  <2> HIDE DEF b
  <2> QED BY <1>3, <2>1, Zenon
<1>5. c \in Refill /\ c.rAmount = ticksFrom(r.rTime, r.rAmount, y)
  BY RefillFrom, Zenon
<1> HIDE DEF a, b, c
<1>6. /\ Append(a, c) \in Seq(Refill) /\ Len(Append(a, c)) = n + 1
      /\ \A i \in 1 .. n + 1 : Append(a, c)[i] = IF i = n + 1 THEN c ELSE a[i]
  BY <1>1, <1>2, <1>5
<1>7. b = Append(a, c)
  <2>1. ASSUME NEW i \in 1 .. n + 1 PROVE b[i] = Append(a, c)[i]
    <3>1. i = n + 1 \/ i \in 1 .. n
      BY <1>1
    <3> QED BY <1>2, <1>4, <1>6, <3>1, Zenon
  <2> QED BY <1>4, <1>6, <2>1, SameQueue, Zenon
<1>8. sumOf(Append(a, c)) = sumOf(a) + c.rAmount
  BY <1>2, <1>5, SumAppend, Zenon
<1> QED BY <1>5, <1>7, <1>8, Zenon DEF a, b, budgetFrom

\* What they hold after one refill has been replaced
LEMMA FromReplace ==
  ASSUME NEW q \in Seq(Refill), NEW j \in 1 .. Len(q), NEW r \in Refill, NEW y \in Int
  PROVE  budgetFrom([q EXCEPT ![j] = r], y)
           = budgetFrom(q, y) - ticksFrom(q[j].rTime, q[j].rAmount, y) + ticksFrom(r.rTime, r.rAmount, y)
<1> DEFINE a == refillsFrom(q, y)
           q1 == [q EXCEPT ![j] = r]
           b == refillsFrom(q1, y)
           n == Len(q)
           c == refillFrom(r, y)
           a1 == [a EXCEPT ![j] = c]
<1>1. n \in Nat
  OBVIOUS
<1>2. a \in Seq(Refill) /\ Len(a) = n /\ \A i \in 1 .. n : a[i] = refillFrom(q[i], y)
  BY RefillsFrom, Zenon
<1>3. q1 \in Seq(Refill) /\ Len(q1) = n /\ \A i \in 1 .. n : q1[i] = IF i = j THEN r ELSE q[i]
  BY Replaced
<1> HIDE DEF q1
<1>4. b \in Seq(Refill) /\ Len(b) = n /\ \A i \in 1 .. n : b[i] = refillFrom(q1[i], y)
  BY <1>3, RefillsFrom, ZenonT(60)
<1>5. c \in Refill /\ c.rAmount = ticksFrom(r.rTime, r.rAmount, y)
  BY RefillFrom, Zenon
<1> HIDE DEF a, b, c
<1>6. a1 \in Seq(Refill) /\ Len(a1) = n /\ \A i \in 1 .. n : a1[i] = IF i = j THEN c ELSE a[i]
  BY <1>2, <1>5, Replaced
<1> HIDE DEF a1
<1>7. b = a1
  <2>1. ASSUME NEW i \in 1 .. n PROVE b[i] = a1[i]
    BY <1>2, <1>3, <1>4, <1>6, Zenon DEF c
  <2> QED BY <1>4, <1>6, <2>1, SameQueue, Zenon
<1>8. sumOf(a1) = sumOf(a) - a[j].rAmount + c.rAmount
  BY <1>2, <1>5, SumReplace, Zenon DEF a1
<1>9. a[j].rAmount = ticksFrom(q[j].rTime, q[j].rAmount, y)
  BY <1>2, Elements, RefillFrom, Zenon
<1> QED BY <1>5, <1>7, <1>8, <1>9, Zenon DEF a, b, q1, budgetFrom

\* Refills that are each no larger hold no more together
LEMMA SumAtMost ==
  ASSUME NEW q \in Seq(Refill), NEW r \in Seq(Refill), Len(q) = Len(r),
         \A i \in 1 .. Len(q) : q[i].rAmount <= r[i].rAmount
  PROVE  sumOf(q) <= sumOf(r)
<1> DEFINE n == Len(q)
<1>1. PICK g : Sums(q, g)
  BY SumsExist, Zenon
<1>2. PICK h : Sums(r, h)
  BY SumsExist, Zenon
<1>3. sumOf(q) = g[n] /\ sumOf(r) = h[n]
  BY <1>1, <1>2, SumIs, Zenon
<1>4. n \in Nat /\ \A i \in 1 .. n : q[i].rAmount \in Nat /\ r[i].rAmount \in Nat
  BY Elements, Zenon
<1> DEFINE S == {i \in 0 .. n : g[i] <= h[i]}
<1>5. 0 \in S
  BY <1>1, <1>2, <1>4 DEF Sums
<1>6. ASSUME NEW i \in 1 .. n, i - 1 \in S PROVE i \in S
  <2>1. i \in 0 .. n /\ i - 1 \in 0 .. n
    BY <1>4
  <2>2. /\ g[i] = g[i - 1] + q[i].rAmount /\ h[i] = h[i - 1] + r[i].rAmount
        /\ g[i - 1] \in Nat /\ h[i - 1] \in Nat /\ g[i - 1] <= h[i - 1]
        /\ q[i].rAmount \in Nat /\ r[i].rAmount \in Nat /\ q[i].rAmount <= r[i].rAmount
    BY <1>1, <1>2, <1>4, <1>6, <2>1, Zenon DEF Sums
  <2>3. g[i] <= h[i]
    BY <2>2
  <2> QED BY <2>1, <2>3, Zenon
<1>7. n \in S
  <2>1. n \in 0 .. n
    BY <1>4
  <2> HIDE DEF S
  <2> QED BY <1>4, <1>5, <1>6, <2>1, UpTo, Zenon
<1> QED BY <1>3, <1>7, Zenon

\* The refills behind the head hold no more than their amounts
LEMMA FromBound ==
  ASSUME NEW q \in Seq(Refill), Len(q) > 0, NEW y \in Int
  PROVE  /\ budgetFrom(q, y) \in Nat
         /\ budgetFrom(q, y) <= sumOf(q) - q[1].rAmount + ticksFrom(q[1].rTime, q[1].rAmount, y)
<1> DEFINE a == refillsFrom(q, y)
           c == refillFrom(q[1], y)
           b == [q EXCEPT ![1] = c]
           n == Len(q)
<1>1. n \in Nat /\ 1 \in 1 .. n
  OBVIOUS
<1>2. a \in Seq(Refill) /\ Len(a) = n /\ \A i \in 1 .. n : a[i] = refillFrom(q[i], y)
  BY RefillsFrom, Zenon
<1>3. c \in Refill /\ c.rAmount = ticksFrom(q[1].rTime, q[1].rAmount, y) /\ c.rAmount \in Nat
  BY <1>1, Elements, RefillFrom, Zenon
<1>4. b \in Seq(Refill) /\ Len(b) = n /\ \A i \in 1 .. n : b[i] = IF i = 1 THEN c ELSE q[i]
  BY <1>1, <1>3, Replaced
<1>5. sumOf(b) = sumOf(q) - q[1].rAmount + c.rAmount
  BY <1>1, <1>3, SumReplace, Zenon
<1> HIDE DEF a, b
<1>6. ASSUME NEW i \in 1 .. n PROVE a[i].rAmount <= b[i].rAmount
  <2>1. CASE i = 1
    <3>1. a[i] = c /\ b[i] = c
      BY <1>2, <1>4, <2>1, Zenon
    <3> HIDE DEF c
    <3> QED BY <1>3, <3>1
  <2>2. CASE i # 1
    <3>1. a[i] = refillFrom(q[i], y) /\ b[i] = q[i] /\ q[i] \in Refill
      BY <1>2, <1>4, <2>2, Elements, Zenon
    <3>2. refillFrom(q[i], y).rAmount <= q[i].rAmount
      BY <3>1, RefillFrom, Zenon
    <3> QED BY <3>1, <3>2, Zenon
  <2> QED BY <2>1, <2>2, Zenon
<1>7. sumOf(a) <= sumOf(b)
  BY <1>2, <1>4, <1>6, SumAtMost, Zenon
<1>8. sumOf(a) \in Nat
  BY <1>2, SumBounds, Zenon
<1> QED BY <1>3, <1>5, <1>7, <1>8, Zenon DEF a, budgetFrom

-----------------------------------------------------------------------------
(* What charging and merging do to the budget from a time on *)

\* The queue holds no less than before, from any time on
Later(q, q1) == \A y \in Int : budgetFrom(q, y) <= budgetFrom(q1, y)

\* The queue with another head
LEMMA HeadSet ==
  ASSUME NEW s \in Context, NEW r \in Refill, Len(s.refills) >= 1
  PROVE  LET q1 == [s.refills EXCEPT ![1] = r]
         IN /\ setHead(s, r) \in Context /\ setHead(s, r).refills = q1
            /\ setHead(s, r).max = s.max /\ setHead(s, r).period = s.period
            /\ q1 \in Seq(Refill) /\ Len(q1) = Len(s.refills) /\ q1[1] = r
            /\ \A i \in 2 .. Len(s.refills) : q1[i] = s.refills[i]
<1> DEFINE q == s.refills
           q1 == [q EXCEPT ![1] = r]
<1>1. q \in Seq(Refill) /\ Len(q) \in Nat /\ 1 \in 1 .. Len(q)
  BY ContextFacts
<1>2. /\ setHead(s, r) = [s EXCEPT !.refills = q1] /\ q1 \in Seq(Refill) /\ Len(q1) = Len(q)
      /\ \A i \in 1 .. Len(q) : q1[i] = IF i = 1 THEN r ELSE q[i]
  BY SetHead, Zenon
<1> HIDE DEF q1
<1>3. /\ [s EXCEPT !.refills = q1] \in Context /\ [s EXCEPT !.refills = q1].refills = q1
      /\ [s EXCEPT !.refills = q1].max = s.max /\ [s EXCEPT !.refills = q1].period = s.period
  BY <1>2, ContextWith, Zenon
<1>4. q1[1] = r
  BY <1>1, <1>2, Zenon
<1>5. ASSUME NEW i \in 2 .. Len(q) PROVE q1[i] = q[i]
  <2>1. i \in 1 .. Len(q) /\ i # 1
    BY <1>1
  <2> QED BY <1>2, <2>1, Zenon
<1> QED BY <1>2, <1>3, <1>4, <1>5, Zenon DEF q1

\* s0 is s with another head
WithHead(s, r, s0) ==
  /\ s0 \in Context /\ s0.max = s.max
  /\ s0.refills \in Seq(Refill) /\ Len(s0.refills) = Len(s.refills) /\ s0.refills[1] = r
  /\ \A i \in 2 .. Len(s.refills) : s0.refills[i] = s.refills[i]

\* A context after setHead
LEMMA HeadIs ==
  ASSUME NEW s \in Context, NEW r \in Refill, Len(s.refills) >= 1
  PROVE  WithHead(s, r, setHead(s, r))
<1> DEFINE q1 == [s.refills EXCEPT ![1] = r]
<1>1. /\ setHead(s, r) \in Context /\ setHead(s, r).refills = q1 /\ setHead(s, r).max = s.max
      /\ q1 \in Seq(Refill) /\ Len(q1) = Len(s.refills)
  BY HeadSet, ZenonT(60)
<1>2. q1[1] = r
  BY HeadSet
<1>3. \A i \in 2 .. Len(s.refills) : q1[i] = s.refills[i]
  BY HeadSet, ZenonT(60)
<1> HIDE DEF q1
<1> QED BY <1>1, <1>2, <1>3, Zenon DEF WithHead

\* The tail t has grown to r by what was used; in a full buffer it ends where that does
Grown(t, new, full, r) ==
  /\ r \in Refill /\ r.rAmount = t.rAmount + new.rAmount
  /\ \/ t.rTime + t.rAmount >= new.rTime /\ r.rTime = t.rTime
     \/ ~(t.rTime + t.rAmount >= new.rTime) /\ full /\ r.rTime = new.rTime - t.rAmount

\* The queue after schedule_used: there is a new tail, or the tail has grown
LEMMA UsedShape ==
  ASSUME NEW s \in Context, NEW new \in Refill, Len(s.refills) >= 1
  PROVE  LET q == s.refills
             n == Len(q)
         IN \/ schedule_used(s, new).refills = Append(q, new)
            \/ \E r : /\ Grown(q[n], new, ~(n < s.max), r)
                     /\ schedule_used(s, new).refills = [q EXCEPT ![n] = r]
<1> DEFINE q == s.refills
           n == Len(q)
           t == q[n]
<1>1. q \in Seq(Refill) /\ n \in Nat /\ n \in 1 .. n
  BY ContextFacts
<1>2. t \in Refill /\ t.rTime \in Nat /\ t.rAmount \in Nat /\ new.rTime \in Nat /\ new.rAmount \in Nat
  BY <1>1, Elements, RefillFacts, Zenon
<1>3. CASE t.rTime + t.rAmount >= new.rTime
  <2> DEFINE r == [rTime |-> t.rTime, rAmount |-> t.rAmount + new.rAmount]
             q1 == [q EXCEPT ![n] = r]
  <2>1. r \in Refill /\ r.rTime = t.rTime /\ r.rAmount = t.rAmount + new.rAmount
    BY <1>2 DEF Refill
  <2>2. schedule_used(s, new) = [s EXCEPT !.refills = q1]
    <3>1. schedule_used(s, new) = [s EXCEPT !.refills[n].rAmount = t.rAmount + new.rAmount]
      BY <1>3, Zenon DEF schedule_used
    <3>2. [q EXCEPT ![n].rAmount = t.rAmount + new.rAmount] = q1
      <4>2. t = [rTime |-> t.rTime, rAmount |-> t.rAmount]
        BY <1>2, RefillFacts, Zenon
      <4>3. [t EXCEPT !.rAmount = t.rAmount + new.rAmount] = r
        BY <4>2
      <4> HIDE DEF t, r
      <4> QED BY <4>3, Zenon DEF t
    <3>3. [s EXCEPT !.refills[n].rAmount = t.rAmount + new.rAmount]
            = [s EXCEPT !.refills = [q EXCEPT ![n].rAmount = t.rAmount + new.rAmount]]
      BY DEF Context
    <3> QED BY <3>1, <3>2, <3>3, Zenon
  <2> HIDE DEF r
  <2>3. q1 \in Seq(Refill)
    BY <1>1, <2>1, Replaced
  <2>4. schedule_used(s, new).refills = q1
    <3>1. [s EXCEPT !.refills = q1].refills = q1
      <4> HIDE DEF q1
      <4> QED BY <2>3, ContextWith, Zenon
    <3> HIDE DEF q1
    <3> QED BY <2>2, <3>1, Zenon
  <2>5. Grown(t, new, ~(n < s.max), r)
    BY <1>3, <2>1, Zenon DEF Grown
  <2> QED BY <2>4, <2>5, Zenon
<1>4. CASE ~(t.rTime + t.rAmount >= new.rTime) /\ n < s.max
  <2>1. schedule_used(s, new) = [s EXCEPT !.refills = Append(q, new)]
    BY <1>4, Zenon DEF schedule_used
  <2>2. Append(q, new) \in Seq(Refill)
    BY <1>1
  <2>3. [s EXCEPT !.refills = Append(q, new)].refills = Append(q, new)
    BY <2>2, ContextWith, Zenon
  <2>4. schedule_used(s, new).refills = Append(q, new)
    BY <2>1, <2>3, Zenon
  <2> QED BY <2>4, Zenon
<1>5. CASE ~(t.rTime + t.rAmount >= new.rTime) /\ ~(n < s.max)
  <2> DEFINE r == [rTime |-> new.rTime - t.rAmount, rAmount |-> t.rAmount + new.rAmount]
             q1 == [q EXCEPT ![n] = r]
  <2>1. r \in Refill /\ r.rTime = new.rTime - t.rAmount /\ r.rAmount = t.rAmount + new.rAmount
    <3>1. new.rTime - t.rAmount \in Nat /\ t.rAmount + new.rAmount \in Nat
      <4> HIDE DEF t, n
      <4> QED BY <1>2, <1>5
    <3> QED BY <3>1 DEF Refill
  <2>2. schedule_used(s, new) = [s EXCEPT !.refills = q1]
    <3>1. schedule_used(s, new) = [s EXCEPT !.refills[n] = r]
      BY <1>5, Zenon DEF schedule_used
    <3> QED BY <3>1 DEF Context
  <2> HIDE DEF r
  <2>3. q1 \in Seq(Refill)
    BY <1>1, <2>1, Replaced
  <2>4. schedule_used(s, new).refills = q1
    <3>1. [s EXCEPT !.refills = q1].refills = q1
      <4> HIDE DEF q1
      <4> QED BY <2>3, ContextWith, Zenon
    <3> HIDE DEF q1
    <3> QED BY <2>2, <3>1, Zenon
  <2>5. Grown(t, new, ~(n < s.max), r)
    BY <1>5, <2>1, Zenon DEF Grown
  <2> QED BY <2>4, <2>5, Zenon
<1> QED BY <1>3, <1>4, <1>5, Zenon

\* The time used stands in the queue, no earlier than it was scheduled
LEMMA UsedIsLater ==
  ASSUME NEW s \in Context, NEW new \in Refill, Len(s.refills) >= 1, NEW y \in Int
  PROVE  budgetFrom(s.refills, y) + ticksFrom(new.rTime, new.rAmount, y)
           <= budgetFrom(schedule_used(s, new).refills, y)
<1> DEFINE q == s.refills
           n == Len(q)
           t == q[n]
           F(r) == ticksFrom(r.rTime, r.rAmount, y)
           A == budgetFrom(q, y)
<1>1. q \in Seq(Refill) /\ n \in Nat /\ n \in 1 .. n /\ n > 0
  BY ContextFacts
<1>2. t \in Refill /\ t.rTime \in Nat /\ t.rAmount \in Nat /\ new.rTime \in Nat /\ new.rAmount \in Nat
  BY <1>1, Elements, RefillFacts, Zenon
<1>3. A \in Nat /\ F(new) \in Nat /\ F(t) \in Nat
  BY <1>1, <1>2, FromBound, RefillFrom, Zenon
<1>4. CASE schedule_used(s, new).refills = Append(q, new)
  <2>1. budgetFrom(Append(q, new), y) = A + F(new)
    BY <1>1, FromAppend, Zenon
  <2>2. A + F(new) <= A + F(new)
    <3> HIDE DEF A, F
    <3> QED BY <1>3
  <2> QED BY <1>4, <2>1, <2>2, Zenon
<1>5. ASSUME NEW r, Grown(t, new, ~(n < s.max), r),
             schedule_used(s, new).refills = [q EXCEPT ![n] = r]
      PROVE  A + F(new) <= budgetFrom(schedule_used(s, new).refills, y)
  <2>0. r \in Refill
    BY <1>5, Zenon DEF Grown
  <2>1. budgetFrom([q EXCEPT ![n] = r], y) = A - F(t) + F(r)
    BY <1>1, <2>0, FromReplace, Zenon
  <2>2. F(t) + F(new) <= F(r)
    <3> DEFINE a == t.rTime
               b == t.rAmount
               c == new.rTime
               d == new.rAmount
    <3>1. /\ a + b >= c => ticksFrom(a, b, y) + ticksFrom(c, d, y) <= ticksFrom(a, b + d, y)
          /\ a + b <= c => ticksFrom(a, b, y) + ticksFrom(c, d, y) <= ticksFrom(c - b, b + d, y)
      <4>1. a \in Int /\ c \in Int
        BY <1>2
      <4> QED BY <1>2, <4>1, TicksMerged, Zenon
    <3>2. ~(a + b >= c) => a + b <= c
      <4> HIDE DEF t
      <4> QED BY <1>2
    <3> QED BY <1>5, <3>1, <3>2, Zenon DEF Grown
  <2>3. F(r) \in Nat
    BY <2>0, RefillFrom, Zenon
  <2>4. A + F(new) <= A - F(t) + F(r)
    <3> HIDE DEF A, F
    <3> QED BY <1>3, <2>2, <2>3
  <2> QED BY <1>5, <2>1, <2>4, Zenon
<1> QED BY <1>4, <1>5, UsedShape, Zenon

\* A refill scheduled behind the head leaves the head alone, and the one behind the head
\* does not come closer
LEMMA SecondAfterUse ==
  ASSUME NEW s \in Context, NEW new \in Refill, Len(s.refills) >= 1, s.max >= 2,
         ~refill_head_overlapping(s), s.refills[1].rTime + s.refills[1].rAmount < new.rTime
  PROVE  LET q == s.refills
             q1 == schedule_used(s, new).refills
         IN /\ q1 \in Seq(Refill) /\ Len(q1) >= 2 /\ q1[1] = q[1]
            /\ q1[2].rTime > q[1].rTime + q[1].rAmount
<1> DEFINE q == s.refills
           n == Len(q)
           t == q[n]
           q1 == schedule_used(s, new).refills
           e == q[1].rTime + q[1].rAmount
<1>1. q \in Seq(Refill) /\ n \in Nat /\ n >= 1 /\ n \in 1 .. n /\ 1 \in 1 .. n /\ s.max \in Nat
  BY ContextFacts
<1>2. /\ t \in Refill /\ t.rTime \in Nat /\ t.rAmount \in Nat /\ new.rTime \in Nat /\ new.rAmount \in Nat
      /\ q[1].rTime \in Nat /\ q[1].rAmount \in Nat
  BY <1>1, Elements, RefillFacts, Zenon
<1>3. e \in Nat /\ new.rTime > e
  <2>1. q[1].rTime + q[1].rAmount < new.rTime
    OBVIOUS
  <2> HIDE DEF q, n, t
  <2> QED BY <1>2, <2>1
<1>4. n = 1 \/ (n >= 2 /\ 2 \in 1 .. n /\ q[2].rTime \in Nat /\ q[2].rTime > e)
  <2> SUFFICES ASSUME n # 1 PROVE n >= 2 /\ 2 \in 1 .. n /\ q[2].rTime \in Nat /\ q[2].rTime > e
    OBVIOUS
  <2>1. n >= 2 /\ 2 \in 1 .. n
    <3> HIDE DEF q, n
    <3> QED BY <1>1
  <2>2. q[2].rTime \in Nat /\ ~(q[2].rTime <= e)
    BY <1>1, <2>1, Elements, Zenon DEF refill_head_overlapping, refill_single, refill_head
  <2> HIDE DEF e, q, n
  <2> QED BY <1>3, <2>1, <2>2
<1>5. CASE q1 = Append(q, new)
  <2>1. /\ Append(q, new) \in Seq(Refill) /\ Len(Append(q, new)) = n + 1
        /\ \A i \in 1 .. n + 1 : Append(q, new)[i] = IF i = n + 1 THEN new ELSE q[i]
    <3> HIDE DEF q
    <3> QED BY <1>1
  <2>2. n + 1 >= 2 /\ 1 \in 1 .. n + 1 /\ 2 \in 1 .. n + 1 /\ 1 # n + 1 /\ (n = 1 => 2 = n + 1)
        /\ (n >= 2 => 2 # n + 1)
    <3> HIDE DEF q, n
    <3> QED BY <1>1
  <2>3. Append(q, new)[1] = q[1] /\ Append(q, new)[2].rTime > e
    <3> HIDE DEF e
    <3> QED BY <1>3, <1>4, <2>1, <2>2, Zenon
  <2> QED BY <1>5, <2>1, <2>2, <2>3, Zenon
<1>6. ASSUME NEW r, Grown(t, new, ~(n < s.max), r),
             q1 = [q EXCEPT ![n] = r]
      PROVE  q1 \in Seq(Refill) /\ Len(q1) >= 2 /\ q1[1] = q[1] /\ q1[2].rTime > e
  <2>0. r \in Refill /\ r.rTime \in Nat
    BY <1>6, RefillFacts, Zenon DEF Grown
  <2>1. q1 \in Seq(Refill) /\ Len(q1) = n /\ \A i \in 1 .. n : q1[i] = IF i = n THEN r ELSE q[i]
    <3> DEFINE q2 == [q EXCEPT ![n] = r]
    <3>1. q2 \in Seq(Refill) /\ Len(q2) = n /\ \A i \in 1 .. n : q2[i] = IF i = n THEN r ELSE q[i]
      BY <1>1, <2>0, Replaced
    <3>2. q1 = q2
      BY <1>6, Zenon
    <3> HIDE DEF q1, q2
    <3> QED BY <3>1, <3>2, Zenon
  <2> HIDE DEF q1
  <2>2. n # 1
    <3> SUFFICES ASSUME n = 1 PROVE FALSE
      OBVIOUS
    <3>1. t = q[1] /\ n < s.max
      BY <1>1
    <3>2. e >= new.rTime
      BY <1>6, <3>1, Zenon DEF Grown
    <3> HIDE DEF e
    <3> QED BY <1>2, <1>3, <3>2
  <2>3. n >= 2 /\ 2 \in 1 .. n /\ q[2].rTime \in Nat /\ q[2].rTime > e
    BY <1>4, <2>2, Zenon
  <2>4. q1[1] = q[1]
    BY <1>1, <2>1, <2>2, Zenon
  <2>5. CASE n = 2
    <3>1. q1[2] = r /\ t = q[2]
      BY <2>1, <2>3, <2>5, Zenon
    <3>2. r.rTime >= t.rTime
      <4>1. r.rTime = t.rTime \/ (~(t.rTime + t.rAmount >= new.rTime) /\ r.rTime = new.rTime - t.rAmount)
        BY <1>6, Zenon DEF Grown
      <4> HIDE DEF t, n
      <4> QED BY <1>2, <2>0, <4>1
    <3>3. r.rTime > e
      <4>1. r.rTime >= q[2].rTime
        BY <3>1, <3>2, Zenon
      <4> HIDE DEF e, t, q, n
      <4> QED BY <1>3, <2>0, <2>3, <4>1
    <3> QED BY <2>1, <2>3, <2>4, <3>1, <3>3, Zenon
  <2>6. CASE n # 2
    BY <2>1, <2>3, <2>4, <2>6, Zenon
  <2> QED BY <2>5, <2>6, Zenon
<1> QED BY <1>5, <1>6, UsedShape, Zenon

\* A head that is charged whole comes back a period later.  If it did not overlap with the
\* next refill, the new head begins after the end of the old one.
LEMMA EntireIsLater ==
  ASSUME NEW s \in Context, Len(s.refills) \in 1 .. s.max, s.max >= 2, Queue(s.refills, s.period),
         NEW y \in Int
  PROVE  LET h == s.refills[1]
             q1 == charge_entire_head_refill(s).refills
         IN /\ budgetFrom(s.refills, y) - ticksFrom(h.rTime, h.rAmount, y)
                 + ticksFrom(h.rTime + s.period, h.rAmount, y) <= budgetFrom(q1, y)
            /\ ~refill_head_overlapping(s) /\ h.rAmount < s.period => q1[1].rTime > h.rTime + h.rAmount
<1> DEFINE q == s.refills
           n == Len(q)
           h == q[1]
           d == [rTime |-> h.rTime + s.period, rAmount |-> h.rAmount]
           A == budgetFrom(q, y)
           fh == ticksFrom(h.rTime, h.rAmount, y)
           fd == ticksFrom(h.rTime + s.period, h.rAmount, y)
           c == charge_entire_head_refill(s)
<1>1. /\ q \in Seq(Refill) /\ n \in Nat /\ n >= 1 /\ n <= s.max /\ n > 0 /\ 1 \in 1 .. n
      /\ s.period \in Nat /\ s.max \in Nat /\ h \in Refill /\ h.rTime \in Nat /\ h.rAmount \in Nat
  <2>1. /\ q \in Seq(Refill) /\ n \in Nat /\ n >= 1 /\ n <= s.max /\ 1 \in 1 .. n
        /\ s.period \in Nat /\ s.max \in Nat /\ h \in Refill /\ h.rTime \in Nat /\ h.rAmount \in Nat
    BY ContextFacts, HeadFacts, Zenon
  <2>2. n > 0
    <3> HIDE DEF n, q
    <3> QED BY <2>1
  <2> QED BY <2>1, <2>2, Zenon
<1>2. d \in Refill /\ d.rTime = h.rTime + s.period /\ d.rAmount = h.rAmount
  <2>1. h.rTime + s.period \in Nat
    <3> HIDE DEF h
    <3> QED BY <1>1
  <2> QED BY <1>1, <2>1 DEF Refill
<1>3. [refill_head(s) EXCEPT !.rTime = @ + s.period] = d
  <2>2. refill_head(s) = h /\ h = [rTime |-> h.rTime, rAmount |-> h.rAmount]
    BY <1>1, RefillFacts, Zenon DEF refill_head
  <2> HIDE DEF h
  <2> QED BY <2>2
<1>4. c = IF n = 1 THEN setHead(s, d) ELSE schedule_used(refill_pop_head(s), d)
  BY <1>3, Zenon DEF charge_entire_head_refill, refill_single
<1> HIDE DEF d
<1>5. A \in Nat /\ fh \in Nat /\ fd \in Nat /\ fd = ticksFrom(d.rTime, d.rAmount, y)
  BY <1>1, <1>2, FromBound, RefillFrom, Zenon
<1>6. CASE n = 1
  <2> DEFINE q1 == [q EXCEPT ![1] = d]
  <2>1. setHead(s, d).refills = q1 /\ q1[1] = d
    <3>1. setHead(s, d).refills = q1
      BY <1>1, <1>2, HeadSet, ZenonT(60)
    <3>2. q1[1] = d
      BY <1>1
    <3> QED BY <3>1, <3>2, Zenon
  <2>2. budgetFrom(q1, y) = A - fh + fd
    BY <1>1, <1>2, <1>5, FromReplace, ZenonT(60)
  <2> HIDE DEF q1
  <2>4. c.refills = q1
    BY <1>4, <1>6, <2>1, Zenon
  <2>5. A - fh + fd <= A - fh + fd
    <3> HIDE DEF A, fh, fd
    <3> QED BY <1>5
  <2>6. h.rAmount < s.period => d.rTime > h.rTime + h.rAmount
    <3> HIDE DEF h
    <3> QED BY <1>1, <1>2
  <2> HIDE DEF c
  <2> QED BY <2>1, <2>2, <2>4, <2>5, <2>6, Zenon DEF c
<1>7. CASE n # 1
  <2> DEFINE s1 == refill_pop_head(s)
             q1 == Tail(q)
  <2>0. n >= 2 /\ 2 \in 1 .. n /\ 1 \in 1 .. n - 1 /\ 1 + 1 = 2
    <3> HIDE DEF n, q
    <3> QED BY <1>1, <1>7
  <2>1. q1 \in Seq(Refill) /\ Len(q1) = n - 1 /\ \A i \in 1 .. n - 1 : q1[i] = q[i + 1]
    <3>1. \A i \in 1 .. n - 1 : Tail(q)[i] = q[i + 1]
      BY <1>1
    <3> QED BY <1>1, <2>0, <3>1
  <2>2. budgetFrom(q1, y) = A - fh
    BY <1>1, FromTail, Zenon
  <2>3. q1[1] = q[2]
    <3> HIDE DEF q1
    <3> QED BY <2>0, <2>1, Zenon
  <2> HIDE DEF q1
  <2>4. s1 = [s EXCEPT !.refills = q1]
    BY Zenon DEF refill_pop_head, q1
  <2>5. [s EXCEPT !.refills = q1] \in Context /\ [s EXCEPT !.refills = q1].refills = q1
    BY <2>1, ContextWith, Zenon
  <2>6. s1 \in Context /\ s1.refills = q1
    BY <2>4, <2>5, Zenon
  <2>7. Len(s1.refills) >= 1
    <3>1. Len(s1.refills) = n - 1
      BY <2>1, <2>6, Zenon
    <3> HIDE DEF n, q, s1
    <3> QED BY <1>1, <2>0, <3>1
  <2> HIDE DEF s1
  <2>8. budgetFrom(q1, y) + fd <= budgetFrom(schedule_used(s1, d).refills, y)
    BY <1>2, <1>5, <2>6, <2>7, UsedIsLater, Zenon
  <2>9. c = schedule_used(s1, d)
    BY <1>4, <1>7, Zenon DEF s1
  <2>10. A - fh + fd <= budgetFrom(c.refills, y)
    BY <2>2, <2>8, <2>9, Zenon
  <2>11. schedule_used(s1, d).refills[1].rTime >= q[2].rTime
    <3> DEFINE m == Len(q1)
               t == q1[m]
    <3>1. m \in 1 .. m /\ m \in Nat /\ m >= 1 /\ 1 \in 1 .. m
      <4>1. m = n - 1
        BY <2>1, Zenon
      <4> HIDE DEF m, n, q
      <4> QED BY <1>1, <2>0, <4>1
    <3>2. /\ t \in Refill /\ t.rTime \in Nat /\ t.rAmount \in Nat
          /\ d.rTime \in Nat /\ q[2].rTime \in Nat
      BY <1>1, <1>2, <2>0, <2>1, <3>1, Elements, RefillFacts, Zenon
    <3>3. q[2].rTime >= q[2].rTime
      BY <3>2
    <3>4. CASE schedule_used(s1, d).refills = Append(q1, d)
      <4>1. Append(q1, d)[1] = q1[1]
        BY <1>2, <2>1, <3>1
      <4> QED BY <2>3, <3>3, <3>4, <4>1, Zenon
    <3>5. ASSUME NEW r, Grown(t, d, ~(m < s1.max), r), schedule_used(s1, d).refills = [q1 EXCEPT ![m] = r]
          PROVE  schedule_used(s1, d).refills[1].rTime >= q[2].rTime
      <4>1. r \in Refill /\ r.rTime \in Nat
        BY <3>5, RefillFacts, Zenon DEF Grown
      <4>2. r.rTime = t.rTime \/ (~(t.rTime + t.rAmount >= d.rTime) /\ r.rTime = d.rTime - t.rAmount)
        BY <3>5, Zenon DEF Grown
      <4>3. r.rTime >= t.rTime
        <5> HIDE DEF t
        <5> QED BY <3>2, <4>1, <4>2
      <4>4. [q1 EXCEPT ![m] = r][1] = IF 1 = m THEN r ELSE q1[1]
        <5>1. \A i \in 1 .. m : [q1 EXCEPT ![m] = r][i] = IF i = m THEN r ELSE q1[i]
          BY <2>1, <3>1, <4>1, Replaced
        <5> QED BY <3>1, <5>1, Zenon
      <4>5. CASE m = 1
        BY <2>3, <3>5, <4>3, <4>4, <4>5, Zenon
      <4>6. CASE m # 1
        BY <2>3, <3>3, <3>5, <4>4, <4>6, Zenon
      <4> QED BY <4>5, <4>6, Zenon
    <3> QED BY <1>2, <2>6, <2>7, <3>4, <3>5, UsedShape, ZenonT(60)
  <2>12. ASSUME ~refill_head_overlapping(s) PROVE c.refills[1].rTime > h.rTime + h.rAmount
    <3> DEFINE z == schedule_used(s1, d).refills[1].rTime
    <3>1. ~(q[2].rTime <= h.rTime + h.rAmount) /\ q[2].rTime \in Nat
      BY <1>1, <1>7, <2>0, <2>12, Elements, Zenon DEF refill_head_overlapping, refill_single,
         refill_head
    <3>2. z \in Nat
      <4>1. ASSUME NEW v \in Seq(Refill), Len(v) >= 1 PROVE v[1].rTime \in Nat
        <5>1. 1 \in 1 .. Len(v)
          BY <4>1
        <5> QED BY <5>1, Elements, Zenon
      <4>2. \E v \in Seq(Refill) : Len(v) >= 1 /\ schedule_used(s1, d).refills = v
        <5>1. /\ Append(q1, d) \in Seq(Refill) /\ Len(Append(q1, d)) >= 1
          BY <1>2, <2>1, <2>6, <2>7
        <5>2. \A r \in Refill : [q1 EXCEPT ![Len(q1)] = r] \in Seq(Refill) /\ Len([q1 EXCEPT ![Len(q1)] = r]) >= 1
          BY <2>1, <2>6, <2>7
        <5>3. \A r : Grown(q1[Len(q1)], d, ~(Len(q1) < s1.max), r) => r \in Refill
          BY Zenon DEF Grown
        <5> QED BY <1>2, <2>6, <2>7, <5>1, <5>2, <5>3, UsedShape, Zenon
      <4> QED BY <4>1, <4>2, Zenon
    <3>3. z >= q[2].rTime
      BY <2>11, Zenon
    <3> HIDE DEF z, h, q
    <3>4. z > h.rTime + h.rAmount
      BY <1>1, <3>1, <3>2, <3>3
    <3> QED BY <2>9, <3>4, Zenon DEF z
  <2> HIDE DEF c
  <2> QED BY <2>10, <2>12, Zenon DEF c
<1> QED BY <1>6, <1>7, Zenon

\* The head goes into the next refill, which ends no later for it; the head begins later
LEMMA NonoverlappingIsLater ==
  ASSUME NEW s \in Context, Len(s.refills) \in 2 .. s.max, Queue(s.refills, s.period)
  PROVE  LET q == s.refills
             q1 == merge_nonoverlapping_head_refill(s).refills
         IN /\ Later(q, q1)
            /\ q1[1].rTime = q[2].rTime - q[1].rAmount
            /\ q[2].rTime - q[1].rAmount >= q[1].rTime
<1> DEFINE q == s.refills
           n == Len(q)
           q0 == Tail(q)
           r == [rTime |-> q[2].rTime - q[1].rAmount, rAmount |-> q[2].rAmount + q[1].rAmount]
           q1 == [q0 EXCEPT ![1] = r]
           s1 == refill_pop_head(s)
<1>1. q \in Seq(Refill) /\ n \in Nat /\ n >= 2 /\ s.max \in Nat
  <2>1. q \in Seq(Refill) /\ n \in Nat /\ s.max \in Nat /\ n \in 2 .. s.max
    BY ContextFacts, Zenon
  <2> HIDE DEF q, n
  <2> QED BY <2>1
<1>0. 1 \in 1 .. n /\ 2 \in 1 .. n /\ 1 \in 1 .. n - 1 /\ 1 + 1 = 2 /\ n > 0
  <2> HIDE DEF q, n
  <2> QED BY <1>1
<1>2. /\ q[1] \in Refill /\ q[2] \in Refill
      /\ q[1].rTime \in Nat /\ q[1].rAmount \in Nat /\ q[2].rTime \in Nat /\ q[2].rAmount \in Nat
      /\ q[1].rTime + q[1].rAmount <= q[2].rTime
  BY <1>0, <1>1, Elements, Zenon DEF Queue
<1>3. r \in Refill /\ r.rTime = q[2].rTime - q[1].rAmount /\ r.rAmount = q[2].rAmount + q[1].rAmount
  <2>1. q[2].rTime - q[1].rAmount \in Nat /\ q[2].rAmount + q[1].rAmount \in Nat
    BY <1>2
  <2> QED BY <2>1 DEF Refill
<1>4. q[2].rTime - q[1].rAmount >= q[1].rTime
  BY <1>2
<1>5. q0 \in Seq(Refill) /\ Len(q0) = n - 1 /\ q0[1] = q[2]
  <2>1. \A i \in 1 .. n - 1 : Tail(q)[i] = q[i + 1]
    BY <1>1
  <2>2. Tail(q)[1] = q[2]
    BY <1>0, <2>1, Zenon
  <2> QED BY <1>1, <2>2
<1>6. merge_nonoverlapping_head_refill(s) = setHead(s1, r)
  BY Zenon DEF merge_nonoverlapping_head_refill, refill_head
<1> HIDE DEF r
<1>7. ASSUME NEW y \in Int PROVE budgetFrom(q, y) <= budgetFrom(q1, y)
  <2> DEFINE a == q[1].rTime
             b == q[1].rAmount
             c == q[2].rTime
             d == q[2].rAmount
             A == budgetFrom(q, y)
  <2>1. budgetFrom(q0, y) = A - ticksFrom(a, b, y)
    BY <1>0, <1>1, FromTail, Zenon
  <2>2. budgetFrom(q1, y) = budgetFrom(q0, y) - ticksFrom(c, d, y) + ticksFrom(r.rTime, r.rAmount, y)
    <3>1. 1 \in 1 .. Len(q0)
      BY <1>0, <1>5, Zenon
    <3> HIDE DEF q0
    <3> QED BY <1>3, <1>5, <3>1, FromReplace, Zenon
  <2>3. ticksFrom(a, b, y) + ticksFrom(c, d, y) <= ticksFrom(c - b, b + d, y)
    <3>1. a \in Int /\ c \in Int /\ b \in Nat /\ d \in Nat /\ a + b <= c
      BY <1>2
    <3> HIDE DEF a, b, c, d
    <3> QED BY <3>1, TicksMerged, Zenon
  <2>4. ticksFrom(c - b, b + d, y) = ticksFrom(r.rTime, r.rAmount, y)
    <3>1. b + d = d + b
      BY <1>2
    <3> QED BY <1>3, <3>1, Zenon
  <2>5. A \in Nat /\ ticksFrom(a, b, y) \in Nat /\ ticksFrom(c, d, y) \in Nat /\ ticksFrom(r.rTime, r.rAmount, y) \in Nat
    BY <1>0, <1>1, <1>2, <1>3, FromBound, RefillFrom, Zenon
  <2> HIDE DEF A, a, b, c, d
  <2>6. A <= A - ticksFrom(a, b, y) - ticksFrom(c, d, y) + ticksFrom(r.rTime, r.rAmount, y)
    BY <2>3, <2>4, <2>5
  <2> QED BY <2>1, <2>2, <2>6, Zenon DEF A
<1>8. merge_nonoverlapping_head_refill(s).refills = q1 /\ q1[1] = r
  <2> HIDE DEF q0
  <2>1. s1 = [s EXCEPT !.refills = q0]
    BY Zenon DEF refill_pop_head, q0
  <2>2. s1 \in Context /\ s1.refills = q0
    <3>1. [s EXCEPT !.refills = q0] \in Context /\ [s EXCEPT !.refills = q0].refills = q0
      BY <1>5, ContextWith, Zenon
    <3> QED BY <2>1, <3>1, Zenon
  <2> HIDE DEF s1
  <2>3. Len(s1.refills) >= 1 /\ 1 \in 1 .. Len(s1.refills)
    <3>1. Len(s1.refills) = n - 1
      BY <1>5, <2>2, Zenon
    <3> HIDE DEF n, q
    <3> QED BY <1>1, <3>1
  <2>4. setHead(s1, r).refills = q1 /\ q1[1] = r
    <3>0. r \in Refill
      BY <1>3, Zenon
    <3> HIDE DEF r
    <3>1. setHead(s1, r).refills = q1
      BY <2>2, <2>3, <3>0, HeadSet, ZenonT(60)
    <3>2. q0 \in Seq(Refill) /\ 1 \in 1 .. Len(q0)
      BY <1>5, <2>2, <2>3, Zenon
    <3>3. q1[1] = r
      BY <3>0, <3>2
    <3> QED BY <3>1, <3>3, Zenon
  <2> QED BY <1>6, <2>4, Zenon
<1> HIDE DEF q1
<1> QED BY <1>3, <1>4, <1>7, <1>8, Zenon DEF Later

\* One round of the loop that makes the head sufficient moves nothing closer
LEMMA InsufficientRoundLater ==
  ASSUME NEW s \in Context, NEW X \in Int, NEW o, InsufficientInv(s, X, o)
  PROVE  LET o1 == insufficientRound(o)
         IN \/ o1 = o
            \/ /\ Len(o.refills) # 1 /\ head_refill_insufficient(o)
               /\ Later(o.refills, o1.refills)
               /\ o1.refills[1].rTime = o.refills[2].rTime - o.refills[1].rAmount
               /\ o1.refills[1].rTime >= o.refills[1].rTime
<1> SUFFICES ASSUME insufficientRound(o) # o
             PROVE  /\ Len(o.refills) # 1 /\ head_refill_insufficient(o)
                    /\ Later(o.refills, insufficientRound(o).refills)
                    /\ insufficientRound(o).refills[1].rTime = o.refills[2].rTime - o.refills[1].rAmount
                    /\ insufficientRound(o).refills[1].rTime >= o.refills[1].rTime
  BY Zenon
<1>1. /\ insufficientRound(o) = merge_nonoverlapping_head_refill(o) /\ Len(o.refills) # 1
      /\ head_refill_insufficient(o)
  BY Zenon DEF insufficientRound, refill_single
<1>2. o \in Context /\ Len(o.refills) \in 1 .. o.max /\ Queue(o.refills, o.period)
  BY Zenon DEF InsufficientInv, Keeps
<1>3. Len(o.refills) \in 2 .. o.max
  <2>1. Len(o.refills) \in Nat /\ o.max \in Nat
    BY <1>2, ContextFacts, Zenon
  <2> QED BY <1>1, <1>2, <2>1, MoreThanOne, Zenon
<1> QED BY <1>1, <1>2, <1>3, NonoverlappingIsLater, Zenon

\* Moving later twice
LEMMA LaterTwice ==
  ASSUME NEW q \in Seq(Refill), NEW q1 \in Seq(Refill), NEW q2 \in Seq(Refill),
         Len(q) > 0, Len(q1) > 0, Len(q2) > 0, Later(q, q1), Later(q1, q2)
  PROVE  Later(q, q2)
<1> SUFFICES ASSUME NEW y \in Int PROVE budgetFrom(q, y) <= budgetFrom(q2, y)
  BY Zenon DEF Later
<1>1. budgetFrom(q, y) \in Nat /\ budgetFrom(q1, y) \in Nat /\ budgetFrom(q2, y) \in Nat
  BY FromBound, Zenon
<1>2. budgetFrom(q, y) <= budgetFrom(q1, y) /\ budgetFrom(q1, y) <= budgetFrom(q2, y)
  BY Zenon DEF Later
<1> QED BY <1>1, <1>2

\* No queue moves by itself
LEMMA LaterSelf ==
  ASSUME NEW q \in Seq(Refill), Len(q) > 0
  PROVE  Later(q, q)
<1> SUFFICES ASSUME NEW y \in Int PROVE budgetFrom(q, y) <= budgetFrom(q, y)
  BY Zenon DEF Later
<1>1. budgetFrom(q, y) \in Nat
  BY FromBound, Zenon
<1> QED BY <1>1

\* The queue that a round of the loops starts from
LEMMA KeptQueue ==
  ASSUME NEW s, NEW X, NEW o, Keeps(s, o, X)
  PROVE  /\ o \in Context /\ o.refills \in Seq(Refill) /\ Len(o.refills) > 0
         /\ o.refills[1].rTime \in Nat /\ o.refills[1].rAmount \in Nat
<1>1. o \in Context /\ Len(o.refills) \in 1 .. o.max /\ Queue(o.refills, o.period)
  BY Zenon DEF Keeps
<1>2. /\ Len(o.refills) \in Nat /\ Len(o.refills) >= 1
      /\ o.refills[1].rTime \in Nat /\ o.refills[1].rAmount \in Nat
  BY <1>1, HeadFacts, Zenon
<1>3. Len(o.refills) > 0
  BY <1>2
<1> QED BY <1>1, <1>2, <1>3, ContextFacts, Zenon

\* The head begins after T, or is about to be merged into one that begins so much after T
\* that the two together do
BeginsAfter(s, T) ==
  \/ s.refills[1].rTime > T
  \/ /\ head_refill_insufficient(s)
     /\ s.refills[2].rTime - s.refills[1].rAmount > T

\* The loop that makes the head sufficient moves nothing closer, and the head it leaves
\* begins after T
LEMMA InsufficientIsLater ==
  ASSUME NEW s \in Context, NEW X \in Int, Keeps(s, s, X), refill_sum(s) >= MIN_BUDGET, NEW T \in Int
  PROVE  LET s1 == merge_insufficient(s)
         IN /\ Later(s.refills, s1.refills)
            /\ BeginsAfter(s, T) => s1.refills[1].rTime > T
<1> DEFINE n == Len(s.refills)
           s1 == merge_insufficient(s)
<1>1. n \in Nat /\ n >= 1 /\ s.refills \in Seq(Refill) /\ n > 0
  BY HeadFacts, KeptQueue, Zenon DEF Keeps
<1>2. PICK g : /\ g[0] = s
               /\ \A i \in 1 .. n : g[i] = insufficientRound(g[i - 1])
               /\ s1 = g[n]
  BY <1>1, InsufficientRounds, Zenon
<1> DEFINE I(i) == /\ InsufficientInv(s, X, g[i])
                   /\ Later(s.refills, g[i].refills)
                   /\ BeginsAfter(s, T) => g[i] = s \/ g[i].refills[1].rTime > T
           S == {i \in 0 .. n : I(i)}
<1>3. I(0)
  <2>1. InsufficientInv(s, X, s) /\ Later(s.refills, s.refills)
    BY <1>1, LaterSelf, Zenon DEF InsufficientInv
  <2> QED BY <1>2, <2>1, Zenon
<1>4. ASSUME NEW i \in 1 .. n, I(i - 1) PROVE I(i)
  <2> DEFINE a == g[i - 1]
             b == g[i]
  <2>1. b = insufficientRound(a)
    BY <1>2, Zenon
  <2>2. InsufficientInv(s, X, a) /\ InsufficientInv(s, X, b)
    BY <1>4, <2>1, InsufficientStep, Zenon
  <2>3. CASE b = a
    BY <1>4, <2>2, <2>3, Zenon
  <2>4. CASE b # a
    <3>1. /\ head_refill_insufficient(a) /\ Later(a.refills, b.refills)
          /\ b.refills[1].rTime = a.refills[2].rTime - a.refills[1].rAmount
          /\ b.refills[1].rTime >= a.refills[1].rTime
      BY <2>1, <2>2, <2>4, InsufficientRoundLater, Zenon
    <3>2. /\ a.refills \in Seq(Refill) /\ Len(a.refills) > 0 /\ a.refills[1].rTime \in Nat
          /\ b.refills \in Seq(Refill) /\ Len(b.refills) > 0 /\ b.refills[1].rTime \in Nat
      BY <2>2, KeptQueue, Zenon DEF InsufficientInv
    <3>3. Later(s.refills, b.refills)
      BY <1>1, <1>4, <3>1, <3>2, LaterTwice, Zenon
    <3>4. ASSUME BeginsAfter(s, T) PROVE b.refills[1].rTime > T
      <4>1. a.refills[1].rTime > T \/ b.refills[1].rTime > T
        <5>1. a = s \/ a.refills[1].rTime > T
          BY <1>4, <3>4, Zenon
        <5> QED BY <3>1, <3>4, <5>1, Zenon DEF BeginsAfter
      <4> HIDE DEF a, b
      <4> QED BY <3>1, <3>2, <4>1
    <3> QED BY <2>2, <3>3, <3>4, Zenon
  <2> QED BY <2>3, <2>4, Zenon
<1>5. I(n)
  <2> HIDE DEF I
  <2>1. 0 \in S /\ n \in 0 .. n /\ \A i \in 1 .. n : i \in 0 .. n
    BY <1>1, <1>3
  <2>2. \A i \in 1 .. n : i - 1 \in S => i \in S
    BY <1>4, <2>1, Zenon
  <2>3. n \in S
    <3> HIDE DEF S
    <3> QED BY <1>1, <2>1, <2>2, UpTo, Zenon
  <2> QED BY <2>3, Zenon
<1>6. ASSUME BeginsAfter(s, T) PROVE s1.refills[1].rTime > T
  <2>1. s1 = s \/ s1.refills[1].rTime > T
    BY <1>2, <1>5, <1>6, Zenon
  <2>2. s1.refills[1].rAmount >= MIN_BUDGET
    BY MergeInsufficient, Zenon
  <2>3. s.refills[1].rAmount \in Nat /\ MIN_BUDGET \in Nat
    BY ConstantFacts, KeptQueue, Zenon
  <2>4. s1 = s => ~head_refill_insufficient(s)
    <3> SUFFICES ASSUME s1 = s PROVE ~head_refill_insufficient(s)
      OBVIOUS
    <3>1. s.refills[1].rAmount >= MIN_BUDGET
      BY <2>2, Zenon
    <3> QED BY <2>3, <3>1 DEF head_refill_insufficient, refill_head
  <2> QED BY <1>6, <2>1, <2>4, Zenon DEF BeginsAfter
<1> QED BY <1>2, <1>5, <1>6, Zenon

\* The head takes over the next refill, which has begun by its end
LEMMA OverlappingIsLater ==
  ASSUME NEW s \in Context, Len(s.refills) \in 2 .. s.max, refill_head_overlapping(s)
  PROVE  Later(s.refills, merge_overlapping_head_refill(s).refills)
<1> DEFINE q == s.refills
           n == Len(q)
           q0 == Tail(q)
           r == [rTime |-> q[1].rTime, rAmount |-> q[2].rAmount + q[1].rAmount]
           q1 == [q0 EXCEPT ![1] = r]
           s1 == refill_pop_head(s)
<1>1. q \in Seq(Refill) /\ n \in Nat /\ n >= 2 /\ s.max \in Nat
  <2>1. q \in Seq(Refill) /\ n \in Nat /\ s.max \in Nat /\ n \in 2 .. s.max
    BY ContextFacts, Zenon
  <2> HIDE DEF q, n
  <2> QED BY <2>1
<1>0. 1 \in 1 .. n /\ 2 \in 1 .. n /\ 1 \in 1 .. n - 1 /\ 1 + 1 = 2 /\ n > 0
  <2> HIDE DEF q, n
  <2> QED BY <1>1
<1>2. /\ q[1] \in Refill /\ q[2] \in Refill
      /\ q[1].rTime \in Nat /\ q[1].rAmount \in Nat /\ q[2].rTime \in Nat /\ q[2].rAmount \in Nat
      /\ q[2].rTime <= q[1].rTime + q[1].rAmount
  BY <1>0, <1>1, Elements, Zenon DEF refill_head_overlapping, refill_head
<1>3. r \in Refill /\ r.rTime = q[1].rTime /\ r.rAmount = q[2].rAmount + q[1].rAmount
  <2>1. q[2].rAmount + q[1].rAmount \in Nat
    BY <1>2
  <2> QED BY <1>2, <2>1 DEF Refill
<1>5. q0 \in Seq(Refill) /\ Len(q0) = n - 1 /\ q0[1] = q[2]
  <2>1. \A i \in 1 .. n - 1 : Tail(q)[i] = q[i + 1]
    BY <1>1
  <2>2. Tail(q)[1] = q[2]
    BY <1>0, <2>1, Zenon
  <2> QED BY <1>1, <2>2
<1>6. merge_overlapping_head_refill(s) = setHead(s1, r)
  BY Zenon DEF merge_overlapping_head_refill, refill_head
<1> HIDE DEF r
<1>7. ASSUME NEW y \in Int PROVE budgetFrom(q, y) <= budgetFrom(q1, y)
  <2> DEFINE a == q[1].rTime
             b == q[1].rAmount
             c == q[2].rTime
             d == q[2].rAmount
             A == budgetFrom(q, y)
  <2>1. budgetFrom(q0, y) = A - ticksFrom(a, b, y)
    BY <1>0, <1>1, FromTail, Zenon
  <2>2. budgetFrom(q1, y) = budgetFrom(q0, y) - ticksFrom(c, d, y) + ticksFrom(r.rTime, r.rAmount, y)
    <3>1. 1 \in 1 .. Len(q0)
      BY <1>0, <1>5, Zenon
    <3> HIDE DEF q0
    <3> QED BY <1>3, <1>5, <3>1, FromReplace, Zenon
  <2>3. ticksFrom(a, b, y) + ticksFrom(c, d, y) <= ticksFrom(a, b + d, y)
    <3>1. a \in Int /\ c \in Int /\ b \in Nat /\ d \in Nat /\ a + b >= c
      BY <1>2
    <3> HIDE DEF a, b, c, d
    <3> QED BY <3>1, TicksMerged, Zenon
  <2>4. ticksFrom(a, b + d, y) = ticksFrom(r.rTime, r.rAmount, y)
    <3>1. b + d = d + b
      BY <1>2
    <3> QED BY <1>3, <3>1, Zenon
  <2>5. A \in Nat /\ ticksFrom(a, b, y) \in Nat /\ ticksFrom(c, d, y) \in Nat /\ ticksFrom(r.rTime, r.rAmount, y) \in Nat
    BY <1>0, <1>1, <1>2, <1>3, FromBound, RefillFrom, Zenon
  <2> HIDE DEF A, a, b, c, d
  <2>6. A <= A - ticksFrom(a, b, y) - ticksFrom(c, d, y) + ticksFrom(r.rTime, r.rAmount, y)
    BY <2>3, <2>4, <2>5
  <2> QED BY <2>1, <2>2, <2>6, Zenon DEF A
<1>8. merge_overlapping_head_refill(s).refills = q1
  <2> HIDE DEF q0
  <2>1. s1 = [s EXCEPT !.refills = q0]
    BY Zenon DEF refill_pop_head, q0
  <2>2. s1 \in Context /\ s1.refills = q0
    <3>1. [s EXCEPT !.refills = q0] \in Context /\ [s EXCEPT !.refills = q0].refills = q0
      BY <1>5, ContextWith, Zenon
    <3> QED BY <2>1, <3>1, Zenon
  <2> HIDE DEF s1
  <2>3. Len(s1.refills) >= 1 /\ 1 \in 1 .. Len(s1.refills)
    <3>1. Len(s1.refills) = n - 1
      BY <1>5, <2>2, Zenon
    <3> HIDE DEF n, q
    <3> QED BY <1>1, <3>1
  <2>4. setHead(s1, r).refills = q1
    BY <1>3, <2>2, <2>3, HeadSet, ZenonT(60)
  <2> QED BY <1>6, <2>4, Zenon
<1> HIDE DEF q1
<1> QED BY <1>7, <1>8, Zenon DEF Later

\* The loop that merges what has become available moves nothing closer
LEMMA MergedIsLater ==
  ASSUME NEW s \in Context, Len(s.refills) \in 1 .. s.max, Loose(s.refills, s.period)
  PROVE  Later(s.refills, merge_overlapping(s).refills)
<1> DEFINE n == Len(s.refills)
<1>1. n \in Nat /\ n >= 1 /\ n > 0 /\ s.refills \in Seq(Refill) /\ s.refills[1].rAmount \in Nat
  <2>1. n \in Nat /\ s.max \in Nat /\ s.refills \in Seq(Refill) /\ n \in 1 .. s.max
    BY ContextFacts, Zenon
  <2>2. n >= 1 /\ n > 0
    <3> HIDE DEF n
    <3> QED BY <2>1
  <2> QED BY <2>1, <2>2, LooseHead, Zenon
<1>2. PICK g : /\ g[0] = s
               /\ \A i \in 1 .. n : g[i] = overlappingRound(g[i - 1])
               /\ merge_overlapping(s) = g[n]
  BY <1>1, OverlappingRounds, Zenon
<1> DEFINE I(i) == OverlappingInv(s, g[i]) /\ Later(s.refills, g[i].refills)
           S == {i \in 0 .. n : I(i)}
<1>3. I(0)
  <2>1. s.refills[1].rAmount >= s.refills[1].rAmount
    BY <1>1
  <2>2. OverlappingInv(s, s) /\ Later(s.refills, s.refills)
    BY <1>1, <2>1, LaterSelf, Zenon DEF OverlappingInv
  <2> QED BY <1>2, <2>2, Zenon
<1>4. ASSUME NEW i \in 1 .. n, I(i - 1) PROVE I(i)
  <2> DEFINE a == g[i - 1]
             b == g[i]
  <2>1. b = overlappingRound(a)
    BY <1>2, Zenon
  <2>2. OverlappingInv(s, a) /\ OverlappingInv(s, b)
    BY <1>1, <1>4, <2>1, OverlappingStep, Zenon
  <2>3. CASE ~refill_head_overlapping(a)
    <3>1. b = a
      BY <2>1, <2>3, Zenon DEF overlappingRound
    <3> QED BY <1>4, <2>2, <3>1, Zenon
  <2>4. CASE refill_head_overlapping(a)
    <3>1. ASSUME NEW o, OverlappingInv(s, o)
          PROVE  o \in Context /\ o.refills \in Seq(Refill) /\ Len(o.refills) > 0
                 /\ Len(o.refills) \in 1 .. o.max /\ Len(o.refills) \in Nat /\ o.max \in Nat
      <4>1. o \in Context /\ Len(o.refills) \in 1 .. o.max
        BY <3>1, Zenon DEF OverlappingInv
      <4>2. o.refills \in Seq(Refill) /\ Len(o.refills) \in Nat /\ o.max \in Nat
        BY <4>1, ContextFacts, Zenon
      <4>3. Len(o.refills) > 0
        BY <4>1, <4>2
      <4> QED BY <4>1, <4>2, <4>3, Zenon
    <3>2. /\ a \in Context /\ a.refills \in Seq(Refill) /\ Len(a.refills) > 0
          /\ Len(a.refills) \in 1 .. a.max /\ Len(a.refills) \in Nat /\ a.max \in Nat
          /\ b.refills \in Seq(Refill) /\ Len(b.refills) > 0
      BY <2>2, <3>1, Zenon
    <3>3. Len(a.refills) \in 2 .. a.max
      <4>1. Len(a.refills) # 1
        BY <2>4, Zenon DEF refill_head_overlapping, refill_single
      <4> QED BY <3>2, <4>1, MoreThanOne, Zenon
    <3>4. b = merge_overlapping_head_refill(a)
      BY <2>1, <2>4, Zenon DEF overlappingRound
    <3>5. Later(a.refills, b.refills)
      BY <2>4, <3>2, <3>3, <3>4, OverlappingIsLater, Zenon
    <3>6. Later(s.refills, b.refills)
      BY <1>1, <1>4, <3>2, <3>5, LaterTwice, Zenon
    <3> QED BY <2>2, <3>6, Zenon
  <2> QED BY <2>3, <2>4, Zenon
<1>5. I(n)
  <2> HIDE DEF I
  <2>1. 0 \in S /\ n \in 0 .. n /\ \A i \in 1 .. n : i \in 0 .. n
    BY <1>1, <1>3
  <2>2. \A i \in 1 .. n : i - 1 \in S => i \in S
    BY <1>4, <2>1, Zenon
  <2>3. n \in S
    <3> HIDE DEF S
    <3> QED BY <1>1, <2>1, <2>2, UpTo, Zenon
  <2> QED BY <2>3, Zenon
<1> QED BY <1>2, <1>5, Zenon

\* A head that begins now, and what it takes over
LEMMA UnblockIsLater ==
  ASSUME NEW s \in Context, NEW t \in Nat, Len(s.refills) \in 1 .. s.max,
         Queue(s.refills, s.period), s.refills[1].rTime <= t, s.period # 0
  PROVE  Later(s.refills, refill_unblock_check(s, t).refills)
<1> DEFINE q == s.refills
           n == Len(q)
           r == [rTime |-> t, rAmount |-> q[1].rAmount]
           s0 == setHead(s, r)
           q1 == [q EXCEPT ![1] = r]
<1>1. /\ q \in Seq(Refill) /\ n \in Nat /\ n >= 1 /\ s.period \in Nat /\ s.max \in Nat /\ 1 \in 1 .. n
      /\ \A i \in 1 .. n : q[i].rTime \in Nat /\ q[i].rAmount \in Nat
  BY ContextFacts, HeadFacts, Zenon
<1>2. /\ r \in Refill /\ r.rTime = t /\ r.rAmount = q[1].rAmount /\ q[1].rTime \in Nat /\ q[1].rAmount \in Nat
      /\ q[1].rTime <= t /\ q[1].rAmount > 0 /\ n > 0
  <2>1. q[1].rTime \in Nat /\ q[1].rAmount \in Nat /\ q[1].rTime <= t /\ q[1].rAmount > 0
    BY HeadFacts, Zenon
  <2>2. r \in Refill /\ r.rTime = t /\ r.rAmount = q[1].rAmount
    BY <2>1 DEF Refill
  <2>3. n > 0
    <3> HIDE DEF n, q
    <3> QED BY <1>1
  <2> QED BY <2>1, <2>2, <2>3, Zenon
<1>3. [s EXCEPT !.refills[1].rTime = t] = s0
  <2>1. q[1] = [rTime |-> q[1].rTime, rAmount |-> q[1].rAmount]
    BY <1>1, ContextFacts, Zenon
  <2>2. [q[1] EXCEPT !.rTime = t] = r
    BY <2>1
  <2> HIDE DEF r
  <2> QED BY <2>2, Zenon DEF setHead
<1>4. refill_unblock_check(s, t) = merge_overlapping(s0)
  <2>1. ~isRoundRobin(s) /\ refill_ready(s, t)
    BY Zenon DEF isRoundRobin, refill_ready, refill_head
  <2> HIDE DEF s0
  <2> QED BY <1>3, <2>1, Zenon DEF refill_unblock_check
<1> HIDE DEF r
<1>5. /\ s0 \in Context /\ s0.refills = q1 /\ s0.max = s.max /\ q1 \in Seq(Refill) /\ Len(q1) = n /\ q1[1] = r
      /\ \A i \in 2 .. n : q1[i] = q[i]
  BY <1>1, <1>2, HeadSet, ZenonT(60)
<1>6. s0.period = s.period
  BY <1>1, <1>2, HeadSet, Zenon
<1>7. Later(q, q1)
  <2> SUFFICES ASSUME NEW y \in Int PROVE budgetFrom(q, y) <= budgetFrom(q1, y)
    BY Zenon DEF Later
  <2> DEFINE A == budgetFrom(q, y)
             a == q[1].rTime
             b == q[1].rAmount
  <2>1. budgetFrom(q1, y) = A - ticksFrom(a, b, y) + ticksFrom(t, b, y)
    BY <1>1, <1>2, FromReplace, ZenonT(60)
  <2>2. ticksFrom(a, b, y) <= ticksFrom(t, b, y)
    <3>1. a \in Int /\ t \in Int /\ b \in Nat /\ a <= t
      BY <1>2
    <3> HIDE DEF a, b
    <3> QED BY <3>1, TicksLater, Zenon
  <2>3. A \in Nat /\ ticksFrom(a, b, y) \in Nat /\ ticksFrom(t, b, y) \in Nat
    BY <1>1, <1>2, Elements, FromBound, RefillFrom, Zenon
  <2> HIDE DEF A, a, b
  <2>4. A <= A - ticksFrom(a, b, y) + ticksFrom(t, b, y)
    BY <2>2, <2>3
  <2> QED BY <2>1, <2>4, Zenon DEF A
<1> HIDE DEF q1, s0
<1>8. Loose(q1, s.period)
  <2>1. ASSUME NEW i \in 1 .. n PROVE q1[i].rAmount > 0 /\ q1[i].rTime <= q1[1].rTime + s.period
    <3>1. CASE i = 1
      <4>1. t <= t + s.period
        BY <1>1
      <4> QED BY <1>2, <1>5, <3>1, <4>1, Zenon
    <3>2. CASE i # 1
      <4>0. i \in 2 .. n
        <5> HIDE DEF n, q
        <5> QED BY <1>1, <3>2
      <4>1. q1[i] = q[i] /\ q[i].rAmount > 0 /\ q[i].rTime <= q[1].rTime + s.period /\ q[i].rTime \in Nat
        BY <1>1, <1>5, <4>0, Zenon DEF Queue
      <4>2. q[i].rTime <= t + s.period
        <5> HIDE DEF n, q
        <5> QED BY <1>1, <1>2, <4>1
      <4> QED BY <1>2, <1>5, <4>1, <4>2, Zenon
    <3> QED BY <3>1, <3>2, Zenon
  <2>2. ASSUME NEW i \in 2 .. n - 1 PROVE q1[i].rTime + q1[i].rAmount <= q1[i + 1].rTime
    <3>1. i \in 1 .. n - 1 /\ i \in 2 .. n /\ i + 1 \in 2 .. n
      <4> HIDE DEF n, q
      <4> QED BY <1>1
    <3> QED BY <1>5, <3>1, Zenon DEF Queue
  <2> QED BY <1>5, <2>1, <2>2, Zenon DEF Loose
<1>9. Later(q1, merge_overlapping(s0).refills)
  BY <1>5, <1>6, <1>8, MergedIsLater, Zenon
<1>10. merge_overlapping(s0).refills \in Seq(Refill) /\ Len(merge_overlapping(s0).refills) > 0
  <2>1. OverlappingInv(s0, merge_overlapping(s0))
    BY <1>5, <1>6, <1>8, Merged, Zenon
  <2> DEFINE o == merge_overlapping(s0)
  <2> HIDE DEF o
  <2>2. o \in Context /\ Len(o.refills) \in 1 .. o.max
    BY <2>1, Zenon DEF OverlappingInv, o
  <2>3. o.refills \in Seq(Refill) /\ Len(o.refills) \in Nat /\ o.max \in Nat
    BY <2>2, ContextFacts, Zenon
  <2>4. Len(o.refills) > 0
    BY <2>2, <2>3
  <2> QED BY <2>3, <2>4, Zenon DEF o
<1>11. Len(q1) > 0
  BY <1>2, <1>5, Zenon
<1> QED BY <1>1, <1>2, <1>4, <1>5, <1>7, <1>9, <1>10, <1>11, LaterTwice, Zenon

-----------------------------------------------------------------------------
(* A charge pays for the time used *)

\* The loop takes one round when the head is used up exactly
LEMMA OverrunWhole ==
  ASSUME NEW s \in Context, Len(s.refills) \in 1 .. s.max, s.max >= 2, Queue(s.refills, s.period),
         s.refills[1].rTime < MAX_RELEASE_TIME
  PROVE  handle_overrun(s, s.refills[1].rAmount) = [sc |-> charge_entire_head_refill(s), usage |-> 0]
<1> DEFINE u == s.refills[1].rAmount
           c == charge_entire_head_refill(s)
           z == [sc |-> c, usage |-> 0]
           a == [sc |-> s, usage |-> u]
<1>1. u \in Nat /\ u > 0 /\ s.refills[1].rTime \in Nat /\ s.period \in Nat
  BY HeadFacts, Zenon
<1>2. c.refills[1].rAmount \in Nat /\ c.refills[1].rAmount > 0
  <2> DEFINE X == s.refills[1].rTime + s.period
  <2>1. X \in Int /\ X <= X
    BY <1>1
  <2> HIDE DEF X
  <2>2. Keeps(s, c, X)
    BY <2>1, ChargeEntire, Zenon DEF X
  <2>3. c \in Context /\ Len(c.refills) \in 1 .. c.max /\ Queue(c.refills, c.period)
    BY <2>2, Zenon DEF Keeps
  <2> QED BY <2>3, HeadFacts, Zenon
<1>3. PICK g : /\ g[0] = a
               /\ \A i \in 1 .. u : g[i] = overrunRound(g[i - 1])
               /\ handle_overrun(s, u) = g[u]
  BY <1>1, OverrunRounds, ZenonT(60)
<1>4. overrunRound(a) = z
  <2>1. a.sc = s /\ a.usage = u
    OBVIOUS
  <2>2. u <= u /\ u - u = 0
    BY <1>1
  <2>3. head_refill_overrun(s, u)
    BY <2>2, Zenon DEF head_refill_overrun, refill_head
  <2> HIDE DEF a
  <2> QED BY <2>1, <2>2, <2>3, Zenon DEF overrunRound, refill_head
<1> HIDE DEF a
<1>5. overrunRound(z) = z
  <2>1. z.sc = c /\ z.usage = 0
    OBVIOUS
  <2>2. ~(c.refills[1].rAmount <= 0)
    <3> HIDE DEF c
    <3> QED BY <1>2
  <2> HIDE DEF z
  <2> QED BY <2>1, <2>2, Zenon DEF overrunRound, head_refill_overrun, refill_head
<1> HIDE DEF u, z
<1> DEFINE S == {i \in 0 .. u : i = 0 \/ g[i] = z}
<1>6. 0 \in S /\ \A i \in 1 .. u : i \in 0 .. u
  BY <1>1
<1>7. ASSUME NEW i \in 1 .. u, i - 1 \in S PROVE i \in S
  <2>1. g[i] = overrunRound(g[i - 1])
    BY <1>3, Zenon
  <2>2. i - 1 = 0 \/ g[i - 1] = z
    BY <1>7
  <2>3. g[i] = z
    BY <1>3, <1>4, <1>5, <2>1, <2>2, Zenon
  <2> QED BY <1>6, <2>3, Zenon
<1>8. u \in S
  <2> HIDE DEF S
  <2>1. u \in 0 .. u
    BY <1>1
  <2> QED BY <1>1, <1>6, <1>7, <2>1, UpTo, Zenon
<1>9. u # 0
  BY <1>1
<1> QED BY <1>3, <1>8, <1>9, Zenon DEF u, z

\* The refills of s1 hold what those of s did and, a period after the head of s began, the
\* u ticks that were used of it
Pays(s, s1, u) ==
  \A y \in Int :
    y >= s.refills[1].rTime + u =>
      budgetFrom(s.refills, y) + ticksFrom(s.refills[1].rTime + s.period, u, y) <= budgetFrom(s1.refills, y)

\* A refill used up, or given up after u ticks, holds from the end of the use on no more
\* than is put off
LEMMA TicksGivenUp ==
  ASSUME NEW t \in Int, NEW a \in Nat, NEW p \in Nat, NEW u \in Nat, NEW y \in Int,
         u <= a, a <= p, y >= t + u
  PROVE  ticksFrom(t, a, y) + ticksFrom(t + p, u, y) <= ticksFrom(t + p, a, y)
  BY DEF ticksFrom

\* A refill that begins later, and is shorter by as much, holds as much from there on
LEMMA TicksLeft ==
  ASSUME NEW t \in Int, NEW a \in Nat, NEW u \in Nat, NEW y \in Int, u <= a, y >= t + u
  PROVE  ticksFrom(t, a, y) = ticksFrom(t + u, a - u, y)
  BY DEF ticksFrom

\* A head that is charged whole pays for what was used of it, and the next begins after it ends
LEMMA ChargedWhole ==
  ASSUME NEW s \in Context, Len(s.refills) \in 1 .. s.max, s.max >= 2, Queue(s.refills, s.period),
         refill_sum(s) <= s.period, refill_sum(s) >= MIN_BUDGET, s.refills[1].rTime < MAX_RELEASE_TIME,
         NEW u \in Nat, u <= s.refills[1].rAmount
  PROVE  LET h == s.refills[1]
             s1 == refill_budget_check(s, h.rAmount)
         IN /\ Pays(s, s1, u)
            /\ ~refill_head_overlapping(s) /\ h.rAmount < s.period => s1.refills[1].rTime > h.rTime + h.rAmount
<1> DEFINE q == s.refills
           h == q[1]
           a == h.rAmount
           c == charge_entire_head_refill(s)
           s1 == refill_budget_check(s, a)
           X == h.rTime + s.period
           T == h.rTime + a
<1>1. /\ q \in Seq(Refill) /\ Len(q) > 0 /\ h.rTime \in Nat /\ a \in Nat /\ a > 0 /\ s.period \in Nat
      /\ X \in Int /\ X <= X /\ T \in Int
  <2>1. q \in Seq(Refill) /\ Len(q) \in Nat /\ Len(q) >= 1 /\ h.rTime \in Nat /\ a \in Nat /\ a > 0 /\ s.period \in Nat
    BY ContextFacts, HeadFacts, Zenon
  <2>2. Len(q) > 0 /\ X \in Int /\ X <= X /\ T \in Int
    <3> HIDE DEF q, h, a
    <3> QED BY <2>1
  <2> QED BY <2>1, <2>2, Zenon
<1>2. a <= s.period
  <2>1. 1 \in 1 .. Len(q)
    BY HeadFacts, Zenon
  <2>2. a <= refill_sum(s) /\ refill_sum(s) \in Nat
    BY <1>1, <2>1, SumBounds, Zenon DEF refill_sum
  <2> HIDE DEF a
  <2> QED BY <1>1, <2>2
<1>3. s1 = merge_insufficient(c)
  <2> DEFINE z == [sc |-> c, usage |-> 0]
  <2>1. handle_overrun(s, a) = z
    BY OverrunWhole, Zenon
  <2>2. z.sc = c /\ z.usage = 0 /\ ~(0 > 0)
    OBVIOUS
  <2> HIDE DEF z, a
  <2> QED BY <2>1, <2>2, Zenon DEF refill_budget_check
<1>4. Keeps(s, c, X) /\ refill_sum(c) = refill_sum(s)
  <2> HIDE DEF X
  <2> QED BY <1>1, ChargeEntire, Zenon DEF X
<1>5. c \in Context /\ Keeps(c, c, X) /\ refill_sum(c) >= MIN_BUDGET
  <2> HIDE DEF X, c
  <2> QED BY <1>4, Zenon DEF Keeps
<1> HIDE DEF c, X, T
<1>6. /\ Later(c.refills, s1.refills)
      /\ BeginsAfter(c, T) => s1.refills[1].rTime > T
  BY <1>1, <1>3, <1>5, InsufficientIsLater, Zenon
<1>7. Keeps(c, merge_insufficient(c), X)
  BY <1>1, <1>5, MergeInsufficient, Zenon
<1>8. /\ c.refills \in Seq(Refill) /\ Len(c.refills) > 0
      /\ s1.refills \in Seq(Refill) /\ Len(s1.refills) > 0
  BY <1>3, <1>5, <1>7, KeptQueue, Zenon
<1>9. Pays(s, s1, u)
  <2> SUFFICES ASSUME NEW y \in Int, y >= h.rTime + u
               PROVE  budgetFrom(q, y) + ticksFrom(h.rTime + s.period, u, y) <= budgetFrom(s1.refills, y)
    BY Zenon DEF Pays
  <2> DEFINE t == h.rTime
             p == s.period
             A == budgetFrom(q, y)
             C == budgetFrom(c.refills, y)
             B == budgetFrom(s1.refills, y)
             f1 == ticksFrom(t, a, y)
             f2 == ticksFrom(t + p, a, y)
             f3 == ticksFrom(t + p, u, y)
  <2>1. A - f1 + f2 <= C
    BY EntireIsLater, Zenon DEF c
  <2>2. C <= B
    BY <1>6, Zenon DEF Later
  <2>3. f1 + f3 <= f2
    <3>1. t \in Int
      BY <1>1
    <3> HIDE DEF t, a, p
    <3> QED BY <1>1, <1>2, <3>1, TicksGivenUp, Zenon DEF a, p, t
  <2>4. A \in Nat /\ B \in Nat /\ C \in Nat
    BY <1>1, <1>8, FromBound, Zenon
  <2>5. f1 \in Nat /\ f2 \in Nat /\ f3 \in Nat
    <3>1. t \in Int /\ t + p \in Int
      BY <1>1
    <3> HIDE DEF t, p, a
    <3> QED BY <1>1, <3>1, TicksFrom, Zenon DEF a
  <2> HIDE DEF A, B, C, f1, f2, f3
  <2>6. A + f3 <= B
    BY <2>1, <2>2, <2>3, <2>4, <2>5
  <2> QED BY <2>6, Zenon DEF A, B, f3
<1>10. ASSUME ~refill_head_overlapping(s), a < s.period PROVE s1.refills[1].rTime > T
  <2>1. 0 \in Int
    OBVIOUS
  <2>2. c.refills[1].rTime > T
    BY <1>10, <2>1, EntireIsLater, Zenon DEF c, T
  <2> QED BY <1>6, <2>2, Zenon DEF BeginsAfter
<1> QED BY <1>9, <1>10, Zenon DEF T

\* A head that is charged in part pays for what was used of it.  What is left of it begins
\* where the use ended, if it can pay for a kernel entry, and later if it cannot.
LEMMA ChargedPart ==
  ASSUME NEW s \in Context, Len(s.refills) \in 1 .. s.max, s.max >= 2, Queue(s.refills, s.period),
         refill_sum(s) < s.period, refill_sum(s) >= MIN_BUDGET, s.refills[1].rTime < MAX_RELEASE_TIME,
         ~refill_head_overlapping(s), NEW u \in Nat, u > 0, u < s.refills[1].rAmount
  PROVE  LET h == s.refills[1]
             s1 == refill_budget_check(s, u)
         IN /\ Pays(s, s1, u)
            /\ IF h.rAmount - u >= MIN_BUDGET
               THEN s1.refills[1].rTime = h.rTime + u /\ ~refill_head_overlapping(s1)
               ELSE s1.refills[1].rTime > h.rTime + u
<1> DEFINE q == s.refills
           n == Len(q)
           h == q[1]
           a == h.rAmount
           t == h.rTime
           p == s.period
           left == [rTime |-> t + u, rAmount |-> a - u]
           used == [rTime |-> t + p, rAmount |-> u]
           s0 == setHead(s, left)
           q0 == [q EXCEPT ![1] = left]
           c == schedule_used(s0, used)
           s1 == refill_budget_check(s, u)
           X == t + p
           T == t + u
<1>1. /\ q \in Seq(Refill) /\ n \in Nat /\ n >= 1 /\ n > 0 /\ t \in Nat /\ a \in Nat /\ p \in Nat
      /\ 1 \in 1 .. n /\ s.max \in Nat /\ a < p /\ u < p /\ MIN_BUDGET \in Nat /\ refill_sum(s) \in Nat
  <2>1. /\ q \in Seq(Refill) /\ n \in Nat /\ n >= 1 /\ t \in Nat /\ a \in Nat /\ p \in Nat /\ 1 \in 1 .. n
        /\ s.max \in Nat /\ MIN_BUDGET \in Nat
    BY ContextFacts, HeadFacts, ConstantFacts, Zenon
  <2>2. a <= refill_sum(s) /\ refill_sum(s) \in Nat
    BY <2>1, SumBounds, Zenon DEF refill_sum
  <2>3. u < a /\ refill_sum(s) < p
    OBVIOUS
  <2> HIDE DEF n, q, a, p, t, h
  <2>4. n > 0 /\ a < p /\ u < p
    BY <2>1, <2>2, <2>3
  <2> QED BY <2>1, <2>2, <2>4, Zenon
<1>2. X \in Int /\ X <= X /\ T \in Int /\ t + u \in Nat /\ a - u \in Nat /\ t + p \in Nat /\ u <= p /\ u <= a
  <2>1. u < a
    OBVIOUS
  <2> HIDE DEF t, p, a
  <2> QED BY <1>1, <2>1
<1>3. /\ left \in Refill /\ left.rTime = t + u /\ left.rAmount = a - u
      /\ used \in Refill /\ used.rTime = t + p /\ used.rAmount = u
  <2> HIDE DEF t, p, a
  <2> QED BY <1>2 DEF Refill
<1>4. s1 = merge_insufficient(c)
  <2> DEFINE z == [sc |-> s, usage |-> u]
  <2>1. z.sc = s /\ z.usage = u
    OBVIOUS
  <2>2. handle_overrun(s, u) = z
    <3>1. OverrunInv(s, X, z)
      <4>1. Keeps(s, s, X)
        <5>1. \A i \in 1 .. n : q[i].rTime <= X
          BY Zenon DEF Queue
        <5> HIDE DEF X
        <5> QED BY <5>1, Zenon DEF Keeps
      <4> HIDE DEF z
      <4> QED BY <1>2, <2>1, <4>1, Zenon DEF OverrunInv
    <3>2. ~head_refill_overrun(s, u)
      <4>1. ~(a <= u)
        <5>1. u < a
          OBVIOUS
        <5> HIDE DEF a
        <5> QED BY <1>1, <5>1
      <4> QED BY <4>1, Zenon DEF head_refill_overrun, refill_head
    <3> HIDE DEF X
    <3> QED BY <1>2, <3>1, <3>2, Overrun, Zenon
  <2> HIDE DEF z
  <2> QED BY <2>1, <2>2, Zenon DEF refill_budget_check, refill_head
<1>5. Keeps(s, c, X) /\ refill_sum(c) = refill_sum(s)
  <2> HIDE DEF X
  <2> QED BY <1>1, <1>2, ChargePart, Zenon DEF X
<1> HIDE DEF left, used
<1>6. /\ s0 \in Context /\ s0.refills = q0 /\ s0.max = s.max /\ q0 \in Seq(Refill) /\ Len(q0) = n
      /\ q0[1] = left /\ \A i \in 2 .. n : q0[i] = q[i]
  <2>1. s0.refills = q0
    BY <1>1, <1>3, HeadSet, Zenon
  <2>2. WithHead(s, left, s0)
    BY <1>1, <1>3, HeadIs, Zenon
  <2> HIDE DEF q0, s0
  <2> QED BY <2>1, <2>2, Zenon DEF WithHead
<1> HIDE DEF q0
<1>7. ~refill_head_overlapping(s0) /\ q0[1].rTime + q0[1].rAmount = t + a /\ t + a < t + p
  <2>1. (t + u) + (a - u) = t + a /\ t + a < t + p
    <3> HIDE DEF t, a, p
    <3> QED BY <1>1, <1>2
  <2>2. n # 1 => 2 \in 2 .. n
    <3> HIDE DEF n
    <3> QED BY <1>1
  <2>3. n = 1 \/ ~(q[2].rTime <= t + a)
    BY Zenon DEF refill_head_overlapping, refill_single, refill_head
  <2>4. q0[1].rTime + q0[1].rAmount = t + a
    BY <1>3, <1>6, <2>1, Zenon
  <2>5. n = 1 \/ ~(q0[2].rTime <= q0[1].rTime + q0[1].rAmount)
    BY <1>6, <2>2, <2>3, <2>4, Zenon
  <2> HIDE DEF s0
  <2> QED BY <1>6, <2>1, <2>4, <2>5, Zenon DEF refill_head_overlapping, refill_single, refill_head
<1> HIDE DEF s0
<1>8. /\ c.refills \in Seq(Refill) /\ Len(c.refills) >= 2 /\ c.refills[1] = left
      /\ c.refills[2].rTime > t + a
  <2>1. s0.max >= 2 /\ Len(s0.refills) >= 1 /\ s0.refills[1] = left
        /\ s0.refills[1].rTime + s0.refills[1].rAmount = t + a
        /\ s0.refills[1].rTime + s0.refills[1].rAmount < used.rTime
    BY <1>1, <1>3, <1>6, <1>7, Zenon
  <2> HIDE DEF t, a, p, n
  <2> QED BY <1>3, <1>6, <1>7, <2>1, SecondAfterUse, Zenon
<1>9. c \in Context /\ Keeps(c, c, X) /\ refill_sum(c) >= MIN_BUDGET
  <2> HIDE DEF X, c
  <2> QED BY <1>5, Zenon DEF Keeps
<1>10. ASSUME NEW y \in Int PROVE budgetFrom(q0, y) + ticksFrom(t + p, u, y) <= budgetFrom(c.refills, y)
  <2> HIDE DEF t, p
  <2> QED BY <1>1, <1>3, <1>6, UsedIsLater, Zenon
<1> HIDE DEF c, X, T
<1>11. /\ Later(c.refills, s1.refills)
       /\ BeginsAfter(c, T) => s1.refills[1].rTime > T
  BY <1>2, <1>4, <1>9, InsufficientIsLater, Zenon
<1>12. Keeps(c, merge_insufficient(c), X) /\ (c.refills[1].rAmount >= MIN_BUDGET => merge_insufficient(c) = c)
  BY <1>2, <1>9, MergeInsufficient, Zenon
<1>13. s1.refills \in Seq(Refill) /\ Len(s1.refills) > 0 /\ Len(c.refills) > 0
  BY <1>4, <1>9, <1>12, KeptQueue, Zenon
<1>14. Pays(s, s1, u)
  <2> SUFFICES ASSUME NEW y \in Int, y >= t + u
               PROVE  budgetFrom(q, y) + ticksFrom(t + p, u, y) <= budgetFrom(s1.refills, y)
    BY Zenon DEF Pays
  <2> DEFINE A == budgetFrom(q, y)
             D == budgetFrom(q0, y)
             C == budgetFrom(c.refills, y)
             B == budgetFrom(s1.refills, y)
             f1 == ticksFrom(t, a, y)
             f2 == ticksFrom(t + u, a - u, y)
             f3 == ticksFrom(t + p, u, y)
  <2>1. D = A - f1 + f2
    <3>1. budgetFrom([q EXCEPT ![1] = left], y) = A - f1 + ticksFrom(left.rTime, left.rAmount, y)
      BY <1>1, <1>3, FromReplace, Zenon
    <3> QED BY <1>3, <3>1, Zenon DEF q0
  <2>2. f1 = f2
    <3>1. t \in Int
      BY <1>1
    <3>2. y >= t + u /\ a \in Nat /\ u <= a
      BY <1>1, <1>2, Zenon
    <3> HIDE DEF t, a
    <3> QED BY <3>1, <3>2, TicksLeft, Zenon
  <2>3. D + f3 <= C /\ C <= B
    BY <1>10, <1>11, Zenon DEF Later
  <2>4. A \in Nat /\ B \in Nat /\ C \in Nat /\ D \in Nat
    BY <1>1, <1>6, <1>8, <1>13, FromBound, Zenon
  <2>5. f1 \in Nat /\ f2 \in Nat /\ f3 \in Nat
    <3> HIDE DEF t, p, a
    <3>1. t \in Int /\ t + p \in Int /\ t + u \in Int
      BY <1>1
    <3> QED BY <1>1, <1>2, <3>1, TicksFrom, Zenon
  <2> HIDE DEF A, B, C, D, f1, f2, f3
  <2>6. A + f3 <= B
    BY <2>1, <2>2, <2>3, <2>4, <2>5
  <2> QED BY <2>6, Zenon DEF A, B, f3
<1>15. ASSUME a - u >= MIN_BUDGET PROVE s1.refills[1].rTime = t + u /\ ~refill_head_overlapping(s1)
  <2>1. s1 = c
    BY <1>3, <1>4, <1>8, <1>12, <1>15, Zenon
  <2>2. ~(c.refills[2].rTime <= (t + u) + (a - u))
    <3>1. c.refills[2].rTime \in Nat
      <4>1. 2 \in 1 .. Len(c.refills)
        BY <1>8
      <4> QED BY <1>8, <4>1, Elements, Zenon
    <3> DEFINE w == c.refills[2].rTime
    <3>2. w \in Nat /\ t \in Nat /\ a \in Nat /\ u \in Nat /\ w > t + a
      BY <1>1, <1>8, <3>1, Zenon
    <3> HIDE DEF t, a, w
    <3>3. ~(w <= (t + u) + (a - u))
      BY <3>2
    <3> QED BY <3>3, Zenon DEF w
  <2> HIDE DEF s1
  <2> QED BY <1>3, <1>8, <2>1, <2>2, Zenon DEF refill_head_overlapping, refill_head
<1>16. ASSUME ~(a - u >= MIN_BUDGET) PROVE s1.refills[1].rTime > T
  <2>1. c.refills[1].rAmount = a - u
    BY <1>3, <1>8, Zenon
  <2>2. a - u < MIN_BUDGET
    <3> HIDE DEF a
    <3> QED BY <1>1, <1>2, <1>16
  <2>3. c.refills[2].rTime - (a - u) > t + u
    <3>1. c.refills[2].rTime \in Nat
      <4>1. 2 \in 1 .. Len(c.refills)
        BY <1>8
      <4> QED BY <1>8, <4>1, Elements, Zenon
    <3> DEFINE w == c.refills[2].rTime
    <3>2. w \in Nat /\ t \in Nat /\ a \in Nat /\ u \in Nat /\ w > t + a
      BY <1>1, <1>8, <3>1, Zenon
    <3> HIDE DEF t, a, w
    <3>3. w - (a - u) > t + u
      BY <3>2
    <3> QED BY <3>3, Zenon DEF w
  <2>4. BeginsAfter(c, T)
    BY <2>1, <2>2, <2>3, Zenon DEF BeginsAfter, head_refill_insufficient, refill_head, T
  <2> QED BY <1>11, <2>4, Zenon
<1> QED BY <1>14, <1>15, <1>16, Zenon DEF T
=============================================================================
