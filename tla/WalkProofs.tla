----------------------------- MODULE WalkProofs -----------------------------
(***************************************************************************)
(* Page tables.  First walks: the unfolding of the recursive function      *)
(* walk, the slot lookupPTSlot ends at, and which walks a changed entry    *)
(* can change.  Then VInv, which says that the tables of every ASID in use *)
(* are a tree as the capabilities say, and why every operation keeps it,   *)
(* given what it does to ASIDs (VSpaceSteps; ASIDProofs proves that).      *)
(***************************************************************************)
EXTENDS VSpaceSteps, TLAPS

LOCAL W == INSTANCE WellFoundedInduction

\* The prover of a leaf that names none
USE ZenonT(60)

\* The least element of a set of natural numbers
LEMMA LeastOf ==
  ASSUME NEW S \in SUBSET Nat, S # {}
  PROVE  Min(S) \in S /\ \A y \in S : Min(S) <= y
<1>1. \E x \in S : \A y \in S : ~(<<y, x>> \in W!OpToRel(<, Nat))
  BY W!WFMin, W!NatLessThanWellFounded
<1>2. PICK x \in S : \A y \in S : ~(y < x)
  BY <1>1 DEF W!OpToRel
<1>3. \A y \in S : y \in Int /\ x \in Int
  BY SMTT(30)
<1>4. \A y \in S : x <= y
  BY <1>2, <1>3, SMTT(30)
<1> QED BY <1>4 DEF Min

\* Facts about levels
LEMMA LevelFacts ==
  /\ UPT_LEVELS \in Nat \ {0} /\ 1 \in Levels /\ UPT_LEVELS \in Levels /\ Levels \subseteq Nat
  /\ \A l \in Levels : l # 1 => l - 1 \in Levels /\ l - 1 < UPT_LEVELS /\ (l - 1) + 1 = l /\ l \in 2 .. UPT_LEVELS
  /\ \A l \in Levels : l < UPT_LEVELS => l + 1 \in Levels /\ (l + 1) - 1 = l /\ l + 1 # 1 /\ l + 1 \in 2 .. UPT_LEVELS
  /\ \A l \in Levels : l # UPT_LEVELS <=> l < UPT_LEVELS
  /\ \A l \in 2 .. UPT_LEVELS : l \in Levels /\ l # 1 /\ l - 1 \in Levels /\ l - 1 < UPT_LEVELS /\ (l - 1) + 1 = l
<1>1. UPT_LEVELS \in Nat \ {0}
  BY VSpaceConstants
<1> QED BY <1>1, SMTT(30) DEF Levels

\* The levels below a level
LEMMA NextLevel ==
  ASSUME NEW l \in Levels, NEW m \in Levels, l < m
  PROVE  /\ l + 1 \in Levels /\ l + 1 <= m
         /\ m = l + 1 \/ (l + 1 < UPT_LEVELS /\ (l + 1) + 1 <= m)
  BY LevelFacts, SMTT(30) DEF Levels

\* Induction over the levels
LEMMA LevelInduction ==
  ASSUME NEW S \in SUBSET Levels, 1 \in S, \A l \in S : l < UPT_LEVELS => l + 1 \in S
  PROVE  S = Levels
<1> SUFFICES ASSUME Levels \ S # {} PROVE FALSE
  BY SMTT(30)
<1> DEFINE x == Min(Levels \ S)
<1>1. Levels \ S \in SUBSET Nat
  BY LevelFacts
<1>2. x \in Levels \ S /\ \A y \in Levels \ S : x <= y
  BY <1>1, LeastOf
<1> HIDE DEF x
<1>3. x \in Levels /\ x # 1
  BY <1>2
<1>4. x - 1 \in Levels /\ x - 1 < UPT_LEVELS /\ (x - 1) + 1 = x
  BY <1>3, LevelFacts
<1>5. ~(x <= x - 1)
  BY <1>3, SMTT(30) DEF Levels
<1>6. x - 1 \in S
  BY <1>2, <1>4, <1>5
<1> QED BY <1>2, <1>4, <1>6

\* The table below entry i of table t
Down(kk, t, i) == IF t # Null /\ kk.pte[t][i] \in PTs THEN kk.pte[t][i] ELSE Null

\* walk satisfies the equation that defines it
LEMMA WalkDef ==
  ASSUME NEW kk, NEW root, NEW v, NEW tab, tab = walk(kk, root, v)
  PROVE  tab = [l \in Levels |-> IF l = 1 THEN root ELSE Down(kk, tab[l - 1], v[l - 1])]
<1> DEFINE Is(g, n) == g = [l \in 1 .. n |-> IF l = 1 THEN root ELSE Down(kk, g[l - 1], v[l - 1])]
           S == {n \in Levels : \E g : Is(g, n)}
<1>1. 1 \in S
  <2> DEFINE g == [l \in 1 .. 1 |-> root]
  <2>1. \A l \in 1 .. 1 : l = 1
    BY SMTT(30)
  <2>2. Is(g, 1)
    BY <2>1
  <2> QED BY <2>2, LevelFacts
<1>2. ASSUME NEW n \in S, n < UPT_LEVELS PROVE n + 1 \in S
  <2>1. PICK g : Is(g, n)
    OBVIOUS
  <2>2. n \in Levels /\ n + 1 \in Levels
    BY <1>2, LevelFacts
  <2> DEFINE h == [l \in 1 .. n + 1 |-> IF l \in 1 .. n THEN g[l] ELSE Down(kk, g[n], v[n])]
  <2>3. \A l \in 1 .. n + 1 : l = 1 => l \in 1 .. n
    BY <2>2, SMTT(30) DEF Levels
  <2>4. \A l \in 1 .. n + 1 : l # 1 => l - 1 \in 1 .. n /\ l - 1 \in 1 .. n + 1 /\ (l \in 1 .. n \/ l - 1 = n)
    BY <2>2, SMTT(30) DEF Levels
  <2>5. ASSUME NEW l \in 1 .. n + 1
        PROVE  h[l] = IF l = 1 THEN root ELSE Down(kk, h[l - 1], v[l - 1])
    <3>1. CASE l = 1
      <4>1. l \in 1 .. n /\ h[l] = g[l]
        BY <2>3, <3>1
      <4>2. g[l] = root
        BY <2>1, <3>1, <4>1
      <4> QED BY <3>1, <4>1, <4>2
    <3>2. CASE l # 1
      <4>1. l - 1 \in 1 .. n /\ l - 1 \in 1 .. n + 1 /\ (l \in 1 .. n \/ l - 1 = n)
        BY <2>4, <3>2
      <4>2. h[l - 1] = g[l - 1]
        BY <4>1
      <4>3. CASE l \in 1 .. n
        <5>1. h[l] = g[l]
          BY <4>3
        <5>2. g[l] = Down(kk, g[l - 1], v[l - 1])
          BY <2>1, <3>2, <4>3
        <5> HIDE DEF h, Is
        <5> QED BY <3>2, <4>2, <5>1, <5>2
      <4>4. CASE l \notin 1 .. n
        <5>1. h[l] = Down(kk, g[n], v[n]) /\ l - 1 = n
          BY <4>1, <4>4
        <5> HIDE DEF h, Is
        <5> QED BY <3>2, <4>2, <5>1
      <4> QED BY <4>3, <4>4
    <3> QED BY <3>1, <3>2
  <2>6. h = [l \in 1 .. n + 1 |-> h[l]]
    OBVIOUS
  <2>7. Is(h, n + 1)
    <3> HIDE DEF h
    <3> QED BY <2>5, <2>6
  <2> HIDE DEF h, Is
  <2> QED BY <2>2, <2>7
<1>3. S = Levels
  <2>1. S \in SUBSET Levels
    OBVIOUS
  <2>2. \A n \in S : n < UPT_LEVELS => n + 1 \in S
    BY <1>2
  <2> HIDE DEF S
  <2> QED BY <1>1, <2>1, <2>2, LevelInduction
<1>4. \E g : Is(g, UPT_LEVELS)
  <2> HIDE DEF Is
  <2> QED BY <1>3, LevelFacts
<1>5. tab = CHOOSE g : Is(g, UPT_LEVELS)
  BY DEF walk, Down
<1>6. Is(tab, UPT_LEVELS)
  <2> HIDE DEF Is
  <2> QED BY <1>4, <1>5
<1> QED BY <1>6 DEF Levels

-----------------------------------------------------------------------------
(* Walks *)

\* The root, then the table below each table
LEMMA Walk ==
  ASSUME NEW kk, NEW root, NEW v, NEW tab, tab = walk(kk, root, v)
  PROVE  /\ tab = [l \in Levels |-> tab[l]] /\ tab[1] = root
         /\ \A l \in Levels : l < UPT_LEVELS => tab[l + 1] = Down(kk, tab[l], v[l])
         /\ \A l \in Levels : l # 1 => tab[l] = Down(kk, tab[l - 1], v[l - 1]) /\ tab[l] \in PTs \cup {Null}
<1>1. tab = [l \in Levels |-> IF l = 1 THEN root ELSE Down(kk, tab[l - 1], v[l - 1])]
  BY WalkDef, SMTT(30)
<1>2. tab = [l \in Levels |-> tab[l]]
  BY <1>1
<1>3. tab[1] = root
  BY <1>1, LevelFacts
<1>4. ASSUME NEW l \in Levels, l # 1
      PROVE  tab[l] = Down(kk, tab[l - 1], v[l - 1]) /\ tab[l] \in PTs \cup {Null}
  <2>1. tab[l] = Down(kk, tab[l - 1], v[l - 1])
    BY <1>1, <1>4
  <2> QED BY <2>1 DEF Down
<1>5. ASSUME NEW l \in Levels, l < UPT_LEVELS PROVE tab[l + 1] = Down(kk, tab[l], v[l])
  <2>1. l + 1 \in Levels /\ l + 1 # 1 /\ (l + 1) - 1 = l
    BY <1>5, LevelFacts
  <2>2. tab[l + 1] = Down(kk, tab[(l + 1) - 1], v[(l + 1) - 1])
    BY <1>4, <2>1
  <2> QED BY <2>1, <2>2
<1> QED BY <1>2, <1>3, <1>4, <1>5

\* Up to level m a walk depends on the entries it reads up to m - 1
LEMMA WalkPrefix ==
  ASSUME NEW kk, NEW r, NEW root, NEW v, NEW w, NEW m \in Levels,
         NEW tab, tab = walk(kk, root, v), NEW tab2, tab2 = walk(r, root, w),
         \A l \in Levels : l < m /\ tab[l] # Null => Down(r, tab[l], w[l]) = Down(kk, tab[l], v[l])
  PROVE  \A l \in Levels : l <= m => tab2[l] = tab[l]
<1> DEFINE S == {l \in Levels : l <= m => tab2[l] = tab[l]}
<1>1. 1 \in S
  <2>1. tab[1] = root /\ tab2[1] = root
    BY Walk, SMTT(30)
  <2> QED BY <2>1, LevelFacts
<1>2. ASSUME NEW l \in S, l < UPT_LEVELS PROVE l + 1 \in S
  <2>1. l \in Levels /\ l + 1 \in Levels
    BY <1>2, LevelFacts
  <2>2. l + 1 <= m => l <= m /\ l < m
    BY <2>1, SMTT(30) DEF Levels
  <2>3. tab2[l + 1] = Down(r, tab2[l], w[l]) /\ tab[l + 1] = Down(kk, tab[l], v[l])
    BY <1>2, <2>1, Walk, SMTT(30)
  <2>4. tab[l] = Null => Down(r, tab[l], w[l]) = Null /\ Down(kk, tab[l], v[l]) = Null
    BY DEF Down
  <2>5. l + 1 <= m => tab2[l] = tab[l] /\ Down(r, tab[l], w[l]) = Down(kk, tab[l], v[l])
    BY <2>1, <2>2, <2>4
  <2> QED BY <2>1, <2>3, <2>5
<1>3. S = Levels
  <2>1. S \in SUBSET Levels /\ \A l \in S : l < UPT_LEVELS => l + 1 \in S
    BY <1>2
  <2> HIDE DEF S
  <2> QED BY <1>1, <2>1, LevelInduction
<1> QED BY <1>3

\* A walk that reads no changed entry stays
LEMMA WalkSame ==
  ASSUME NEW kk, NEW r, NEW root, NEW v, NEW tab, tab = walk(kk, root, v),
         \A l \in Levels : tab[l] # Null => Down(r, tab[l], v[l]) = Down(kk, tab[l], v[l])
  PROVE  walk(r, root, v) = tab
<1> DEFINE tab2 == walk(r, root, v)
<1>1. tab2 = walk(r, root, v)
  BY SMTT(30)
<1> HIDE DEF tab2
<1>2. \A l \in Levels : l <= UPT_LEVELS
  BY LevelFacts, SMTT(30) DEF Levels
<1>3. \A l \in Levels : l <= UPT_LEVELS => tab2[l] = tab[l]
  <2>1. UPT_LEVELS \in Levels
    BY LevelFacts
  <2>2. \A l \in Levels : l < UPT_LEVELS /\ tab[l] # Null => Down(r, tab[l], v[l]) = Down(kk, tab[l], v[l])
    OBVIOUS
  <2> QED BY <1>1, <2>1, <2>2, WalkPrefix, SMTT(30)
<1>4. tab = [l \in Levels |-> tab[l]] /\ tab2 = [l \in Levels |-> tab2[l]]
  BY <1>1, Walk, SMTT(30)
<1>5. tab2 = tab
  BY <1>2, <1>3, <1>4
<1> QED BY <1>1, <1>5

\* Two addresses that agree below a level lead to the same tables up to it
LEMMA WalkAgrees ==
  ASSUME NEW kk, NEW root, NEW v, NEW w, NEW m \in Levels, \A l \in Levels : l < m => w[l] = v[l]
  PROVE  \A l \in Levels : l <= m => walk(kk, root, w)[l] = walk(kk, root, v)[l]
<1>1. \A l \in Levels : l < m /\ walk(kk, root, v)[l] # Null =>
        Down(kk, walk(kk, root, v)[l], w[l]) = Down(kk, walk(kk, root, v)[l], v[l])
  OBVIOUS
<1> QED BY <1>1, WalkPrefix, SMTT(30)

\* Nothing is below a missing table
LEMMA WalkEnds ==
  ASSUME NEW kk, NEW root, NEW v, NEW tab, tab = walk(kk, root, v), NEW m \in Levels, tab[m] = Null
  PROVE  \A l \in Levels : m <= l => tab[l] = Null
<1> DEFINE S == {l \in Levels : m <= l => tab[l] = Null}
<1>1. 1 \in S
  <2>1. m <= 1 => m = 1
    BY SMTT(30) DEF Levels
  <2> QED BY <2>1, LevelFacts
<1>2. ASSUME NEW l \in S, l < UPT_LEVELS PROVE l + 1 \in S
  <2>1. l \in Levels /\ l + 1 \in Levels
    BY <1>2, LevelFacts
  <2>2. m <= l + 1 => m <= l \/ m = l + 1
    BY <2>1, SMTT(30) DEF Levels
  <2>3. tab[l + 1] = Down(kk, tab[l], v[l])
    BY <1>2, <2>1, Walk, SMTT(30)
  <2>4. tab[l] = Null => tab[l + 1] = Null
    BY <2>3 DEF Down
  <2> QED BY <2>1, <2>2, <2>4
<1>3. S = Levels
  <2>1. S \in SUBSET Levels /\ \A l \in S : l < UPT_LEVELS => l + 1 \in S
    BY <1>2
  <2> HIDE DEF S
  <2> QED BY <1>1, <2>1, LevelInduction
<1> QED BY <1>3

\* The greatest element of a set of levels
LEMMA MaxOfSet ==
  ASSUME NEW S \in SUBSET Levels, S # {}
  PROVE  Max(S) \in S /\ \A y \in S : y <= Max(S)
<1> DEFINE T == {n \in Nat : UPT_LEVELS - n \in S}
           x == UPT_LEVELS - Min(T)
<1>1. \A y \in S : UPT_LEVELS - y \in T
  BY LevelFacts, SMTT(30) DEF Levels
<1>2. T \in SUBSET Nat /\ T # {}
  BY <1>1
<1> HIDE DEF T
<1>3. Min(T) \in T /\ \A y \in T : Min(T) <= y
  BY <1>2, LeastOf
<1>4. x \in S
  BY <1>3, SMTT(30) DEF T
<1>5. ASSUME NEW y \in S PROVE x >= y
  <2>1. Min(T) <= UPT_LEVELS - y /\ Min(T) \in Nat
    BY <1>1, <1>2, <1>3
  <2> QED BY <2>1, LevelFacts, SMTT(30) DEF Levels
<1> HIDE DEF x
<1>6. Max(S) \in S /\ \A y \in S : Max(S) >= y
  BY <1>4, <1>5 DEF Max
<1> QED BY <1>6, SMTT(30) DEF Levels

-----------------------------------------------------------------------------
(* Where a walk ends, and what it translates an address to *)

\* The objects are of different kinds
LEMMA Kinds ==
  /\ \A t \in PTs : t # Null /\ t \notin VRoots /\ t \notin Frames /\ t \in Tables
  /\ \A t \in VRoots : t # Null /\ t \notin PTs /\ t \in Tables
  /\ \A f \in Frames : f # Null /\ f \notin PTs /\ frameLevel[f] \in Levels
  /\ Null \notin Tables /\ Null \notin PTs /\ Null \notin Frames
  BY VSpaceConstants DEF Tables, Levels

\* lookupPTSlot returns the last table of the walk
LEMMA Slot ==
  ASSUME NEW kk, NEW root, root # Null, NEW v, NEW tab, tab = walk(kk, root, v),
         NEW s, s = lookupPTSlot(kk, root, v)
  PROVE  /\ s.level \in Levels /\ s.pt = tab[s.level] /\ s.i = v[s.level] /\ s.pt # Null
         /\ \A l \in Levels : tab[l] # Null => l <= s.level
         /\ s.level < UPT_LEVELS => kk.pte[s.pt][s.i] \notin PTs
<1> DEFINE S == {i \in Levels : tab[i] # Null}
           m == Max(S)
<1>1. tab[1] = root
  BY Walk, SMTT(30)
<1>2. S \in SUBSET Levels /\ S # {}
  BY <1>1, LevelFacts
<1>3. s = [pt |-> tab[m], level |-> m, i |-> v[m]]
  BY DEF lookupPTSlot, Levels
<1> HIDE DEF S
<1>4. m \in S /\ \A y \in S : y <= m
  BY <1>2, MaxOfSet
<1> HIDE DEF m
<1>5. s.pt = tab[m] /\ s.level = m /\ s.i = v[m]
  BY <1>3, SMTT(30)
<1>6. m \in Levels /\ tab[m] # Null /\ \A l \in Levels : tab[l] # Null => l <= m
  BY <1>4 DEF S
<1>7. ASSUME m < UPT_LEVELS PROVE kk.pte[tab[m]][v[m]] \notin PTs
  <2>1. m + 1 \in Levels
    BY <1>6, <1>7, LevelFacts
  <2>2. ~(m + 1 <= m)
    BY <1>6, SMTT(30) DEF Levels
  <2>3. tab[m + 1] = Null
    BY <1>6, <2>1, <2>2
  <2>4. tab[m + 1] = Down(kk, tab[m], v[m])
    BY <1>6, <1>7, Walk, SMTT(30)
  <2> QED BY <1>6, <2>3, <2>4, Kinds DEF Down
<1> QED BY <1>5, <1>6, <1>7, SMTT(30)

\* A table with no table below it is the last one
LEMMA SlotAt ==
  ASSUME NEW kk, NEW root, root # Null, NEW v, NEW tab, tab = walk(kk, root, v),
         NEW s, s = lookupPTSlot(kk, root, v),
         NEW l \in Levels, tab[l] # Null, kk.pte[tab[l]][v[l]] \notin PTs
  PROVE  s.level = l /\ s.pt = tab[l] /\ s.i = v[l]
<1>1. /\ s.level \in Levels /\ s.pt = tab[s.level] /\ s.i = v[s.level] /\ s.pt # Null
      /\ l <= s.level
  BY Slot, SMTT(30)
<1>2. s.level = l \/ (l + 1 <= s.level /\ l < UPT_LEVELS)
  BY <1>1, LevelFacts, SMTT(30) DEF Levels
<1>3. ~(l + 1 <= s.level /\ l < UPT_LEVELS)
  <2> SUFFICES ASSUME l + 1 <= s.level, l < UPT_LEVELS PROVE FALSE
    OBVIOUS
  <2>1. l + 1 \in Levels
    BY LevelFacts
  <2>2. tab[l + 1] = Down(kk, tab[l], v[l])
    BY Walk, SMTT(30)
  <2>3. tab[l + 1] = Null
    BY <2>2 DEF Down
  <2>4. \A m \in Levels : l + 1 <= m => tab[m] = Null
    BY <2>1, <2>3, WalkEnds, SMTT(30)
  <2> QED BY <1>1, <2>4
<1>4. s.level = l
  BY <1>2, <1>3
<1> QED BY <1>1, <1>4, SMTT(30)

\* An address is translated to a frame by an entry on the level of its size
LEMMA TranslationIs ==
  ASSUME NEW kk, NEW root, root # Null, NEW v, NEW tab, tab = walk(kk, root, v), NEW f \in Frames,
         NEW l, l = frameLevel[f]
  PROVE  translation(kk, root, v) = f <=> tab[l] # Null /\ kk.pte[tab[l]][v[l]] = f
<1> DEFINE s == lookupPTSlot(kk, root, v)
           e == kk.pte[s.pt][s.i]
<1>1. translation(kk, root, v) = IF e \in Frames /\ frameLevel[e] = s.level THEN e ELSE Null
  BY DEF translation
<1>2. s = lookupPTSlot(kk, root, v)
  BY SMTT(30)
<1> HIDE DEF s
<1>3. s.level \in Levels /\ s.pt = tab[s.level] /\ s.i = v[s.level] /\ s.pt # Null
  BY <1>2, Slot, SMTT(30)
<1>4. f # Null /\ f \notin PTs /\ l \in Levels
  BY Kinds
<1>5. ASSUME translation(kk, root, v) = f PROVE tab[l] # Null /\ kk.pte[tab[l]][v[l]] = f
  <2>1. e = f /\ l = s.level
    BY <1>1, <1>4, <1>5
  <2>2. s.pt = tab[l] /\ s.i = v[l]
    BY <1>3, <2>1
  <2> QED BY <1>3, <2>1, <2>2
<1>6. ASSUME tab[l] # Null, kk.pte[tab[l]][v[l]] = f PROVE translation(kk, root, v) = f
  <2>1. kk.pte[tab[l]][v[l]] \notin PTs
    BY <1>4, <1>6
  <2>2. s.level = l /\ s.pt = tab[l] /\ s.i = v[l]
    BY <1>2, <1>4, <1>6, <2>1, SlotAt, SMTT(30)
  <2>3. e = f
    BY <1>6, <2>2
  <2> HIDE DEF e
  <2> QED BY <1>1, <2>2, <2>3
<1> QED BY <1>5, <1>6

\* Rounding an address down
LEMMA Align ==
  ASSUME NEW v \in Addrs, NEW l \in Levels
  PROVE  /\ alignTo(v, l) \in Addrs /\ alignTo(alignTo(v, l), l) = alignTo(v, l)
         /\ \A j \in Levels : j <= l => alignTo(v, l)[j] = v[j]
<1> DEFINE u == alignTo(v, l)
<1>1. u = [i \in Levels |-> IF i <= l THEN v[i] ELSE 0]
  BY DEF alignTo, Levels
<1>2. v \in [Levels -> Index] /\ 0 \in Index
  BY VSpaceConstants DEF Addrs, Levels
<1>3. alignTo(u, l) = [i \in Levels |-> IF i <= l THEN u[i] ELSE 0]
  BY DEF alignTo, Levels
<1> HIDE DEF u
<1>4. u \in [Levels -> Index]
  BY <1>1, <1>2, SMTT(30)
<1>5. \A j \in Levels : j <= l => u[j] = v[j]
  BY <1>1
<1>6. \A j \in Levels : (IF j <= l THEN u[j] ELSE 0) = IF j <= l THEN v[j] ELSE 0
  BY <1>5
<1>7. alignTo(u, l) = u
  BY <1>1, <1>3, <1>6
<1> QED BY <1>4, <1>5, <1>7 DEF u, Addrs, Levels

\* Two addresses round to the same one if they agree up to the level
LEMMA AlignSame ==
  ASSUME NEW v \in Addrs, NEW w \in Addrs, NEW l \in Levels
  PROVE  alignTo(w, l) = alignTo(v, l) <=> \A j \in Levels : j <= l => w[j] = v[j]
<1>1. ASSUME alignTo(w, l) = alignTo(v, l), NEW j \in Levels, j <= l PROVE w[j] = v[j]
  <2>1. alignTo(v, l)[j] = v[j] /\ alignTo(w, l)[j] = w[j]
    BY <1>1, Align
  <2> QED BY <1>1, <2>1
<1>2. ASSUME \A j \in Levels : j <= l => w[j] = v[j] PROVE alignTo(w, l) = alignTo(v, l)
  <2>1. \A j \in Levels : (IF j <= l THEN w[j] ELSE 0) = IF j <= l THEN v[j] ELSE 0
    BY <1>2
  <2> QED BY <2>1 DEF alignTo, Levels
<1> QED BY <1>1, <1>2

-----------------------------------------------------------------------------
(* The tables of the address spaces, and a change of one entry *)

\* What the lemmas need of the types of the state
Shape(kk) ==
  /\ \A a \in Live(kk) : findVSpaceForASID(kk, a) \in VRoots
  /\ kk.pte \in [Tables -> [Index -> PTs \cup Frames \cup {Null}]]
  /\ kk.tlb \subseteq [vmid : HWASIDs, frame : Frames, vaddr : Addrs]

TreeInv(kk) == Shape(kk) /\ RootsInv(kk) /\ TablesInv(kk) /\ LevelsInv(kk)

\* A path starts at the root of its ASID
LEMMA PathOf ==
  ASSUME NEW kk, Shape(kk), NEW a \in Live(kk), NEW v
  PROVE  /\ path(kk, a, v)[1] = findVSpaceForASID(kk, a) /\ path(kk, a, v)[1] \in VRoots
         /\ \A l \in Levels : l # 1 => path(kk, a, v)[l] \in PTs \cup {Null}
         /\ \A l \in Levels : path(kk, a, v)[l] # Null => path(kk, a, v)[l] \in Tables
<1> DEFINE tab == path(kk, a, v)
<1>1. tab = walk(kk, findVSpaceForASID(kk, a), v)
  BY DEF path
<1> HIDE DEF tab
<1>2. tab[1] = findVSpaceForASID(kk, a) /\ \A l \in Levels : l # 1 => tab[l] \in PTs \cup {Null}
  BY <1>1, Walk, SMTT(30)
<1>3. tab[1] \in VRoots
  BY <1>2 DEF Shape
<1> QED BY <1>2, <1>3 DEF Tables, tab

\* The capability of a table on a path
LEMMA TableCap ==
  ASSUME NEW kk, TreeInv(kk), NEW c \in Live(kk), NEW w \in Addrs, NEW m \in Levels,
         path(kk, c, w)[m] # Null
  PROVE  /\ m = 1 => /\ path(kk, c, w)[m] \in VRoots /\ path(kk, c, w)[m] = findVSpaceForASID(kk, c)
                     /\ kk.vsCap[path(kk, c, w)[m]].asid = c
         /\ m # 1 => path(kk, c, w)[m] \in PTs /\ tableHasCap(kk, path(kk, c, w)[m], c, w, m)
         /\ c # asidInvalid /\ c \in ASIDs /\ path(kk, c, w)[m] \in Tables
<1>0. Shape(kk) /\ RootsInv(kk) /\ TablesInv(kk)
  BY DEF TreeInv
<1>1. /\ path(kk, c, w)[1] = findVSpaceForASID(kk, c) /\ path(kk, c, w)[1] \in VRoots
      /\ m # 1 => path(kk, c, w)[m] \in PTs \cup {Null}
      /\ path(kk, c, w)[m] \in Tables
  BY <1>0, PathOf
<1>2. c # asidInvalid /\ c \in ASIDs
  BY DEF Live
<1>3. ASSUME m # 1 PROVE path(kk, c, w)[m] \in PTs /\ tableHasCap(kk, path(kk, c, w)[m], c, w, m)
  <2>1. path(kk, c, w)[m] \in PTs /\ m \in Levels \ {1}
    BY <1>1, <1>3
  <2> QED BY <1>0, <2>1 DEF TablesInv
<1>4. kk.vsCap[path(kk, c, w)[1]].asid = c
  BY <1>0, <1>1 DEF RootsInv
<1> QED BY <1>1, <1>2, <1>3, <1>4

\* A table is in one place: in one address space, on one level, below one prefix
LEMMA Sole ==
  ASSUME NEW kk, TreeInv(kk), NEW a \in Live(kk), NEW c \in Live(kk), NEW v \in Addrs, NEW w \in Addrs,
         NEW l \in Levels, NEW m \in Levels,
         path(kk, a, v)[l] # Null, path(kk, a, v)[l] = path(kk, c, w)[m]
  PROVE  c = a /\ m = l /\ \A j \in Levels : j < l => w[j] = v[j]
<1> DEFINE t == path(kk, a, v)[l]
<1>1. /\ l = 1 => t \in VRoots /\ t = findVSpaceForASID(kk, a) /\ kk.vsCap[t].asid = a
      /\ l # 1 => t \in PTs /\ tableHasCap(kk, t, a, v, l)
  BY TableCap, SMTT(30)
<1>2. /\ m = 1 => t \in VRoots /\ t = findVSpaceForASID(kk, c) /\ kk.vsCap[t].asid = c
      /\ m # 1 => t \in PTs /\ tableHasCap(kk, t, c, w, m)
  BY TableCap, SMTT(30)
<1>3. l = 1 <=> m = 1
  BY <1>1, <1>2, Kinds
<1>4. CASE l = 1
  <2>1. c = a
    BY <1>1, <1>2, <1>3, <1>4
  <2>2. \A j \in Levels : ~(j < l)
    BY <1>4, SMTT(30) DEF Levels
  <2> QED BY <1>3, <1>4, <2>1, <2>2
<1>5. CASE l # 1
  <2>1. tableHasCap(kk, t, a, v, l) /\ tableHasCap(kk, t, c, w, m)
    BY <1>1, <1>2, <1>3, <1>5
  <2>2. c = a /\ alignTo(w, m - 1) = alignTo(v, l - 1)
    BY <2>1 DEF tableHasCap
  <2>3. m = l
    <3>1. l \in Levels \ {1} /\ m \in Levels \ {1}
      BY <1>3, <1>5
    <3> QED BY <2>2, <3>1 DEF TreeInv, LevelsInv
  <2>4. l - 1 \in Levels /\ alignTo(w, l - 1) = alignTo(v, l - 1)
    BY <1>5, <2>2, <2>3, LevelFacts
  <2>5. \A j \in Levels : j <= l - 1 => w[j] = v[j]
    BY <2>4, AlignSame
  <2>6. \A j \in Levels : j < l => j <= l - 1
    BY SMTT(30) DEF Levels
  <2> QED BY <2>2, <2>3, <2>5, <2>6
<1> QED BY <1>4, <1>5

\* The entry of v on level l is the one of w on level m
Place(a, v, l, c, w, m) == c = a /\ m = l /\ alignTo(w, l) = alignTo(v, l)

SameEntry(kk, a, v, l, c, w, m) ==
  path(kk, c, w)[m] = path(kk, a, v)[l] /\ w[m] = v[l] /\ entry(kk, c, w, m) = entry(kk, a, v, l)

\* The same entry of the same table
LEMMA SamePlace ==
  ASSUME NEW kk, NEW a, NEW c \in Live(kk), NEW v \in Addrs, NEW w \in Addrs, NEW l \in Levels, NEW m,
         Place(a, v, l, c, w, m)
  PROVE  SameEntry(kk, a, v, l, c, w, m)
<1>1. c = a /\ m = l /\ \A j \in Levels : j <= l => w[j] = v[j]
  BY AlignSame, SMTT(30) DEF Place
<1>2. l <= l /\ \A j \in Levels : j <= l <=> j < l \/ j = l
  BY SMTT(30) DEF Levels
<1>3. (\A j \in Levels : j < l => w[j] = v[j]) /\ w[l] = v[l]
  BY <1>1, <1>2
<1>4. path(kk, a, w)[l] = path(kk, a, v)[l]
  BY <1>2, <1>3, WalkAgrees, SMTT(30) DEF path
<1> QED BY <1>1, <1>3, <1>4 DEF entry, SameEntry

\* ASIDs keep their roots
SameRoots(kk, r) == \A c \in ASIDs : findVSpaceForASID(r, c) = findVSpaceForASID(kk, c)

\* In r the entry of v on level l in ASID a is x; others have not changed
EntryIs(kk, a, v, l, x, r) ==
  /\ SameRoots(kk, r)
  /\ \A c \in Live(kk), w \in Addrs, m \in Levels : path(kk, c, w)[m] # Null =>
       /\ Place(a, v, l, c, w, m) => r.pte[path(kk, c, w)[m]][w[m]] = x
       /\ ~Place(a, v, l, c, w, m) => r.pte[path(kk, c, w)[m]][w[m]] = entry(kk, c, w, m)

\* An entry of a table is set
Written(kk, t, i, x, r) == r.pte = [kk.pte EXCEPT ![t][i] = x]

\* A change of an entry of a table on a path
LEMMA EntryAt ==
  ASSUME NEW kk, TreeInv(kk), NEW a \in Live(kk), NEW v \in Addrs, NEW l \in Levels, NEW x, NEW r,
         path(kk, a, v)[l] # Null, Written(kk, path(kk, a, v)[l], v[l], x, r),
         SameRoots(kk, r)
  PROVE  EntryIs(kk, a, v, l, x, r)
<1> DEFINE t == path(kk, a, v)[l]
<1>1. kk.pte \in [Tables -> [Index -> PTs \cup Frames \cup {Null}]] /\ t \in Tables
  <2>1. t \in Tables
    BY TableCap
  <2> QED BY <2>1 DEF Shape, TreeInv
<1>2. \A w \in Addrs, m \in Levels : w[m] \in Index
  BY DEF Addrs, Levels
<1>3. r.pte = [kk.pte EXCEPT ![t][v[l]] = x] /\ v[l] \in Index
  BY <1>2 DEF Written
<1>4. \A q \in Tables, i \in Index : r.pte[q][i] = IF q = t /\ i = v[l] THEN x ELSE kk.pte[q][i]
  <2> HIDE DEF t
  <2> QED BY <1>1, <1>3, SMTT(30)
<1> SUFFICES ASSUME NEW c \in Live(kk), NEW w \in Addrs, NEW m \in Levels, path(kk, c, w)[m] # Null
             PROVE  /\ Place(a, v, l, c, w, m) => r.pte[path(kk, c, w)[m]][w[m]] = x
                    /\ ~Place(a, v, l, c, w, m) =>
                         r.pte[path(kk, c, w)[m]][w[m]] = kk.pte[path(kk, c, w)[m]][w[m]]
  BY DEF EntryIs, entry
<1>5. ASSUME Place(a, v, l, c, w, m) PROVE path(kk, c, w)[m] = t /\ w[m] = v[l]
  <2>1. SameEntry(kk, a, v, l, c, w, m)
    BY <1>5, SamePlace
  <2> QED BY <2>1 DEF SameEntry
<1>6. ASSUME path(kk, c, w)[m] = t, w[m] = v[l] PROVE Place(a, v, l, c, w, m)
  <2>1. c = a /\ m = l /\ \A j \in Levels : j < l => w[j] = v[j]
    BY <1>6, Sole, SMTT(30)
  <2>2. \A j \in Levels : j <= l => j < l \/ j = l
    BY SMTT(30) DEF Levels
  <2>3. \A j \in Levels : j <= l => w[j] = v[j]
    BY <1>6, <2>1, <2>2
  <2>4. alignTo(w, l) = alignTo(v, l)
    BY <2>3, AlignSame
  <2> QED BY <2>1, <2>4 DEF Place
<1>7. path(kk, c, w)[m] \in Tables /\ w[m] \in Index
  BY <1>2, TableCap
<1> QED BY <1>4, <1>5, <1>6, <1>7

\* Roots that stay keep their ASIDs in use
LEMMA SameLive ==
  ASSUME NEW kk, NEW r, SameRoots(kk, r)
  PROVE  /\ Live(r) = Live(kk)
         /\ \A c \in Live(kk) : c \in ASIDs /\ findVSpaceForASID(r, c) = findVSpaceForASID(kk, c)
<1>1. \A c \in Live(kk) : c \in ASIDs /\ findVSpaceForASID(r, c) = findVSpaceForASID(kk, c)
  BY DEF Live, SameRoots
<1> QED BY <1>1 DEF Live, SameRoots

\* The path goes through the entry of v on level l
Through(a, v, l, c, w) == c = a /\ alignTo(w, l) = alignTo(v, l)

PathAt(kk, a, v, l, x, r, c, w) ==
  /\ ~Through(a, v, l, c, w) => \A m \in Levels : path(r, c, w)[m] = path(kk, c, w)[m]
  /\ Through(a, v, l, c, w) =>
       /\ \A m \in Levels : m <= l => path(r, c, w)[m] = path(kk, c, w)[m]
       /\ l < UPT_LEVELS => path(r, c, w)[l + 1] = IF x \in PTs THEN x ELSE Null

\* What a changed entry does to the paths through it and to the others
LEMMA PathsChange ==
  ASSUME NEW kk, NEW a, NEW v \in Addrs, NEW l \in Levels, NEW x, NEW r, EntryIs(kk, a, v, l, x, r),
         path(kk, a, v)[l] # Null, NEW c \in Live(kk), NEW w \in Addrs
  PROVE  PathAt(kk, a, v, l, x, r, c, w)
<1> DEFINE tab == path(kk, c, w)
           tab2 == path(r, c, w)
           root == findVSpaceForASID(kk, c)
<1>1. tab = walk(kk, root, w)
  BY DEF path
<1>2. tab2 = walk(r, root, w)
  <2>1. findVSpaceForASID(r, c) = root
    BY SameLive DEF EntryIs
  <2> QED BY <2>1 DEF path
<1>3. ASSUME NEW m \in Levels, tab[m] # Null, ~Place(a, v, l, c, w, m)
      PROVE  Down(r, tab[m], w[m]) = Down(kk, tab[m], w[m])
  <2>1. r.pte[tab[m]][w[m]] = kk.pte[tab[m]][w[m]]
    BY <1>3 DEF EntryIs, entry
  <2> QED BY <2>1 DEF Down
<1>4. ASSUME ~Through(a, v, l, c, w) PROVE tab2 = tab
  <2>1. \A m \in Levels : tab[m] # Null => Down(r, tab[m], w[m]) = Down(kk, tab[m], w[m])
    BY <1>3, <1>4 DEF Place, Through
  <2> HIDE DEF tab, tab2, root
  <2> QED BY <1>1, <1>2, <2>1, WalkSame, SMTT(30)
<1>5. ASSUME Through(a, v, l, c, w)
      PROVE  /\ \A m \in Levels : m <= l => tab2[m] = tab[m]
             /\ l < UPT_LEVELS => tab2[l + 1] = IF x \in PTs THEN x ELSE Null
  <2>1. \A m \in Levels : m < l => ~Place(a, v, l, c, w, m)
    BY SMTT(30) DEF Place, Levels
  <2>2. \A m \in Levels : m < l /\ tab[m] # Null => Down(r, tab[m], w[m]) = Down(kk, tab[m], w[m])
    BY <1>3, <2>1
  <2>3. Place(a, v, l, c, w, l)
    BY <1>5 DEF Place, Through
  <2>4. tab[l] = path(kk, a, v)[l]
    <3>1. SameEntry(kk, a, v, l, c, w, l)
      BY <2>3, SamePlace
    <3> QED BY <3>1 DEF SameEntry
  <2>5. tab[l] # Null /\ r.pte[tab[l]][w[l]] = x
    BY <2>3, <2>4 DEF EntryIs
  <2> HIDE DEF tab, tab2, root
  <2>6. \A m \in Levels : m <= l => tab2[m] = tab[m]
    BY <1>1, <1>2, <2>2, WalkPrefix, SMTT(30)
  <2>7. l <= l
    BY SMTT(30) DEF Levels
  <2>8. tab2[l] = tab[l]
    BY <2>6, <2>7
  <2>9. ASSUME l < UPT_LEVELS PROVE tab2[l + 1] = IF x \in PTs THEN x ELSE Null
    <3>1. tab2[l + 1] = Down(r, tab2[l], w[l])
      BY <1>2, <2>9, Walk, SMTT(30)
    <3> QED BY <2>5, <2>8, <3>1 DEF Down
  <2> QED BY <2>6, <2>9
<1> QED BY <1>4, <1>5 DEF PathAt

\* The entry on level m for w in ASID c, where that of v on level l has become x
EntryStays(kk, a, v, l, x, r, c, w, m) ==
  /\ path(r, c, w)[m] = path(kk, c, w)[m]
  /\ path(kk, c, w)[m] # Null =>
       /\ Place(a, v, l, c, w, m) => entry(r, c, w, m) = x /\ entry(kk, c, w, m) = entry(kk, a, v, l)
       /\ ~Place(a, v, l, c, w, m) => entry(r, c, w, m) = entry(kk, c, w, m)

\* The entries of a table that stays on a path
LEMMA StaysIf ==
  ASSUME NEW kk, NEW a, NEW v \in Addrs, NEW l \in Levels, NEW x, NEW r, EntryIs(kk, a, v, l, x, r),
         NEW c \in Live(kk), NEW w \in Addrs, NEW m \in Levels, path(r, c, w)[m] = path(kk, c, w)[m]
  PROVE  EntryStays(kk, a, v, l, x, r, c, w, m)
<1>1. entry(r, c, w, m) = r.pte[path(kk, c, w)[m]][w[m]]
  BY DEF entry
<1>2. Place(a, v, l, c, w, m) => SameEntry(kk, a, v, l, c, w, m)
  BY SamePlace
<1>3. path(kk, c, w)[m] # Null =>
        /\ Place(a, v, l, c, w, m) => r.pte[path(kk, c, w)[m]][w[m]] = x
        /\ ~Place(a, v, l, c, w, m) => r.pte[path(kk, c, w)[m]][w[m]] = entry(kk, c, w, m)
  BY DEF EntryIs
<1> QED BY <1>1, <1>2, <1>3 DEF EntryStays, SameEntry

\* A page in the place of a page changes no path
LEMMA PagePaths ==
  ASSUME NEW kk, NEW a \in Live(kk), NEW v \in Addrs, NEW l \in Levels, NEW x, NEW r,
         EntryIs(kk, a, v, l, x, r), path(kk, a, v)[l] # Null, x \notin PTs, entry(kk, a, v, l) \notin PTs,
         NEW c \in Live(kk), NEW w \in Addrs, NEW m \in Levels
  PROVE  EntryStays(kk, a, v, l, x, r, c, w, m)
<1> DEFINE tab == path(kk, c, w)
           root == findVSpaceForASID(kk, c)
<1>1. tab = walk(kk, root, w)
  BY DEF path
<1>2. path(r, c, w) = walk(r, root, w)
  <2>1. findVSpaceForASID(r, c) = root
    BY SameLive DEF EntryIs
  <2> QED BY <2>1 DEF path
<1>3. ASSUME NEW j \in Levels, tab[j] # Null PROVE Down(r, tab[j], w[j]) = Down(kk, tab[j], w[j])
  <2>1. CASE Place(a, v, l, c, w, j)
    <3>1. SameEntry(kk, a, v, l, c, w, j)
      BY <2>1, SamePlace
    <3>2. kk.pte[tab[j]][w[j]] \notin PTs
      BY <3>1 DEF SameEntry, entry
    <3>3. r.pte[tab[j]][w[j]] = x
      BY <1>3, <2>1 DEF EntryIs
    <3> QED BY <3>2, <3>3 DEF Down
  <2>2. CASE ~Place(a, v, l, c, w, j)
    <3>1. r.pte[tab[j]][w[j]] = kk.pte[tab[j]][w[j]]
      BY <1>3, <2>2 DEF EntryIs, entry
    <3> QED BY <3>1 DEF Down
  <2> QED BY <2>1, <2>2
<1> HIDE DEF tab, root
<1>4. walk(r, root, w) = tab
  BY <1>1, <1>3, WalkSame, SMTT(30)
<1>5. path(r, c, w)[m] = path(kk, c, w)[m]
  BY <1>2, <1>4 DEF tab
<1> QED BY <1>5, StaysIf

\* Clearing an entry cuts off what is below it
CutAt(kk, a, v, l, r, c, w, m) ==
  /\ Through(a, v, l, c, w) /\ l < m => path(r, c, w)[m] = Null
  /\ ~(Through(a, v, l, c, w) /\ l < m) => EntryStays(kk, a, v, l, Null, r, c, w, m)

\* Clearing an entry changes the paths through it so
LEMMA CutPaths ==
  ASSUME NEW kk, NEW a \in Live(kk), NEW v \in Addrs, NEW l \in Levels, NEW r, EntryIs(kk, a, v, l, Null, r),
         path(kk, a, v)[l] # Null, l < UPT_LEVELS,
         NEW c \in Live(kk), NEW w \in Addrs, NEW m \in Levels
  PROVE  CutAt(kk, a, v, l, r, c, w, m)
<1>0. PathAt(kk, a, v, l, Null, r, c, w)
  BY PathsChange
<1>1. CASE ~(Through(a, v, l, c, w) /\ l < m)
  <2>1. ~(l < m) => m <= l
    BY SMTT(30) DEF Levels
  <2>2. path(r, c, w)[m] = path(kk, c, w)[m]
    BY <1>0, <1>1, <2>1 DEF PathAt
  <2>3. EntryStays(kk, a, v, l, Null, r, c, w, m)
    BY <2>2, StaysIf
  <2> QED BY <1>1, <2>3 DEF CutAt
<1>2. CASE Through(a, v, l, c, w) /\ l < m
  <2> DEFINE tab2 == path(r, c, w)
  <2>1. tab2[l + 1] = Null
    BY <1>0, <1>2, Kinds DEF PathAt
  <2>2. tab2 = walk(r, findVSpaceForASID(r, c), w)
    BY DEF path
  <2> HIDE DEF tab2
  <2>3. l + 1 \in Levels /\ l + 1 <= m
    BY <1>2, NextLevel
  <2>4. tab2[m] = Null
    BY <2>1, <2>2, <2>3, WalkEnds, SMTT(30)
  <2> QED BY <1>2, <2>4 DEF tab2, CutAt
<1> QED BY <1>1, <1>2

\* A new table without entries is on the paths through its entry, one level down
GrownAt(kk, a, v, l, p, r, c, w, m) ==
  /\ Through(a, v, l, c, w) /\ m = l + 1 =>
       path(r, c, w)[m] = p /\ path(kk, c, w)[m] = Null /\ entry(r, c, w, m) = Null
  /\ ~(Through(a, v, l, c, w) /\ m = l + 1) => EntryStays(kk, a, v, l, p, r, c, w, m)

\* Mapping a table where nothing was changes the paths through the entry so
LEMMA NewPaths ==
  ASSUME NEW kk, NEW a \in Live(kk), NEW v \in Addrs, NEW l \in Levels, NEW p \in PTs, NEW r,
         EntryIs(kk, a, v, l, p, r), path(kk, a, v)[l] # Null, l < UPT_LEVELS, entry(kk, a, v, l) = Null,
         r.pte[p] = noEntries, NEW c \in Live(kk), NEW w \in Addrs, NEW m \in Levels
  PROVE  GrownAt(kk, a, v, l, p, r, c, w, m)
<1>0. PathAt(kk, a, v, l, p, r, c, w)
  BY PathsChange
<1>1. CASE ~(Through(a, v, l, c, w) /\ l < m)
  <2>1. ~(l < m) => m <= l /\ m # l + 1
    BY SMTT(30) DEF Levels
  <2>2. path(r, c, w)[m] = path(kk, c, w)[m]
    BY <1>0, <1>1, <2>1 DEF PathAt
  <2>3. EntryStays(kk, a, v, l, p, r, c, w, m)
    BY <2>2, StaysIf
  <2> QED BY <1>1, <2>1, <2>3 DEF GrownAt
<1>2. CASE Through(a, v, l, c, w) /\ l < m
  <2> DEFINE tab == path(kk, c, w)
             tab2 == path(r, c, w)
  <2>1. tab2[l + 1] = p
    BY <1>0, <1>2 DEF PathAt
  <2>2. tab2 = walk(r, findVSpaceForASID(r, c), w) /\ tab = walk(kk, findVSpaceForASID(kk, c), w)
    BY DEF path
  <2>3. l + 1 \in Levels /\ l + 1 <= m /\ (m = l + 1 \/ (l + 1 < UPT_LEVELS /\ (l + 1) + 1 <= m))
    BY <1>2, NextLevel
  <2>4. kk.pte[tab[l]][w[l]] = Null
    <3>1. Place(a, v, l, c, w, l)
      BY <1>2 DEF Place, Through
    <3>2. SameEntry(kk, a, v, l, c, w, l)
      BY <3>1, SamePlace
    <3> QED BY <3>2 DEF SameEntry, entry
  <2>5. \A i \in Index : r.pte[p][i] = Null
    BY DEF noEntries
  <2>6. \A j \in Levels : w[j] \in Index
    BY DEF Addrs, Levels
  <2>7. m = l + 1 => entry(r, c, w, m) = Null
    BY <2>1, <2>3, <2>5, <2>6 DEF entry
  <2> HIDE DEF tab, tab2
  <2>8. tab[l + 1] = Down(kk, tab[l], w[l])
    BY <2>2, Walk, SMTT(30)
  <2>9. tab[l + 1] = Null
    BY <2>4, <2>8, Kinds DEF Down
  <2>10. tab[m] = Null
    BY <2>2, <2>3, <2>9, WalkEnds, SMTT(30)
  <2>11. ASSUME m # l + 1 PROVE tab2[m] = Null
    <3>1. l + 1 < UPT_LEVELS /\ (l + 1) + 1 <= m /\ l + 1 \in Levels /\ (l + 1) + 1 \in Levels
      BY <2>3, <2>11, LevelFacts
    <3>2. tab2[(l + 1) + 1] = Down(r, tab2[l + 1], w[l + 1])
      BY <2>2, <3>1, Walk, SMTT(30)
    <3>3. r.pte[p][w[l + 1]] = Null
      BY <2>5, <2>6, <3>1
    <3>4. tab2[(l + 1) + 1] = Null
      BY <2>1, <3>2, <3>3, Kinds DEF Down
    <3> QED BY <2>2, <3>1, <3>4, WalkEnds, SMTT(30)
  <2>12. m = l + 1 => tab2[m] = p
    BY <2>1
  <2>13. m # l + 1 => EntryStays(kk, a, v, l, p, r, c, w, m)
    <3>1. m # l + 1 => path(r, c, w)[m] = path(kk, c, w)[m]
      BY <2>10, <2>11 DEF tab, tab2
    <3> QED BY <3>1, StaysIf
  <2> QED BY <1>2, <2>7, <2>10, <2>12, <2>13 DEF tab, tab2, GrownAt
<1> QED BY <1>1, <1>2

-----------------------------------------------------------------------------
(* What the operations on tables keep *)

\* A translation may be cached while the tables give it
Cached(kk, e) ==
  LET c == kk.armKSHWASIDTable[e.vmid]
      l == frameLevel[e.frame]
  IN /\ c \in Live(kk) /\ path(kk, c, e.vaddr)[l] # Null
     /\ entry(kk, c, e.vaddr, l) = e.frame /\ alignTo(e.vaddr, l) = e.vaddr

\* TLBInv says that of every translation in the TLB
LEMMA CachedIs ==
  ASSUME NEW kk, Shape(kk)
  PROVE  /\ \A e \in kk.tlb : e.frame \in Frames /\ e.vaddr \in Addrs /\ frameLevel[e.frame] \in Levels
         /\ TLBInv(kk) <=> \A e \in kk.tlb : Cached(kk, e)
<1>1. \A e \in kk.tlb : e.frame \in Frames /\ e.vaddr \in Addrs
  BY DEF Shape
<1>2. \A e \in kk.tlb : frameLevel[e.frame] \in Levels
  BY <1>1, Kinds
<1>3. ASSUME NEW e \in kk.tlb
      PROVE  LET c == kk.armKSHWASIDTable[e.vmid] IN
             /\ c \in Live(kk) /\ translation(kk, findVSpaceForASID(kk, c), e.vaddr) = e.frame
             /\ alignTo(e.vaddr, frameLevel[e.frame]) = e.vaddr
             <=> Cached(kk, e)
  <2> DEFINE c == kk.armKSHWASIDTable[e.vmid]
             root == findVSpaceForASID(kk, c)
  <2>1. CASE c \in Live(kk)
    <3>1. root # Null
      BY <2>1 DEF Live
    <3>2. e.frame \in Frames
      BY <1>1
    <3>3. path(kk, c, e.vaddr) = walk(kk, root, e.vaddr)
      BY DEF path
    <3> HIDE DEF c, root
    <3>4. translation(kk, root, e.vaddr) = e.frame <=>
            /\ walk(kk, root, e.vaddr)[frameLevel[e.frame]] # Null
            /\ kk.pte[walk(kk, root, e.vaddr)[frameLevel[e.frame]]][e.vaddr[frameLevel[e.frame]]] = e.frame
      BY <3>1, <3>2, TranslationIs, SMTT(30)
    <3> QED BY <2>1, <3>3, <3>4 DEF Cached, c, root, entry
  <2>2. CASE c \notin Live(kk)
    BY <2>2 DEF Cached
  <2> QED BY <2>1, <2>2
<1>4. TLBInv(kk) <=> \A e \in kk.tlb : Cached(kk, e)
  BY <1>3 DEF TLBInv
<1> QED BY <1>1, <1>2, <1>4

\* Operations on tables change pte, ptCap and frameCap; translations only go
TablesOnly(kk, r) ==
  /\ Shape(r) /\ SameRoots(kk, r) /\ r.armKSHWASIDTable = kk.armKSHWASIDTable /\ r.tlb \subseteq kk.tlb
  /\ r.vsCap = kk.vsCap /\ r.tcbVTable = kk.tcbVTable

\* The roots of ASIDs keep their capabilities
LEMMA RootsKept ==
  ASSUME NEW kk, TreeInv(kk), NEW r, TablesOnly(kk, r)
  PROVE  RootsInv(r) /\ Shape(r) /\ Live(r) = Live(kk)
<1>1. /\ Live(r) = Live(kk)
      /\ \A c \in Live(kk) : findVSpaceForASID(r, c) = findVSpaceForASID(kk, c)
  BY SameLive DEF TablesOnly
<1>2. \A u : lastVSpaceCap(r, u) <=> lastVSpaceCap(kk, u)
  BY DEF lastVSpaceCap, TablesOnly
<1>3. r.vsCap = kk.vsCap /\ Shape(r) /\ RootsInv(kk)
  BY DEF TablesOnly, TreeInv
<1> QED BY <1>1, <1>2, <1>3 DEF RootsInv

\* What CapsInv says of a table
Empty(kk, r) ==
  /\ \A u \in VRoots : kk.vsCap[u].exists /\ kk.vsCap[u].asid = asidInvalid => r.pte[u] = noEntries
  /\ \A p \in PTs : kk.ptCap[p].n > 0 /\ kk.ptCap[p].asid = asidInvalid => r.pte[p] = noEntries

\* A table with a changed entry is not one that has to be empty
LEMMA CapsEntry ==
  ASSUME NEW kk, TreeInv(kk), CapsInv(kk), NEW a \in Live(kk), NEW v \in Addrs, NEW l \in Levels,
         path(kk, a, v)[l] # Null, NEW x, NEW r, Written(kk, path(kk, a, v)[l], v[l], x, r)
  PROVE  Empty(kk, r)
<1> DEFINE t == path(kk, a, v)[l]
<1>0. /\ l = 1 => t \in VRoots /\ kk.vsCap[t].asid = a
      /\ l # 1 => t \in PTs /\ tableHasCap(kk, t, a, v, l)
      /\ a # asidInvalid
  BY TableCap, SMTT(30)
<1>1. l # 1 => kk.ptCap[t].asid = a
  BY <1>0 DEF tableHasCap
<1>2. r.pte = [kk.pte EXCEPT ![t][v[l]] = x] /\ kk.pte \in [Tables -> [Index -> PTs \cup Frames \cup {Null}]]
  BY DEF Written, TreeInv, Shape
<1> HIDE DEF t
<1>3. \A q \in Tables : q # t => r.pte[q] = kk.pte[q]
  BY <1>2, SMTT(30)
<1>4. ASSUME NEW u \in VRoots, kk.vsCap[u].exists, kk.vsCap[u].asid = asidInvalid PROVE r.pte[u] = noEntries
  <2>1. u # t /\ u \in Tables
    BY <1>0, <1>4, Kinds
  <2>2. kk.pte[u] = noEntries
    BY <1>4 DEF CapsInv
  <2> QED BY <1>3, <2>1, <2>2
<1>5. ASSUME NEW p \in PTs, kk.ptCap[p].n > 0, kk.ptCap[p].asid = asidInvalid PROVE r.pte[p] = noEntries
  <2>1. p # t /\ p \in Tables
    BY <1>0, <1>1, <1>5, Kinds
  <2>2. kk.pte[p] = noEntries
    BY <1>5 DEF CapsInv
  <2> QED BY <1>3, <2>1, <2>2
<1> QED BY <1>4, <1>5 DEF Empty

VInv(kk) == TreeInv(kk) /\ PagesInv(kk) /\ CapsInv(kk) /\ TLBInv(kk)

\* PageTableMap maps a table p without entries where nothing was
TableMapped(kk, a, v, l, p, r) ==
  /\ l < UPT_LEVELS /\ path(kk, a, v)[l] # Null /\ entry(kk, a, v, l) = Null
  /\ kk.ptCap[p].n > 0 /\ kk.ptCap[p].asid = asidInvalid
  /\ TablesOnly(kk, r) /\ r.frameCap = kk.frameCap
  /\ Written(kk, path(kk, a, v)[l], v[l], p, r)
  /\ \A q \in PTs : q # p => r.ptCap[q] = kk.ptCap[q]
  /\ r.ptCap[p].n > 0 /\ r.ptCap[p].asid = a /\ r.ptCap[p].vaddr = alignTo(v, l)

\* PageTableMap keeps the invariant
LEMMA MapTable ==
  ASSUME NEW kk, VInv(kk), NEW a \in Live(kk), NEW v \in Addrs, NEW l \in Levels, NEW p \in PTs,
         NEW r, TableMapped(kk, a, v, l, p, r)
  PROVE  VInv(r)
<1>0. TreeInv(kk) /\ TablesInv(kk) /\ LevelsInv(kk) /\ PagesInv(kk) /\ CapsInv(kk) /\ TLBInv(kk)
  BY DEF VInv, TreeInv
<1>1. TablesOnly(kk, r) /\ Written(kk, path(kk, a, v)[l], v[l], p, r) /\ path(kk, a, v)[l] # Null
  BY DEF TableMapped
<1>2. RootsInv(r) /\ Shape(r) /\ Live(r) = Live(kk)
  BY <1>0, <1>1, RootsKept
<1>3. EntryIs(kk, a, v, l, p, r)
  BY <1>0, <1>1, EntryAt DEF TablesOnly
<1>4. ASSUME NEW c \in Live(kk), NEW w \in Addrs, NEW m \in Levels PROVE path(kk, c, w)[m] # p
  <2> SUFFICES ASSUME path(kk, c, w)[m] = p PROVE FALSE
    BY SMTT(30)
  <2>1. p # Null /\ p \notin VRoots
    BY Kinds
  <2>2. c # asidInvalid /\ (m = 1 => p \in VRoots) /\ (m # 1 => tableHasCap(kk, p, c, w, m))
    BY <1>0, <2>1, TableCap, SMTT(30)
  <2> QED BY <2>1, <2>2 DEF TableMapped, tableHasCap
<1>5. Empty(kk, r)
  BY <1>0, <1>1, CapsEntry, SMTT(30)
<1>6. r.pte[p] = noEntries
  BY <1>5 DEF Empty, TableMapped
<1>7. ASSUME NEW c \in Live(kk), NEW w \in Addrs, NEW m \in Levels PROVE GrownAt(kk, a, v, l, p, r, c, w, m)
  <2>1. l < UPT_LEVELS /\ path(kk, a, v)[l] # Null /\ entry(kk, a, v, l) = Null
    BY DEF TableMapped
  <2> QED BY <1>3, <1>6, <2>1, NewPaths
<1>8. TablesInv(r)
  <2> SUFFICES ASSUME NEW c \in Live(kk), NEW w \in Addrs, NEW m \in Levels \ {1}, path(r, c, w)[m] # Null
               PROVE  tableHasCap(r, path(r, c, w)[m], c, w, m)
    BY <1>2 DEF TablesInv
  <2>1. m \in Levels /\ m # 1
    OBVIOUS
  <2>2. GrownAt(kk, a, v, l, p, r, c, w, m)
    BY <1>7, <2>1
  <2>3. CASE Through(a, v, l, c, w) /\ m = l + 1
    <3>1. path(r, c, w)[m] = p
      BY <2>2, <2>3 DEF GrownAt
    <3>2. m - 1 = l
      BY <2>3, SMTT(30) DEF Levels
    <3>3. tableHasCap(r, p, c, w, m)
      BY <2>3, <3>2 DEF Through, TableMapped, tableHasCap
    <3> QED BY <3>1, <3>3
  <2>4. CASE ~(Through(a, v, l, c, w) /\ m = l + 1)
    <3>1. path(r, c, w)[m] = path(kk, c, w)[m]
      BY <2>2, <2>4 DEF GrownAt, EntryStays
    <3>2. path(kk, c, w)[m] # Null
      BY <3>1
    <3>3. path(kk, c, w)[m] \in PTs /\ tableHasCap(kk, path(kk, c, w)[m], c, w, m)
      BY <1>0, <2>1, <3>2, TableCap, SMTT(30)
    <3>4. r.ptCap[path(kk, c, w)[m]] = kk.ptCap[path(kk, c, w)[m]]
      BY <1>4, <2>1, <3>3 DEF TableMapped
    <3> QED BY <3>1, <3>3, <3>4 DEF tableHasCap
  <2> QED BY <2>3, <2>4
<1>9. LevelsInv(r)
  <2> SUFFICES ASSUME NEW c \in Live(kk), NEW u \in Addrs, NEW w \in Addrs,
                      NEW i \in Levels \ {1}, NEW m \in Levels \ {1},
                      path(r, c, u)[i] # Null, path(r, c, u)[i] = path(r, c, w)[m]
               PROVE  i = m
    BY <1>2, SMTT(30) DEF LevelsInv
  <2>1. i \in Levels /\ m \in Levels
    OBVIOUS
  <2>2. GrownAt(kk, a, v, l, p, r, c, u, i) /\ GrownAt(kk, a, v, l, p, r, c, w, m)
    BY <1>7, <2>1
  <2>3. path(kk, c, u)[i] # p /\ path(kk, c, w)[m] # p
    BY <1>4, <2>1
  <2>4. /\ \/ path(r, c, u)[i] = p /\ i = l + 1
           \/ path(r, c, u)[i] # p /\ path(r, c, u)[i] = path(kk, c, u)[i]
        /\ \/ path(r, c, w)[m] = p /\ m = l + 1
           \/ path(r, c, w)[m] # p /\ path(r, c, w)[m] = path(kk, c, w)[m]
    BY <2>2, <2>3 DEF GrownAt, EntryStays
  <2>5. CASE path(r, c, u)[i] = p
    BY <2>4, <2>5
  <2>6. CASE path(r, c, u)[i] # p
    <3>1. path(kk, c, u)[i] # Null /\ path(kk, c, u)[i] = path(kk, c, w)[m]
      BY <2>4, <2>6
    <3> QED BY <1>0, <3>1 DEF LevelsInv
  <2> QED BY <2>5, <2>6
<1>10. PagesInv(r)
  <2> SUFFICES ASSUME NEW c \in Live(kk), NEW w \in Addrs, NEW m \in Levels,
                      path(r, c, w)[m] # Null, entry(r, c, w, m) # Null
               PROVE  \/ entry(r, c, w, m) \in PTs /\ m < UPT_LEVELS
                      \/ pageHasCap(r, entry(r, c, w, m), c, w, m)
    BY <1>2 DEF PagesInv
  <2>1. GrownAt(kk, a, v, l, p, r, c, w, m)
    BY <1>7
  <2>2. EntryStays(kk, a, v, l, p, r, c, w, m)
    BY <2>1 DEF GrownAt
  <2>3. path(kk, c, w)[m] # Null
    BY <2>2 DEF EntryStays
  <2>4. CASE Place(a, v, l, c, w, m)
    <3>1. entry(r, c, w, m) = p
      BY <2>2, <2>3, <2>4 DEF EntryStays
    <3>2. m < UPT_LEVELS
      BY <2>4 DEF Place, TableMapped
    <3> QED BY <3>1, <3>2
  <2>5. CASE ~Place(a, v, l, c, w, m)
    <3>1. entry(r, c, w, m) = entry(kk, c, w, m)
      BY <2>2, <2>3, <2>5 DEF EntryStays
    <3>2. \/ entry(kk, c, w, m) \in PTs /\ m < UPT_LEVELS
          \/ pageHasCap(kk, entry(kk, c, w, m), c, w, m)
      BY <1>0, <2>3, <3>1 DEF PagesInv
    <3>3. \A f : pageHasCap(kk, f, c, w, m) => pageHasCap(r, f, c, w, m)
      BY DEF pageHasCap, TableMapped
    <3> QED BY <3>1, <3>2, <3>3
  <2> QED BY <2>4, <2>5
<1>11. CapsInv(r)
  <2>1. a # asidInvalid /\ alignTo(v, l) \in Addrs
    BY Align DEF Live
  <2>2. \A q \in PTs : r.ptCap[q].n > 0 /\ r.ptCap[q].asid = asidInvalid => r.pte[q] = noEntries
    BY <1>5, <1>6 DEF TableMapped, Empty
  <2>3. \A q \in PTs : r.ptCap[q].asid # asidInvalid => r.ptCap[q].vaddr \in Addrs
    BY <1>0, <2>1 DEF CapsInv, TableMapped
  <2>4. r.vsCap = kk.vsCap /\ r.frameCap = kk.frameCap
    BY DEF TableMapped, TablesOnly
  <2> QED BY <1>0, <1>5, <2>2, <2>3, <2>4 DEF CapsInv, Empty
<1>12. TLBInv(r)
  <2> SUFFICES ASSUME NEW e \in r.tlb PROVE Cached(r, e)
    BY <1>2, CachedIs
  <2> DEFINE c == kk.armKSHWASIDTable[e.vmid]
             w == e.vaddr
             m == frameLevel[e.frame]
  <2>1. e \in kk.tlb /\ r.armKSHWASIDTable[e.vmid] = c
    BY <1>1 DEF TablesOnly
  <2>2. Cached(kk, e) /\ w \in Addrs /\ m \in Levels /\ e.frame \in Frames
    BY <1>0, <2>1, CachedIs DEF TreeInv
  <2>3. c \in Live(kk) /\ path(kk, c, w)[m] # Null /\ entry(kk, c, w, m) = e.frame /\ alignTo(w, m) = w
    BY <2>2 DEF Cached
  <2> HIDE DEF c, w, m
  <2>4. GrownAt(kk, a, v, l, p, r, c, w, m)
    BY <1>7, <2>2, <2>3
  <2>5. EntryStays(kk, a, v, l, p, r, c, w, m)
    BY <2>3, <2>4 DEF GrownAt
  <2>6. e.frame # Null
    BY <2>2, Kinds
  <2>7. ~Place(a, v, l, c, w, m)
    BY <2>3, <2>5, <2>6 DEF EntryStays, TableMapped
  <2>8. path(r, c, w)[m] # Null /\ entry(r, c, w, m) = e.frame
    BY <2>3, <2>5, <2>7 DEF EntryStays
  <2> QED BY <1>2, <2>1, <2>3, <2>8 DEF Cached, w, m
<1> QED BY <1>2, <1>8, <1>9, <1>10, <1>11, <1>12 DEF VInv, TreeInv

\* A table on a path in r was there in kk, a page was there or is new; both have
\* their capability
StillThere(kk, r, c, w, m) ==
  path(r, c, w)[m] # Null =>
    /\ path(r, c, w)[m] = path(kk, c, w)[m]
    /\ m # 1 => tableHasCap(r, path(r, c, w)[m], c, w, m)
    /\ entry(r, c, w, m) # Null =>
         \/ pageHasCap(r, entry(r, c, w, m), c, w, m)
         \/ entry(r, c, w, m) = entry(kk, c, w, m) /\ ~pageHasCap(kk, entry(r, c, w, m), c, w, m)

NoNewTable(kk, r) ==
  /\ Live(r) \subseteq Live(kk)
  /\ \A c \in Live(r), w \in Addrs, m \in Levels : StillThere(kk, r, c, w, m)

\* Operations that add no table keep the invariant
LEMMA AddNoTable ==
  ASSUME NEW kk, VInv(kk), NEW r, Shape(r), RootsInv(r), CapsInv(r), NoNewTable(kk, r),
         \A e \in r.tlb : Cached(r, e)
  PROVE  VInv(r)
<1>0. LevelsInv(kk) /\ PagesInv(kk)
  BY DEF VInv, TreeInv
<1>1. TablesInv(r)
  <2> SUFFICES ASSUME NEW c \in Live(r), NEW w \in Addrs, NEW m \in Levels \ {1}, path(r, c, w)[m] # Null
               PROVE  tableHasCap(r, path(r, c, w)[m], c, w, m)
    BY DEF TablesInv
  <2>1. m \in Levels /\ m # 1
    OBVIOUS
  <2>2. StillThere(kk, r, c, w, m)
    BY <2>1 DEF NoNewTable
  <2> QED BY <2>1, <2>2 DEF StillThere
<1>2. LevelsInv(r)
  <2> SUFFICES ASSUME NEW c \in Live(r), NEW u \in Addrs, NEW w \in Addrs,
                      NEW i \in Levels \ {1}, NEW m \in Levels \ {1},
                      path(r, c, u)[i] # Null, path(r, c, u)[i] = path(r, c, w)[m]
               PROVE  i = m
    BY SMTT(30) DEF LevelsInv
  <2>1. i \in Levels /\ m \in Levels /\ c \in Live(kk)
    BY DEF NoNewTable
  <2>2. StillThere(kk, r, c, u, i) /\ StillThere(kk, r, c, w, m)
    BY <2>1 DEF NoNewTable
  <2>3. path(kk, c, u)[i] # Null /\ path(kk, c, u)[i] = path(kk, c, w)[m]
    BY <2>2 DEF StillThere
  <2> QED BY <1>0, <2>1, <2>3 DEF LevelsInv
<1>3. PagesInv(r)
  <2> SUFFICES ASSUME NEW c \in Live(r), NEW w \in Addrs, NEW m \in Levels,
                      path(r, c, w)[m] # Null, entry(r, c, w, m) # Null
               PROVE  \/ entry(r, c, w, m) \in PTs /\ m < UPT_LEVELS
                      \/ pageHasCap(r, entry(r, c, w, m), c, w, m)
    BY DEF PagesInv
  <2>1. c \in Live(kk) /\ StillThere(kk, r, c, w, m)
    BY DEF NoNewTable
  <2>2. CASE ~pageHasCap(r, entry(r, c, w, m), c, w, m)
    <3>1. path(kk, c, w)[m] # Null /\ entry(kk, c, w, m) = entry(r, c, w, m)
      BY <2>1, <2>2 DEF StillThere
    <3>2. \/ entry(r, c, w, m) \in PTs /\ m < UPT_LEVELS
          \/ pageHasCap(kk, entry(r, c, w, m), c, w, m)
      BY <1>0, <2>1, <3>1 DEF PagesInv
    <3> QED BY <2>1, <2>2, <3>2 DEF StillThere
  <2> QED BY <2>2
<1>4. TLBInv(r)
  BY CachedIs
<1> QED BY <1>1, <1>2, <1>3, <1>4 DEF VInv, TreeInv

\* What an operation leaves to the ASIDs in use after it
RootsStay(kk, r) ==
  \A c \in Live(r) : c \in Live(kk) /\ findVSpaceForASID(r, c) = findVSpaceForASID(kk, c)

TablesStay(kk, r) ==
  \A c \in Live(r), w \in Addrs, m \in Levels : path(kk, c, w)[m] # Null =>
    /\ r.pte[path(kk, c, w)[m]] = kk.pte[path(kk, c, w)[m]]
    /\ m # 1 => tableHasCap(r, path(kk, c, w)[m], c, w, m)

PagesStay(kk, r) ==
  \A f, c, w, m : pageHasCap(kk, f, c, w, m) => pageHasCap(r, f, c, w, m)

TLBStays(kk, r) ==
  \A e \in r.tlb : /\ Cached(kk, e) /\ r.armKSHWASIDTable[e.vmid] = kk.armKSHWASIDTable[e.vmid]
                   /\ kk.armKSHWASIDTable[e.vmid] \in Live(r)

Stay(kk, r) ==
  /\ Shape(r) /\ RootsInv(r) /\ CapsInv(r)
  /\ RootsStay(kk, r) /\ TablesStay(kk, r) /\ PagesStay(kk, r) /\ TLBStays(kk, r)

\* The entry on level m for w in ASID c stays
PathStays(kk, r, c, w, m) ==
  /\ path(r, c, w)[m] = path(kk, c, w)[m]
  /\ path(kk, c, w)[m] # Null => entry(r, c, w, m) = entry(kk, c, w, m)

\* Paths through tables that stay are the same
LEMMA StayPaths ==
  ASSUME NEW kk, NEW r, RootsStay(kk, r), TablesStay(kk, r),
         NEW c \in Live(r), NEW w \in Addrs, NEW m \in Levels
  PROVE  PathStays(kk, r, c, w, m)
<1> DEFINE tab == path(kk, c, w)
           root == findVSpaceForASID(kk, c)
<1>1. tab = walk(kk, root, w)
  BY DEF path
<1>2. path(r, c, w) = walk(r, root, w)
  <2>1. findVSpaceForASID(r, c) = root
    BY DEF RootsStay
  <2> QED BY <2>1 DEF path
<1>3. \A j \in Levels : tab[j] # Null => r.pte[tab[j]] = kk.pte[tab[j]]
  BY DEF TablesStay
<1>4. \A j \in Levels : tab[j] # Null => Down(r, tab[j], w[j]) = Down(kk, tab[j], w[j])
  BY <1>3 DEF Down
<1> HIDE DEF tab, root
<1>5. walk(r, root, w) = tab
  BY <1>1, <1>4, WalkSame, SMTT(30)
<1>6. path(r, c, w) = path(kk, c, w)
  BY <1>2, <1>5 DEF tab
<1> QED BY <1>3, <1>6 DEF tab, entry, PathStays

\* Operations elsewhere keep the invariant
LEMMA Elsewhere ==
  ASSUME NEW kk, VInv(kk), NEW r, Stay(kk, r)
  PROVE  VInv(r)
<1>0. /\ Shape(r) /\ RootsInv(r) /\ CapsInv(r)
      /\ RootsStay(kk, r) /\ TablesStay(kk, r) /\ PagesStay(kk, r) /\ TLBStays(kk, r)
  BY DEF Stay
<1>1. ASSUME NEW c \in Live(r), NEW w \in Addrs, NEW m \in Levels PROVE StillThere(kk, r, c, w, m)
  <2>1. PathStays(kk, r, c, w, m)
    BY <1>0, StayPaths
  <2>2. path(kk, c, w)[m] # Null /\ m # 1 => tableHasCap(r, path(kk, c, w)[m], c, w, m)
    BY <1>0 DEF TablesStay
  <2> QED BY <1>0, <2>1, <2>2 DEF StillThere, PagesStay, PathStays
<1>2. Live(r) \subseteq Live(kk)
  BY <1>0 DEF RootsStay
<1>3. NoNewTable(kk, r)
  BY <1>1, <1>2 DEF NoNewTable
<1>4. ASSUME NEW e \in r.tlb PROVE Cached(r, e)
  <2> DEFINE c == kk.armKSHWASIDTable[e.vmid]
             w == e.vaddr
             m == frameLevel[e.frame]
  <2>1. Cached(kk, e) /\ r.armKSHWASIDTable[e.vmid] = c /\ c \in Live(r)
    BY <1>0 DEF TLBStays
  <2>2. w \in Addrs /\ m \in Levels
    BY <1>0, CachedIs
  <2>3. path(kk, c, w)[m] # Null /\ entry(kk, c, w, m) = e.frame /\ alignTo(w, m) = w
    BY <2>1 DEF Cached
  <2> HIDE DEF c, w, m
  <2>4. PathStays(kk, r, c, w, m)
    BY <1>0, <2>1, <2>2, StayPaths
  <2>5. path(r, c, w)[m] # Null /\ entry(r, c, w, m) = e.frame
    BY <2>3, <2>4 DEF PathStays
  <2> QED BY <2>1, <2>3, <2>5 DEF Cached, w, m
<1> QED BY <1>0, <1>3, <1>4, AddNoTable

\* unmapPageTable clears the entry of a table and drops the translations of the ASID
TableCut(kk, a, v, l, r) ==
  /\ l < UPT_LEVELS /\ path(kk, a, v)[l] # Null /\ TablesOnly(kk, r)
  /\ r.frameCap = kk.frameCap /\ r.ptCap = kk.ptCap
  /\ Written(kk, path(kk, a, v)[l], v[l], Null, r)
  /\ \A e \in r.tlb : kk.armKSHWASIDTable[e.vmid] # a

\* No ASID in use has table p
Unmapped(r, p) == \A c \in Live(r), w \in Addrs, m \in Levels : path(r, c, w)[m] # p

\* unmapPageTable keeps the invariant, and the table is not mapped then
LEMMA CutTable ==
  ASSUME NEW kk, VInv(kk), NEW a \in Live(kk), NEW v \in Addrs, NEW l \in Levels,
         NEW r, TableCut(kk, a, v, l, r)
  PROVE  VInv(r) /\ (entry(kk, a, v, l) \in PTs => Unmapped(r, entry(kk, a, v, l)))
<1>0. TreeInv(kk) /\ Shape(kk) /\ TablesInv(kk) /\ CapsInv(kk) /\ TLBInv(kk)
  BY DEF VInv, TreeInv
<1>1. /\ TablesOnly(kk, r) /\ Written(kk, path(kk, a, v)[l], v[l], Null, r)
      /\ path(kk, a, v)[l] # Null /\ l < UPT_LEVELS
  BY DEF TableCut
<1>2. RootsInv(r) /\ Shape(r) /\ Live(r) = Live(kk)
  BY <1>0, <1>1, RootsKept
<1>3. EntryIs(kk, a, v, l, Null, r)
  BY <1>0, <1>1, EntryAt DEF TablesOnly
<1>4. ASSUME NEW c \in Live(kk), NEW w \in Addrs, NEW m \in Levels PROVE CutAt(kk, a, v, l, r, c, w, m)
  BY <1>1, <1>3, CutPaths
<1>5. NoNewTable(kk, r)
  <2> SUFFICES ASSUME NEW c \in Live(kk), NEW w \in Addrs, NEW m \in Levels, path(r, c, w)[m] # Null
               PROVE  StillThere(kk, r, c, w, m)
    BY <1>2 DEF NoNewTable, StillThere
  <2>1. CutAt(kk, a, v, l, r, c, w, m)
    BY <1>4
  <2>2. EntryStays(kk, a, v, l, Null, r, c, w, m)
    BY <2>1 DEF CutAt
  <2>3. /\ path(r, c, w)[m] = path(kk, c, w)[m]
        /\ entry(r, c, w, m) # Null => entry(r, c, w, m) = entry(kk, c, w, m)
    BY <2>2 DEF EntryStays
  <2>4. m # 1 => tableHasCap(kk, path(r, c, w)[m], c, w, m)
    BY <1>0, <2>3, TableCap, SMTT(30)
  <2>5. \A q : tableHasCap(kk, q, c, w, m) => tableHasCap(r, q, c, w, m)
    BY DEF tableHasCap, TableCut
  <2>6. \A f : pageHasCap(kk, f, c, w, m) => pageHasCap(r, f, c, w, m)
    BY DEF pageHasCap, TableCut
  <2> QED BY <2>3, <2>4, <2>5, <2>6 DEF StillThere
<1>6. CapsInv(r)
  <2>1. Empty(kk, r)
    BY <1>0, <1>1, CapsEntry, SMTT(30)
  <2>2. r.vsCap = kk.vsCap /\ r.frameCap = kk.frameCap /\ r.ptCap = kk.ptCap
    BY DEF TableCut, TablesOnly
  <2> QED BY <1>0, <2>1, <2>2 DEF CapsInv, Empty
<1>7. ASSUME NEW e \in r.tlb PROVE Cached(r, e)
  <2> DEFINE c == kk.armKSHWASIDTable[e.vmid]
             w == e.vaddr
             m == frameLevel[e.frame]
  <2>1. e \in kk.tlb /\ r.armKSHWASIDTable[e.vmid] = c /\ c # a
    BY <1>1 DEF TablesOnly, TableCut
  <2>2. Cached(kk, e) /\ w \in Addrs /\ m \in Levels
    BY <1>0, <2>1, CachedIs
  <2>3. c \in Live(kk) /\ path(kk, c, w)[m] # Null /\ entry(kk, c, w, m) = e.frame /\ alignTo(w, m) = w
    BY <2>2 DEF Cached
  <2> HIDE DEF c, w, m
  <2>4. CutAt(kk, a, v, l, r, c, w, m)
    BY <1>4, <2>2, <2>3
  <2>5. EntryStays(kk, a, v, l, Null, r, c, w, m) /\ ~Place(a, v, l, c, w, m)
    BY <2>1, <2>4 DEF CutAt, Through, Place
  <2>6. path(r, c, w)[m] # Null /\ entry(r, c, w, m) = e.frame
    BY <2>3, <2>5 DEF EntryStays
  <2> QED BY <1>2, <2>1, <2>3, <2>6 DEF Cached, w, m
<1>8. ASSUME entry(kk, a, v, l) \in PTs PROVE Unmapped(r, entry(kk, a, v, l))
  <2> DEFINE p == entry(kk, a, v, l)
  <2> SUFFICES ASSUME NEW c \in Live(kk), NEW w \in Addrs, NEW m \in Levels, path(r, c, w)[m] = p
               PROVE  FALSE
    BY <1>2 DEF Unmapped
  <2>0. p # Null
    BY <1>8, Kinds
  <2>1. l + 1 \in Levels /\ p # Null
    BY <1>1, <2>0, LevelFacts, SMTT(30) DEF Levels
  <2>2. path(kk, a, v)[l + 1] = p
    <3>1. path(kk, a, v)[l + 1] = Down(kk, path(kk, a, v)[l], v[l])
      BY <1>1, Walk, SMTT(30) DEF path
    <3> QED BY <1>1, <1>8, <3>1 DEF Down, entry
  <2>3. CutAt(kk, a, v, l, r, c, w, m)
    BY <1>4
  <2>4. ~(Through(a, v, l, c, w) /\ l < m) /\ path(kk, c, w)[m] = p
    BY <2>1, <2>3 DEF CutAt, EntryStays
  <2> HIDE DEF p
  <2>5. c = a /\ m = l + 1 /\ \A j \in Levels : j < l + 1 => w[j] = v[j]
    BY <1>0, <2>1, <2>2, <2>4, Sole, SMTT(30)
  <2>6. l < m /\ \A j \in Levels : j <= l => j < l + 1
    BY <2>5, SMTT(30) DEF Levels
  <2>7. alignTo(w, l) = alignTo(v, l)
    BY <2>5, <2>6, AlignSame
  <2> QED BY <2>4, <2>5, <2>6, <2>7 DEF Through
<1>9. VInv(r)
  BY <1>2, <1>5, <1>6, <1>7, AddNoTable
<1> QED BY <1>8, <1>9

\* What page operations on frame capability d leave alone
CapChanged(kk, d, r) ==
  /\ TablesOnly(kk, r) /\ r.ptCap = kk.ptCap
  /\ \A x \in FrameCaps : x # d => r.frameCap[x] = kk.frameCap[x]

\* They keep what CapsInv says of tables, and the capabilities to tables
LEMMA PageCaps ==
  ASSUME NEW kk, CapsInv(kk), NEW d \in FrameCaps, NEW r, CapChanged(kk, d, r), Empty(kk, r),
         r.frameCap[d].asid # asidInvalid => r.frameCap[d].vaddr \in Addrs /\ r.frameCap[d].frame \in Frames
  PROVE  CapsInv(r)
<1>1. r.vsCap = kk.vsCap /\ r.ptCap = kk.ptCap
  BY DEF CapChanged, TablesOnly
<1>2. \A x \in FrameCaps : r.frameCap[x].asid # asidInvalid =>
        r.frameCap[x].vaddr \in Addrs /\ r.frameCap[x].frame \in Frames
  BY DEF CapsInv, CapChanged
<1> QED BY <1>1, <1>2 DEF CapsInv, Empty

\* The page that a mapped frame capability accounts for is where it says
LEMMA PagePlace ==
  ASSUME NEW kk, NEW d \in FrameCaps, NEW f, NEW c \in Live(kk), NEW w \in Addrs, NEW m \in Levels,
         f \in Frames, frameLevel[f] = m,
         kk.frameCap[d] = [frame |-> f, asid |-> c, vaddr |-> alignTo(w, m)]
  PROVE  /\ Place(kk.frameCap[d].asid, kk.frameCap[d].vaddr, frameLevel[kk.frameCap[d].frame], c, w, m)
         /\ kk.frameCap[d].frame = f /\ kk.frameCap[d].vaddr \in Addrs
<1>1. kk.frameCap[d].frame = f /\ kk.frameCap[d].asid = c /\ kk.frameCap[d].vaddr = alignTo(w, m)
  BY SMTT(30)
<1>2. alignTo(w, m) \in Addrs /\ alignTo(alignTo(w, m), m) = alignTo(w, m)
  BY Align
<1> QED BY <1>1, <1>2 DEF Place

\* Nothing is mapped where the capability says
Missed(kk, d) ==
  LET a == kk.frameCap[d].asid
      v == kk.frameCap[d].vaddr
      l == frameLevel[kk.frameCap[d].frame]
  IN a \in Live(kk) => ~(path(kk, a, v)[l] # Null /\ entry(kk, a, v, l) = kk.frameCap[d].frame)

\* A frame capability that accounts for no page may change
LEMMA DropMissed ==
  ASSUME NEW kk, VInv(kk), NEW d \in FrameCaps, NEW r, CapChanged(kk, d, r), r.pte = kk.pte,
         r.frameCap[d].asid = asidInvalid, Missed(kk, d)
  PROVE  VInv(r)
<1>0. TreeInv(kk) /\ Shape(kk) /\ TablesInv(kk) /\ CapsInv(kk) /\ TLBInv(kk)
  BY DEF VInv, TreeInv
<1>1. TablesOnly(kk, r) /\ r.ptCap = kk.ptCap
  BY DEF CapChanged
<1>2. RootsInv(r) /\ Shape(r) /\ Live(r) = Live(kk)
  BY <1>0, <1>1, RootsKept
<1>3. RootsStay(kk, r)
  BY <1>1, <1>2, SameLive DEF RootsStay, TablesOnly
<1>4. TablesStay(kk, r)
  <2> SUFFICES ASSUME NEW c \in Live(kk), NEW w \in Addrs, NEW m \in Levels, path(kk, c, w)[m] # Null
               PROVE  m # 1 => tableHasCap(r, path(kk, c, w)[m], c, w, m)
    BY <1>2 DEF TablesStay
  <2>1. m # 1 => tableHasCap(kk, path(kk, c, w)[m], c, w, m)
    BY <1>0, TableCap, SMTT(30)
  <2> QED BY <1>1, <2>1 DEF tableHasCap
<1>5. ASSUME NEW c \in Live(kk), NEW w \in Addrs, NEW m \in Levels PROVE PathStays(kk, r, c, w, m)
  BY <1>2, <1>3, <1>4, StayPaths
<1>6. NoNewTable(kk, r)
  <2> SUFFICES ASSUME NEW c \in Live(kk), NEW w \in Addrs, NEW m \in Levels, path(r, c, w)[m] # Null
               PROVE  StillThere(kk, r, c, w, m)
    BY <1>2 DEF NoNewTable, StillThere
  <2> DEFINE x == entry(kk, c, w, m)
  <2>1. path(r, c, w)[m] = path(kk, c, w)[m] /\ entry(r, c, w, m) = x /\ path(kk, c, w)[m] # Null
    BY <1>5 DEF PathStays
  <2>2. m # 1 => tableHasCap(r, path(r, c, w)[m], c, w, m)
    BY <1>2, <1>4, <2>1 DEF TablesStay
  <2>3. ASSUME pageHasCap(kk, x, c, w, m) PROVE pageHasCap(r, x, c, w, m)
    <3>1. PICK y \in FrameCaps : kk.frameCap[y] = [frame |-> x, asid |-> c, vaddr |-> alignTo(w, m)]
      BY <2>3 DEF pageHasCap
    <3>2. x \in Frames /\ frameLevel[x] = m
      BY <2>3 DEF pageHasCap
    <3>3. ASSUME y = d PROVE FALSE
      <4> DEFINE a == kk.frameCap[d].asid
                 v == kk.frameCap[d].vaddr
                 l == frameLevel[kk.frameCap[d].frame]
      <4>1. Place(a, v, l, c, w, m) /\ kk.frameCap[d].frame = x /\ v \in Addrs
        BY <3>1, <3>2, <3>3, PagePlace, SMTT(30)
      <4>2. l \in Levels
        BY <3>2, <4>1
      <4> HIDE DEF a, v, l, x
      <4>3. SameEntry(kk, a, v, l, c, w, m) /\ c = a
        BY <4>1, <4>2, SamePlace DEF Place
      <4>4. path(kk, a, v)[l] # Null /\ entry(kk, a, v, l) = x /\ a \in Live(kk)
        BY <2>1, <4>3 DEF SameEntry, x
      <4> QED BY <4>1, <4>4 DEF Missed, a, v, l
    <3>4. r.frameCap[y] = kk.frameCap[y]
      BY <3>3 DEF CapChanged
    <3> QED BY <3>1, <3>2, <3>4 DEF pageHasCap
  <2> QED BY <2>1, <2>2, <2>3 DEF StillThere
<1>7. CapsInv(r)
  <2>1. Empty(kk, r)
    BY <1>0 DEF Empty, CapsInv
  <2> QED BY <1>0, <2>1, PageCaps
<1>8. ASSUME NEW e \in r.tlb PROVE Cached(r, e)
  <2> DEFINE c == kk.armKSHWASIDTable[e.vmid]
             w == e.vaddr
             m == frameLevel[e.frame]
  <2>1. e \in kk.tlb /\ r.armKSHWASIDTable[e.vmid] = c
    BY <1>1 DEF TablesOnly
  <2>2. Cached(kk, e) /\ w \in Addrs /\ m \in Levels
    BY <1>0, <2>1, CachedIs
  <2>3. c \in Live(kk) /\ path(kk, c, w)[m] # Null /\ entry(kk, c, w, m) = e.frame /\ alignTo(w, m) = w
    BY <2>2 DEF Cached
  <2> HIDE DEF c, w, m
  <2>4. PathStays(kk, r, c, w, m)
    BY <1>5, <2>2, <2>3
  <2>5. path(r, c, w)[m] # Null /\ entry(r, c, w, m) = e.frame
    BY <2>3, <2>4 DEF PathStays
  <2> QED BY <1>2, <2>1, <2>3, <2>5 DEF Cached, w, m
<1> QED BY <1>2, <1>6, <1>7, <1>8, AddNoTable

\* The entry of a page becomes x: another page or none
CapsFit(kk, a, v, l, x, r) ==
  /\ x # Null => pageHasCap(r, x, a, v, l)
  /\ \A f : \A c \in Live(kk), w \in Addrs, m \in Levels :
       pageHasCap(kk, f, c, w, m) /\ ~Place(a, v, l, c, w, m) => pageHasCap(r, f, c, w, m)

Flushed(kk, a, v, l, r) ==
  entry(kk, a, v, l) # Null =>
    \A e \in r.tlb : kk.armKSHWASIDTable[e.vmid] = a => alignTo(v, frameLevel[e.frame]) # e.vaddr

PageSet(kk, a, v, l, x, r) ==
  /\ path(kk, a, v)[l] # Null /\ entry(kk, a, v, l) \notin PTs /\ x \notin PTs
  /\ Written(kk, path(kk, a, v)[l], v[l], x, r) /\ CapsFit(kk, a, v, l, x, r) /\ Flushed(kk, a, v, l, r)

\* Mapping a page over what is there and unmapping one keep the invariant
LEMMA SetPage ==
  ASSUME NEW kk, VInv(kk), NEW a \in Live(kk), NEW v \in Addrs, NEW l \in Levels, NEW x,
         NEW d \in FrameCaps, NEW r, CapChanged(kk, d, r), PageSet(kk, a, v, l, x, r),
         r.frameCap[d].asid # asidInvalid => r.frameCap[d].vaddr \in Addrs /\ r.frameCap[d].frame \in Frames
  PROVE  VInv(r)
<1>0. TreeInv(kk) /\ Shape(kk) /\ TablesInv(kk) /\ CapsInv(kk) /\ TLBInv(kk)
  BY DEF VInv, TreeInv
<1>1. TablesOnly(kk, r) /\ r.ptCap = kk.ptCap
  BY DEF CapChanged
<1>2. RootsInv(r) /\ Shape(r) /\ Live(r) = Live(kk)
  BY <1>0, <1>1, RootsKept
<1>3. /\ path(kk, a, v)[l] # Null /\ Written(kk, path(kk, a, v)[l], v[l], x, r)
      /\ x \notin PTs /\ entry(kk, a, v, l) \notin PTs
  BY DEF PageSet
<1>4. EntryIs(kk, a, v, l, x, r)
  BY <1>0, <1>1, <1>3, EntryAt DEF TablesOnly
<1>5. ASSUME NEW c \in Live(kk), NEW w \in Addrs, NEW m \in Levels
      PROVE  EntryStays(kk, a, v, l, x, r, c, w, m)
  BY <1>3, <1>4, PagePaths
<1>6. NoNewTable(kk, r)
  <2> SUFFICES ASSUME NEW c \in Live(kk), NEW w \in Addrs, NEW m \in Levels, path(r, c, w)[m] # Null
               PROVE  StillThere(kk, r, c, w, m)
    BY <1>2 DEF NoNewTable, StillThere
  <2>1. EntryStays(kk, a, v, l, x, r, c, w, m)
    BY <1>5
  <2>2. /\ path(r, c, w)[m] = path(kk, c, w)[m]
        /\ Place(a, v, l, c, w, m) => entry(r, c, w, m) = x
        /\ ~Place(a, v, l, c, w, m) => entry(r, c, w, m) = entry(kk, c, w, m)
    BY <2>1 DEF EntryStays
  <2>3. m # 1 => tableHasCap(kk, path(r, c, w)[m], c, w, m)
    BY <1>0, <2>2, TableCap, SMTT(30)
  <2>4. \A q : tableHasCap(kk, q, c, w, m) => tableHasCap(r, q, c, w, m)
    BY <1>1 DEF tableHasCap
  <2>5. CapsFit(kk, a, v, l, x, r)
    BY DEF PageSet
  <2>6. CASE Place(a, v, l, c, w, m)
    <3>1. x # Null => pageHasCap(r, x, c, w, m)
      BY <2>5, <2>6 DEF CapsFit, Place, pageHasCap
    <3> QED BY <2>2, <2>3, <2>4, <2>6, <3>1 DEF StillThere
  <2>7. CASE ~Place(a, v, l, c, w, m)
    <3>1. \A f : pageHasCap(kk, f, c, w, m) => pageHasCap(r, f, c, w, m)
      BY <2>5, <2>7 DEF CapsFit
    <3> QED BY <2>2, <2>3, <2>4, <2>7, <3>1 DEF StillThere
  <2> QED BY <2>6, <2>7
<1>7. CapsInv(r)
  <2>1. Empty(kk, r)
    BY <1>0, <1>3, CapsEntry, SMTT(30)
  <2> QED BY <1>0, <2>1, PageCaps
<1>8. ASSUME NEW e \in r.tlb PROVE Cached(r, e)
  <2> DEFINE c == kk.armKSHWASIDTable[e.vmid]
             w == e.vaddr
             m == frameLevel[e.frame]
  <2>1. e \in kk.tlb /\ r.armKSHWASIDTable[e.vmid] = c
    BY <1>1 DEF TablesOnly
  <2>2. Cached(kk, e) /\ w \in Addrs /\ m \in Levels /\ e.frame # Null
    BY <1>0, <2>1, CachedIs, Kinds
  <2>3. c \in Live(kk) /\ path(kk, c, w)[m] # Null /\ entry(kk, c, w, m) = e.frame /\ alignTo(w, m) = w
    BY <2>2 DEF Cached
  <2>4. entry(kk, a, v, l) # Null /\ c = a => alignTo(v, m) # w
    BY DEF PageSet, Flushed
  <2> HIDE DEF c, w, m
  <2>5. EntryStays(kk, a, v, l, x, r, c, w, m)
    BY <1>5, <2>2, <2>3
  <2>6. ~Place(a, v, l, c, w, m)
    BY <2>2, <2>3, <2>4, <2>5 DEF Place, EntryStays
  <2>7. path(r, c, w)[m] # Null /\ entry(r, c, w, m) = e.frame
    BY <2>3, <2>5, <2>6 DEF EntryStays
  <2> QED BY <1>2, <2>1, <2>3, <2>7 DEF Cached, w, m
<1> QED BY <1>2, <1>6, <1>7, <1>8, AddNoTable

\* An ASID is assigned to a root without entries
Assigned(kk, a, u, r) ==
  /\ a \notin Live(kk) /\ Live(r) = Live(kk) \cup {a}
  /\ \A c \in Live(kk) : findVSpaceForASID(r, c) = findVSpaceForASID(kk, c)
  /\ findVSpaceForASID(r, a) = u /\ kk.pte[u] = noEntries
  /\ r.pte = kk.pte /\ r.ptCap = kk.ptCap /\ r.frameCap = kk.frameCap
  /\ r.tlb = kk.tlb /\ r.armKSHWASIDTable = kk.armKSHWASIDTable

\* Its paths have one table, and no entries
LEMMA NewRoot ==
  ASSUME NEW kk, NEW a, NEW u \in VRoots, NEW r, Assigned(kk, a, u, r), NEW w \in Addrs, NEW m \in Levels
  PROVE  (m = 1 => entry(r, a, w, m) = Null) /\ (m # 1 => path(r, a, w)[m] = Null)
<1> DEFINE tab == path(r, a, w)
<1>1. tab = walk(r, u, w) /\ r.pte[u] = noEntries
  BY DEF path, Assigned
<1>2. w[1] \in Index /\ 1 \in Levels
  BY LevelFacts DEF Addrs, Levels
<1>3. r.pte[u][w[1]] = Null
  BY <1>1, <1>2 DEF noEntries
<1> HIDE DEF tab
<1>4. tab[1] = u /\ (1 < UPT_LEVELS => tab[2] = Down(r, u, w[1]))
  <2>1. tab[1] = u /\ (1 < UPT_LEVELS => tab[1 + 1] = Down(r, tab[1], w[1]))
    BY <1>1, <1>2, Walk, SMTT(30)
  <2>2. 1 + 1 = 2
    BY SMTT(30)
  <2> QED BY <2>1, <2>2
<1>5. 1 < UPT_LEVELS => tab[2] = Null
  BY <1>3, <1>4, Kinds DEF Down
<1>6. ASSUME m # 1 PROVE tab[m] = Null
  <2>1. 1 < UPT_LEVELS /\ 2 \in Levels /\ 2 <= m
    BY <1>6, LevelFacts, SMTT(30) DEF Levels
  <2>2. tab[2] = Null
    BY <1>5, <2>1
  <2> QED BY <1>1, <2>1, <2>2, WalkEnds, SMTT(30)
<1>7. m = 1 => entry(r, a, w, m) = Null
  BY <1>3, <1>4 DEF entry, tab
<1> QED BY <1>6, <1>7 DEF tab

\* Assigning an ASID keeps the invariant
LEMMA Assign ==
  ASSUME NEW kk, VInv(kk), NEW a, NEW u \in VRoots, NEW r, Assigned(kk, a, u, r),
         Shape(r), RootsInv(r), CapsInv(r)
  PROVE  VInv(r)
<1>0. TablesInv(kk) /\ LevelsInv(kk) /\ PagesInv(kk) /\ TLBInv(kk) /\ Shape(kk)
  BY DEF VInv, TreeInv
<1>1. ASSUME NEW c \in Live(kk), NEW w \in Addrs
      PROVE  path(r, c, w) = path(kk, c, w) /\ \A m : entry(r, c, w, m) = entry(kk, c, w, m)
  <2> DEFINE root == findVSpaceForASID(kk, c)
             tab == walk(kk, root, w)
  <2>1. findVSpaceForASID(r, c) = root /\ r.pte = kk.pte
    BY DEF Assigned
  <2>2. \A j \in Levels : tab[j] # Null => Down(r, tab[j], w[j]) = Down(kk, tab[j], w[j])
    BY <2>1 DEF Down
  <2>3. tab = walk(kk, root, w)
    BY SMTT(30)
  <2> HIDE DEF root, tab
  <2>4. walk(r, root, w) = tab
    BY <2>2, <2>3, WalkSame, SMTT(30)
  <2>5. path(r, c, w) = path(kk, c, w)
    BY <2>1, <2>3, <2>4 DEF path, root
  <2> QED BY <2>1, <2>5 DEF entry
<1>2. Live(r) = Live(kk) \cup {a} /\ r.ptCap = kk.ptCap /\ r.frameCap = kk.frameCap
  BY DEF Assigned
<1>3. TablesInv(r)
  <2> SUFFICES ASSUME NEW c \in Live(r), NEW w \in Addrs, NEW m \in Levels \ {1}, path(r, c, w)[m] # Null
               PROVE  tableHasCap(r, path(r, c, w)[m], c, w, m)
    BY DEF TablesInv
  <2>1. m \in Levels /\ m # 1
    OBVIOUS
  <2>2. c # a
    BY <2>1, NewRoot
  <2>3. c \in Live(kk)
    BY <1>2, <2>2
  <2>4. tableHasCap(kk, path(r, c, w)[m], c, w, m)
    BY <1>0, <1>1, <2>3 DEF TablesInv
  <2> QED BY <1>2, <2>4 DEF tableHasCap
<1>4. LevelsInv(r)
  <2> SUFFICES ASSUME NEW c \in Live(r), NEW v \in Addrs, NEW w \in Addrs,
                      NEW i \in Levels \ {1}, NEW m \in Levels \ {1},
                      path(r, c, v)[i] # Null, path(r, c, v)[i] = path(r, c, w)[m]
               PROVE  i = m
    BY SMTT(30) DEF LevelsInv
  <2>1. i \in Levels /\ i # 1
    OBVIOUS
  <2>2. c # a
    <3>1. path(r, a, v)[i] = Null
      BY <2>1, NewRoot, SMTT(30)
    <3> QED BY <3>1
  <2>3. c \in Live(kk)
    BY <1>2, <2>2
  <2>4. path(r, c, v) = path(kk, c, v) /\ path(r, c, w) = path(kk, c, w)
    BY <1>1, <2>3
  <2>5. path(kk, c, v)[i] # Null /\ path(kk, c, v)[i] = path(kk, c, w)[m]
    BY <2>4
  <2> QED BY <1>0, <2>3, <2>5 DEF LevelsInv
<1>5. PagesInv(r)
  <2> SUFFICES ASSUME NEW c \in Live(r), NEW w \in Addrs, NEW m \in Levels,
                      path(r, c, w)[m] # Null, entry(r, c, w, m) # Null
               PROVE  \/ entry(r, c, w, m) \in PTs /\ m < UPT_LEVELS
                      \/ pageHasCap(r, entry(r, c, w, m), c, w, m)
    BY DEF PagesInv
  <2>2. c # a
    BY NewRoot
  <2>3. c \in Live(kk)
    BY <1>2, <2>2
  <2>4. path(kk, c, w)[m] # Null /\ entry(kk, c, w, m) = entry(r, c, w, m)
    BY <1>1, <2>3
  <2>5. \/ entry(r, c, w, m) \in PTs /\ m < UPT_LEVELS
        \/ pageHasCap(kk, entry(r, c, w, m), c, w, m)
    BY <1>0, <2>3, <2>4 DEF PagesInv
  <2>6. \A f : pageHasCap(kk, f, c, w, m) => pageHasCap(r, f, c, w, m)
    BY <1>2 DEF pageHasCap
  <2> QED BY <2>5, <2>6
<1>6. TLBInv(r)
  <2> SUFFICES ASSUME NEW e \in r.tlb PROVE Cached(r, e)
    BY CachedIs
  <2> DEFINE c == kk.armKSHWASIDTable[e.vmid]
             w == e.vaddr
             m == frameLevel[e.frame]
  <2>1. e \in kk.tlb /\ r.armKSHWASIDTable[e.vmid] = c
    BY DEF Assigned
  <2>2. Cached(kk, e) /\ w \in Addrs
    BY <1>0, <2>1, CachedIs
  <2>3. c \in Live(kk) /\ path(kk, c, w)[m] # Null /\ entry(kk, c, w, m) = e.frame /\ alignTo(w, m) = w
    BY <2>2 DEF Cached
  <2> HIDE DEF c, w, m
  <2>4. path(r, c, w) = path(kk, c, w) /\ entry(r, c, w, m) = e.frame /\ c \in Live(r)
    BY <1>1, <1>2, <2>2, <2>3
  <2> QED BY <2>1, <2>3, <2>4 DEF Cached, w, m
<1> QED BY <1>3, <1>4, <1>5, <1>6 DEF VInv, TreeInv

-----------------------------------------------------------------------------
(* Operations on ASIDs, threads and roots *)

\* Retiring ASIDs and deleting roots keep the invariant
LEMMA Dropping ==
  ASSUME NEW kk, VInv(kk), NEW gone, NEW r, Shape(r), Drops(kk, gone, r)
  PROVE  VInv(r)
<1>0. Shape(kk) /\ TreeInv(kk) /\ RootsInv(kk) /\ TablesInv(kk) /\ CapsInv(kk) /\ TLBInv(kk) /\ Shape(r)
  BY DEF VInv, TreeInv
<1>1. /\ \A c \in ASIDs :
           findVSpaceForASID(r, c) = IF c \in gone THEN Null ELSE findVSpaceForASID(kk, c)
      /\ \A c \in Live(r) : c \in ASIDs /\ findVSpaceForASID(r, c) # Null
      /\ \A c \in Live(kk) : c \in ASIDs \ {asidInvalid} /\ findVSpaceForASID(kk, c) # Null
  BY DEF Drops, Live
<1>2. \A c \in Live(r) : c \notin gone /\ findVSpaceForASID(r, c) = findVSpaceForASID(kk, c)
  BY <1>1
<1>3. RootsStay(kk, r)
  BY <1>1, <1>2 DEF RootsStay, Live
<1>4. RootsInv(r)
  <2> SUFFICES ASSUME NEW c \in Live(r)
               PROVE  /\ r.vsCap[findVSpaceForASID(r, c)].asid = c
                      /\ ~lastVSpaceCap(r, findVSpaceForASID(r, c))
    BY DEF RootsInv
  <2> DEFINE w == findVSpaceForASID(kk, c)
  <2>1. c \in Live(kk) /\ c \in ASIDs \ gone /\ c # asidInvalid /\ findVSpaceForASID(r, c) = w
    BY <1>1, <1>2, <1>3 DEF RootsStay
  <2>2. w \in VRoots
    BY <1>0, <2>1 DEF Shape
  <2>3. kk.vsCap[w].asid = c /\ ~lastVSpaceCap(kk, w)
    BY <1>0, <2>1 DEF RootsInv
  <2>4. r.vsCap[w].asid = c
    BY <2>2, <2>3 DEF Drops
  <2>5. ~lastVSpaceCap(r, w)
    BY <2>1, <2>2, <2>3 DEF Drops
  <2> QED BY <2>1, <2>4, <2>5
<1>5. r.pte = kk.pte /\ r.ptCap = kk.ptCap /\ r.frameCap = kk.frameCap
  BY DEF Drops
<1>6. CapsInv(r)
  <2>1. \A u \in VRoots : r.vsCap[u].exists /\ r.vsCap[u].asid = asidInvalid => r.pte[u] = noEntries
    BY <1>0, <1>5 DEF CapsInv, Drops
  <2> QED BY <1>0, <1>5, <2>1 DEF CapsInv
<1>7. TablesStay(kk, r)
  <2> SUFFICES ASSUME NEW c \in Live(r), NEW w \in Addrs, NEW m \in Levels, path(kk, c, w)[m] # Null
               PROVE  m # 1 => tableHasCap(r, path(kk, c, w)[m], c, w, m)
    BY <1>5 DEF TablesStay
  <2>1. c \in Live(kk)
    BY <1>3 DEF RootsStay
  <2>2. m # 1 => tableHasCap(kk, path(kk, c, w)[m], c, w, m)
    BY <1>0, <2>1, TableCap, SMTT(30)
  <2> QED BY <1>5, <2>2 DEF tableHasCap
<1>8. PagesStay(kk, r)
  BY <1>5 DEF PagesStay, pageHasCap
<1>9. TLBStays(kk, r)
  <2> SUFFICES ASSUME NEW e \in r.tlb
               PROVE  /\ Cached(kk, e) /\ r.armKSHWASIDTable[e.vmid] = kk.armKSHWASIDTable[e.vmid]
                      /\ kk.armKSHWASIDTable[e.vmid] \in Live(r)
    BY DEF TLBStays
  <2> DEFINE c == kk.armKSHWASIDTable[e.vmid]
  <2>1. e \in kk.tlb /\ c \notin gone /\ r.armKSHWASIDTable[e.vmid] = c
    BY DEF Drops
  <2>2. Cached(kk, e)
    BY <1>0, <2>1, CachedIs
  <2>3. c \in Live(kk)
    BY <2>2 DEF Cached
  <2> HIDE DEF c
  <2>4. c \in Live(r)
    BY <1>1, <2>1, <2>3 DEF Live
  <2> QED BY <2>1, <2>2, <2>4 DEF c
<1>10. Stay(kk, r)
  BY <1>0, <1>3, <1>4, <1>6, <1>7, <1>8, <1>9 DEF Stay
<1> QED BY <1>10, Elsewhere

\* ARMASIDPoolAssign: a root that has no ASID has no entries
LEMMA Assigning ==
  ASSUME NEW kk \in State, VInv(kk), NEW a \in ASIDs \ {asidInvalid}, NEW u \in VRoots, NEW r, Shape(r),
         Assigns(kk, a, u, r), kk.vsCap[u].exists, kk.vsCap[u].asid = asidInvalid
  PROVE  VInv(r)
<1>0. Shape(kk) /\ RootsInv(kk) /\ CapsInv(kk) /\ Shape(r)
  BY DEF VInv, TreeInv
<1>1. \A c \in ASIDs : findVSpaceForASID(r, c) = IF c = a THEN u ELSE findVSpaceForASID(kk, c)
  BY DEF Assigns
<1>2. u # Null
  BY Kinds
<1>3. a \notin Live(kk) /\ Live(r) = Live(kk) \cup {a}
  BY <1>1, <1>2 DEF Live, Assigns
<1>4. \A c \in Live(kk) : findVSpaceForASID(r, c) = findVSpaceForASID(kk, c)
  BY <1>1, <1>3 DEF Live
<1>5. kk.pte[u] = noEntries
  BY <1>0 DEF CapsInv
<1>6. Assigned(kk, a, u, r)
  BY <1>1, <1>3, <1>4, <1>5 DEF Assigned, Assigns
<1>7. kk.vsCap \in [VRoots -> [exists : BOOLEAN, asid : ASIDs]] /\ r.vsCap = [kk.vsCap EXCEPT ![u].asid = a]
  BY DEF Assigns, State
<1>8. /\ r.vsCap[u].asid = a /\ r.vsCap[u].exists
      /\ \A w \in VRoots : r.vsCap[w].exists = kk.vsCap[w].exists
      /\ \A w \in VRoots : w # u => r.vsCap[w] = kk.vsCap[w]
  BY <1>7, SMTT(30)
<1>9. \A w \in VRoots : lastVSpaceCap(r, w) <=> lastVSpaceCap(kk, w)
  BY <1>8 DEF lastVSpaceCap, Assigns
<1>10. RootsInv(r)
  <2> SUFFICES ASSUME NEW c \in Live(r)
               PROVE  /\ r.vsCap[findVSpaceForASID(r, c)].asid = c
                      /\ ~lastVSpaceCap(r, findVSpaceForASID(r, c))
    BY DEF RootsInv
  <2>1. CASE c = a
    <3>1. findVSpaceForASID(r, c) = u
      BY <1>1, <2>1
    <3> QED BY <1>8, <2>1, <3>1 DEF lastVSpaceCap
  <2>2. CASE c # a
    <3> DEFINE w == findVSpaceForASID(kk, c)
    <3>1. c \in Live(kk) /\ findVSpaceForASID(r, c) = w
      BY <1>3, <1>4, <2>2
    <3>2. w \in VRoots /\ kk.vsCap[w].asid = c /\ ~lastVSpaceCap(kk, w) /\ c # asidInvalid
      BY <1>0, <3>1 DEF Shape, RootsInv, Live
    <3>3. w # u
      BY <3>2
    <3> QED BY <1>8, <1>9, <3>1, <3>2, <3>3
  <2> QED BY <2>1, <2>2
<1>11. CapsInv(r)
  <2>1. \A w \in VRoots : r.vsCap[w].exists /\ r.vsCap[w].asid = asidInvalid => r.pte[w] = noEntries
    BY <1>0, <1>5, <1>8 DEF CapsInv, Assigns
  <2>2. r.pte = kk.pte /\ r.ptCap = kk.ptCap /\ r.frameCap = kk.frameCap
    BY DEF Assigns
  <2> QED BY <1>0, <2>1, <2>2 DEF CapsInv
<1> QED BY <1>0, <1>6, <1>10, <1>11, Assign

-----------------------------------------------------------------------------
(* Operations on pages, tables and their capabilities *)

\* The state before and after one
PageStep(kk, r) == kk \in State /\ r \in State /\ Shape(r) /\ HWASIDsInv(kk) /\ ASIDsKept(kk, r)

\* ASIDs keep their roots
LEMMA StepRoots ==
  ASSUME NEW kk, NEW r, PageStep(kk, r)
  PROVE  /\ SameRoots(kk, r) /\ r.armKSHWASIDTable = kk.armKSHWASIDTable /\ r.tlb \subseteq kk.tlb /\ Shape(r)
         /\ r.vsCap = kk.vsCap /\ r.tcbVTable = kk.tcbVTable => TablesOnly(kk, r)
<1>1. r.armKSASIDTable = kk.armKSASIDTable /\ r.array = kk.array
  BY DEF PageStep, ASIDsKept, PoolsSame
<1>2. \A c \in ASIDs : findMapForASID(r, c) = findMapForASID(kk, c)
  BY <1>1 DEF findMapForASID
<1>3. SameRoots(kk, r)
  BY <1>2 DEF SameRoots, findVSpaceForASID
<1>4. r.armKSHWASIDTable = kk.armKSHWASIDTable /\ r.tlb \subseteq kk.tlb /\ Shape(r)
  BY DEF PageStep, ASIDsKept
<1> QED BY <1>3, <1>4 DEF TablesOnly

\* Only table t changes, and the capabilities to it
TableChanged(kk, t, r) ==
  /\ r.frameCap = kk.frameCap /\ RootsInv(r) /\ CapsInv(r)
  /\ \A q \in Tables : q # t => r.pte[q] = kk.pte[q]
  /\ \A q \in PTs : q # t => r.ptCap[q] = kk.ptCap[q]

\* A table that is not mapped may change
LEMMA ChangeTable ==
  ASSUME NEW kk, VInv(kk), NEW r, PageStep(kk, r), NEW t, Unmapped(kk, t), TableChanged(kk, t, r)
  PROVE  VInv(r)
<1>0. TreeInv(kk) /\ Shape(kk) /\ TLBInv(kk)
  BY DEF VInv, TreeInv
<1>1. /\ SameRoots(kk, r) /\ r.armKSHWASIDTable = kk.armKSHWASIDTable /\ r.tlb \subseteq kk.tlb /\ Shape(r)
  BY StepRoots
<1>2. Live(r) = Live(kk) /\ RootsStay(kk, r)
  BY <1>1, SameLive DEF RootsStay
<1>3. TablesStay(kk, r)
  <2> SUFFICES ASSUME NEW c \in Live(kk), NEW w \in Addrs, NEW m \in Levels, path(kk, c, w)[m] # Null
               PROVE  /\ r.pte[path(kk, c, w)[m]] = kk.pte[path(kk, c, w)[m]]
                      /\ m # 1 => tableHasCap(r, path(kk, c, w)[m], c, w, m)
    BY <1>2 DEF TablesStay
  <2>1. /\ path(kk, c, w)[m] \in Tables
        /\ m # 1 => path(kk, c, w)[m] \in PTs /\ tableHasCap(kk, path(kk, c, w)[m], c, w, m)
    BY <1>0, TableCap, SMTT(30)
  <2>2. path(kk, c, w)[m] # t
    BY DEF Unmapped
  <2>3. m # 1 => r.ptCap[path(kk, c, w)[m]] = kk.ptCap[path(kk, c, w)[m]]
    BY <2>1, <2>2 DEF TableChanged
  <2>4. r.pte[path(kk, c, w)[m]] = kk.pte[path(kk, c, w)[m]]
    BY <2>1, <2>2 DEF TableChanged
  <2> QED BY <2>1, <2>3, <2>4 DEF tableHasCap
<1>4. PagesStay(kk, r)
  BY DEF PagesStay, pageHasCap, TableChanged
<1>5. TLBStays(kk, r)
  <2>1. \A e \in r.tlb : Cached(kk, e)
    BY <1>0, <1>1, CachedIs
  <2> QED BY <1>1, <1>2, <2>1 DEF TLBStays, Cached
<1>6. Stay(kk, r)
  BY <1>1, <1>2, <1>3, <1>4, <1>5 DEF Stay, TableChanged
<1> QED BY <1>6, Elsewhere

\* Capabilities to a table may come and go as long as one is left
CapsCounted(kk, r) ==
  /\ r.vsCap = kk.vsCap /\ r.tcbVTable = kk.tcbVTable /\ r.frameCap = kk.frameCap /\ r.pte = kk.pte
  /\ \A q \in PTs : /\ r.ptCap[q].asid = kk.ptCap[q].asid /\ r.ptCap[q].vaddr = kk.ptCap[q].vaddr
                    /\ r.ptCap[q].n > 0 <=> kk.ptCap[q].n > 0

\* Copies and deletions of such capabilities keep the invariant
LEMMA CountCaps ==
  ASSUME NEW kk, VInv(kk), NEW r, PageStep(kk, r), CapsCounted(kk, r)
  PROVE  VInv(r)
<1>0. TreeInv(kk) /\ Shape(kk) /\ TLBInv(kk) /\ CapsInv(kk)
  BY DEF VInv, TreeInv
<1>1. /\ SameRoots(kk, r) /\ r.armKSHWASIDTable = kk.armKSHWASIDTable /\ r.tlb \subseteq kk.tlb
      /\ TablesOnly(kk, r)
  BY StepRoots DEF CapsCounted
<1>2. Live(r) = Live(kk) /\ RootsStay(kk, r)
  BY <1>1, SameLive DEF RootsStay
<1>3. RootsInv(r) /\ Shape(r)
  BY <1>0, <1>1, RootsKept
<1>4. TablesStay(kk, r)
  <2> SUFFICES ASSUME NEW c \in Live(kk), NEW w \in Addrs, NEW m \in Levels, path(kk, c, w)[m] # Null
               PROVE  m # 1 => tableHasCap(r, path(kk, c, w)[m], c, w, m)
    BY <1>2 DEF TablesStay, CapsCounted
  <2>1. m # 1 => path(kk, c, w)[m] \in PTs /\ tableHasCap(kk, path(kk, c, w)[m], c, w, m)
    BY <1>0, TableCap, SMTT(30)
  <2> QED BY <2>1 DEF tableHasCap, CapsCounted
<1>5. PagesStay(kk, r)
  BY DEF PagesStay, pageHasCap, CapsCounted
<1>6. CapsInv(r)
  BY <1>0 DEF CapsInv, CapsCounted
<1>7. TLBStays(kk, r)
  <2>1. \A e \in r.tlb : Cached(kk, e)
    BY <1>0, <1>1, CachedIs
  <2> QED BY <1>1, <1>2, <2>1 DEF TLBStays, Cached
<1>8. Stay(kk, r)
  BY <1>2, <1>3, <1>4, <1>5, <1>6, <1>7 DEF Stay
<1> QED BY <1>8, Elsewhere

PTCaps == [PTs -> [n : Nat, asid : ASIDs, vaddr : Addrs \cup {Null}]]

\* The fields that operations on pages change have their types
LEMMA PageFields ==
  ASSUME NEW kk \in State
  PROVE  /\ kk.pte \in [Tables -> [Index -> PTs \cup Frames \cup {Null}]]
         /\ kk.vsCap \in [VRoots -> [exists : BOOLEAN, asid : ASIDs]] /\ kk.ptCap \in PTCaps
         /\ kk.frameCap \in [FrameCaps -> [frame : Frames \cup {Null}, asid : ASIDs, vaddr : Addrs \cup {Null}]]
  BY DEF State, PTCaps

\* A root without capabilities is not mapped
LEMMA FreeRoot ==
  ASSUME NEW kk, TreeInv(kk), NEW v \in VRoots, lastVSpaceCap(kk, v)
  PROVE  Unmapped(kk, v) /\ \A c \in Live(kk) : findVSpaceForASID(kk, c) # v
<1>1. \A c \in Live(kk) : findVSpaceForASID(kk, c) # v
  BY DEF TreeInv, RootsInv
<1> SUFFICES ASSUME NEW c \in Live(kk), NEW w \in Addrs, NEW m \in Levels, path(kk, c, w)[m] = v PROVE FALSE
  BY <1>1 DEF Unmapped
<1>2. v # Null /\ v \notin PTs
  BY Kinds
<1>3. /\ m = 1 => v = findVSpaceForASID(kk, c)
      /\ m # 1 => v \in PTs
  BY <1>2, TableCap, SMTT(30)
<1> QED BY <1>1, <1>2, <1>3

\* Nor is a table without a capability that says so
LEMMA FreeTable ==
  ASSUME NEW kk, TreeInv(kk), NEW p \in PTs, ~(kk.ptCap[p].n > 0) \/ kk.ptCap[p].asid = asidInvalid
  PROVE  Unmapped(kk, p)
<1> SUFFICES ASSUME NEW c \in Live(kk), NEW w \in Addrs, NEW m \in Levels, path(kk, c, w)[m] = p PROVE FALSE
  BY DEF Unmapped
<1>1. p # Null /\ p \notin VRoots
  BY Kinds
<1>2. c # asidInvalid /\ (m = 1 => p \in VRoots) /\ (m # 1 => tableHasCap(kk, p, c, w, m))
  BY <1>1, TableCap, SMTT(30)
<1> QED BY <1>1, <1>2 DEF tableHasCap

\* Table p and the capabilities to it change
TableCleared(kk, p, r) ==
  /\ PageStep(kk, r) /\ r.vsCap = kk.vsCap /\ r.tcbVTable = kk.tcbVTable /\ r.frameCap = kk.frameCap
  /\ \A q \in Tables : q # p => r.pte[q] = kk.pte[q]
  /\ \A q \in PTs : q # p => r.ptCap[q] = kk.ptCap[q]
  /\ r.ptCap[p].n > 0 /\ r.ptCap[p].asid = asidInvalid => r.pte[p] = noEntries
  /\ r.ptCap[p].asid # asidInvalid => r.ptCap[p].vaddr \in Addrs

\* so, if it is not mapped
LEMMA ClearTable ==
  ASSUME NEW kk, VInv(kk), NEW p \in PTs, Unmapped(kk, p), NEW r, TableCleared(kk, p, r)
  PROVE  VInv(r)
<1>0. TreeInv(kk) /\ CapsInv(kk) /\ PageStep(kk, r)
  BY DEF VInv, TableCleared
<1>1. RootsInv(r)
  <2>1. TablesOnly(kk, r)
    BY <1>0, StepRoots DEF TableCleared
  <2> QED BY <1>0, <2>1, RootsKept
<1>2. CapsInv(r)
  <2>1. \A u \in VRoots : u \in Tables /\ u # p
    BY Kinds
  <2>2. \A u \in VRoots : r.pte[u] = kk.pte[u]
    BY <2>1 DEF TableCleared
  <2>3. \A q \in PTs : q \in Tables
    BY Kinds
  <2>4. \A q \in PTs : r.ptCap[q].n > 0 /\ r.ptCap[q].asid = asidInvalid => r.pte[q] = noEntries
    BY <1>0, <2>3 DEF CapsInv, TableCleared
  <2>5. \A q \in PTs : r.ptCap[q].asid # asidInvalid => r.ptCap[q].vaddr \in Addrs
    BY <1>0 DEF CapsInv, TableCleared
  <2>6. r.vsCap = kk.vsCap /\ r.frameCap = kk.frameCap
    BY DEF TableCleared
  <2> QED BY <1>0, <2>2, <2>4, <2>5, <2>6 DEF CapsInv
<1>3. TableChanged(kk, p, r)
  BY <1>1, <1>2 DEF TableChanged, TableCleared
<1> QED BY <1>0, <1>3, ChangeTable

\* Arch_createObject of a root and of a table
LEMMA RetypeSteps ==
  ASSUME VInv(k), PageStep(k, k')
  PROVE  /\ \A v \in VRoots : RetypeVSpace(v) => VInv(k')
         /\ \A p \in PTs : RetypePageTable(p) => VInv(k')
<1>0. TreeInv(k) /\ RootsInv(k) /\ Shape(k) /\ CapsInv(k) /\ k \in State
  BY DEF VInv, TreeInv, PageStep
<1>1. /\ k.pte \in [Tables -> [Index -> PTs \cup Frames \cup {Null}]]
      /\ k.vsCap \in [VRoots -> [exists : BOOLEAN, asid : ASIDs]] /\ k.ptCap \in PTCaps
  BY <1>0, PageFields
<1>2. ASSUME NEW v \in VRoots, RetypeVSpace(v) PROVE VInv(k')
  <2>1. /\ lastVSpaceCap(k, v)
        /\ k' = [k EXCEPT !.vsCap[v] = [exists |-> TRUE, asid |-> asidInvalid], !.pte[v] = noEntries]
    BY <1>2 DEF RetypeVSpace
  <2>2. /\ k'.vsCap = [k.vsCap EXCEPT ![v] = [exists |-> TRUE, asid |-> asidInvalid]]
        /\ k'.pte = [k.pte EXCEPT ![v] = noEntries] /\ k'.ptCap = k.ptCap /\ k'.frameCap = k.frameCap
        /\ k'.tcbVTable = k.tcbVTable
    BY <1>0, <2>1, SMTT(30) DEF State
  <2>3. v \in Tables
    BY Kinds
  <2>4. /\ \A u \in VRoots : u # v => k'.vsCap[u] = k.vsCap[u]
        /\ \A q \in Tables : q # v => k'.pte[q] = k.pte[q]
        /\ k'.pte[v] = noEntries
    BY <1>1, <2>2, <2>3
  <2>5. Unmapped(k, v) /\ \A c \in Live(k) : findVSpaceForASID(k, c) # v
    BY <1>0, <2>1, FreeRoot
  <2>6. RootsInv(k')
    <3>1. /\ Live(k') = Live(k)
          /\ \A c \in Live(k) : findVSpaceForASID(k', c) = findVSpaceForASID(k, c)
      BY StepRoots, SameLive
    <3>2. \A c \in Live(k) : findVSpaceForASID(k, c) \in VRoots
      BY <1>0 DEF Shape
    <3>3. \A u \in VRoots : u # v => (lastVSpaceCap(k', u) <=> lastVSpaceCap(k, u))
      BY <2>2, <2>4 DEF lastVSpaceCap
    <3>4. \A c \in Live(k) : LET root == findVSpaceForASID(k, c) IN
            k'.vsCap[root].asid = c /\ ~lastVSpaceCap(k', root)
      BY <1>0, <2>4, <2>5, <3>2, <3>3 DEF RootsInv
    <3> QED BY <3>1, <3>4 DEF RootsInv
  <2>7. CapsInv(k')
    <3>1. \A u \in VRoots : k'.vsCap[u].exists /\ k'.vsCap[u].asid = asidInvalid => k'.pte[u] = noEntries
      BY <1>0, <2>4, Kinds DEF CapsInv
    <3>2. \A p \in PTs : k'.pte[p] = k.pte[p]
      BY <2>4, Kinds
    <3> QED BY <1>0, <2>2, <3>1, <3>2 DEF CapsInv
  <2>8. TableChanged(k, v, k')
    BY <2>2, <2>4, <2>6, <2>7 DEF TableChanged
  <2> QED BY <2>5, <2>8, ChangeTable
<1>3. ASSUME NEW p \in PTs, RetypePageTable(p) PROVE VInv(k')
  <2> DEFINE cap == [n |-> 1, asid |-> asidInvalid, vaddr |-> Null]
  <2>1. k.ptCap[p].n = 0 /\ k' = [k EXCEPT !.ptCap[p] = cap, !.pte[p] = noEntries]
    BY <1>3 DEF RetypePageTable
  <2>2. /\ k'.ptCap = [k.ptCap EXCEPT ![p] = cap] /\ k'.pte = [k.pte EXCEPT ![p] = noEntries]
        /\ k'.frameCap = k.frameCap /\ k'.tcbVTable = k.tcbVTable /\ k'.vsCap = k.vsCap
    BY <1>0, <2>1, SMTT(30) DEF State
  <2>3. p \in Tables /\ ~(k.ptCap[p].n > 0)
    BY <2>1, Kinds, SMTT(30)
  <2>4. /\ \A q \in Tables : q # p => k'.pte[q] = k.pte[q]
        /\ \A q \in PTs : q # p => k'.ptCap[q] = k.ptCap[q]
        /\ k'.pte[p] = noEntries /\ k'.ptCap[p] = cap
    BY <1>1, <2>2, <2>3 DEF PTCaps
  <2>5. Unmapped(k, p)
    BY <1>0, <2>3, FreeTable
  <2>6. k'.ptCap[p].asid = asidInvalid
    BY <2>4, SMTT(30)
  <2>7. TableCleared(k, p, k')
    BY <2>2, <2>4, <2>6 DEF TableCleared
  <2> QED BY <2>5, <2>7, ClearTable
<1> QED BY <1>2, <1>3

\* The TLB has no translation of ASID a, or none of address v in it
NoneOfASID(kk, a, r) == \A e \in r.tlb : kk.armKSHWASIDTable[e.vmid] # a

NoneOfAddr(kk, a, v, r) ==
  \A e \in r.tlb : kk.armKSHWASIDTable[e.vmid] = a => alignTo(v, frameLevel[e.frame]) # e.vaddr

\* s differs from kk where the TLB operations do not look
SameTLB(kk, a, s) == s \in State /\ s.tlb = kk.tlb /\ findMapForASID(s, a) = findMapForASID(kk, a)

\* They change nothing else of an address space
TLBOnly(s, r) ==
  /\ r.pte = s.pte /\ r.ptCap = s.ptCap /\ r.frameCap = s.frameCap /\ r.vsCap = s.vsCap
  /\ r.tcbVTable = s.tcbVTable

\* invalidateTLBByASID and invalidateTLBByASIDVA drop what they should
LEMMA Invalidated ==
  ASSUME NEW kk \in State, HWASIDsInv(kk), NEW a \in ASIDs \ {asidInvalid}, NEW v, NEW s, SameTLB(kk, a, s)
  PROVE  /\ NoneOfASID(kk, a, invalidateTLBByASID(s, a))
         /\ NoneOfAddr(kk, a, v, invalidateTLBByASIDVA(s, a, v))
         /\ TLBOnly(s, invalidateTLBByASID(s, a)) /\ TLBOnly(s, invalidateTLBByASIDVA(s, a, v))
<1> DEFINE h == findMapForASID(kk, a).stored
           T1 == {e \in s.tlb : e.vmid # h}
           T2 == {e \in s.tlb : ~(e.vmid = h /\ alignTo(v, frameLevel[e.frame]) = e.vaddr)}
<1>0. s \in State /\ s.tlb = kk.tlb /\ findMapForASID(s, a) = findMapForASID(kk, a)
  BY DEF SameTLB
<1>1. NoVMID \notin HWASIDs
  BY VSpaceConstants, SMTT(30) DEF NoVMID, HWASIDs
<1>2. \A e \in kk.tlb : e.vmid \in HWASIDs
  <2>1. kk.tlb \subseteq [vmid : HWASIDs, frame : Frames, vaddr : Addrs]
    BY DEF State
  <2> QED BY <2>1
<1>3. \A e \in kk.tlb : kk.armKSHWASIDTable[e.vmid] = a => e.vmid = h
  BY <1>2 DEF HWASIDsInv
<1>4. /\ [s EXCEPT !.tlb = T1].tlb = T1 /\ TLBOnly(s, [s EXCEPT !.tlb = T1])
      /\ [s EXCEPT !.tlb = T2].tlb = T2 /\ TLBOnly(s, [s EXCEPT !.tlb = T2])
      /\ TLBOnly(s, s)
  <2> HIDE DEF T1, T2
  <2> QED BY <1>0, SMTT(30) DEF State, TLBOnly
<1>5. invalidateTLBByASID(s, a) = IF h = NoVMID THEN s ELSE [s EXCEPT !.tlb = T1]
  BY <1>0 DEF invalidateTLBByASID, invalidateTranslationASID
<1>6. invalidateTLBByASIDVA(s, a, v) = IF h = NoVMID THEN s ELSE [s EXCEPT !.tlb = T2]
  BY <1>0 DEF invalidateTLBByASIDVA, invalidateTranslationSingle
<1>7. \A e \in T1 : e \in kk.tlb /\ e.vmid # h
  BY <1>0, SMTT(30)
<1>8. \A e \in T2 : e \in kk.tlb /\ ~(e.vmid = h /\ alignTo(v, frameLevel[e.frame]) = e.vaddr)
  BY <1>0
<1> HIDE DEF T1, T2, h
<1>9. \A e \in kk.tlb : h = NoVMID => e.vmid # h
  BY <1>1, <1>2
<1>10. CASE h = NoVMID
  BY <1>0, <1>3, <1>4, <1>5, <1>6, <1>9, <1>10 DEF NoneOfASID, NoneOfAddr
<1>11. CASE h # NoVMID
  BY <1>3, <1>4, <1>5, <1>6, <1>7, <1>8, <1>11 DEF NoneOfASID, NoneOfAddr
<1> QED BY <1>10, <1>11

\* unmapPageTable and unmapPage are operations on pages, and change no capability
UnmapStep(kk, r) == PageStep(kk, r) /\ CapsSame(kk, r) /\ HWASIDsInv(r)

Unmaps(kk) ==
  \A a, v, x : UnmapStep(kk, unmapPageTable(kk, a, v, x)) /\ UnmapStep(kk, unmapPage(kk, a, v, x))

\* unmapPageTable with what the capability to a table says unmaps it
LEMMA UnmapTable ==
  ASSUME NEW kk, VInv(kk), Unmaps(kk), NEW p \in PTs, kk.ptCap[p].asid # asidInvalid,
         NEW r, r = unmapPageTable(kk, kk.ptCap[p].asid, kk.ptCap[p].vaddr, p)
  PROVE  VInv(r) /\ Unmapped(r, p)
<1> DEFINE a == kk.ptCap[p].asid
           v == kk.ptCap[p].vaddr
           root == findVSpaceForASID(kk, a)
           tab == walk(kk, root, v)
           L == {l \in 2 .. UPT_LEVELS : tab[l] = p}
<1>0. /\ TreeInv(kk) /\ CapsInv(kk) /\ PageStep(kk, r) /\ CapsSame(kk, r)
      /\ kk \in State /\ HWASIDsInv(kk)
  BY DEF VInv, Unmaps, UnmapStep, PageStep
<1>1. v \in Addrs /\ a \in ASIDs \ {asidInvalid} /\ p # Null /\ p \notin VRoots
  <2>1. kk.ptCap \in PTCaps
    BY <1>0, PageFields
  <2>2. a \in ASIDs
    BY <2>1, SMTT(30) DEF PTCaps
  <2> QED BY <1>0, <2>2, Kinds DEF CapsInv
<1>2. path(kk, a, v) = tab
  BY DEF path
<1>3. r = IF root = Null \/ L = {} THEN kk
          ELSE invalidateTLBByASID([kk EXCEPT !.pte[tab[Min(L) - 1]][v[Min(L) - 1]] = Null], a)
  BY DEF unmapPageTable
<1> HIDE DEF a, v, root, tab, L
<1>4. ASSUME root = Null \/ L = {} PROVE VInv(r) /\ Unmapped(r, p)
  <2>1. r = kk
    BY <1>3, <1>4
  <2> SUFFICES ASSUME NEW c \in Live(kk), NEW w \in Addrs, NEW m \in Levels, path(kk, c, w)[m] = p PROVE FALSE
    BY <2>1 DEF Unmapped
  <2>2. m # 1 /\ tableHasCap(kk, p, c, w, m)
    <3>1. (m = 1 => p \in VRoots) /\ (m # 1 => tableHasCap(kk, p, c, w, m))
      BY <1>0, <1>1, TableCap, SMTT(30)
    <3> QED BY <1>1, <3>1
  <2>3. c = a /\ v = alignTo(w, m - 1)
    BY <2>2 DEF tableHasCap, a, v
  <2>4. m - 1 \in Levels /\ m \in 2 .. UPT_LEVELS
    BY <2>2, LevelFacts
  <2>5. \A j \in Levels : j <= m - 1 => v[j] = w[j]
    BY <2>3, <2>4, Align
  <2>6. \A j \in Levels : j < m => j <= m - 1
    BY SMTT(30) DEF Levels
  <2>7. \A j \in Levels : j < m => v[j] = w[j]
    BY <2>5, <2>6
  <2>8. tab[m] = p
    <3>1. m <= m
      BY SMTT(30) DEF Levels
    <3>2. path(kk, a, v)[m] = path(kk, a, w)[m]
      BY <2>7, <3>1, WalkAgrees, SMTT(30) DEF path
    <3> QED BY <1>2, <2>3, <3>2
  <2>9. root # Null
    BY <2>3 DEF Live, root
  <2>10. m \in L
    BY <2>4, <2>8, SMTT(30) DEF L
  <2> QED BY <1>4, <2>9, <2>10
<1>5. ASSUME root # Null, L # {} PROVE VInv(r) /\ Unmapped(r, p)
  <2> DEFINE n == Min(L)
             l == n - 1
             s == [kk EXCEPT !.pte[tab[l]][v[l]] = Null]
  <2>1. n \in L
    <3>1. L \in SUBSET Nat
      BY LevelFacts, SMTT(30) DEF L
    <3> QED BY <1>5, <3>1, LeastOf
  <2>2. n \in 2 .. UPT_LEVELS /\ tab[n] = p
    BY <2>1 DEF L
  <2> HIDE DEF n
  <2>3. l \in Levels /\ l < UPT_LEVELS /\ n \in Levels /\ n # 1
    BY <2>2, LevelFacts
  <2>4. tab[n] = Down(kk, tab[n - 1], v[n - 1])
    <3>1. tab = walk(kk, root, v)
      BY DEF tab
    <3> QED BY <2>3, <3>1, Walk, SMTT(30)
  <2>5. tab[l] # Null /\ kk.pte[tab[l]][v[l]] = p
    BY <1>1, <2>2, <2>4 DEF Down
  <2>6. a \in Live(kk)
    BY <1>1, <1>5 DEF Live, root
  <2>7. r = invalidateTLBByASID(s, a)
    BY <1>3, <1>5 DEF n
  <2> HIDE DEF l
  <2>8. /\ s.pte = [kk.pte EXCEPT ![tab[l]][v[l]] = Null] /\ s.tlb = kk.tlb
        /\ s.armKSASIDTable = kk.armKSASIDTable /\ s.array = kk.array
    BY <1>0, SMTT(30) DEF State
  <2>9. s \in State
    <3>1. kk.pte \in [Tables -> [Index -> PTs \cup Frames \cup {Null}]]
      BY <1>0, PageFields
    <3>2. [kk.pte EXCEPT ![tab[l]][v[l]] = Null] \in [Tables -> [Index -> PTs \cup Frames \cup {Null}]]
      BY <3>1
    <3> QED BY <1>0, <3>2 DEF State
  <2> HIDE DEF s
  <2>10. SameTLB(kk, a, s)
    BY <2>8, <2>9 DEF findMapForASID, SameTLB
  <2>11. NoneOfASID(kk, a, r) /\ r.pte = s.pte
    <3> DEFINE q == invalidateTLBByASID(s, a)
    <3>1. NoneOfASID(kk, a, q) /\ TLBOnly(s, q)
      BY <1>0, <1>1, <2>10, Invalidated, SMTT(30)
    <3> QED BY <2>7, <3>1 DEF TLBOnly
  <2>12. TablesOnly(kk, r) /\ r.ptCap = kk.ptCap /\ r.frameCap = kk.frameCap
    BY <1>0, StepRoots DEF CapsSame
  <2>13. TableCut(kk, a, v, l, r)
    BY <1>2, <2>3, <2>5, <2>8, <2>11, <2>12 DEF TableCut, Written, NoneOfASID
  <2>14. entry(kk, a, v, l) = p
    BY <1>2, <2>5 DEF entry
  <2> QED BY <1>1, <2>3, <2>6, <2>13, <2>14, CutTable
<1> QED BY <1>4, <1>5

\* PageTableUnmap, and the copies and deletions of capabilities to tables
LEMMA TableCapSteps ==
  ASSUME VInv(k), PageStep(k, k'), Unmaps(k)
  PROVE  /\ \A p \in PTs : PageTableUnmap(p) => VInv(k')
         /\ \A p \in PTs : DeletePageTable(p) => VInv(k')
         /\ \A p \in PTs : CopyPageTable(p) => VInv(k')
<1>0. TreeInv(k) /\ k \in State /\ k.ptCap \in PTCaps /\ k' \in State /\ Shape(k') /\ HWASIDsInv(k) /\ CapsInv(k)
  BY PageFields DEF VInv, PageStep
<1>1. \A p \in PTs : k.ptCap[p].n \in Nat
  BY <1>0, SMTT(30) DEF PTCaps
<1>2. ASSUME NEW p \in PTs, PageTableUnmap(p) PROVE VInv(k')
  <2> DEFINE s == unmapPageTable(k, k.ptCap[p].asid, k.ptCap[p].vaddr, p)
             cap == [s.ptCap EXCEPT ![p].asid = asidInvalid, ![p].vaddr = Null]
             pte == [s.pte EXCEPT ![p] = noEntries]
  <2>1. k.ptCap[p].asid # asidInvalid /\ k' = [s EXCEPT !.pte = pte, !.ptCap = cap]
    BY <1>2 DEF PageTableUnmap
  <2>2. VInv(s) /\ Unmapped(s, p)
    BY <2>1, UnmapTable
  <2>3. UnmapStep(k, s)
    BY DEF Unmaps
  <2> HIDE DEF s
  <2>4. s \in State /\ HWASIDsInv(s)
    BY <2>3 DEF UnmapStep, PageStep
  <2>5. /\ k'.pte = pte /\ k'.ptCap = cap /\ ASIDsKept(s, k')
        /\ k'.vsCap = s.vsCap /\ k'.tcbVTable = s.tcbVTable /\ k'.frameCap = s.frameCap
    <3> HIDE DEF pte, cap
    <3> QED BY <2>1, <2>4, SMTT(30) DEF State, ASIDsKept, PoolsSame
  <2>6. s.pte \in [Tables -> [Index -> PTs \cup Frames \cup {Null}]] /\ s.ptCap \in PTCaps
    BY <2>4, PageFields
  <2>7. p \in Tables
    BY Kinds
  <2>8. /\ \A q \in Tables : q # p => pte[q] = s.pte[q]
        /\ \A q \in PTs : q # p => cap[q] = s.ptCap[q]
        /\ pte[p] = noEntries
    BY <2>6, <2>7 DEF PTCaps
  <2>9. cap[p].asid = asidInvalid
    BY <2>6, SMTT(30) DEF PTCaps
  <2> HIDE DEF pte, cap
  <2>10. PageStep(s, k')
    BY <1>0, <2>4, <2>5 DEF PageStep
  <2>11. TableCleared(s, p, k')
    BY <2>5, <2>8, <2>9, <2>10 DEF TableCleared
  <2> QED BY <2>2, <2>11, ClearTable
<1>3. ASSUME NEW p \in PTs, DeletePageTable(p) PROVE VInv(k')
  <2> DEFINE mapped == k.ptCap[p].n = 1 /\ k.ptCap[p].asid # asidInvalid
             s == IF mapped THEN unmapPageTable(k, k.ptCap[p].asid, k.ptCap[p].vaddr, p) ELSE k
             cap == [s.ptCap EXCEPT ![p].n = @ - 1]
  <2>1. k.ptCap[p].n > 0 /\ k' = [s EXCEPT !.ptCap = cap]
    BY <1>3 DEF DeletePageTable
  <2>2. s \in State /\ HWASIDsInv(s) /\ s.ptCap = k.ptCap
    <3>1. UnmapStep(k, unmapPageTable(k, k.ptCap[p].asid, k.ptCap[p].vaddr, p))
      BY DEF Unmaps
    <3> QED BY <1>0, <3>1 DEF UnmapStep, PageStep, CapsSame
  <2>3. mapped => VInv(s) /\ Unmapped(s, p)
    BY UnmapTable
  <2>4. ~mapped => s = k
    OBVIOUS
  <2> HIDE DEF s
  <2>5. /\ k'.pte = s.pte /\ k'.ptCap = cap /\ ASIDsKept(s, k')
        /\ k'.vsCap = s.vsCap /\ k'.tcbVTable = s.tcbVTable /\ k'.frameCap = s.frameCap
    <3> HIDE DEF cap, mapped
    <3> QED BY <2>1, <2>2, SMTT(30) DEF State, ASIDsKept, PoolsSame
  <2>6. /\ \A q \in PTs : q # p => cap[q] = s.ptCap[q]
        /\ cap[p].n = k.ptCap[p].n - 1 /\ cap[p].asid = k.ptCap[p].asid /\ cap[p].vaddr = k.ptCap[p].vaddr
    BY <1>0, <2>2, SMTT(30) DEF PTCaps
  <2>7. PageStep(s, k')
    BY <1>0, <2>2, <2>5 DEF PageStep
  <2>8. k.ptCap[p].asid # asidInvalid => k.ptCap[p].vaddr \in Addrs
    BY <1>0 DEF CapsInv
  <2>9. CASE k.ptCap[p].n = 1
    <3>1. VInv(s) /\ Unmapped(s, p)
      <4>1. CASE mapped
        BY <2>3, <4>1
      <4>2. CASE ~mapped
        BY <1>0, <2>4, <2>9, <4>2, FreeTable
      <4> QED BY <4>1, <4>2
    <3> HIDE DEF cap, mapped
    <3>2. ~(cap[p].n > 0)
      BY <2>6, <2>9, SMTT(30)
    <3>3. TableCleared(s, p, k')
      BY <2>5, <2>6, <2>7, <2>8, <3>2 DEF TableCleared
    <3> QED BY <3>1, <3>3, ClearTable
  <2>10. CASE k.ptCap[p].n # 1
    <3>1. s = k
      BY <2>4, <2>10
    <3> HIDE DEF cap, mapped
    <3>2. cap[p].n > 0
      BY <1>1, <2>1, <2>6, <2>10, SMTT(30)
    <3>3. CapsCounted(k, k')
      BY <2>1, <2>5, <2>6, <3>1, <3>2 DEF CapsCounted
    <3> QED BY <3>3, CountCaps
  <2> QED BY <2>9, <2>10
<1>4. ASSUME NEW p \in PTs, CopyPageTable(p) PROVE VInv(k')
  <2> DEFINE cap == [k.ptCap EXCEPT ![p].n = @ + 1]
  <2>1. k.ptCap[p].n \in 1 .. MaxPTCaps - 1 /\ k' = [k EXCEPT !.ptCap = cap]
    BY <1>4 DEF CopyPageTable
  <2>2. /\ k'.pte = k.pte /\ k'.ptCap = cap
        /\ k'.vsCap = k.vsCap /\ k'.tcbVTable = k.tcbVTable /\ k'.frameCap = k.frameCap
    <3> HIDE DEF cap
    <3> QED BY <1>0, <2>1, SMTT(30) DEF State
  <2>3. /\ \A q \in PTs : q # p => cap[q] = k.ptCap[q]
        /\ cap[p].n = k.ptCap[p].n + 1 /\ cap[p].asid = k.ptCap[p].asid /\ cap[p].vaddr = k.ptCap[p].vaddr
    BY <1>0, SMTT(30) DEF PTCaps
  <2> HIDE DEF cap
  <2>4. cap[p].n > 0 /\ k.ptCap[p].n > 0
    BY <1>1, <2>1, <2>3, SMTT(30)
  <2>5. CapsCounted(k, k')
    BY <2>2, <2>3, <2>4 DEF CapsCounted
  <2> QED BY <2>5, CountCaps
<1> QED BY <1>2, <1>3, <1>4

\* Where lookupPTSlot ends in the address space of ASID a
SlotOf(kk, a, w, s) ==
  /\ s.level \in Levels /\ s.pt = path(kk, a, w)[s.level] /\ s.i = w[s.level]
  /\ path(kk, a, w)[s.level] # Null /\ kk.pte[s.pt][s.i] = entry(kk, a, w, s.level)
  /\ s.level < UPT_LEVELS => entry(kk, a, w, s.level) \notin PTs

\* lookupPTSlot on the root of ASID a
LEMMA SlotFor ==
  ASSUME NEW kk, NEW a \in ASIDs \ {asidInvalid}, NEW v, v # Null, findVSpaceForASID(kk, a) = v, NEW w
  PROVE  a \in Live(kk) /\ SlotOf(kk, a, w, lookupPTSlot(kk, v, w))
<1>1. a \in Live(kk)
  BY DEF Live
<1> DEFINE s == lookupPTSlot(kk, v, w)
           tab == walk(kk, v, w)
<1>2. tab = path(kk, a, w) /\ s = lookupPTSlot(kk, v, w) /\ tab = walk(kk, v, w)
  BY DEF path
<1> HIDE DEF s, tab
<1>3. /\ s.level \in Levels /\ s.pt = tab[s.level] /\ s.i = w[s.level] /\ s.pt # Null
      /\ s.level < UPT_LEVELS => kk.pte[s.pt][s.i] \notin PTs
  BY <1>2, Slot, SMTT(30)
<1>4. kk.pte[s.pt][s.i] = entry(kk, a, w, s.level)
  BY <1>2, <1>3 DEF entry
<1> QED BY <1>1, <1>2, <1>3, <1>4 DEF SlotOf, s

\* A usable capability to a root has the ASID of it
LEMMA ValidRoot ==
  ASSUME k \in State, NEW v \in VRoots, isValidRoot(k, v)
  PROVE  k.vsCap[v].asid \in ASIDs \ {asidInvalid} /\ findVSpaceForASID(k, k.vsCap[v].asid) = v /\ v # Null
<1>1. k.vsCap \in [VRoots -> [exists : BOOLEAN, asid : ASIDs]]
  BY PageFields
<1>2. k.vsCap[v].asid \in ASIDs
  BY <1>1, SMTT(30)
<1> QED BY <1>2, Kinds DEF isValidRoot

\* Addresses of operations are addresses
LEMMA AddrsOK == VAddrs \subseteq Addrs
  BY VSpaceConstants DEF Addrs

\* PageTableMap
LEMMA PageTableMapStep ==
  ASSUME VInv(k), PageStep(k, k'), NEW p \in PTs, NEW v \in VRoots, NEW w \in VAddrs, PageTableMap(p, v, w)
  PROVE  VInv(k')
<1> DEFINE slot == lookupPTSlot(k, v, w)
           a == k.vsCap[v].asid
           l == slot.level
           pte == [k.pte EXCEPT ![slot.pt][slot.i] = p]
           cap == [k.ptCap EXCEPT ![p].asid = a, ![p].vaddr = alignTo(w, l)]
<1>0. k \in State /\ k.ptCap \in PTCaps /\ w \in Addrs
  BY PageFields, AddrsOK DEF PageStep
<1>1. /\ k.ptCap[p].n > 0 /\ k.ptCap[p].asid = asidInvalid /\ isValidRoot(k, v)
      /\ l # UPT_LEVELS /\ k.pte[slot.pt][slot.i] = Null
      /\ k' = [k EXCEPT !.pte = pte, !.ptCap = cap]
  BY DEF PageTableMap
<1>2. a \in ASIDs \ {asidInvalid} /\ findVSpaceForASID(k, a) = v /\ v # Null
  BY <1>0, <1>1, ValidRoot
<1>3. a \in Live(k) /\ SlotOf(k, a, w, slot)
  BY <1>2, SlotFor
<1> HIDE DEF slot, a
<1>4. /\ l \in Levels /\ slot.pt = path(k, a, w)[l] /\ slot.i = w[l] /\ path(k, a, w)[l] # Null
      /\ entry(k, a, w, l) = Null
  BY <1>1, <1>3 DEF SlotOf
<1>5. l < UPT_LEVELS
  BY <1>1, <1>4, LevelFacts
<1> HIDE DEF l
<1>6. /\ k'.pte = pte /\ k'.ptCap = cap
      /\ k'.vsCap = k.vsCap /\ k'.tcbVTable = k.tcbVTable /\ k'.frameCap = k.frameCap
  <2> HIDE DEF pte, cap
  <2> QED BY <1>0, <1>1, SMTT(30) DEF State
<1>7. /\ \A q \in PTs : q # p => cap[q] = k.ptCap[q]
      /\ cap[p].n = k.ptCap[p].n /\ cap[p].asid = a /\ cap[p].vaddr = alignTo(w, l)
  BY <1>0, SMTT(30) DEF PTCaps
<1>8. Written(k, path(k, a, w)[l], w[l], p, k')
  BY <1>4, <1>6 DEF Written
<1> HIDE DEF pte, cap
<1>9. TablesOnly(k, k')
  BY <1>6, StepRoots
<1>10. TableMapped(k, a, w, l, p, k')
  BY <1>1, <1>4, <1>5, <1>6, <1>7, <1>8, <1>9 DEF TableMapped
<1> QED BY <1>0, <1>3, <1>4, <1>10, MapTable

\* Making frames and copies of capabilities to frames
LEMMA FrameCapSteps ==
  ASSUME VInv(k), PageStep(k, k')
  PROVE  /\ \A c \in FrameCaps, f \in Frames : RetypeFrame(c, f) => VInv(k')
         /\ \A c, d \in FrameCaps : CopyFrame(c, d) => VInv(k')
<1>0. /\ k \in State
      /\ k.frameCap \in [FrameCaps -> [frame : Frames \cup {Null}, asid : ASIDs, vaddr : Addrs \cup {Null}]]
  BY PageFields DEF PageStep
<1>1. ASSUME NEW d \in FrameCaps, k.frameCap[d] = noFrame, NEW f,
             k' = [k EXCEPT !.frameCap[d] = [noFrame EXCEPT !.frame = f]]
      PROVE  VInv(k')
  <2> DEFINE new == [noFrame EXCEPT !.frame = f]
             cap == [k.frameCap EXCEPT ![d] = new]
  <2>1. new.asid = asidInvalid
    BY SMTT(30) DEF noFrame
  <2> HIDE DEF new
  <2>2. (\A x \in FrameCaps : x # d => cap[x] = k.frameCap[x]) /\ cap[d] = new
    BY <1>0
  <2>3. k' = [k EXCEPT !.frameCap = cap]
    BY <1>1 DEF new
  <2> HIDE DEF cap
  <2>4. /\ k'.pte = k.pte /\ k'.ptCap = k.ptCap
        /\ k'.vsCap = k.vsCap /\ k'.tcbVTable = k.tcbVTable /\ k'.frameCap = cap
    BY <1>0, <2>3, SMTT(30) DEF State
  <2>5. CapChanged(k, d, k')
    BY <2>2, <2>4, StepRoots DEF CapChanged
  <2>6. k.frameCap[d].asid = asidInvalid
    BY <1>1, SMTT(30) DEF noFrame
  <2>7. Missed(k, d)
    BY <2>6 DEF Missed, Live
  <2>8. k'.frameCap[d].asid = asidInvalid
    BY <2>1, <2>2, <2>4
  <2> QED BY <2>4, <2>5, <2>7, <2>8, DropMissed
<1>2. ASSUME NEW c \in FrameCaps, NEW f \in Frames, RetypeFrame(c, f) PROVE VInv(k')
  BY <1>1, <1>2 DEF RetypeFrame
<1>3. ASSUME NEW c \in FrameCaps, NEW d \in FrameCaps, CopyFrame(c, d) PROVE VInv(k')
  BY <1>1, <1>3 DEF CopyFrame
<1> QED BY <1>2, <1>3

\* ARMPageMap
LEMMA PageMapStep ==
  ASSUME VInv(k), PageStep(k, k'), NEW c \in FrameCaps, NEW v \in VRoots, NEW w \in VAddrs,
         performPageInvocationMap(c, v, w)
  PROVE  VInv(k')
<1> DEFINE slot == lookupPTSlot(k, v, w)
           a == k.vsCap[v].asid
           f == k.frameCap[c].frame
           l == frameLevel[f]
           pte == [k.pte EXCEPT ![slot.pt][slot.i] = f]
           cap == [k.frameCap EXCEPT ![c].asid = a, ![c].vaddr = w]
           k1 == [k EXCEPT !.frameCap[c].asid = a, !.frameCap[c].vaddr = w, !.pte[slot.pt][slot.i] = f]
<1>0. /\ k \in State /\ HWASIDsInv(k) /\ PagesInv(k) /\ w \in Addrs
      /\ k.pte \in [Tables -> [Index -> PTs \cup Frames \cup {Null}]]
      /\ k.frameCap \in [FrameCaps -> [frame : Frames \cup {Null}, asid : ASIDs, vaddr : Addrs \cup {Null}]]
  BY PageFields, AddrsOK DEF PageStep, VInv
<1>1. /\ f # Null /\ isValidRoot(k, v) /\ slot.level = l /\ alignTo(w, l) = w
      /\ k.frameCap[c].asid # asidInvalid => k.frameCap[c].asid = a /\ k.frameCap[c].vaddr = w
      /\ k' = IF k.pte[slot.pt][slot.i] = Null THEN k1 ELSE invalidateTLBByASIDVA(k1, a, w)
  BY DEF performPageInvocationMap, mayMap, checkVPAlignment
<1>2. a \in ASIDs \ {asidInvalid} /\ findVSpaceForASID(k, a) = v /\ v # Null
  BY <1>0, <1>1, ValidRoot
<1>3. a \in Live(k) /\ SlotOf(k, a, w, slot)
  BY <1>2, SlotFor
<1>4. f \in Frames /\ f \notin PTs /\ k.frameCap[c].frame = f
  <2>1. f \in Frames
    BY <1>0, <1>1, SMTT(30)
  <2> QED BY <2>1, Kinds
<1> HIDE DEF slot, a, f, l
<1>5. /\ l \in Levels /\ slot.pt = path(k, a, w)[l] /\ slot.i = w[l] /\ path(k, a, w)[l] # Null
      /\ k.pte[slot.pt][slot.i] = entry(k, a, w, l)
      /\ l < UPT_LEVELS => entry(k, a, w, l) \notin PTs
  BY <1>1, <1>3 DEF SlotOf
<1>6. entry(k, a, w, l) \notin PTs
  <2>1. CASE l < UPT_LEVELS
    BY <1>5, <2>1
  <2>2. CASE ~(l < UPT_LEVELS)
    <3>1. entry(k, a, w, l) # Null => pageHasCap(k, entry(k, a, w, l), a, w, l)
      BY <1>0, <1>3, <1>5, <2>2 DEF PagesInv
    <3>2. entry(k, a, w, l) # Null => entry(k, a, w, l) \in Frames
      BY <3>1 DEF pageHasCap
    <3> QED BY <3>2, Kinds
  <2> QED BY <2>1, <2>2
<1>7. /\ \A x \in FrameCaps : x # c => cap[x] = k.frameCap[x]
      /\ cap[c] = [frame |-> f, asid |-> a, vaddr |-> w]
      /\ k.frameCap[c].asid # asidInvalid => cap[c] = k.frameCap[c]
  <2>1. /\ k.frameCap[c] = [frame |-> f, asid |-> k.frameCap[c].asid, vaddr |-> k.frameCap[c].vaddr]
        /\ cap[c] = [frame |-> f, asid |-> a, vaddr |-> w]
    BY <1>0, <1>4, SMTT(30)
  <2>2. \A x \in FrameCaps : x # c => cap[x] = k.frameCap[x]
    BY <1>0
  <2> HIDE DEF cap
  <2> QED BY <1>1, <2>1, <2>2
<1>8. /\ k1.pte = pte /\ k1.frameCap = cap /\ k1.ptCap = k.ptCap /\ k1.vsCap = k.vsCap
      /\ k1.tcbVTable = k.tcbVTable /\ k1.tlb = k.tlb
      /\ k1.armKSASIDTable = k.armKSASIDTable /\ k1.array = k.array
  <2>1. k1 = [k EXCEPT !.frameCap = cap, !.pte = pte]
    BY <1>0 DEF State
  <2> HIDE DEF pte, cap, k1
  <2> QED BY <1>0, <2>1, SMTT(30) DEF State
<1>9. k1 \in State
  <2>0. k1 = [k EXCEPT !.frameCap = cap, !.pte = pte]
    BY <1>0 DEF State
  <2>1. pte \in [Tables -> [Index -> PTs \cup Frames \cup {Null}]]
    BY <1>0, <1>4
  <2>2. cap \in [FrameCaps -> [frame : Frames \cup {Null}, asid : ASIDs, vaddr : Addrs \cup {Null}]]
    BY <1>0, <1>2
  <2> HIDE DEF pte, cap, k1
  <2> QED BY <1>0, <2>0, <2>1, <2>2 DEF State
<1> HIDE DEF k1, cap
<1>10. SameTLB(k, a, k1)
  BY <1>8, <1>9 DEF findMapForASID, SameTLB
<1>11. TLBOnly(k1, k') /\ (entry(k, a, w, l) # Null => NoneOfAddr(k, a, w, k'))
  <2> DEFINE q == invalidateTLBByASIDVA(k1, a, w)
  <2>1. NoneOfAddr(k, a, w, q) /\ TLBOnly(k1, q)
    BY <1>0, <1>2, <1>10, Invalidated, SMTT(30)
  <2>2. k' = IF entry(k, a, w, l) = Null THEN k1 ELSE q
    BY <1>1, <1>5
  <2> HIDE DEF q
  <2> QED BY <2>1, <2>2 DEF TLBOnly
<1>12. /\ k'.pte = pte /\ k'.frameCap = cap /\ k'.ptCap = k.ptCap /\ k'.vsCap = k.vsCap
       /\ k'.tcbVTable = k.tcbVTable
  BY <1>8, <1>11 DEF TLBOnly
<1>13. Written(k, path(k, a, w)[l], w[l], f, k')
  BY <1>5, <1>12 DEF Written
<1> HIDE DEF pte
<1>14. CapChanged(k, c, k')
  BY <1>7, <1>12, StepRoots DEF CapChanged
<1>15. CapsFit(k, a, w, l, f, k')
  <2>1. pageHasCap(k', f, a, w, l)
    <3>1. k'.frameCap[c] = [frame |-> f, asid |-> a, vaddr |-> alignTo(w, l)] /\ frameLevel[f] = l
      BY <1>1, <1>7, <1>12 DEF l
    <3> QED BY <1>4, <3>1 DEF pageHasCap
  <2>2. ASSUME NEW x, NEW b \in Live(k), NEW u, NEW m, pageHasCap(k, x, b, u, m)
        PROVE  pageHasCap(k', x, b, u, m)
    <3>1. PICK y \in FrameCaps : k.frameCap[y] = [frame |-> x, asid |-> b, vaddr |-> alignTo(u, m)]
      BY <2>2 DEF pageHasCap
    <3>2. y = c => k.frameCap[c].asid # asidInvalid
      <4>1. k.frameCap[y].asid = b
        BY <3>1, SMTT(30)
      <4>2. b # asidInvalid
        BY DEF Live
      <4> QED BY <4>1, <4>2
    <3>3. k'.frameCap[y] = k.frameCap[y]
      BY <1>7, <1>12, <3>2
    <3> QED BY <2>2, <3>1, <3>3 DEF pageHasCap
  <2> QED BY <2>1, <2>2 DEF CapsFit
<1>16. PageSet(k, a, w, l, f, k')
  <2>1. Flushed(k, a, w, l, k')
    BY <1>11 DEF Flushed, NoneOfAddr
  <2> QED BY <1>4, <1>5, <1>6, <1>13, <1>15, <2>1 DEF PageSet
<1>17. k'.frameCap[c].vaddr \in Addrs /\ k'.frameCap[c].frame \in Frames
  <2>1. k'.frameCap[c].vaddr = w /\ k'.frameCap[c].frame = f
    BY <1>7, <1>12, SMTT(30)
  <2> QED BY <1>0, <1>4, <2>1
<1> QED BY <1>0, <1>3, <1>5, <1>14, <1>16, <1>17, SetPage

\* Unmapping the page of a frame capability and clearing what the capability says
LEMMA UnmapFrame ==
  ASSUME VInv(k), PageStep(k, k'), Unmaps(k), NEW c \in FrameCaps,
         NEW s, s = unmapFrameCap(k, c), NEW cap, k' = [s EXCEPT !.frameCap = cap],
         \A x \in FrameCaps : x # c => cap[x] = s.frameCap[x],
         cap[c].asid = asidInvalid
  PROVE  VInv(k')
<1> DEFINE a == k.frameCap[c].asid
           v == k.frameCap[c].vaddr
           f == k.frameCap[c].frame
           l == frameLevel[f]
           root == findVSpaceForASID(k, a)
           slot == lookupPTSlot(k, root, v)
<1>0. k \in State /\ HWASIDsInv(k) /\ CapsInv(k)
  BY DEF PageStep, VInv
<1>1. /\ a = asidInvalid => s = k
      /\ a # asidInvalid => s = unmapPage(k, a, v, f)
  BY DEF unmapFrameCap
<1>2. s \in State /\ CapsSame(k, s)
  <2>1. a # asidInvalid => s \in State /\ CapsSame(k, s)
    <3>1. UnmapStep(k, unmapPage(k, a, v, f))
      BY DEF Unmaps
    <3> HIDE DEF a, v, f
    <3>2. a # asidInvalid => UnmapStep(k, s)
      BY <1>1, <3>1
    <3> QED BY <3>2 DEF UnmapStep, PageStep
  <2>2. CapsSame(k, k)
    BY DEF CapsSame
  <2> QED BY <1>0, <1>1, <2>1, <2>2
<1>3. /\ k'.pte = s.pte /\ k'.tlb = s.tlb /\ k'.frameCap = cap /\ k'.ptCap = s.ptCap
      /\ k'.vsCap = s.vsCap /\ k'.tcbVTable = s.tcbVTable
  BY <1>2, SMTT(30) DEF State
<1>4. CapChanged(k, c, k')
  <2>1. /\ s.vsCap = k.vsCap /\ s.tcbVTable = k.tcbVTable /\ s.ptCap = k.ptCap
        /\ s.frameCap = k.frameCap
    BY <1>2 DEF CapsSame
  <2>2. TablesOnly(k, k')
    <3>1. k'.vsCap = k.vsCap /\ k'.tcbVTable = k.tcbVTable
      BY <1>3, <2>1
    <3> QED BY <3>1, StepRoots
  <2> QED BY <1>3, <2>1, <2>2 DEF CapChanged
<1>5. k'.frameCap[c].asid = asidInvalid
  BY <1>3
<1>6. ASSUME s = k, Missed(k, c) PROVE VInv(k')
  BY <1>3, <1>4, <1>5, <1>6, DropMissed
<1>7. CASE a = asidInvalid
  BY <1>1, <1>6, <1>7 DEF Missed, Live
<1>8. CASE a # asidInvalid
  <2>1. /\ a \in ASIDs \ {asidInvalid} /\ v \in Addrs /\ f \in Frames /\ f # Null /\ f \notin PTs
        /\ l \in Levels
    <3>1. a \in ASIDs
      BY <1>0, PageFields, SMTT(30)
    <3>2. v \in Addrs /\ f \in Frames
      BY <1>0, <1>8 DEF CapsInv
    <3> QED BY <1>8, <3>1, <3>2, Kinds
  <2>2. s = IF root # Null /\ slot.level = l /\ k.pte[slot.pt][slot.i] = f
            THEN invalidateTLBByASIDVA([k EXCEPT !.pte[slot.pt][slot.i] = Null], a, v) ELSE k
    BY <1>1, <1>8 DEF unmapPage
  <2>3. root # Null => a \in Live(k) /\ SlotOf(k, a, v, slot)
    BY <2>1, SlotFor
  <2>4. ASSUME a \in Live(k), path(k, a, v)[l] # Null, entry(k, a, v, l) = f
        PROVE  slot.level = l /\ k.pte[slot.pt][slot.i] = f /\ root # Null
    <3> DEFINE tab == path(k, a, v)
    <3>1. root # Null /\ tab = walk(k, root, v) /\ slot = lookupPTSlot(k, root, v)
      BY <2>4 DEF Live, path
    <3>2. tab[l] # Null /\ k.pte[tab[l]][v[l]] = f
      BY <2>4 DEF entry
    <3> HIDE DEF tab, slot, root, a, v, f, l
    <3>3. slot.level = l /\ slot.pt = tab[l] /\ slot.i = v[l]
      BY <2>1, <3>1, <3>2, SlotAt, SMTT(30)
    <3> QED BY <3>1, <3>2, <3>3
  <2>5. CASE ~(root # Null /\ slot.level = l /\ k.pte[slot.pt][slot.i] = f)
    <3>1. Missed(k, c)
      BY <2>4, <2>5 DEF Missed
    <3> QED BY <1>6, <2>2, <2>5, <3>1
  <2>6. CASE root # Null /\ slot.level = l /\ k.pte[slot.pt][slot.i] = f
    <3> DEFINE pte == [k.pte EXCEPT ![slot.pt][slot.i] = Null]
               k1 == [k EXCEPT !.pte = pte]
    <3>1. s = invalidateTLBByASIDVA(k1, a, v)
      BY <2>2, <2>6
    <3>2. /\ a \in Live(k) /\ slot.pt = path(k, a, v)[l] /\ slot.i = v[l]
          /\ path(k, a, v)[l] # Null /\ entry(k, a, v, l) = f
      BY <2>3, <2>6 DEF SlotOf
    <3>3. \A x \in FrameCaps : x # c => k'.frameCap[x] = k.frameCap[x]
      BY <1>2, <1>3 DEF CapsSame
    <3>4. CapsFit(k, a, v, l, Null, k')
      <4> SUFFICES ASSUME NEW g, NEW b \in Live(k), NEW w \in Addrs, NEW m \in Levels,
                          pageHasCap(k, g, b, w, m), ~Place(a, v, l, b, w, m)
                   PROVE  pageHasCap(k', g, b, w, m)
        BY DEF CapsFit
      <4>1. PICK y \in FrameCaps : k.frameCap[y] = [frame |-> g, asid |-> b, vaddr |-> alignTo(w, m)]
        BY DEF pageHasCap
      <4>2. g \in Frames /\ frameLevel[g] = m
        BY DEF pageHasCap
      <4>3. Place(k.frameCap[y].asid, k.frameCap[y].vaddr, frameLevel[k.frameCap[y].frame], b, w, m)
        BY <4>1, <4>2, PagePlace
      <4>4. y # c
        BY <4>3
      <4> QED BY <3>3, <4>1, <4>2, <4>4 DEF pageHasCap
    <3> HIDE DEF slot, root, a, v, f, l
    <3>5. /\ k1.pte = pte /\ k1.tlb = k.tlb
          /\ k1.armKSASIDTable = k.armKSASIDTable /\ k1.array = k.array
      <4> HIDE DEF pte
      <4> QED BY <1>0, SMTT(30) DEF State
    <3>6. k1 \in State
      <4>1. pte \in [Tables -> [Index -> PTs \cup Frames \cup {Null}]]
        BY <1>0, PageFields
      <4> HIDE DEF pte
      <4> QED BY <1>0, <4>1 DEF State
    <3> HIDE DEF k1
    <3>7. SameTLB(k, a, k1)
      BY <3>5, <3>6 DEF findMapForASID, SameTLB
    <3>8. NoneOfAddr(k, a, v, s) /\ TLBOnly(k1, s)
      BY <1>0, <2>1, <3>1, <3>7, Invalidated, SMTT(30)
    <3>9. Flushed(k, a, v, l, k')
      BY <1>3, <3>8 DEF Flushed, NoneOfAddr
    <3>10. Written(k, path(k, a, v)[l], v[l], Null, k')
      BY <1>3, <3>2, <3>5, <3>8 DEF Written, TLBOnly
    <3>11. Null \notin PTs
      BY Kinds
    <3>12. PageSet(k, a, v, l, Null, k')
      BY <2>1, <3>2, <3>4, <3>9, <3>10, <3>11 DEF PageSet
    <3> QED BY <1>4, <1>5, <2>1, <3>2, <3>12, SetPage
  <2> QED BY <2>5, <2>6
<1> QED BY <1>7, <1>8

\* ARMPageUnmap, and the deletion of a capability to a frame
LEMMA PageUnmapSteps ==
  ASSUME VInv(k), PageStep(k, k'), Unmaps(k), NEW c \in FrameCaps
  PROVE  /\ performPageInvocationUnmap(c) => VInv(k')
         /\ DeleteFrame(c) => VInv(k')
<1> DEFINE s == unmapFrameCap(k, c)
<1>1. s \in State /\ s = unmapFrameCap(k, c)
  BY DEF unmapFrameCap, Unmaps, UnmapStep, PageStep
<1> HIDE DEF s
<1>2. s.frameCap \in [FrameCaps -> [frame : Frames \cup {Null}, asid : ASIDs, vaddr : Addrs \cup {Null}]]
  BY <1>1, PageFields
<1>3. ASSUME performPageInvocationUnmap(c) PROVE VInv(k')
  <2> DEFINE cap == [s.frameCap EXCEPT ![c].asid = asidInvalid, ![c].vaddr = Null]
  <2>1. k' = [s EXCEPT !.frameCap[c].asid = asidInvalid, !.frameCap[c].vaddr = Null]
    BY <1>1, <1>3 DEF performPageInvocationUnmap
  <2>2. k' = [s EXCEPT !.frameCap = cap]
    BY <1>1, <2>1 DEF State
  <2>3. (\A x \in FrameCaps : x # c => cap[x] = s.frameCap[x]) /\ cap[c].asid = asidInvalid
    BY <1>2, SMTT(30)
  <2> HIDE DEF cap
  <2> QED BY <1>1, <2>2, <2>3, UnmapFrame, SMTT(30)
<1>4. ASSUME DeleteFrame(c) PROVE VInv(k')
  <2> DEFINE cap == [s.frameCap EXCEPT ![c] = noFrame]
  <2>1. k' = [s EXCEPT !.frameCap = cap]
    BY <1>1, <1>4 DEF DeleteFrame
  <2>2. (\A x \in FrameCaps : x # c => cap[x] = s.frameCap[x]) /\ cap[c].asid = asidInvalid
    BY <1>2, SMTT(30) DEF noFrame
  <2> HIDE DEF cap
  <2> QED BY <1>1, <2>1, <2>2, UnmapFrame, SMTT(30)
<1> QED BY <1>3, <1>4

-----------------------------------------------------------------------------
(* Memory accesses, the initial state, and what the invariant says *)

\* The TLB may cache what the tables give
LEMMA Accessing ==
  ASSUME NEW kk, VInv(kk), NEW r, Shape(r), NEW w \in Addrs, Accesses(kk, w, r)
  PROVE  VInv(r)
<1>0. /\ Shape(kk) /\ RootsInv(kk) /\ TablesInv(kk) /\ CapsInv(kk) /\ TLBInv(kk) /\ TreeInv(kk)
      /\ r.pte = kk.pte /\ r.vsCap = kk.vsCap /\ r.ptCap = kk.ptCap /\ r.frameCap = kk.frameCap
      /\ r.tcbVTable = kk.tcbVTable /\ r.armKSHWASIDTable = kk.armKSHWASIDTable /\ SameRoots(kk, r)
  BY DEF VInv, TreeInv, Accesses, PagesSame, SameRoots
<1>1. /\ Live(r) = Live(kk)
      /\ \A c \in Live(kk) : findVSpaceForASID(r, c) = findVSpaceForASID(kk, c)
  BY <1>0, SameLive
<1>2. PICK f \in Frames, a \in ASIDs \ {asidInvalid} :
        /\ findVSpaceForASID(kk, a) # Null /\ kk.armKSHWASIDTable[kk.ttbr.vmid] = a
        /\ translation(kk, findVSpaceForASID(kk, a), w) = f
        /\ r.tlb = kk.tlb \cup {[vmid |-> kk.ttbr.vmid, frame |-> f, vaddr |-> alignTo(w, frameLevel[f])]}
  BY DEF Accesses
<1> DEFINE l == frameLevel[f]
           u == alignTo(w, l)
           e == [vmid |-> kk.ttbr.vmid, frame |-> f, vaddr |-> u]
<1>3. a \in Live(kk) /\ l \in Levels
  BY <1>2, Kinds DEF Live
<1>4. path(kk, a, w)[l] # Null /\ entry(kk, a, w, l) = f
  <2> DEFINE root == findVSpaceForASID(kk, a)
             tab == path(kk, a, w)
  <2>1. root # Null /\ tab = walk(kk, root, w) /\ translation(kk, root, w) = f
    BY <1>2 DEF path
  <2> HIDE DEF tab, root, l
  <2>2. l = frameLevel[f]
    BY DEF l
  <2>3. tab[l] # Null /\ kk.pte[tab[l]][w[l]] = f
    BY <2>1, <2>2, TranslationIs, SMTT(30)
  <2> QED BY <2>3 DEF entry, tab
<1>5. u \in Addrs /\ alignTo(u, l) = u
  BY <1>3, Align
<1>6. Place(a, w, l, a, u, l)
  BY <1>5 DEF Place
<1>7. SameEntry(kk, a, w, l, a, u, l)
  <2> HIDE DEF l, u
  <2> QED BY <1>3, <1>5, <1>6, SamePlace
<1>8. Cached(kk, e)
  <2>1. e.vmid = kk.ttbr.vmid /\ e.frame = f /\ e.vaddr = u
    BY SMTT(30)
  <2> HIDE DEF u, e
  <2> QED BY <1>2, <1>3, <1>4, <1>5, <1>7, <2>1 DEF Cached, SameEntry
<1>9. TLBStays(kk, r)
  <2> SUFFICES ASSUME NEW d \in r.tlb
               PROVE  Cached(kk, d)
    BY <1>0, <1>1 DEF TLBStays, Cached
  <2>1. d \in kk.tlb \/ d = e
    BY <1>2
  <2> QED BY <1>0, <1>8, <2>1, CachedIs
<1>10. RootsInv(r)
  <2>1. \A x : lastVSpaceCap(r, x) <=> lastVSpaceCap(kk, x)
    BY <1>0 DEF lastVSpaceCap
  <2> QED BY <1>0, <1>1, <2>1 DEF RootsInv
<1>11. CapsInv(r)
  BY <1>0 DEF CapsInv
<1>12. RootsStay(kk, r)
  BY <1>1 DEF RootsStay
<1>13. TablesStay(kk, r)
  <2> SUFFICES ASSUME NEW c \in Live(r), NEW x \in Addrs, NEW m \in Levels, path(kk, c, x)[m] # Null
               PROVE  /\ r.pte[path(kk, c, x)[m]] = kk.pte[path(kk, c, x)[m]]
                      /\ m # 1 => tableHasCap(r, path(kk, c, x)[m], c, x, m)
    BY DEF TablesStay
  <2>1. c \in Live(kk)
    BY <1>1
  <2>2. m # 1 => tableHasCap(kk, path(kk, c, x)[m], c, x, m)
    BY <1>0, <2>1, TableCap, SMTT(30)
  <2> QED BY <1>0, <2>2 DEF tableHasCap
<1>14. PagesStay(kk, r)
  BY <1>0 DEF PagesStay, pageHasCap
<1> QED BY <1>9, <1>10, <1>11, <1>12, <1>13, <1>14, Elsewhere DEF Stay

\* A translation in the TLB is one the tables give
LEMMA Coherent ==
  ASSUME VInv(k)
  PROVE  TLBCoherent
<1>1. TLBInv(k)
  BY DEF VInv
<1> QED BY <1>1 DEF TLBInv, TLBCoherent, Live

\* A mapping is one a capability says is there
LEMMA HaveCaps ==
  ASSUME VInv(k)
  PROVE  MappingsHaveCaps
<1> SUFFICES ASSUME NEW a \in ASIDs \ {asidInvalid}, NEW w \in VAddrs
             PROVE  LET root == findVSpaceForASID(k, a)
                        tab  == walk(k, root, w)
                        slot == lookupPTSlot(k, root, w)
                    IN root # Null =>
                         /\ ~lastVSpaceCap(k, root) /\ k.vsCap[root].asid = a
                         /\ \A l \in 2 .. UPT_LEVELS : tab[l] # Null =>
                              k.ptCap[tab[l]].n > 0 /\ k.ptCap[tab[l]].asid = a
                              /\ k.ptCap[tab[l]].vaddr = alignTo(w, l - 1)
                         /\ k.pte[slot.pt][slot.i] # Null =>
                              \E c \in FrameCaps : k.frameCap[c] =
                                 [frame |-> k.pte[slot.pt][slot.i], asid |-> a, vaddr |-> alignTo(w, slot.level)]
  BY DEF MappingsHaveCaps
<1> DEFINE root == findVSpaceForASID(k, a)
           tab  == walk(k, root, w)
           slot == lookupPTSlot(k, root, w)
<1> SUFFICES ASSUME root # Null
             PROVE  /\ ~lastVSpaceCap(k, root) /\ k.vsCap[root].asid = a
                    /\ \A l \in 2 .. UPT_LEVELS : tab[l] # Null =>
                         k.ptCap[tab[l]].n > 0 /\ k.ptCap[tab[l]].asid = a
                         /\ k.ptCap[tab[l]].vaddr = alignTo(w, l - 1)
                    /\ k.pte[slot.pt][slot.i] # Null =>
                         \E c \in FrameCaps : k.frameCap[c] =
                            [frame |-> k.pte[slot.pt][slot.i], asid |-> a, vaddr |-> alignTo(w, slot.level)]
  OBVIOUS
<1>1. /\ a \in Live(k) /\ w \in Addrs /\ tab = path(k, a, w)
      /\ RootsInv(k) /\ TablesInv(k) /\ PagesInv(k)
  BY AddrsOK DEF Live, path, VInv, TreeInv
<1>2. SlotOf(k, a, w, slot)
  BY SlotFor
<1> HIDE DEF root, tab, slot
<1>3. ~lastVSpaceCap(k, root) /\ k.vsCap[root].asid = a
  BY <1>1 DEF RootsInv, root
<1>4. ASSUME NEW l \in 2 .. UPT_LEVELS, tab[l] # Null
      PROVE  /\ k.ptCap[tab[l]].n > 0 /\ k.ptCap[tab[l]].asid = a
             /\ k.ptCap[tab[l]].vaddr = alignTo(w, l - 1)
  <2>1. l \in Levels \ {1}
    BY LevelFacts
  <2>2. tableHasCap(k, path(k, a, w)[l], a, w, l)
    BY <1>1, <1>4, <2>1 DEF TablesInv
  <2> QED BY <1>1, <2>2 DEF tableHasCap
<1>5. ASSUME k.pte[slot.pt][slot.i] # Null
      PROVE  \E c \in FrameCaps : k.frameCap[c] =
               [frame |-> k.pte[slot.pt][slot.i], asid |-> a, vaddr |-> alignTo(w, slot.level)]
  <2>1. pageHasCap(k, k.pte[slot.pt][slot.i], a, w, slot.level)
    <3> DEFINE l == slot.level
               x == entry(k, a, w, l)
    <3>1. /\ l \in Levels /\ path(k, a, w)[l] # Null /\ k.pte[slot.pt][slot.i] = x
          /\ l < UPT_LEVELS => x \notin PTs
      BY <1>2 DEF SlotOf
    <3> HIDE DEF l
    <3>2. (x \in PTs /\ l < UPT_LEVELS) \/ pageHasCap(k, x, a, w, l)
      BY <1>1, <1>5, <3>1 DEF PagesInv
    <3> HIDE DEF x
    <3> QED BY <3>1, <3>2 DEF l
  <2> QED BY <2>1 DEF pageHasCap
<1> QED BY <1>3, <1>4, <1>5

\* What the tables of the initial thread hold
ITEntry(l) == IF l = UPT_LEVELS THEN itFrame ELSE itTables[l + 1]

\* The chain of tables that create_it_address_space makes is as its capabilities say
LEMMA InitTables ==
  ASSUME Init
  PROVE  /\ \A l \in Levels, i \in Index : k.pte[itTables[l]][i] = IF i = 0 THEN ITEntry(l) ELSE Null
         /\ \A v \in VRoots : k.vsCap[v].exists => v = itTables[1]
         /\ k.vsCap[itTables[1]] = [exists |-> TRUE, asid |-> IT_ASID]
         /\ \A l \in 2 .. UPT_LEVELS : k.ptCap[itTables[l]] = [n |-> 1, asid |-> IT_ASID, vaddr |-> origin]
         /\ \A p \in PTs : \/ k.ptCap[p] = [n |-> 1, asid |-> IT_ASID, vaddr |-> origin]
                           \/ k.ptCap[p] = [n |-> 0, asid |-> asidInvalid, vaddr |-> Null]
         /\ k.frameCap[itFrameCap] = [frame |-> itFrame, asid |-> IT_ASID, vaddr |-> origin]
         /\ \A c \in FrameCaps : c = itFrameCap \/ k.frameCap[c] = noFrame
         /\ k.tlb = {}
<1>0. /\ \A l \in Levels : itTables[l] \in Tables
      /\ \A l, m \in Levels : itTables[l] = itTables[m] => l = m
      /\ itTables[1] \in VRoots /\ (\A l \in 2 .. UPT_LEVELS : itTables[l] \in PTs) /\ itFrameCap \in FrameCaps
      /\ 0 \in Index
  BY VSpaceConstants, LevelFacts DEF Tables, Levels
<1>1. /\ k.pte = [t \in Tables |->
                    IF \E l \in 1 .. UPT_LEVELS : t = itTables[l]
                    THEN LET l == CHOOSE j \in 1 .. UPT_LEVELS : t = itTables[j]
                         IN [noEntries EXCEPT ![0] = IF l = UPT_LEVELS THEN itFrame ELSE itTables[l + 1]]
                    ELSE noEntries]
      /\ k.vsCap = [v \in VRoots |-> [exists |-> v = itTables[1],
                                      asid |-> IF v = itTables[1] THEN IT_ASID ELSE asidInvalid]]
      /\ k.ptCap = [p \in PTs |-> IF \E l \in 2 .. UPT_LEVELS : p = itTables[l]
                                  THEN [n |-> 1, asid |-> IT_ASID, vaddr |-> origin]
                                  ELSE [n |-> 0, asid |-> asidInvalid, vaddr |-> Null]]
      /\ k.frameCap = [c \in FrameCaps |-> IF c = itFrameCap
                                           THEN [frame |-> itFrame, asid |-> IT_ASID, vaddr |-> origin]
                                           ELSE noFrame]
      /\ k.tlb = {}
  BY SMTT(30) DEF Init
<1>2. ASSUME NEW l \in Levels, NEW i \in Index
      PROVE  k.pte[itTables[l]][i] = IF i = 0 THEN ITEntry(l) ELSE Null
  <2> DEFINE m == CHOOSE j \in 1 .. UPT_LEVELS : itTables[l] = itTables[j]
  <2>1. m = l
    BY <1>0 DEF Levels
  <2>2. k.pte[itTables[l]] = [noEntries EXCEPT ![0] = IF m = UPT_LEVELS THEN itFrame ELSE itTables[m + 1]]
    <3> DEFINE row(t) == IF \E j \in 1 .. UPT_LEVELS : t = itTables[j]
                         THEN LET j == CHOOSE j \in 1 .. UPT_LEVELS : t = itTables[j]
                              IN [noEntries EXCEPT ![0] = IF j = UPT_LEVELS THEN itFrame ELSE itTables[j + 1]]
                         ELSE noEntries
    <3>1. \E j \in 1 .. UPT_LEVELS : itTables[l] = itTables[j]
      BY DEF Levels
    <3>2. k.pte = [t \in Tables |-> row(t)]
      BY <1>1
    <3>3. row(itTables[l]) = [noEntries EXCEPT ![0] = IF m = UPT_LEVELS THEN itFrame ELSE itTables[m + 1]]
      BY <3>1
    <3> HIDE DEF row, m
    <3>4. k.pte[itTables[l]] = row(itTables[l])
      BY <1>0, <3>2
    <3> QED BY <3>3, <3>4
  <2> HIDE DEF m
  <2>3. k.pte[itTables[l]] = [noEntries EXCEPT ![0] = ITEntry(l)]
    BY <2>1, <2>2 DEF ITEntry
  <2> QED BY <1>0, <2>3 DEF noEntries
<1>3. /\ \A v \in VRoots : k.vsCap[v].exists => v = itTables[1]
      /\ k.vsCap[itTables[1]] = [exists |-> TRUE, asid |-> IT_ASID]
  <2>1. \A v \in VRoots : k.vsCap[v] = [exists |-> v = itTables[1],
                                        asid |-> IF v = itTables[1] THEN IT_ASID ELSE asidInvalid]
    BY <1>1
  <2>2. (itTables[1] = itTables[1]) = TRUE
    BY SMTT(30)
  <2>3. k.vsCap[itTables[1]] = [exists |-> itTables[1] = itTables[1], asid |-> IT_ASID]
    BY <1>0, <2>1
  <2>4. k.vsCap[itTables[1]] = [exists |-> TRUE, asid |-> IT_ASID]
    BY <2>2, <2>3
  <2>5. \A v \in VRoots : k.vsCap[v].exists => v = itTables[1]
    <3> SUFFICES ASSUME NEW v \in VRoots, k.vsCap[v].exists PROVE v = itTables[1]
      OBVIOUS
    <3> DEFINE b == v = itTables[1]
               a == IF v = itTables[1] THEN IT_ASID ELSE asidInvalid
    <3>1. k.vsCap[v] = [exists |-> b, asid |-> a]
      BY <2>1
    <3> HIDE DEF b, a
    <3>2. k.vsCap[v].exists = b
      BY <3>1, SMTT(30)
    <3> QED BY <3>2 DEF b
  <2> QED BY <2>4, <2>5
<1>4. /\ \A l \in 2 .. UPT_LEVELS : k.ptCap[itTables[l]] = [n |-> 1, asid |-> IT_ASID, vaddr |-> origin]
      /\ \A p \in PTs : \/ k.ptCap[p] = [n |-> 1, asid |-> IT_ASID, vaddr |-> origin]
                        \/ k.ptCap[p] = [n |-> 0, asid |-> asidInvalid, vaddr |-> Null]
  BY <1>0, <1>1
<1>5. /\ k.frameCap[itFrameCap] = [frame |-> itFrame, asid |-> IT_ASID, vaddr |-> origin]
      /\ \A c \in FrameCaps : c = itFrameCap \/ k.frameCap[c] = noFrame
  BY <1>0, <1>1
<1> QED BY <1>1, <1>2, <1>3, <1>4, <1>5

\* A walk of the initial tables follows the zeros of an address
LEMMA InitWalk ==
  ASSUME Init, NEW w \in Addrs, NEW tab, tab = walk(k, itTables[1], w), NEW l \in Levels, tab[l] # Null
  PROVE  tab[l] = itTables[l] /\ \A j \in Levels : j < l => w[j] = 0
<1> DEFINE P(m) == tab[m] # Null => tab[m] = itTables[m] /\ \A j \in Levels : j < m => w[j] = 0
           S == {m \in Levels : P(m)}
<1>1. 1 \in S
  <2>1. tab[1] = itTables[1]
    BY Walk, SMTT(30)
  <2>2. \A j \in Levels : ~(j < 1)
    BY SMTT(30) DEF Levels
  <2> QED BY <2>1, <2>2, LevelFacts
<1>2. ASSUME NEW m \in S, m < UPT_LEVELS PROVE m + 1 \in S
  <2>1. m \in Levels /\ P(m) /\ m + 1 \in Levels /\ m # UPT_LEVELS
    BY <1>2, LevelFacts
  <2>2. tab[m + 1] = Down(k, tab[m], w[m])
    BY <1>2, <2>1, Walk, SMTT(30)
  <2> SUFFICES ASSUME tab[m + 1] # Null
               PROVE  tab[m + 1] = itTables[m + 1] /\ \A j \in Levels : j < m + 1 => w[j] = 0
    BY <2>1
  <2>3. tab[m] # Null /\ tab[m + 1] = k.pte[tab[m]][w[m]]
    BY <2>2 DEF Down
  <2>4. tab[m] = itTables[m] /\ \A j \in Levels : j < m => w[j] = 0
    BY <2>1, <2>3
  <2>5. w[m] \in Index
    BY <2>1 DEF Addrs, Levels
  <2>6. k.pte[itTables[m]][w[m]] = IF w[m] = 0 THEN ITEntry(m) ELSE Null
    BY <2>1, <2>5, InitTables
  <2>7. w[m] = 0 /\ tab[m + 1] = itTables[m + 1]
    BY <2>1, <2>3, <2>4, <2>6 DEF ITEntry
  <2>8. \A j \in Levels : j < m + 1 => j < m \/ j = m
    BY <2>1, SMTT(30) DEF Levels
  <2> QED BY <2>4, <2>7, <2>8
<1> HIDE DEF P
<1>3. S = Levels
  <2>1. S \in SUBSET Levels
    BY SMTT(30)
  <2> HIDE DEF S
  <2> QED BY <1>1, <1>2, <2>1, LevelInduction
<1>4. P(l)
  BY <1>3
<1> QED BY <1>4 DEF P

\* The address space of the initial thread is as its capabilities say
LEMMA InitInv ==
  ASSUME Init, Shape(k),
         \A c \in ASIDs : findVSpaceForASID(k, c) = IF c = IT_ASID THEN itTables[1] ELSE Null
  PROVE  VInv(k)
<1>0. /\ IT_ASID # asidInvalid /\ origin \in Addrs /\ itFrame \in Frames /\ frameLevel[itFrame] = UPT_LEVELS
      /\ \A l \in 2 .. UPT_LEVELS : itTables[l] \in PTs
      /\ \A l, m \in Levels : itTables[l] = itTables[m] => l = m
      /\ itFrameCap \in FrameCaps /\ itTables[1] \in VRoots
  <2>1. IT_ASID # asidInvalid
    BY SMTT(30) DEF IT_ASID, asidInvalid
  <2> QED BY <2>1, VSpaceConstants DEF origin, Addrs, Levels
<1>1. \A c \in Live(k) : c = IT_ASID /\ findVSpaceForASID(k, c) = itTables[1]
  BY DEF Live
<1>2. ASSUME NEW c \in Live(k), NEW w \in Addrs, NEW l \in Levels, path(k, c, w)[l] # Null
      PROVE  /\ path(k, c, w)[l] = itTables[l] /\ \A j \in Levels : j < l => w[j] = 0
             /\ entry(k, c, w, l) = IF w[l] = 0 THEN ITEntry(l) ELSE Null
  <2> DEFINE tab == path(k, c, w)
  <2>1. tab = walk(k, itTables[1], w)
    BY <1>1 DEF path
  <2> HIDE DEF tab
  <2>2. tab[l] # Null
    BY <1>2 DEF tab
  <2>3. tab[l] = itTables[l] /\ \A j \in Levels : j < l => w[j] = 0
    BY <2>1, <2>2, InitWalk, SMTT(30)
  <2>4. w[l] \in Index
    BY DEF Addrs, Levels
  <2>5. k.pte[itTables[l]][w[l]] = IF w[l] = 0 THEN ITEntry(l) ELSE Null
    BY <2>4, InitTables
  <2> QED BY <2>3, <2>5 DEF entry, tab
<1>3. ASSUME NEW w \in Addrs, NEW l \in Levels, \A j \in Levels : j <= l => w[j] = 0
      PROVE  alignTo(w, l) = origin
  BY <1>3 DEF alignTo, origin, Levels
<1>4. RootsInv(k)
  <2>1. k.vsCap[itTables[1]].exists /\ k.vsCap[itTables[1]].asid = IT_ASID
    <3>1. k.vsCap[itTables[1]] = [exists |-> TRUE, asid |-> IT_ASID]
      BY InitTables
    <3> QED BY <3>1, SMTT(30)
  <2> QED BY <1>1, <2>1 DEF RootsInv, lastVSpaceCap
<1>5. TablesInv(k)
  <2> SUFFICES ASSUME NEW c \in Live(k), NEW w \in Addrs, NEW l \in Levels \ {1}, path(k, c, w)[l] # Null
               PROVE  tableHasCap(k, path(k, c, w)[l], c, w, l)
    BY DEF TablesInv
  <2>1. l \in Levels /\ l \in 2 .. UPT_LEVELS /\ l - 1 \in Levels
    BY LevelFacts
  <2>2. path(k, c, w)[l] = itTables[l] /\ \A j \in Levels : j < l => w[j] = 0
    BY <1>2, <2>1
  <2>3. \A j \in Levels : j <= l - 1 => j < l
    BY SMTT(30) DEF Levels
  <2>4. alignTo(w, l - 1) = origin
    BY <1>3, <2>1, <2>2, <2>3
  <2>5. k.ptCap[itTables[l]] = [n |-> 1, asid |-> IT_ASID, vaddr |-> origin]
    BY <2>1, InitTables
  <2>6. k.ptCap[itTables[l]].n > 0 /\ k.ptCap[itTables[l]].asid = IT_ASID /\ k.ptCap[itTables[l]].vaddr = origin
    BY <2>5, SMTT(30)
  <2> QED BY <1>1, <2>2, <2>4, <2>6 DEF tableHasCap
<1>6. LevelsInv(k)
  <2> SUFFICES ASSUME NEW c \in Live(k), NEW v \in Addrs, NEW w \in Addrs,
                      NEW l \in Levels \ {1}, NEW m \in Levels \ {1},
                      path(k, c, v)[l] # Null, path(k, c, v)[l] = path(k, c, w)[m]
               PROVE  l = m
    BY SMTT(30) DEF LevelsInv
  <2>1. path(k, c, v)[l] = itTables[l] /\ path(k, c, w)[m] = itTables[m]
    BY <1>2
  <2> QED BY <1>0, <2>1
<1>7. PagesInv(k)
  <2> SUFFICES ASSUME NEW c \in Live(k), NEW w \in Addrs, NEW l \in Levels,
                      path(k, c, w)[l] # Null, entry(k, c, w, l) # Null
               PROVE  \/ entry(k, c, w, l) \in PTs /\ l < UPT_LEVELS
                      \/ pageHasCap(k, entry(k, c, w, l), c, w, l)
    BY DEF PagesInv
  <2>1. w[l] = 0 /\ entry(k, c, w, l) = ITEntry(l) /\ \A j \in Levels : j < l => w[j] = 0
    BY <1>2
  <2>2. CASE l < UPT_LEVELS
    <3>1. l + 1 \in 2 .. UPT_LEVELS /\ l # UPT_LEVELS
      BY <2>2, LevelFacts
    <3> QED BY <1>0, <2>1, <2>2, <3>1 DEF ITEntry
  <2>3. CASE ~(l < UPT_LEVELS)
    <3>1. l = UPT_LEVELS
      BY <2>3, LevelFacts
    <3>2. \A j \in Levels : j <= l => j < l \/ j = l
      BY SMTT(30) DEF Levels
    <3>3. alignTo(w, l) = origin
      BY <1>3, <2>1, <3>2
    <3>4. k.frameCap[itFrameCap] = [frame |-> itFrame, asid |-> c, vaddr |-> alignTo(w, l)]
      BY <1>1, <3>3, InitTables
    <3>5. entry(k, c, w, l) = itFrame
      BY <2>1, <3>1 DEF ITEntry
    <3> QED BY <1>0, <3>1, <3>4, <3>5 DEF pageHasCap
  <2> QED BY <2>2, <2>3
<1>8. CapsInv(k)
  <2>1. ASSUME NEW v \in VRoots, k.vsCap[v].exists PROVE k.vsCap[v].asid # asidInvalid
    <3>1. k.vsCap[v] = [exists |-> TRUE, asid |-> IT_ASID]
      BY <2>1, InitTables
    <3> QED BY <1>0, <3>1, SMTT(30)
  <2>2. ASSUME NEW p \in PTs
        PROVE  /\ ~(k.ptCap[p].n > 0 /\ k.ptCap[p].asid = asidInvalid)
               /\ k.ptCap[p].asid # asidInvalid => k.ptCap[p].vaddr \in Addrs
    <3>1. \/ k.ptCap[p] = [n |-> 1, asid |-> IT_ASID, vaddr |-> origin]
          \/ k.ptCap[p] = [n |-> 0, asid |-> asidInvalid, vaddr |-> Null]
      BY InitTables
    <3> QED BY <1>0, <3>1, SMTT(30)
  <2>3. ASSUME NEW c \in FrameCaps, k.frameCap[c].asid # asidInvalid
        PROVE  k.frameCap[c].vaddr \in Addrs /\ k.frameCap[c].frame \in Frames
    <3>1. \/ k.frameCap[c] = [frame |-> itFrame, asid |-> IT_ASID, vaddr |-> origin]
          \/ k.frameCap[c] = noFrame
      BY InitTables
    <3> QED BY <1>0, <2>3, <3>1, SMTT(30) DEF noFrame
  <2> QED BY <2>1, <2>2, <2>3 DEF CapsInv
<1>9. TLBInv(k)
  BY InitTables DEF TLBInv
<1> QED BY <1>4, <1>5, <1>6, <1>7, <1>8, <1>9 DEF VInv, TreeInv
=============================================================================
