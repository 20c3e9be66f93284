----------------------------- MODULE ASIDProofs -----------------------------
(***************************************************************************)
(* ASIDs and the hardware ASIDs they are lent, for any number of pools,    *)
(* ASIDs and hardware ASIDs.  The first part says what the functions on    *)
(* ASIDs (assignHWASID, setVMRoot, deleteASID, deleteASIDPool) do, summed  *)
(* up by Retires; the second that every operation of VSpace keeps ASIDInv. *)
(* So the two tables of hardware ASIDs agree, and the processor runs on    *)
(* the root of an ASID in use.  For VSpaceProofs the lemmas also say what  *)
(* an operation leaves of the page tables, the capabilities and the TLB    *)
(* (ASIDsKept, Assigns, Drops).                                            *)
(***************************************************************************)
EXTENDS VSpaceSteps, TLAPS

LOCAL W == INSTANCE WellFoundedInduction

\* The prover of a leaf that names none
USE ZenonT(60)

\* The least element of a set of natural numbers
LEMMA MinOfSet ==
  ASSUME NEW S \in SUBSET Nat, S # {}
  PROVE  Min(S) \in S /\ \A y \in S : Min(S) <= y
<1>1. \E x \in S : \A y \in S : ~(<<y, x>> \in W!OpToRel(<, Nat))
  BY W!WFMin, W!NatLessThanWellFounded
<1>2. PICK x \in S : \A y \in S : ~(y < x)
  BY <1>1 DEF W!OpToRel
<1>3. \A y \in S : y \in Int /\ x \in Int
  BY SMTT(30)
<1>4. \A y \in S : x <= y
  BY <1>2, <1>3, SMTT(30)
<1> QED BY <1>4 DEF Min

Hi == 0 .. nASIDPools - 1
Lo == 0 .. asidLowSize - 1

\* ASID_HIGH and ASID_LOW take an ASID apart
LEMMA ASIDParts ==
  ASSUME NEW a \in ASIDs
  PROVE  ASID_HIGH(a) \in Hi /\ ASID_LOW(a) \in Lo /\ a = ASID_HIGH(a) * asidLowSize + ASID_LOW(a)
<1> DEFINE w == asidLowSize
           q == a \div w
           r == a % w
<1>1. /\ a \in Int /\ 0 <= a /\ a <= nASIDPools * w - 1
      /\ nASIDPools \in Int /\ w \in Int /\ w > 0 /\ nASIDPools > 0
  BY VSpaceConstants, SMTT(30) DEF ASIDs
<1>2. q \in Int /\ r \in Int /\ 0 <= r /\ r < w /\ a = w * q + r
  BY <1>1, SMTT(30)
<1> HIDE DEF w, q, r
<1>3. 0 <= q
  BY <1>1, <1>2, SMTT(30)
<1>4. q < nASIDPools
  <2> SUFFICES ASSUME nASIDPools <= q PROVE FALSE
    BY <1>1, <1>2, SMTT(30)
  <2>1. w * nASIDPools <= w * q /\ w * nASIDPools \in Int /\ w * q \in Int /\ nASIDPools * w = w * nASIDPools
    BY <1>1, <1>2, SMTT(30)
  <2> QED BY <1>1, <1>2, <2>1, SMTT(30)
<1>5. q \in 0 .. nASIDPools - 1 /\ r \in 0 .. w - 1 /\ w * q = q * w
  BY <1>1, <1>2, <1>3, <1>4, SMTT(30)
<1> QED
  BY <1>2, <1>5 DEF w, q, r, Hi, Lo, ASID_HIGH, ASID_LOW

\* and a pool and an offset make one
LEMMA ASIDOf ==
  ASSUME NEW i \in Hi, NEW j \in Lo
  PROVE  /\ i * asidLowSize + j \in ASIDs
         /\ ASID_HIGH(i * asidLowSize + j) = i /\ ASID_LOW(i * asidLowSize + j) = j
<1> DEFINE w == asidLowSize
           a == i * w + j
<1>1. /\ i \in Int /\ 0 <= i /\ i + 1 <= nASIDPools /\ j \in Int /\ 0 <= j /\ j < w
      /\ nASIDPools \in Int /\ w \in Int /\ w > 0
  BY VSpaceConstants, SMTT(30) DEF Hi, Lo
<1> HIDE DEF w
<1>2. (i + 1) * w <= nASIDPools * w
  BY <1>1, SMTT(30)
<1>3. (i + 1) * w = i * w + w /\ i * w \in Int /\ 0 <= i * w /\ nASIDPools * w \in Int
  BY <1>1, SMTT(30)
<1>4. a \in 0 .. nASIDPools * w - 1
  BY <1>1, <1>2, <1>3, SMTT(30)
<1>5. a \in ASIDs
  BY <1>4 DEF ASIDs, w
<1> DEFINE q == a \div w
           r == a % w
<1>6. a \in Int
  BY <1>1, <1>3, SMTT(30)
<1> HIDE DEF a
<1>7. q \in Int /\ r \in Int /\ 0 <= r /\ r < w /\ a = w * q + r /\ w * q \in Int /\ w * q = q * w
  BY <1>1, <1>6, SMTT(30)
<1> HIDE DEF q, r
<1>8. i * w + j = q * w + r
  BY <1>7 DEF a
<1>9. ~(i < q)
  <2> SUFFICES ASSUME i < q PROVE FALSE
    BY SMTT(30)
  <2>1. (i + 1) * w <= q * w
    BY <1>1, <1>7, SMTT(30)
  <2> QED BY <1>1, <1>3, <1>7, <1>8, <2>1, SMTT(30)
<1>10. ~(q < i)
  <2> SUFFICES ASSUME q < i PROVE FALSE
    BY SMTT(30)
  <2>1. (q + 1) * w <= i * w /\ (q + 1) * w = q * w + w
    BY <1>1, <1>7, SMTT(30)
  <2> QED BY <1>1, <1>3, <1>7, <1>8, <2>1, SMTT(30)
<1>11. q = i
  BY <1>1, <1>7, <1>9, <1>10, SMTT(30)
<1>12. r = j
  BY <1>1, <1>3, <1>7, <1>8, <1>11, SMTT(30)
<1> QED
  BY <1>5, <1>11, <1>12 DEF w, a, q, r, ASID_HIGH, ASID_LOW

\* asidInvalid is the first ASID of the first pool
LEMMA InvalidASID == asidInvalid \in ASIDs /\ IT_ASID \in ASIDs /\ asidInvalid # IT_ASID
<1>1. 0 \in Hi /\ 0 \in Lo /\ 1 \in Lo /\ 0 * asidLowSize + 0 = 0 /\ 0 * asidLowSize + 1 = 1
  BY VSpaceConstants, SMTT(30) DEF Hi, Lo
<1>2. 0 * asidLowSize + 0 \in ASIDs /\ 0 * asidLowSize + 1 \in ASIDs
  BY <1>1, ASIDOf
<1>3. 0 \in ASIDs /\ 1 \in ASIDs
  BY <1>1, <1>2
<1> QED BY <1>3, SMTT(30) DEF asidInvalid, IT_ASID
-----------------------------------------------------------------------------
(* Looking up an ASID after its entry changed *)

\* The types of the fields of the state
LEMMA Fields ==
  ASSUME NEW kk \in State
  PROVE  /\ kk.pte \in [Tables -> [Index -> PTs \cup Frames \cup {Null}]]
         /\ kk.vsCap \in [VRoots -> [exists : BOOLEAN, asid : ASIDs]]
         /\ kk.ptCap \in [PTs -> [n : Nat, asid : ASIDs, vaddr : Addrs \cup {Null}]]
         /\ kk.frameCap \in [FrameCaps -> [frame : Frames \cup {Null}, asid : ASIDs,
                                           vaddr : Addrs \cup {Null}]]
         /\ kk.poolCap \in [Pools -> {-1} \cup {i * asidLowSize : i \in Hi}]
         /\ kk.armKSASIDTable \in [Hi -> Pools \cup {Null}]
         /\ kk.array \in [Pools -> [Lo -> ASIDMap]]
         /\ kk.armKSHWASIDTable \in [HWASIDs -> ASIDs] /\ kk.armKSNextASID \in HWASIDs
         /\ kk.tcbVTable \in [Threads \cup {idle} -> VRoots \cup {Null}]
         /\ kk.ksCurThread \in Threads \cup {idle}
         /\ kk.ttbr \in [root : VRoots \cup {Null}, vmid : HWASIDs]
         /\ kk.tlb \in SUBSET [vmid : HWASIDs, frame : Frames, vaddr : Addrs]
  BY DEF State, Hi, Lo

\* What findMapForASID returns
LEMMA MapType ==
  ASSUME NEW kk \in State, NEW a \in ASIDs
  PROVE  /\ findMapForASID(kk, a) \in ASIDMap
         /\ findVSpaceForASID(kk, a) \in VRoots \cup {Null}
         /\ findMapForASID(kk, a).stored \in HWASIDs \cup {NoVMID}
         /\ findVSpaceForASID(kk, a) # Null =>
              /\ kk.armKSASIDTable[ASID_HIGH(a)] \in Pools
              /\ findMapForASID(kk, a) = kk.array[kk.armKSASIDTable[ASID_HIGH(a)]][ASID_LOW(a)]
<1> DEFINE p == kk.armKSASIDTable[ASID_HIGH(a)]
<1>1. noMap \in ASIDMap /\ noMap.vspace_root = Null
  BY DEF noMap, ASIDMap
<1>0. /\ kk.armKSASIDTable \in [Hi -> Pools \cup {Null}] /\ kk.array \in [Pools -> [Lo -> ASIDMap]]
      /\ ASID_HIGH(a) \in Hi /\ ASID_LOW(a) \in Lo
  BY ASIDParts, Fields
<1>2. p \in Pools \cup {Null}
  BY <1>0
<1>3. p \in Pools => kk.array[p][ASID_LOW(a)] \in ASIDMap
  BY <1>0
<1>4. Null \notin Pools
  BY VSpaceConstants
<1>5. findMapForASID(kk, a) = IF p = Null THEN noMap ELSE kk.array[p][ASID_LOW(a)]
  BY DEF findMapForASID
<1> HIDE DEF p
<1>6. findMapForASID(kk, a) \in ASIDMap
  BY <1>1, <1>2, <1>3, <1>5
<1>7. /\ findMapForASID(kk, a).vspace_root \in VRoots \cup {Null}
      /\ findMapForASID(kk, a).stored \in HWASIDs \cup {NoVMID}
  BY <1>6 DEF ASIDMap
<1>8. findVSpaceForASID(kk, a) # Null => p # Null
  BY <1>1, <1>5 DEF findVSpaceForASID
<1> QED BY <1>2, <1>5, <1>6, <1>7, <1>8 DEF findVSpaceForASID, p

\* A pool is in one place of armKSASIDTable
LEMMA PoolPlace ==
  ASSUME NEW kk \in State, PoolsInv(kk), NEW i \in Hi, NEW j \in Hi,
         kk.armKSASIDTable[i] = kk.armKSASIDTable[j], kk.armKSASIDTable[i] # Null
  PROVE  i = j
<1>0. kk.armKSASIDTable \in [Hi -> Pools \cup {Null}]
  BY Fields
<1>1. kk.armKSASIDTable[i] \in Pools
  BY <1>0
<1>2. i * asidLowSize = j * asidLowSize
  BY <1>1 DEF PoolsInv, Hi
<1>3. 0 \in Lo
  BY VSpaceConstants, SMTT(30) DEF Lo
<1> QED BY <1>2, <1>3, ASIDOf

\* r has x in the entry of a
EntrySet(kk, a, x, r) ==
  /\ kk.armKSASIDTable[ASID_HIGH(a)] # Null /\ r.armKSASIDTable = kk.armKSASIDTable
  /\ r.array = [kk.array EXCEPT ![kk.armKSASIDTable[ASID_HIGH(a)]][ASID_LOW(a)] = x]

\* Changing the entry of an ASID changes what is found for that ASID only
LEMMA MapSet ==
  ASSUME NEW kk \in State, PoolsInv(kk), NEW a \in ASIDs, NEW x \in ASIDMap,
         NEW r, EntrySet(kk, a, x, r)
  PROVE  /\ r.array \in [Pools -> [Lo -> ASIDMap]]
         /\ \A c \in ASIDs : findMapForASID(r, c) = IF c = a THEN x ELSE findMapForASID(kk, c)
<1> DEFINE p == kk.armKSASIDTable[ASID_HIGH(a)]
           i == ASID_LOW(a)
<1>0. kk.armKSASIDTable \in [Hi -> Pools \cup {Null}] /\ ASID_HIGH(a) \in Hi /\ ASID_LOW(a) \in Lo
  BY ASIDParts, Fields
<1>1. p \in Pools /\ i \in Lo
  BY <1>0 DEF EntrySet
<1>2. kk.array \in [Pools -> [Lo -> ASIDMap]]
  BY Fields
<1>3. r.array \in [Pools -> [Lo -> ASIDMap]]
  <2> HIDE DEF p, i
  <2>1. r.array = [kk.array EXCEPT ![p][i] = x]
    BY DEF p, i, EntrySet
  <2>2. [kk.array[p] EXCEPT ![i] = x] \in [Lo -> ASIDMap]
    BY <1>1, <1>2
  <2> QED BY <1>1, <1>2, <2>1, <2>2
<1>4. \A q \in Pools, j \in Lo : r.array[q][j] = IF q = p /\ j = i THEN x ELSE kk.array[q][j]
  <2> HIDE DEF p, i
  <2>1. r.array = [kk.array EXCEPT ![p][i] = x]
    BY DEF p, i, EntrySet
  <2>2. \A q \in Pools : r.array[q] = IF q = p THEN [kk.array[p] EXCEPT ![i] = x] ELSE kk.array[q]
    BY <1>2, <2>1
  <2>3. \A j \in Lo : [kk.array[p] EXCEPT ![i] = x][j] = IF j = i THEN x ELSE kk.array[p][j]
    BY <1>1, <1>2
  <2> QED BY <1>1, <2>2, <2>3
<1>5. ASSUME NEW c \in ASIDs
      PROVE  findMapForASID(r, c) = IF c = a THEN x ELSE findMapForASID(kk, c)
  <2> DEFINE q == kk.armKSASIDTable[ASID_HIGH(c)]
             j == ASID_LOW(c)
  <2>0. ASID_HIGH(c) \in Hi /\ j \in Lo
    BY ASIDParts
  <2>1. q \in Pools \cup {Null} /\ j \in Lo
    BY <1>0, <2>0
  <2>2. q = p /\ j = i => c = a
    <3> SUFFICES ASSUME q = p, j = i PROVE c = a
      BY SMTT(30)
    <3>1. ASID_HIGH(c) \in Hi /\ ASID_HIGH(a) \in Hi
      BY ASIDParts
    <3>2. ASID_HIGH(c) = ASID_HIGH(a)
      BY <3>1, PoolPlace DEF EntrySet
    <3> QED BY <3>2, ASIDParts
  <2>3. c = a => q = p /\ j = i
    OBVIOUS
  <2>4. findMapForASID(r, c) = IF q = Null THEN noMap ELSE r.array[q][j]
    BY DEF findMapForASID, EntrySet
  <2>5. findMapForASID(kk, c) = IF q = Null THEN noMap ELSE kk.array[q][j]
    BY DEF findMapForASID
  <2>6. p # Null
    BY DEF EntrySet
  <2> HIDE DEF p, i, q, j
  <2> QED BY <1>4, <2>1, <2>2, <2>3, <2>4, <2>5, <2>6
<1> QED BY <1>3, <1>5

\* setStored changes the hardware ASID of one ASID
LEMMA StoredSet ==
  ASSUME NEW kk \in State, PoolsInv(kk), NEW a \in ASIDs, findVSpaceForASID(kk, a) # Null,
         NEW h \in HWASIDs \cup {NoVMID}, NEW r, r = setStored(kk, a, h)
  PROVE  /\ r \in State /\ PagesSame(kk, r) /\ PoolsSame(kk, r)
         /\ r.armKSHWASIDTable = kk.armKSHWASIDTable /\ r.armKSNextASID = kk.armKSNextASID
         /\ r.ttbr = kk.ttbr /\ r.tlb = kk.tlb
         /\ \A c \in ASIDs : /\ findVSpaceForASID(r, c) = findVSpaceForASID(kk, c)
                            /\ findMapForASID(r, c).stored =
                                 IF c = a THEN h ELSE findMapForASID(kk, c).stored
<1> DEFINE p == kk.armKSASIDTable[ASID_HIGH(a)]
           i == ASID_LOW(a)
           x == [kk.array[p][i] EXCEPT !.stored = h]
<1>1. p \in Pools /\ i \in Lo /\ findMapForASID(kk, a) = kk.array[p][i] /\ kk.array[p][i] \in ASIDMap
  BY MapType, ASIDParts
<1>2. Null \notin Pools
  BY VSpaceConstants
<1>3. x \in ASIDMap /\ x.stored = h /\ x.vspace_root = kk.array[p][i].vspace_root
  <2> HIDE DEF p, i
  <2> QED BY <1>1 DEF ASIDMap
<1>4. r = [kk EXCEPT !.array = [kk.array EXCEPT ![p][i] = x]]
  BY DEF setStored
<1>5. r.array = [kk.array EXCEPT ![p][i] = x] /\ PagesSame(kk, r) /\ PoolsSame(kk, r)
      /\ r.armKSHWASIDTable = kk.armKSHWASIDTable /\ r.armKSNextASID = kk.armKSNextASID
      /\ r.ttbr = kk.ttbr /\ r.tlb = kk.tlb
  <2> HIDE DEF p, i, x
  <2> QED BY <1>4 DEF State, PagesSame, PoolsSame
<1>6. /\ r.array \in [Pools -> [Lo -> ASIDMap]]
      /\ \A c \in ASIDs : findMapForASID(r, c) = IF c = a THEN x ELSE findMapForASID(kk, c)
  <2>1. p # Null
    BY <1>1, <1>2
  <2> HIDE DEF x
  <2>2. EntrySet(kk, a, x, r)
    BY <1>5, <2>1 DEF PoolsSame, EntrySet
  <2>3. x \in ASIDMap
    BY <1>3
  <2> HIDE DEF p, i
  <2> QED BY <2>2, <2>3, MapSet, SMTT(30)
<1>7. r \in State
  <2> HIDE DEF p, i, x
  <2> QED BY <1>4, <1>5, <1>6 DEF State, Lo
<1>8. \A c \in ASIDs : /\ findVSpaceForASID(r, c) = findVSpaceForASID(kk, c)
                      /\ findMapForASID(r, c).stored = IF c = a THEN h ELSE findMapForASID(kk, c).stored
  <2> HIDE DEF p, i, x
  <2> QED BY <1>1, <1>3, <1>6 DEF findVSpaceForASID
<1> HIDE DEF p, i, x
<1> QED BY <1>5, <1>7, <1>8
-----------------------------------------------------------------------------
(* Lending hardware ASIDs, and loading a root *)

\* ASIDInv while a root is being deleted, when the processor may still use it
ASIDCore(kk) == kk \in State /\ PoolsInv(kk) /\ HWASIDsInv(kk)

(* The ASIDs of gone lose their root, and no translation of theirs stays.  *)
(* What else is mapped and who owns the cached translations is the same.   *)
Retires(kk, gone, r) ==
  /\ r \in State /\ PagesSame(kk, r)
  /\ \A c \in ASIDs :
       findVSpaceForASID(r, c) = IF c \in gone THEN Null ELSE findVSpaceForASID(kk, c)
  /\ \A e \in r.tlb : /\ e \in kk.tlb /\ kk.armKSHWASIDTable[e.vmid] \notin gone
                      /\ r.armKSHWASIDTable[e.vmid] = kk.armKSHWASIDTable[e.vmid]

\* a gets the hardware ASID h, from its owner if it has one
Reassigned(kk, a, h, r) ==
  /\ r \in State /\ PagesSame(kk, r) /\ PoolsSame(kk, r)
  /\ r.armKSHWASIDTable = [kk.armKSHWASIDTable EXCEPT ![h] = a]
  /\ r.tlb \subseteq kk.tlb /\ \A e \in r.tlb : e.vmid # h
  /\ \A c \in ASIDs : /\ findVSpaceForASID(r, c) = findVSpaceForASID(kk, c)
                     /\ findMapForASID(r, c).stored =
                          IF c = a THEN h
                          ELSE IF c = kk.armKSHWASIDTable[h] THEN NoVMID ELSE findMapForASID(kk, c).stored

\* No VMID is not a hardware ASID
LEMMA NotStored == NoVMID \notin HWASIDs
  BY VSpaceConstants, SMTT(30) DEF NoVMID, HWASIDs

\* Pools stay in place when neither their table nor their capabilities change
LEMMA PoolsKept ==
  ASSUME NEW kk, NEW r, PoolsInv(kk), PoolsSame(kk, r)
  PROVE  PoolsInv(r)
  BY DEF PoolsInv, PoolsSame

\* The two tables of hardware ASIDs agree after a reassignment
LEMMA Reassign ==
  ASSUME NEW kk, ASIDCore(kk), NEW a \in ASIDs, findVSpaceForASID(kk, a) # Null,
         findMapForASID(kk, a).stored = NoVMID, NEW h \in HWASIDs, NEW r, Reassigned(kk, a, h, r)
  PROVE  ASIDCore(r) /\ Retires(kk, {}, r) /\ PoolsSame(kk, r)
<1> DEFINE hw == kk.armKSHWASIDTable
           st(c) == findMapForASID(kk, c).stored
<1>1. /\ kk \in State /\ hw \in [HWASIDs -> ASIDs] /\ kk.tlb \subseteq [vmid : HWASIDs, frame : Frames, vaddr : Addrs]
      /\ findVSpaceForASID(kk, asidInvalid) = Null /\ asidInvalid \in ASIDs
      /\ \A c \in ASIDs : st(c) # NoVMID => findVSpaceForASID(kk, c) # Null
      /\ \A e \in kk.tlb : hw[e.vmid] # asidInvalid
      /\ \A g \in HWASIDs, c \in ASIDs \ {asidInvalid} : hw[g] = c <=> st(c) = g
  BY Fields, InvalidASID DEF ASIDCore, HWASIDsInv
<1>2. /\ r.armKSHWASIDTable = [hw EXCEPT ![h] = a] /\ r.tlb \subseteq kk.tlb /\ \A e \in r.tlb : e.vmid # h
      /\ \A c \in ASIDs : findVSpaceForASID(r, c) = findVSpaceForASID(kk, c)
      /\ \A c \in ASIDs : findMapForASID(r, c).stored =
                          IF c = a THEN h ELSE IF c = hw[h] THEN NoVMID ELSE st(c)
  BY DEF Reassigned
<1>3. a # asidInvalid /\ st(a) = NoVMID /\ NoVMID \notin HWASIDs
  BY <1>1, NotStored
<1> HIDE DEF hw, st
<1>4. \A g \in HWASIDs : r.armKSHWASIDTable[g] = IF g = h THEN a ELSE hw[g]
  BY <1>1, <1>2
<1>5. ASSUME NEW g \in HWASIDs, NEW c \in ASIDs \ {asidInvalid}
      PROVE  r.armKSHWASIDTable[g] = c <=> findMapForASID(r, c).stored = g
  <2>1. /\ hw[g] = c <=> st(c) = g
        /\ hw[h] = c <=> st(c) = h
        /\ hw[g] = a <=> st(a) = g
    BY <1>1, <1>3
  <2>2. /\ findMapForASID(r, c).stored = IF c = a THEN h ELSE IF c = hw[h] THEN NoVMID ELSE st(c)
        /\ r.armKSHWASIDTable[g] = IF g = h THEN a ELSE hw[g]
    BY <1>2, <1>4
  <2>3. g # NoVMID /\ h # NoVMID
    BY <1>3
  <2> QED BY <1>3, <2>1, <2>2, <2>3
<1>6. \A c \in ASIDs : findMapForASID(r, c).stored # NoVMID => findVSpaceForASID(r, c) # Null
  BY <1>1, <1>2, <1>3
<1>7. ASSUME NEW e \in r.tlb
      PROVE  e \in kk.tlb /\ e.vmid \in HWASIDs /\ r.armKSHWASIDTable[e.vmid] = hw[e.vmid]
  <2>1. e \in kk.tlb /\ e.vmid # h
    BY <1>2
  <2>2. e.vmid \in HWASIDs
    BY <1>1, <2>1
  <2> QED BY <1>4, <2>1, <2>2
<1>8. findVSpaceForASID(r, asidInvalid) = Null
  BY <1>1, <1>2
<1>9. \A e \in r.tlb : r.armKSHWASIDTable[e.vmid] # asidInvalid
  BY <1>1, <1>7
<1>10. HWASIDsInv(r)
  BY <1>5, <1>6, <1>8, <1>9 DEF HWASIDsInv
<1>11. r \in State /\ PagesSame(kk, r) /\ PoolsInv(r)
  <2>1. r \in State /\ PagesSame(kk, r) /\ PoolsSame(kk, r) /\ PoolsInv(kk)
    BY DEF Reassigned, ASIDCore
  <2> QED BY <2>1, PoolsKept
<1> QED BY <1>2, <1>7, <1>10, <1>11 DEF ASIDCore, Retires, Reassigned, hw

\* findMapForASID reads armKSASIDTable and the pools only
LEMMA SameMaps ==
  ASSUME NEW kk, NEW r, r.armKSASIDTable = kk.armKSASIDTable, r.array = kk.array, NEW c
  PROVE  findMapForASID(r, c) = findMapForASID(kk, c) /\ findVSpaceForASID(r, c) = findVSpaceForASID(kk, c)
  BY DEF findMapForASID, findVSpaceForASID

\* storeHWASID
LEMMA Store ==
  ASSUME NEW kk \in State, PoolsInv(kk), NEW a \in ASIDs, findVSpaceForASID(kk, a) # Null,
         NEW h \in HWASIDs, NEW r, r = storeHWASID(kk, a, h)
  PROVE  /\ r \in State /\ PagesSame(kk, r) /\ PoolsSame(kk, r) /\ r.tlb = kk.tlb
         /\ r.armKSHWASIDTable = [kk.armKSHWASIDTable EXCEPT ![h] = a]
         /\ \A c \in ASIDs : /\ findVSpaceForASID(r, c) = findVSpaceForASID(kk, c)
                            /\ findMapForASID(r, c).stored =
                                 IF c = a THEN h ELSE findMapForASID(kk, c).stored
<1> DEFINE k1 == setStored(kk, a, h)
<1>1. /\ k1 \in State /\ PagesSame(kk, k1) /\ PoolsSame(kk, k1) /\ k1.tlb = kk.tlb
      /\ k1.armKSHWASIDTable = kk.armKSHWASIDTable
      /\ \A c \in ASIDs : /\ findVSpaceForASID(k1, c) = findVSpaceForASID(kk, c)
                         /\ findMapForASID(k1, c).stored = IF c = a THEN h ELSE findMapForASID(kk, c).stored
  <2>1. h \in HWASIDs \cup {NoVMID}
    BY SMTT(30)
  <2>2. k1 = setStored(kk, a, h)
    BY SMTT(30)
  <2> HIDE DEF k1
  <2> QED BY <2>1, <2>2, StoredSet, SMTT(30)
<1>2. r = [k1 EXCEPT !.armKSHWASIDTable[h] = a]
  BY DEF storeHWASID
<1> HIDE DEF k1
<1>3. /\ r.armKSHWASIDTable = [k1.armKSHWASIDTable EXCEPT ![h] = a] /\ r.tlb = k1.tlb
      /\ PagesSame(k1, r) /\ PoolsSame(k1, r) /\ r.array = k1.array
  BY <1>1, <1>2 DEF State, PagesSame, PoolsSame
<1>4. r.armKSHWASIDTable \in [HWASIDs -> ASIDs]
  <2>1. k1.armKSHWASIDTable \in [HWASIDs -> ASIDs]
    BY <1>1, Fields
  <2> QED BY <1>3, <2>1
<1>5. r \in State
  BY <1>1, <1>2, <1>3, <1>4 DEF State
<1>6. \A c \in ASIDs : /\ findVSpaceForASID(r, c) = findVSpaceForASID(k1, c)
                      /\ findMapForASID(r, c) = findMapForASID(k1, c)
  <2>1. r.armKSASIDTable = k1.armKSASIDTable /\ r.array = k1.array
    BY <1>3 DEF PoolsSame
  <2> QED BY <2>1, SameMaps
<1>7. PagesSame(kk, r) /\ PoolsSame(kk, r)
  BY <1>1, <1>3 DEF PagesSame, PoolsSame
<1> QED BY <1>1, <1>3, <1>5, <1>6, <1>7

\* invalidateTranslationASID
LEMMA FlushASID ==
  ASSUME NEW kk \in State, NEW h, NEW r, r = invalidateTranslationASID(kk, h)
  PROVE  /\ r \in State /\ PagesSame(kk, r) /\ PoolsSame(kk, r) /\ r.array = kk.array
         /\ r.armKSHWASIDTable = kk.armKSHWASIDTable /\ r.armKSNextASID = kk.armKSNextASID
         /\ r.ttbr = kk.ttbr /\ \A e : e \in r.tlb <=> e \in kk.tlb /\ e.vmid # h
<1>1. r = [kk EXCEPT !.tlb = {e \in kk.tlb : e.vmid # h}]
  BY DEF invalidateTranslationASID
<1>2. /\ PagesSame(kk, r) /\ PoolsSame(kk, r) /\ r.array = kk.array
      /\ r.armKSHWASIDTable = kk.armKSHWASIDTable /\ r.armKSNextASID = kk.armKSNextASID
      /\ r.ttbr = kk.ttbr /\ r.tlb = {e \in kk.tlb : e.vmid # h}
  BY <1>1 DEF State, PagesSame, PoolsSame
<1>3. r.tlb \in SUBSET [vmid : HWASIDs, frame : Frames, vaddr : Addrs]
  <2>1. kk.tlb \in SUBSET [vmid : HWASIDs, frame : Frames, vaddr : Addrs]
    BY Fields
  <2> QED BY <1>2, <2>1
<1>4. r \in State
  BY <1>1, <1>2, <1>3 DEF State
<1> QED BY <1>2, <1>4

\* findFreeHWASID finds a hardware ASID, and takes one only if none is free
LEMMA AssignHWASID ==
  ASSUME NEW kk, ASIDCore(kk), NEW a \in ASIDs, findVSpaceForASID(kk, a) # Null,
         findMapForASID(kk, a).stored = NoVMID, NEW r, r = assignHWASID(kk, a)
  PROVE  /\ ASIDCore(r) /\ Retires(kk, {}, r) /\ PoolsSame(kk, r)
         /\ findMapForASID(r, a).stored # NoVMID
<1> DEFINE hw   == kk.armKSHWASIDTable
           n    == kk.armKSNextASID
           free == freeOffsets(kk)
           h    == IF free = {} THEN n ELSE (n + Min(free)) % nHWASIDs
           b    == hw[h]
           k1   == invalidateASID(kk, b)
           k2   == invalidateTranslationASID(k1, h)
           k3   == [k2 EXCEPT !.armKSNextASID = (@ + 1) % nHWASIDs]
<1>1. /\ kk \in State /\ PoolsInv(kk) /\ n \in HWASIDs /\ hw \in [HWASIDs -> ASIDs]
      /\ \A e \in kk.tlb : hw[e.vmid] # asidInvalid
      /\ findVSpaceForASID(kk, asidInvalid) = Null
      /\ \A c \in ASIDs : findMapForASID(kk, c).stored # NoVMID => findVSpaceForASID(kk, c) # Null
      /\ \A g \in HWASIDs, c \in ASIDs \ {asidInvalid} : hw[g] = c <=> findMapForASID(kk, c).stored = g
  BY Fields DEF ASIDCore, HWASIDsInv
<1>2. \A o \in HWASIDs : o \in Nat /\ (n + o) % nHWASIDs \in HWASIDs
  <2> SUFFICES ASSUME NEW o \in HWASIDs PROVE o \in Nat /\ (n + o) % nHWASIDs \in HWASIDs
    OBVIOUS
  <2> HIDE DEF n
  <2>1. nHWASIDs \in Int /\ nHWASIDs > 0 /\ n \in Int /\ o \in Int /\ o >= 0
    BY <1>1, VSpaceConstants, SMTT(30) DEF HWASIDs
  <2>2. n + o \in Int
    BY <2>1, SMTT(30)
  <2>3. (n + o) % nHWASIDs \in 0 .. nHWASIDs - 1
    BY <2>1, <2>2, SMTT(30)
  <2> QED BY <2>1, <2>3, SMTT(30) DEF HWASIDs
<1>3. 0 \in HWASIDs /\ (n + 0) % nHWASIDs = n
  <2> HIDE DEF n
  <2>1. nHWASIDs \in Int /\ nHWASIDs > 0 /\ n \in Int /\ 0 <= n /\ n < nHWASIDs
    BY <1>1, VSpaceConstants, SMTT(30) DEF HWASIDs
  <2> QED BY <2>1, SMTT(30) DEF HWASIDs
<1>4. \A o : o \in free <=> o \in HWASIDs /\ hw[(n + o) % nHWASIDs] = asidInvalid
  BY DEF freeOffsets
<1> HIDE DEF free, n
<1>5. CASE free # {}
  <2>1. free \in SUBSET Nat
    BY <1>2, <1>4
  <2>2. Min(free) \in free
    BY <1>5, <2>1, MinOfSet
  <2>3. h \in HWASIDs /\ b = asidInvalid
    BY <1>2, <1>4, <1>5, <2>2
  <2>4. r = storeHWASID(kk, a, h)
    BY <1>5 DEF assignHWASID, free, n
  <2> HIDE DEF h
  <2>5. /\ r \in State /\ PagesSame(kk, r) /\ PoolsSame(kk, r) /\ r.tlb = kk.tlb
        /\ r.armKSHWASIDTable = [kk.armKSHWASIDTable EXCEPT ![h] = a]
        /\ \A c \in ASIDs : /\ findVSpaceForASID(r, c) = findVSpaceForASID(kk, c)
                           /\ findMapForASID(r, c).stored = IF c = a THEN h ELSE findMapForASID(kk, c).stored
    BY <1>1, <2>3, <2>4, Store, SMTT(30)
  <2>6. findMapForASID(kk, asidInvalid).stored = NoVMID
    BY <1>1, InvalidASID
  <2>7. Reassigned(kk, a, h, r)
    BY <1>1, <2>3, <2>5, <2>6 DEF Reassigned
  <2>8. findMapForASID(r, a).stored # NoVMID
    BY <2>3, <2>5, NotStored
  <2> QED BY <2>3, <2>7, <2>8, Reassign
<1>6. CASE free = {}
  <2>1. h = n /\ h \in HWASIDs /\ b \in ASIDs /\ b # asidInvalid
    BY <1>1, <1>3, <1>4, <1>6
  <2>2. r = storeHWASID(k3, a, h)
    BY <1>6 DEF assignHWASID, free, n
  <2> HIDE DEF h, b
  <2>3. findMapForASID(kk, b).stored = h /\ findVSpaceForASID(kk, b) # Null /\ b # a
    <3>1. hw[h] = b <=> findMapForASID(kk, b).stored = h
      BY <1>1, <2>1
    <3>2. findMapForASID(kk, b).stored = h /\ h # NoVMID
      BY <2>1, <3>1, NotStored DEF b
    <3> QED BY <1>1, <2>1, <3>2
  <2>4. k1 = setStored(kk, b, NoVMID) /\ NoVMID \in HWASIDs \cup {NoVMID} /\ k2 = invalidateTranslationASID(k1, h)
    BY DEF invalidateASID
  <2> HIDE DEF k1, k2
  <2>5. /\ k1 \in State /\ PagesSame(kk, k1) /\ PoolsSame(kk, k1)
        /\ k1.armKSHWASIDTable = hw /\ k1.armKSNextASID = n /\ k1.tlb = kk.tlb
        /\ \A c \in ASIDs : /\ findVSpaceForASID(k1, c) = findVSpaceForASID(kk, c)
                           /\ findMapForASID(k1, c).stored = IF c = b THEN NoVMID ELSE findMapForASID(kk, c).stored
    BY <1>1, <2>1, <2>3, <2>4, StoredSet, SMTT(30) DEF n
  <2>6. /\ k2 \in State /\ PagesSame(k1, k2) /\ PoolsSame(k1, k2) /\ k2.array = k1.array
        /\ k2.armKSHWASIDTable = k1.armKSHWASIDTable /\ k2.armKSNextASID = k1.armKSNextASID
        /\ \A e : e \in k2.tlb <=> e \in k1.tlb /\ e.vmid # h
    BY <2>4, <2>5, FlushASID, SMTT(30)
  <2>7. k3 = [k2 EXCEPT !.armKSNextASID = (n + 1) % nHWASIDs]
    BY <2>5, <2>6
  <2> HIDE DEF k3
  <2>8. (n + 1) % nHWASIDs \in HWASIDs
    <3>1. nHWASIDs \in Int /\ nHWASIDs > 0 /\ n \in Int /\ n + 1 \in Int
      BY <1>1, VSpaceConstants, SMTT(30) DEF HWASIDs
    <3> QED BY <3>1, SMTT(30) DEF HWASIDs
  <2>9. /\ PagesSame(k2, k3) /\ PoolsSame(k2, k3) /\ k3.array = k2.array /\ k3.tlb = k2.tlb
        /\ k3.armKSHWASIDTable = k2.armKSHWASIDTable /\ k3.armKSNextASID = (n + 1) % nHWASIDs
    BY <2>6, <2>7 DEF State, PagesSame, PoolsSame
  <2>10. k3 \in State
    BY <2>6, <2>7, <2>8, <2>9 DEF State
  <2>11. \A c \in ASIDs : /\ findVSpaceForASID(k3, c) = findVSpaceForASID(k1, c)
                         /\ findMapForASID(k3, c) = findMapForASID(k1, c)
    <3> HIDE DEF k1, k2
    <3>1. k3.armKSASIDTable = k1.armKSASIDTable /\ k3.array = k1.array
      BY <2>6, <2>9 DEF PoolsSame
    <3> QED BY <3>1, SameMaps
  <2>12. PagesSame(kk, k3) /\ PoolsSame(kk, k3)
    BY <2>5, <2>6, <2>9 DEF PagesSame, PoolsSame
  <2>13. PoolsInv(k3) /\ findVSpaceForASID(k3, a) # Null
    BY <1>1, <2>5, <2>11, <2>12, PoolsKept
  <2>14. /\ r \in State /\ PagesSame(k3, r) /\ PoolsSame(k3, r) /\ r.tlb = k3.tlb
         /\ r.armKSHWASIDTable = [k3.armKSHWASIDTable EXCEPT ![h] = a]
         /\ \A c \in ASIDs : /\ findVSpaceForASID(r, c) = findVSpaceForASID(k3, c)
                            /\ findMapForASID(r, c).stored = IF c = a THEN h ELSE findMapForASID(k3, c).stored
    BY <2>1, <2>2, <2>10, <2>13, Store, SMTT(30)
  <2>15. PagesSame(kk, r) /\ PoolsSame(kk, r)
    BY <2>12, <2>14 DEF PagesSame, PoolsSame
  <2>16. r.tlb \subseteq kk.tlb /\ \A e \in r.tlb : e.vmid # h
    BY <2>5, <2>6, <2>9, <2>14
  <2>17. r.armKSHWASIDTable = [hw EXCEPT ![h] = a]
    BY <2>5, <2>6, <2>9, <2>14
  <2>18. \A c \in ASIDs : /\ findVSpaceForASID(r, c) = findVSpaceForASID(kk, c)
                         /\ findMapForASID(r, c).stored =
                              IF c = a THEN h ELSE IF c = b THEN NoVMID ELSE findMapForASID(kk, c).stored
    BY <2>5, <2>11, <2>14
  <2>19. Reassigned(kk, a, h, r)
    BY <2>14, <2>15, <2>16, <2>17, <2>18 DEF Reassigned, b
  <2>20. findMapForASID(r, a).stored # NoVMID
    BY <2>1, <2>18, NotStored
  <2> QED BY <2>1, <2>19, <2>20, Reassign
<1> QED BY <1>5, <1>6

\* The fields ASIDCore and Retires read
ASIDsSame(kk, r) ==
  /\ PagesSame(kk, r) /\ PoolsSame(kk, r) /\ r.array = kk.array
  /\ r.armKSHWASIDTable = kk.armKSHWASIDTable /\ r.armKSNextASID = kk.armKSNextASID
  /\ r.tlb = kk.tlb

\* Changes of other fields
LEMMA SameASIDs ==
  ASSUME NEW kk, ASIDCore(kk), NEW r \in State, ASIDsSame(kk, r)
  PROVE  ASIDCore(r) /\ Retires(kk, {}, r)
         /\ \A c \in ASIDs : findMapForASID(r, c) = findMapForASID(kk, c)
<1>1. PoolsInv(r)
  BY PoolsKept DEF ASIDCore, ASIDsSame
<1>2. \A c \in ASIDs : /\ findMapForASID(r, c) = findMapForASID(kk, c)
                      /\ findVSpaceForASID(r, c) = findVSpaceForASID(kk, c)
  BY SameMaps DEF ASIDsSame, PoolsSame
<1>3. HWASIDsInv(kk) /\ r.armKSHWASIDTable = kk.armKSHWASIDTable /\ r.tlb = kk.tlb
  BY DEF ASIDCore, ASIDsSame
<1>4. HWASIDsInv(r)
  <2>1. findVSpaceForASID(r, asidInvalid) = Null
    BY <1>2, <1>3, InvalidASID DEF HWASIDsInv
  <2>2. \A c \in ASIDs : findMapForASID(r, c).stored # NoVMID => findVSpaceForASID(r, c) # Null
    BY <1>2, <1>3 DEF HWASIDsInv
  <2>3. \A e \in r.tlb : r.armKSHWASIDTable[e.vmid] # asidInvalid
    BY <1>3 DEF HWASIDsInv
  <2>4. \A h \in HWASIDs, c \in ASIDs \ {asidInvalid} :
          r.armKSHWASIDTable[h] = c <=> findMapForASID(r, c).stored = h
    <3>1. \A c \in ASIDs : findMapForASID(r, c).stored = findMapForASID(kk, c).stored
      BY <1>2
    <3>2. \A h \in HWASIDs, c \in ASIDs \ {asidInvalid} :
            kk.armKSHWASIDTable[h] = c <=> findMapForASID(kk, c).stored = h
      BY <1>3 DEF HWASIDsInv
    <3> QED BY <1>3, <3>1, <3>2, SMTT(30)
  <2> QED BY <2>1, <2>2, <2>3, <2>4 DEF HWASIDsInv
<1>5. Retires(kk, {}, r)
  BY <1>2, <1>3 DEF Retires, ASIDsSame
<1> QED BY <1>1, <1>2, <1>4, <1>5 DEF ASIDCore

\* One retirement after another
LEMMA RetireTwice ==
  ASSUME NEW kk, NEW r, NEW s, NEW G, NEW H, Retires(kk, G, r), Retires(r, H, s)
  PROVE  Retires(kk, G \cup H, s)
<1>1. PagesSame(kk, s)
  BY DEF Retires, PagesSame
<1>2. \A c \in ASIDs : findVSpaceForASID(s, c) = IF c \in G \cup H THEN Null ELSE findVSpaceForASID(kk, c)
  BY DEF Retires
<1>3. ASSUME NEW e \in s.tlb
      PROVE  /\ e \in kk.tlb /\ kk.armKSHWASIDTable[e.vmid] \notin G \cup H
             /\ s.armKSHWASIDTable[e.vmid] = kk.armKSHWASIDTable[e.vmid]
  <2>1. /\ e \in r.tlb /\ r.armKSHWASIDTable[e.vmid] \notin H
        /\ s.armKSHWASIDTable[e.vmid] = r.armKSHWASIDTable[e.vmid]
    BY DEF Retires
  <2>2. /\ e \in kk.tlb /\ kk.armKSHWASIDTable[e.vmid] \notin G
        /\ r.armKSHWASIDTable[e.vmid] = kk.armKSHWASIDTable[e.vmid]
    BY <2>1 DEF Retires
  <2> QED BY <2>1, <2>2
<1> QED BY <1>1, <1>2, <1>3 DEF Retires

\* setVMRoot leaves the processor with the root of an ASID in use, or with none
LEMMA SetVMRoot ==
  ASSUME NEW kk, ASIDCore(kk), NEW t \in Threads \cup {idle}, NEW r, r = setVMRoot(kk, t)
  PROVE  ASIDInv(r) /\ Retires(kk, {}, r) /\ PoolsSame(kk, r)
<1> DEFINE v  == kk.tcbVTable[t]
           a  == kk.vsCap[v].asid
           k1 == getHWASID(kk, a)
           x  == [root |-> v, vmid |-> findMapForASID(k1, a).stored]
<1>1. kk \in State /\ v \in VRoots \cup {Null}
  BY Fields DEF ASIDCore
<1>2. CASE v # Null /\ isValidRoot(kk, v)
  <2>1. r = [k1 EXCEPT !.ttbr = x]
    BY <1>2 DEF setVMRoot, armv_contextSwitch
  <2>2. v \in VRoots /\ v # Null /\ a # asidInvalid /\ findVSpaceForASID(kk, a) = v
    BY <1>1, <1>2 DEF isValidRoot
  <2>3. a \in ASIDs
    <3>1. kk.vsCap \in [VRoots -> [exists : BOOLEAN, asid : ASIDs]]
      BY <1>1, Fields
    <3> HIDE DEF v
    <3> QED BY <2>2, <3>1
  <2> HIDE DEF v, a
  <2>4. ASIDCore(k1) /\ Retires(kk, {}, k1) /\ PoolsSame(kk, k1) /\ findMapForASID(k1, a).stored # NoVMID
    <3>1. CASE findMapForASID(kk, a).stored # NoVMID
      <4>1. k1 = kk
        BY <3>1 DEF getHWASID
      <4>2. PagesSame(kk, kk) /\ PoolsSame(kk, kk)
        BY DEF PagesSame, PoolsSame
      <4>3. Retires(kk, {}, kk)
        BY <1>1, <4>2 DEF Retires
      <4> HIDE DEF k1
      <4> QED BY <3>1, <4>1, <4>2, <4>3
    <3>2. CASE findMapForASID(kk, a).stored = NoVMID
      <4>1. k1 = assignHWASID(kk, a)
        BY <3>2 DEF getHWASID
      <4> HIDE DEF k1
      <4> QED BY <2>2, <2>3, <3>2, <4>1, AssignHWASID
    <3> QED BY <3>1, <3>2
  <2> HIDE DEF k1
  <2>5. k1 \in State /\ findMapForASID(k1, a).stored \in HWASIDs /\ findVSpaceForASID(k1, a) = v
    <3>1. k1 \in State /\ findVSpaceForASID(k1, a) = v
      BY <2>2, <2>3, <2>4 DEF ASIDCore, Retires
    <3> QED BY <2>3, <2>4, <3>1, MapType
  <2>6. x \in [root : VRoots \cup {Null}, vmid : HWASIDs]
    BY <2>2, <2>5
  <2> HIDE DEF x
  <2>7. ASIDsSame(k1, r) /\ r.ttbr = x
    BY <2>1, <2>5 DEF State, ASIDsSame, PagesSame, PoolsSame
  <2>8. r \in State
    BY <2>1, <2>5, <2>6 DEF State
  <2>9. ASIDCore(r) /\ Retires(k1, {}, r) /\ findMapForASID(r, a) = findMapForASID(k1, a)
    BY <2>3, <2>4, <2>7, <2>8, SameASIDs
  <2>10. findMapForASID(k1, a) = [vspace_root |-> v, stored |-> findMapForASID(k1, a).stored]
    BY <2>3, <2>5, MapType DEF ASIDMap, findVSpaceForASID
  <2>11. r.ttbr.root = v /\ r.ttbr.vmid = findMapForASID(k1, a).stored
    BY <2>7, SMTT(30) DEF x
  <2>12. RootLoaded(r)
    BY <2>3, <2>9, <2>10, <2>11 DEF RootLoaded
  <2>13. {} = {} \cup {} /\ PoolsSame(kk, r)
    BY <2>4, <2>7 DEF PoolsSame, ASIDsSame
  <2>14. Retires(kk, {} \cup {}, r)
    BY <2>4, <2>9, RetireTwice
  <2>15. Retires(kk, {}, r)
    BY <2>13, <2>14
  <2> QED BY <2>9, <2>12, <2>13, <2>15 DEF ASIDInv, ASIDCore
<1>3. CASE ~(v # Null /\ isValidRoot(kk, v))
  <2>1. r = [kk EXCEPT !.ttbr = armKSGlobalUserVSpace]
    BY <1>3 DEF setVMRoot
  <2>2. armKSGlobalUserVSpace \in [root : VRoots \cup {Null}, vmid : HWASIDs] /\ armKSGlobalUserVSpace.root = Null
    <3>1. 0 \in HWASIDs
      BY VSpaceConstants, SMTT(30) DEF HWASIDs
    <3> QED BY <3>1 DEF armKSGlobalUserVSpace
  <2>3. ASIDsSame(kk, r) /\ r.ttbr = armKSGlobalUserVSpace
    BY <1>1, <2>1 DEF State, ASIDsSame, PagesSame, PoolsSame
  <2> DEFINE global == armKSGlobalUserVSpace
  <2> HIDE DEF global
  <2>4. r \in State
    <3>1. r = [kk EXCEPT !.ttbr = global] /\ global \in [root : VRoots \cup {Null}, vmid : HWASIDs]
      BY <2>1, <2>2 DEF global
    <3> QED BY <1>1, <3>1 DEF State
  <2>5. ASIDCore(r) /\ Retires(kk, {}, r)
    BY <2>3, <2>4, SameASIDs
  <2>6. RootLoaded(r)
    BY <2>2, <2>3 DEF RootLoaded
  <2> QED BY <2>3, <2>5, <2>6 DEF ASIDInv, ASIDCore, ASIDsSame
<1> QED BY <1>2, <1>3
-----------------------------------------------------------------------------
(* Deleting ASIDs *)

\* The ASIDs of gone lose their root, their hardware ASID and their translations
Released(kk, gone, r) ==
  /\ r \in State /\ PagesSame(kk, r)
  /\ \A c \in ASIDs :
       /\ findVSpaceForASID(r, c) = IF c \in gone THEN Null ELSE findVSpaceForASID(kk, c)
       /\ findMapForASID(r, c).stored = IF c \in gone THEN NoVMID ELSE findMapForASID(kk, c).stored
  /\ \A g \in HWASIDs : r.armKSHWASIDTable[g] =
                         IF kk.armKSHWASIDTable[g] \in gone THEN asidInvalid ELSE kk.armKSHWASIDTable[g]
  /\ \A e \in r.tlb : e \in kk.tlb /\ kk.armKSHWASIDTable[e.vmid] \notin gone

\* The two tables of hardware ASIDs agree after that
LEMMA Release ==
  ASSUME NEW kk, ASIDCore(kk), NEW gone \in SUBSET (ASIDs \ {asidInvalid}), NEW r, Released(kk, gone, r)
  PROVE  HWASIDsInv(r) /\ Retires(kk, gone, r)
<1> DEFINE hw == kk.armKSHWASIDTable
           st(c) == findMapForASID(kk, c).stored
           root(c) == findVSpaceForASID(kk, c)
<1>1. /\ kk \in State /\ hw \in [HWASIDs -> ASIDs] /\ kk.tlb \in SUBSET [vmid : HWASIDs, frame : Frames, vaddr : Addrs]
      /\ root(asidInvalid) = Null /\ asidInvalid \in ASIDs
      /\ \A c \in ASIDs : st(c) # NoVMID => root(c) # Null
      /\ \A e \in kk.tlb : hw[e.vmid] # asidInvalid
      /\ \A g \in HWASIDs, c \in ASIDs \ {asidInvalid} : hw[g] = c <=> st(c) = g
  BY Fields, InvalidASID DEF ASIDCore, HWASIDsInv
<1>2. /\ \A c \in ASIDs : findVSpaceForASID(r, c) = IF c \in gone THEN Null ELSE root(c)
      /\ \A c \in ASIDs : findMapForASID(r, c).stored = IF c \in gone THEN NoVMID ELSE st(c)
      /\ \A g \in HWASIDs : r.armKSHWASIDTable[g] = IF hw[g] \in gone THEN asidInvalid ELSE hw[g]
      /\ \A e \in r.tlb : e \in kk.tlb /\ hw[e.vmid] \notin gone
  BY DEF Released
<1> HIDE DEF hw, st, root
<1>3. ASSUME NEW g \in HWASIDs, NEW c \in ASIDs \ {asidInvalid}
      PROVE  r.armKSHWASIDTable[g] = c <=> findMapForASID(r, c).stored = g
  <2>1. /\ hw[g] = c <=> st(c) = g
        /\ findMapForASID(r, c).stored = IF c \in gone THEN NoVMID ELSE st(c)
        /\ r.armKSHWASIDTable[g] = IF hw[g] \in gone THEN asidInvalid ELSE hw[g]
    BY <1>1, <1>2
  <2>2. g # NoVMID /\ c # asidInvalid
    BY NotStored
  <2>3. CASE c \in gone
    <3>1. findMapForASID(r, c).stored # g
      BY <2>1, <2>2, <2>3
    <3>2. r.armKSHWASIDTable[g] # c
      BY <2>1, <2>2, <2>3
    <3> QED BY <3>1, <3>2
  <2>4. CASE c \notin gone
    <3>1. findMapForASID(r, c).stored = st(c)
      BY <2>1, <2>4
    <3>2. r.armKSHWASIDTable[g] = c <=> hw[g] = c
      BY <2>1, <2>2, <2>4
    <3> QED BY <2>1, <3>1, <3>2
  <2> QED BY <2>3, <2>4
<1>4. ASSUME NEW c \in ASIDs, findMapForASID(r, c).stored # NoVMID
      PROVE  findVSpaceForASID(r, c) # Null
  <2>1. c \notin gone
    BY <1>2, <1>4
  <2>2. findMapForASID(r, c).stored = st(c) /\ findVSpaceForASID(r, c) = root(c)
    BY <1>2, <2>1
  <2> QED BY <1>1, <1>4, <2>2
<1>5. ASSUME NEW e \in r.tlb
      PROVE  r.armKSHWASIDTable[e.vmid] = hw[e.vmid] /\ hw[e.vmid] # asidInvalid
  <2>1. e \in kk.tlb /\ hw[e.vmid] \notin gone
    BY <1>2
  <2>2. e.vmid \in HWASIDs
    BY <1>1, <2>1
  <2> QED BY <1>1, <1>2, <2>1, <2>2
<1>6. findVSpaceForASID(r, asidInvalid) = Null
  BY <1>1, <1>2
<1>7. \A e \in r.tlb : r.armKSHWASIDTable[e.vmid] # asidInvalid
  BY <1>5
<1>8. HWASIDsInv(r)
  BY <1>3, <1>4, <1>6, <1>7 DEF HWASIDsInv
<1>9. \A e \in r.tlb : e \in kk.tlb /\ hw[e.vmid] \notin gone /\ r.armKSHWASIDTable[e.vmid] = hw[e.vmid]
  BY <1>2, <1>5
<1>10. r \in State /\ PagesSame(kk, r)
  BY DEF Released
<1> QED BY <1>2, <1>8, <1>9, <1>10 DEF Retires, hw, root

\* invalidateTLBByASID
LEMMA FlushTLB ==
  ASSUME NEW kk, ASIDCore(kk), NEW a \in ASIDs \ {asidInvalid}, NEW r, r = invalidateTLBByASID(kk, a)
  PROVE  /\ r \in State /\ PagesSame(kk, r) /\ PoolsSame(kk, r) /\ r.array = kk.array
         /\ r.armKSHWASIDTable = kk.armKSHWASIDTable /\ r.armKSNextASID = kk.armKSNextASID
         /\ r.ttbr = kk.ttbr
         /\ \A e : e \in r.tlb <=> e \in kk.tlb /\ kk.armKSHWASIDTable[e.vmid] # a
<1> DEFINE h == findMapForASID(kk, a).stored
           hw == kk.armKSHWASIDTable
<1>1. /\ kk \in State /\ h \in HWASIDs \cup {NoVMID} /\ NoVMID \notin HWASIDs
      /\ kk.tlb \in SUBSET [vmid : HWASIDs, frame : Frames, vaddr : Addrs]
  BY Fields, MapType, NotStored DEF ASIDCore
<1>2. \A g \in HWASIDs : hw[g] = a <=> h = g
  BY DEF ASIDCore, HWASIDsInv
<1>3. ASSUME NEW e \in kk.tlb PROVE hw[e.vmid] = a <=> e.vmid = h
  <2>1. e.vmid \in HWASIDs
    BY <1>1
  <2> QED BY <1>2, <2>1
<1>4. CASE h = NoVMID
  <2>1. r = kk
    BY <1>4 DEF invalidateTLBByASID
  <2>2. \A e \in kk.tlb : hw[e.vmid] # a
    <3> SUFFICES ASSUME NEW e \in kk.tlb PROVE hw[e.vmid] # a
      OBVIOUS
    <3>1. e.vmid \in HWASIDs
      BY <1>1
    <3> QED BY <1>1, <1>3, <1>4, <3>1
  <2> QED BY <1>1, <2>1, <2>2 DEF PagesSame, PoolsSame
<1>5. CASE h # NoVMID
  <2>1. r = invalidateTranslationASID(kk, h)
    BY <1>5 DEF invalidateTLBByASID
  <2> HIDE DEF h
  <2>2. /\ r \in State /\ PagesSame(kk, r) /\ PoolsSame(kk, r) /\ r.array = kk.array
        /\ r.armKSHWASIDTable = hw /\ r.armKSNextASID = kk.armKSNextASID
        /\ r.ttbr = kk.ttbr /\ \A e : e \in r.tlb <=> e \in kk.tlb /\ e.vmid # h
    BY <1>1, <2>1, FlushASID, SMTT(30)
  <2> HIDE DEF hw
  <2>3. \A e : e \in r.tlb <=> e \in kk.tlb /\ hw[e.vmid] # a
    BY <1>3, <2>2
  <2> QED BY <2>2, <2>3 DEF hw
<1> QED BY <1>4, <1>5

\* deleteASID
LEMMA DeleteASID ==
  ASSUME NEW kk, ASIDInv(kk), NEW a \in ASIDs \ {asidInvalid}, NEW v \in VRoots, NEW r, r = deleteASID(kk, a, v)
  PROVE  /\ ASIDInv(r) /\ PoolsSame(kk, r)
         /\ Retires(kk, IF findVSpaceForASID(kk, a) = v THEN {a} ELSE {}, r)
<1> DEFINE h  == findMapForASID(kk, a).stored
           hw == kk.armKSHWASIDTable
           k1 == invalidateTLBByASID(kk, a)
           k2 == IF h = NoVMID THEN k1 ELSE [k1 EXCEPT !.armKSHWASIDTable[h] = asidInvalid]
           k3 == invalidateASIDEntry(k1, a)
           k4 == [k3 EXCEPT !.array[kk.armKSASIDTable[ASID_HIGH(a)]][ASID_LOW(a)] = noMap]
<1>0. ASIDCore(kk) /\ kk \in State /\ Null \notin VRoots
  BY VSpaceConstants DEF ASIDInv, ASIDCore
<1>1. CASE findVSpaceForASID(kk, a) # v
  <2>1. r = kk
    BY <1>1 DEF deleteASID
  <2>2. PagesSame(kk, r) /\ PoolsSame(kk, r)
    BY <2>1 DEF PagesSame, PoolsSame
  <2>3. Retires(kk, {}, r)
    BY <1>0, <2>1, <2>2 DEF Retires
  <2> QED BY <1>1, <2>1, <2>2, <2>3
<1>2. CASE findVSpaceForASID(kk, a) = v
  <2>1. r = setVMRoot(k4, kk.ksCurThread)
    BY <1>2 DEF deleteASID
  <2>2. /\ k1 \in State /\ PagesSame(kk, k1) /\ PoolsSame(kk, k1) /\ k1.array = kk.array
        /\ k1.armKSHWASIDTable = hw
        /\ \A e : e \in k1.tlb <=> e \in kk.tlb /\ hw[e.vmid] # a
    BY <1>0, FlushTLB, SMTT(30)
  <2>3. /\ hw \in [HWASIDs -> ASIDs] /\ h \in HWASIDs \cup {NoVMID} /\ asidInvalid \in ASIDs
        /\ NoVMID \notin HWASIDs
    BY <1>0, Fields, MapType, InvalidASID, NotStored
  <2>4. \A g \in HWASIDs : hw[g] = a <=> h = g
    BY <1>0 DEF ASIDCore, HWASIDsInv
  <2>5. \A c : findMapForASID(k1, c) = findMapForASID(kk, c)
    BY <2>2, SameMaps DEF PoolsSame
  <2>6. k3 = setStored(k2, a, NoVMID)
    <3>1. findMapForASID(k1, a).stored = h
      BY <2>5
    <3> HIDE DEF h, k1
    <3> QED BY <3>1 DEF invalidateASIDEntry, invalidateASID
  <2>7. /\ k2 \in State /\ PagesSame(k1, k2) /\ PoolsSame(k1, k2) /\ k2.array = k1.array /\ k2.tlb = k1.tlb
        /\ \A g \in HWASIDs : k2.armKSHWASIDTable[g] = IF g = h THEN asidInvalid ELSE hw[g]
    <3> HIDE DEF h, k1
    <3>1. CASE h = NoVMID
      <4>0. h \notin HWASIDs
        BY <3>1, NotStored
      <4>1. k2 = k1
        BY <3>1
      <4> HIDE DEF k2
      <4>2. k2 \in State /\ k2.array = k1.array /\ k2.tlb = k1.tlb /\ k2.armKSHWASIDTable = hw
        BY <2>2, <4>1
      <4>3. PagesSame(k1, k2) /\ PoolsSame(k1, k2)
        BY <4>1 DEF PagesSame, PoolsSame
      <4> QED BY <4>0, <4>2, <4>3
    <3>2. CASE h # NoVMID
      <4>1. k2 = [k1 EXCEPT !.armKSHWASIDTable = [hw EXCEPT ![h] = asidInvalid]]
        BY <2>2, <3>2
      <4> HIDE DEF k2, hw
      <4>2. /\ PagesSame(k1, k2) /\ PoolsSame(k1, k2) /\ k2.array = k1.array /\ k2.tlb = k1.tlb
            /\ k2.armKSHWASIDTable = [hw EXCEPT ![h] = asidInvalid]
        BY <2>2, <4>1 DEF State, PagesSame, PoolsSame
      <4>3. k2.armKSHWASIDTable \in [HWASIDs -> ASIDs]
        BY <2>3, <4>2
      <4>4. k2 \in State
        BY <2>2, <4>1, <4>2, <4>3 DEF State
      <4>5. \A g \in HWASIDs : k2.armKSHWASIDTable[g] = IF g = h THEN asidInvalid ELSE hw[g]
        BY <2>3, <4>2
      <4> QED BY <4>2, <4>4, <4>5
    <3> QED BY <3>1, <3>2
  <2> HIDE DEF k2, k3
  <2>8. PoolsSame(kk, k2) /\ PagesSame(kk, k2) /\ k2.array = kk.array
    BY <2>2, <2>7 DEF PoolsSame, PagesSame
  <2>9. PoolsInv(k2)
    BY <1>0, <2>8, PoolsKept DEF ASIDCore
  <2>10. \A c \in ASIDs : /\ findMapForASID(k2, c) = findMapForASID(kk, c)
                         /\ findVSpaceForASID(k2, c) = findVSpaceForASID(kk, c)
    BY <2>8, SameMaps DEF PoolsSame
  <2>11. /\ k3 \in State /\ PagesSame(k2, k3) /\ PoolsSame(k2, k3) /\ k3.tlb = k2.tlb
         /\ k3.armKSHWASIDTable = k2.armKSHWASIDTable
         /\ \A c \in ASIDs : /\ findVSpaceForASID(k3, c) = findVSpaceForASID(k2, c)
                            /\ findMapForASID(k3, c).stored = IF c = a THEN NoVMID ELSE findMapForASID(k2, c).stored
    <3>1. findVSpaceForASID(k2, a) # Null /\ NoVMID \in HWASIDs \cup {NoVMID}
      BY <1>0, <1>2, <2>10
    <3> QED BY <2>6, <2>7, <2>9, <3>1, StoredSet, SMTT(30)
  <2>12. PoolsSame(kk, k3) /\ PagesSame(kk, k3) /\ PoolsInv(k3)
    <3>1. PoolsSame(kk, k3) /\ PagesSame(kk, k3)
      BY <2>8, <2>11 DEF PoolsSame, PagesSame
    <3> QED BY <1>0, <3>1, PoolsKept DEF ASIDCore
  <2>13. k4 = [k3 EXCEPT !.array = [k3.array EXCEPT ![k3.armKSASIDTable[ASID_HIGH(a)]][ASID_LOW(a)] = noMap]]
    BY <2>12 DEF PoolsSame
  <2>14. k3.armKSASIDTable[ASID_HIGH(a)] # Null
    <3>1. kk.armKSASIDTable[ASID_HIGH(a)] \in Pools /\ Null \notin Pools
      BY <1>0, <1>2, MapType, VSpaceConstants
    <3> QED BY <2>12, <3>1 DEF PoolsSame
  <2> DEFINE arr == [k3.array EXCEPT ![k3.armKSASIDTable[ASID_HIGH(a)]][ASID_LOW(a)] = noMap]
  <2> HIDE DEF k4, arr
  <2>15. /\ k4.array = arr /\ PagesSame(k3, k4) /\ PoolsSame(k3, k4) /\ k4.tlb = k3.tlb
         /\ k4.armKSHWASIDTable = k3.armKSHWASIDTable
    <3>1. k4 = [k3 EXCEPT !.array = arr]
      BY <2>13 DEF arr
    <3> QED BY <2>11, <3>1 DEF State, PagesSame, PoolsSame
  <2>16. EntrySet(k3, a, noMap, k4) /\ noMap \in ASIDMap
    <3>1. noMap \in ASIDMap
      BY DEF noMap, ASIDMap
    <3> QED BY <2>14, <2>15, <3>1 DEF EntrySet, PoolsSame, arr
  <2>17. /\ arr \in [Pools -> [Lo -> ASIDMap]]
         /\ \A c \in ASIDs : findMapForASID(k4, c) = IF c = a THEN noMap ELSE findMapForASID(k3, c)
    BY <2>11, <2>12, <2>15, <2>16, MapSet, SMTT(30)
  <2>18. k4 \in State
    <3>1. k4 = [k3 EXCEPT !.array = arr]
      BY <2>13 DEF arr
    <3> QED BY <2>11, <2>17, <3>1 DEF State, Lo
  <2>19. ASSUME NEW c \in ASIDs
         PROVE  /\ findVSpaceForASID(k4, c) = IF c \in {a} THEN Null ELSE findVSpaceForASID(kk, c)
                /\ findMapForASID(k4, c).stored = IF c \in {a} THEN NoVMID ELSE findMapForASID(kk, c).stored
    <3>1. noMap.vspace_root = Null /\ noMap.stored = NoVMID
      BY DEF noMap
    <3>2. /\ findMapForASID(k4, c) = IF c = a THEN noMap ELSE findMapForASID(k3, c)
          /\ findVSpaceForASID(k3, c) = findVSpaceForASID(kk, c)
          /\ c # a => findMapForASID(k3, c).stored = findMapForASID(kk, c).stored
      BY <2>10, <2>11, <2>17
    <3> QED BY <3>1, <3>2 DEF findVSpaceForASID
  <2>20. \A g \in HWASIDs : k4.armKSHWASIDTable[g] = IF hw[g] \in {a} THEN asidInvalid ELSE hw[g]
    <3>1. k4.armKSHWASIDTable = k2.armKSHWASIDTable
      BY <2>11, <2>15
    <3> HIDE DEF h, hw
    <3> QED BY <2>4, <2>7, <3>1
  <2>21. \A e \in k4.tlb : e \in kk.tlb /\ hw[e.vmid] \notin {a}
    BY <2>2, <2>7, <2>11, <2>15
  <2>22. PagesSame(kk, k4) /\ PoolsSame(kk, k4)
    BY <2>12, <2>15 DEF PagesSame, PoolsSame
  <2>23. Released(kk, {a}, k4)
    BY <2>18, <2>19, <2>20, <2>21, <2>22 DEF Released
  <2>24. HWASIDsInv(k4) /\ Retires(kk, {a}, k4)
    BY <1>0, <2>23, Release
  <2>25. ASIDCore(k4)
    BY <1>0, <2>18, <2>22, <2>24, PoolsKept DEF ASIDCore
  <2>26. kk.ksCurThread \in Threads \cup {idle}
    BY <1>0, Fields
  <2>27. ASIDInv(r) /\ Retires(k4, {}, r) /\ PoolsSame(k4, r)
    BY <2>1, <2>25, <2>26, SetVMRoot
  <2>28. Retires(kk, {a} \cup {}, r) /\ {a} \cup {} = {a}
    BY <2>24, <2>27, RetireTwice
  <2>29. Retires(kk, {a}, r)
    BY <2>28
  <2>30. PoolsSame(kk, r)
    BY <2>22, <2>27 DEF PoolsSame
  <2> QED BY <1>2, <2>27, <2>29, <2>30
<1> QED BY <1>1, <1>2

\* The base a pool capability holds
LEMMA PoolBase ==
  ASSUME NEW i \in Hi
  PROVE  ASID_HIGH(i * asidLowSize) = i
<1>1. 0 \in Lo /\ i * asidLowSize + 0 = i * asidLowSize
  BY VSpaceConstants, SMTT(30) DEF Hi, Lo
<1> QED BY <1>1, ASIDOf

\* deleteASIDPool takes the pool out of armKSASIDTable and retires its ASIDs
LEMMA DeleteASIDPool ==
  ASSUME NEW kk, ASIDInv(kk), NEW p \in Pools, NEW i \in Hi, kk.poolCap[p] = i * asidLowSize,
         NEW r, r = deleteASIDPool(kk, i * asidLowSize, p)
  PROVE  /\ ASIDInv(r) /\ r.poolCap = kk.poolCap /\ \A j \in Hi : r.armKSASIDTable[j] # p
         /\ \E gone \in SUBSET (ASIDs \ {asidInvalid}) : Retires(kk, gone, r)
<1> DEFINE map  == kk.array[p]
           used == {j \in Lo : map[j].vspace_root # Null}
           hs   == {map[j].stored : j \in used}
           hw   == kk.armKSHWASIDTable
           hw1  == [h \in HWASIDs |-> IF h \in hs THEN asidInvalid ELSE hw[h]]
           tlb1 == {e \in kk.tlb : e.vmid \notin hs}
           map1 == [j \in Lo |-> IF j \in used THEN [map[j] EXCEPT !.stored = NoVMID] ELSE map[j]]
           arr1 == [kk.array EXCEPT ![p] = map1]
           tab1 == [kk.armKSASIDTable EXCEPT ![i] = Null]
           k1   == [kk EXCEPT !.tlb = tlb1, !.armKSHWASIDTable = hw1, !.array = arr1]
           k2   == [k1 EXCEPT !.armKSASIDTable[i] = Null]
           gone == {c \in ASIDs : ASID_HIGH(c) = i /\ findVSpaceForASID(kk, c) # Null}
<1>0. /\ ASIDCore(kk) /\ kk \in State /\ PoolsInv(kk) /\ Null \notin Pools
      /\ findVSpaceForASID(kk, asidInvalid) = Null
  BY VSpaceConstants DEF ASIDInv, ASIDCore, HWASIDsInv
<1>1. /\ kk.armKSASIDTable \in [Hi -> Pools \cup {Null}] /\ kk.array \in [Pools -> [Lo -> ASIDMap]]
      /\ hw \in [HWASIDs -> ASIDs] /\ kk.tlb \in SUBSET [vmid : HWASIDs, frame : Frames, vaddr : Addrs]
  BY <1>0, Fields
<1>2. ASSUME NEW j \in Hi, kk.armKSASIDTable[j] = p PROVE j = i
  <2>1. kk.poolCap[p] = j * asidLowSize
    BY <1>0, <1>2 DEF PoolsInv, Hi
  <2> QED BY <2>1, PoolBase
<1>3. CASE kk.armKSASIDTable[i] # p
  <2>1. r = kk
    BY <1>3, PoolBase DEF deleteASIDPool
  <2>2. PagesSame(kk, r)
    BY <2>1 DEF PagesSame
  <2>3. Retires(kk, {}, r) /\ {} \in SUBSET (ASIDs \ {asidInvalid})
    BY <1>0, <2>1, <2>2 DEF Retires
  <2> QED BY <1>2, <1>3, <2>1, <2>3
<1>4. CASE kk.armKSASIDTable[i] = p
  <2>1. r = setVMRoot(k2, kk.ksCurThread)
    BY <1>4, PoolBase DEF deleteASIDPool, Lo
  <2>2. ASSUME NEW c \in ASIDs
        PROVE  /\ ASID_HIGH(c) = i => findMapForASID(kk, c) = map[ASID_LOW(c)]
               /\ ASID_HIGH(c) # i => kk.armKSASIDTable[ASID_HIGH(c)] # p
    <3>1. ASID_HIGH(c) \in Hi
      BY ASIDParts
    <3> QED BY <1>0, <1>2, <1>4, <3>1 DEF findMapForASID
  <2>3. \A g \in HWASIDs : g \in hs <=> hw[g] \in gone
    <3> SUFFICES ASSUME NEW g \in HWASIDs PROVE g \in hs <=> hw[g] \in gone
      OBVIOUS
    <3>0. \A c \in ASIDs \ {asidInvalid} : hw[g] = c <=> findMapForASID(kk, c).stored = g
      BY <1>0 DEF ASIDCore, HWASIDsInv
    <3>1. ASSUME g \in hs PROVE hw[g] \in gone
      <4>1. PICK j \in used : g = map[j].stored
        BY <3>1
      <4> DEFINE c == i * asidLowSize + j
      <4>2. c \in ASIDs /\ ASID_HIGH(c) = i /\ ASID_LOW(c) = j
        BY ASIDOf
      <4> HIDE DEF c
      <4>3. findMapForASID(kk, c) = map[j] /\ map[j].vspace_root # Null
        BY <2>2, <4>2
      <4>4. findVSpaceForASID(kk, c) # Null /\ findMapForASID(kk, c).stored = g
        BY <4>1, <4>3 DEF findVSpaceForASID
      <4>5. c # asidInvalid
        BY <1>0, <4>4
      <4>6. hw[g] = c
        BY <3>0, <4>2, <4>4, <4>5
      <4> QED BY <4>2, <4>4, <4>6
    <3>2. ASSUME hw[g] \in gone PROVE g \in hs
      <4> DEFINE c == hw[g]
      <4>1. c \in ASIDs /\ ASID_HIGH(c) = i /\ findVSpaceForASID(kk, c) # Null /\ c # asidInvalid
        BY <1>0, <3>2
      <4>2. findMapForASID(kk, c).stored = g
        BY <3>0, <4>1
      <4>3. ASID_LOW(c) \in Lo /\ findMapForASID(kk, c) = map[ASID_LOW(c)]
        BY <2>2, <4>1, ASIDParts
      <4> HIDE DEF c
      <4>4. ASID_LOW(c) \in used /\ g = map[ASID_LOW(c)].stored
        BY <4>1, <4>2, <4>3 DEF findVSpaceForASID
      <4> QED BY <4>4
    <3> QED BY <3>1, <3>2
  <2>4. gone \in SUBSET (ASIDs \ {asidInvalid})
    BY <1>0
  <2>5. tlb1 \in SUBSET [vmid : HWASIDs, frame : Frames, vaddr : Addrs]
    BY <1>1
  <2>6. hw1 \in [HWASIDs -> ASIDs]
    <3> HIDE DEF hs, hw
    <3> QED BY <1>1, InvalidASID
  <2>7. map1 \in [Lo -> ASIDMap]
    <3>1. ASSUME NEW j \in Lo PROVE map[j] \in ASIDMap /\ [map[j] EXCEPT !.stored = NoVMID] \in ASIDMap
      <4>1. map[j] \in ASIDMap
        BY <1>1
      <4> HIDE DEF map
      <4> QED BY <4>1 DEF ASIDMap
    <3> HIDE DEF used, map
    <3> QED BY <3>1
  <2> HIDE DEF map1
  <2>8. arr1 \in [Pools -> [Lo -> ASIDMap]] /\ \A q \in Pools \ {p} : arr1[q] = kk.array[q]
    BY <1>1, <2>7
  <2>9. /\ tab1 \in [Hi -> Pools \cup {Null}] /\ tab1[i] = Null
        /\ \A j \in Hi : j # i => tab1[j] = kk.armKSASIDTable[j]
    BY <1>1
  <2>10. k2 = [kk EXCEPT !.tlb = tlb1, !.armKSHWASIDTable = hw1, !.array = arr1, !.armKSASIDTable = tab1]
    <3> HIDE DEF tlb1, hw1, arr1
    <3> QED BY <1>0 DEF State
  <2> HIDE DEF tlb1, hw1, arr1, tab1, k2
  <2>11. /\ k2.tlb = tlb1 /\ k2.armKSHWASIDTable = hw1 /\ k2.array = arr1 /\ k2.armKSASIDTable = tab1
         /\ PagesSame(kk, k2) /\ k2.poolCap = kk.poolCap
    BY <1>0, <2>10 DEF State, PagesSame
  <2>12. k2 \in State
    BY <1>0, <2>5, <2>6, <2>8, <2>9, <2>10 DEF State, Hi, Lo
  <2>13. ASSUME NEW c \in ASIDs
         PROVE  /\ findVSpaceForASID(k2, c) = IF c \in gone THEN Null ELSE findVSpaceForASID(kk, c)
                /\ findMapForASID(k2, c).stored = IF c \in gone THEN NoVMID ELSE findMapForASID(kk, c).stored
    <3>0. noMap.vspace_root = Null /\ noMap.stored = NoVMID
      BY DEF noMap
    <3>1. ASID_HIGH(c) \in Hi /\ ASID_LOW(c) \in Lo
      BY ASIDParts
    <3>2. findMapForASID(kk, c).stored # NoVMID => findVSpaceForASID(kk, c) # Null
      BY <1>0 DEF ASIDCore, HWASIDsInv
    <3>3. CASE ASID_HIGH(c) = i
      <4>1. findMapForASID(k2, c) = noMap
        BY <2>9, <2>11, <3>3 DEF findMapForASID
      <4>2. c \in gone <=> findVSpaceForASID(kk, c) # Null
        BY <3>3
      <4> HIDE DEF gone
      <4> QED BY <3>0, <3>2, <4>1, <4>2 DEF findVSpaceForASID
    <3>4. CASE ASID_HIGH(c) # i
      <4>1. k2.armKSASIDTable[ASID_HIGH(c)] = kk.armKSASIDTable[ASID_HIGH(c)]
        BY <2>9, <2>11, <3>1, <3>4
      <4>2. kk.armKSASIDTable[ASID_HIGH(c)] \in (Pools \ {p}) \cup {Null}
        BY <1>1, <2>2, <3>1, <3>4
      <4>3. findMapForASID(k2, c) = findMapForASID(kk, c)
        BY <2>8, <2>11, <4>1, <4>2 DEF findMapForASID
      <4>4. c \notin gone
        BY <3>4
      <4> HIDE DEF gone
      <4> QED BY <4>3, <4>4 DEF findVSpaceForASID
    <3> QED BY <3>3, <3>4
  <2>14. \A g \in HWASIDs : k2.armKSHWASIDTable[g] = IF hw[g] \in gone THEN asidInvalid ELSE hw[g]
    <3> HIDE DEF hs, hw, gone
    <3> QED BY <2>3, <2>11 DEF hw1
  <2>15. ASSUME NEW e \in k2.tlb PROVE e \in kk.tlb /\ hw[e.vmid] \notin gone
    <3>1. e \in kk.tlb /\ e.vmid \notin hs
      BY <2>11 DEF tlb1
    <3>2. e.vmid \in HWASIDs
      BY <1>1, <3>1
    <3> HIDE DEF hs, hw, gone
    <3> QED BY <2>3, <3>1, <3>2
  <2> HIDE DEF gone
  <2>16. Released(kk, gone, k2)
    BY <2>11, <2>12, <2>13, <2>14, <2>15 DEF Released
  <2>17. HWASIDsInv(k2) /\ Retires(kk, gone, k2)
    BY <1>0, <2>4, <2>16, Release
  <2>18. \A j \in Hi : k2.armKSASIDTable[j] # p
    BY <1>0, <1>2, <2>9, <2>11
  <2>19. PoolsInv(k2)
    <3> SUFFICES ASSUME NEW j \in Hi, NEW q \in Pools, k2.armKSASIDTable[j] = q
                 PROVE  kk.poolCap[q] = j * asidLowSize
      BY <2>11 DEF PoolsInv, Hi
    <3>1. kk.armKSASIDTable[j] = q
      BY <1>0, <2>9, <2>11
    <3> QED BY <1>0, <3>1 DEF PoolsInv, Hi
  <2>20. kk.ksCurThread \in Threads \cup {idle}
    BY <1>0, Fields
  <2>21. ASIDInv(r) /\ Retires(k2, {}, r) /\ PoolsSame(k2, r)
    BY <2>1, <2>12, <2>17, <2>19, <2>20, SetVMRoot DEF ASIDCore
  <2>22. Retires(kk, gone \cup {}, r) /\ gone \cup {} = gone
    BY <2>17, <2>21, RetireTwice
  <2>23. Retires(kk, gone, r)
    BY <2>22
  <2>24. r.poolCap = kk.poolCap /\ \A j \in Hi : r.armKSASIDTable[j] # p
    BY <2>11, <2>18, <2>21 DEF PoolsSame
  <2> QED BY <2>4, <2>21, <2>23, <2>24
<1> QED BY <1>3, <1>4

-----------------------------------------------------------------------------
(* Operations on pages leave ASIDs alone *)

\* What ASIDsKept keeps
LEMMA KeptASIDs ==
  ASSUME NEW kk, ASIDInv(kk), NEW r \in State, ASIDsKept(kk, r)
  PROVE  ASIDInv(r) /\ \A c \in ASIDs : /\ findMapForASID(r, c) = findMapForASID(kk, c)
                                       /\ findVSpaceForASID(r, c) = findVSpaceForASID(kk, c)
<1>1. PoolsInv(r)
  BY PoolsKept DEF ASIDInv, ASIDsKept
<1>2. \A c \in ASIDs : /\ findMapForASID(r, c) = findMapForASID(kk, c)
                      /\ findVSpaceForASID(r, c) = findVSpaceForASID(kk, c)
  BY SameMaps DEF ASIDsKept, PoolsSame
<1>3. /\ HWASIDsInv(kk) /\ RootLoaded(kk) /\ r.armKSHWASIDTable = kk.armKSHWASIDTable
      /\ r.tlb \subseteq kk.tlb /\ (r.ttbr = kk.ttbr \/ r.ttbr = armKSGlobalUserVSpace)
  BY DEF ASIDInv, ASIDsKept
<1>4. HWASIDsInv(r)
  <2>1. findVSpaceForASID(r, asidInvalid) = Null
    BY <1>2, <1>3, InvalidASID DEF HWASIDsInv
  <2>2. \A c \in ASIDs : findMapForASID(r, c).stored # NoVMID => findVSpaceForASID(r, c) # Null
    BY <1>2, <1>3 DEF HWASIDsInv
  <2>3. \A e \in r.tlb : r.armKSHWASIDTable[e.vmid] # asidInvalid
    BY <1>3 DEF HWASIDsInv
  <2>4. \A h \in HWASIDs, c \in ASIDs \ {asidInvalid} :
          r.armKSHWASIDTable[h] = c <=> findMapForASID(r, c).stored = h
    <3>1. \A c \in ASIDs : findMapForASID(r, c).stored = findMapForASID(kk, c).stored
      BY <1>2
    <3>2. \A h \in HWASIDs, c \in ASIDs \ {asidInvalid} :
            kk.armKSHWASIDTable[h] = c <=> findMapForASID(kk, c).stored = h
      BY <1>3 DEF HWASIDsInv
    <3> QED BY <1>3, <3>1, <3>2, SMTT(30)
  <2> QED BY <2>1, <2>2, <2>3, <2>4 DEF HWASIDsInv
<1>5. RootLoaded(r)
  <2>1. armKSGlobalUserVSpace.root = Null
    BY DEF armKSGlobalUserVSpace
  <2> QED BY <1>2, <1>3, <2>1 DEF RootLoaded
<1> QED BY <1>1, <1>2, <1>4, <1>5 DEF ASIDInv

\* Writing an entry of a table
LEMMA SetEntry ==
  ASSUME NEW kk \in State, NEW pt, NEW i, NEW x \in PTs \cup Frames \cup {Null},
         NEW r, r = [kk EXCEPT !.pte[pt][i] = x]
  PROVE  /\ r \in State /\ ASIDsKept(kk, r) /\ CapsSame(kk, r) /\ r.tlb = kk.tlb
         /\ r.pte = [kk.pte EXCEPT ![pt][i] = x]
<1> DEFINE pte == [kk.pte EXCEPT ![pt][i] = x]
<1>1. kk.pte \in [Tables -> [Index -> PTs \cup Frames \cup {Null}]]
  BY Fields
<1>2. pt \in Tables => [kk.pte[pt] EXCEPT ![i] = x] \in [Index -> PTs \cup Frames \cup {Null}]
  <2> SUFFICES ASSUME pt \in Tables
               PROVE  [kk.pte[pt] EXCEPT ![i] = x] \in [Index -> PTs \cup Frames \cup {Null}]
    OBVIOUS
  <2>1. kk.pte[pt] \in [Index -> PTs \cup Frames \cup {Null}]
    BY <1>1
  <2> QED BY <2>1
<1>3. pte \in [Tables -> [Index -> PTs \cup Frames \cup {Null}]]
  BY <1>1, <1>2
<1>4. r = [kk EXCEPT !.pte = pte]
  OBVIOUS
<1> HIDE DEF pte
<1>5. ASIDsKept(kk, r) /\ CapsSame(kk, r) /\ r.tlb = kk.tlb /\ r.pte = pte
  BY <1>4 DEF State, ASIDsKept, CapsSame, PoolsSame
<1>6. r \in State
  BY <1>3, <1>4 DEF State
<1> QED BY <1>5, <1>6 DEF pte

\* Invalidating translations
LEMMA Invalidate ==
  ASSUME NEW kk \in State, NEW a, NEW v, NEW r, r \in {invalidateTLBByASID(kk, a), invalidateTLBByASIDVA(kk, a, v)}
  PROVE  r \in State /\ ASIDsKept(kk, r) /\ CapsSame(kk, r) /\ r.pte = kk.pte
<1> DEFINE h == findMapForASID(kk, a).stored
           T == {e \in kk.tlb : e.vmid # h}
           V == {e \in kk.tlb : ~(e.vmid = h /\ alignTo(v, frameLevel[e.frame]) = e.vaddr)}
<1>1. r \in {kk, [kk EXCEPT !.tlb = T], [kk EXCEPT !.tlb = V]}
  BY DEF invalidateTLBByASID, invalidateTLBByASIDVA, invalidateTranslationASID,
     invalidateTranslationSingle
<1>2. kk.tlb \in SUBSET [vmid : HWASIDs, frame : Frames, vaddr : Addrs]
  BY Fields
<1>3. T \subseteq kk.tlb /\ V \subseteq kk.tlb
  OBVIOUS
<1> HIDE DEF T, V
<1>4. CASE r = kk
  BY <1>4 DEF ASIDsKept, CapsSame, PoolsSame
<1>5. ASSUME NEW S, S \subseteq kk.tlb, r = [kk EXCEPT !.tlb = S]
      PROVE  r \in State /\ ASIDsKept(kk, r) /\ CapsSame(kk, r) /\ r.pte = kk.pte
  <2>1. S \in SUBSET [vmid : HWASIDs, frame : Frames, vaddr : Addrs]
    BY <1>2, <1>5
  <2>2. r.tlb = S /\ CapsSame(kk, r) /\ r.pte = kk.pte /\ PoolsSame(kk, r) /\ r.array = kk.array
        /\ r.armKSHWASIDTable = kk.armKSHWASIDTable /\ r.ttbr = kk.ttbr
    BY <1>5 DEF State, CapsSame, PoolsSame
  <2>3. r \in State
    BY <1>5, <2>1 DEF State
  <2> QED BY <1>5, <2>2, <2>3 DEF ASIDsKept
<1> QED BY <1>1, <1>3, <1>4, <1>5

\* ASIDsKept of one step after another
LEMMA KeptThen ==
  ASSUME NEW kk, NEW r, NEW s, ASIDsKept(kk, r), ASIDsKept(r, s)
  PROVE  ASIDsKept(kk, s)
<1>1. PoolsSame(kk, s) /\ s.array = kk.array /\ s.armKSHWASIDTable = kk.armKSHWASIDTable
      /\ s.ttbr \in {kk.ttbr, armKSGlobalUserVSpace}
  BY DEF ASIDsKept, PoolsSame
<1>2. s.tlb \subseteq kk.tlb
  BY DEF ASIDsKept
<1> QED BY <1>1, <1>2 DEF ASIDsKept

\* ASIDsKept and CapsSame of one step after another
LEMMA KeptTwice ==
  ASSUME NEW kk, NEW r, NEW s, ASIDsKept(kk, r), CapsSame(kk, r), ASIDsKept(r, s), CapsSame(r, s)
  PROVE  ASIDsKept(kk, s) /\ CapsSame(kk, s)
<1>1. CapsSame(kk, s)
  BY DEF CapsSame
<1> QED BY <1>1, KeptThen

\* unmapPageTable and unmapPage
LEMMA Unmap ==
  ASSUME NEW kk \in State, NEW a, NEW v, NEW x, NEW r, r \in {unmapPageTable(kk, a, v, x), unmapPage(kk, a, v, x)}
  PROVE  r \in State /\ ASIDsKept(kk, r) /\ CapsSame(kk, r)
<1>1. \/ r = kk
      \/ \E pt, i : \/ r = invalidateTLBByASID([kk EXCEPT !.pte[pt][i] = Null], a)
                  \/ r = invalidateTLBByASIDVA([kk EXCEPT !.pte[pt][i] = Null], a, v)
  BY DEF unmapPageTable, unmapPage
<1>2. CASE r = kk
  BY <1>2 DEF ASIDsKept, CapsSame, PoolsSame
<1>3. ASSUME NEW pt, NEW i, \/ r = invalidateTLBByASID([kk EXCEPT !.pte[pt][i] = Null], a)
                           \/ r = invalidateTLBByASIDVA([kk EXCEPT !.pte[pt][i] = Null], a, v)
      PROVE  r \in State /\ ASIDsKept(kk, r) /\ CapsSame(kk, r)
  <2> DEFINE k1 == [kk EXCEPT !.pte[pt][i] = Null]
  <2>1. k1 \in State /\ ASIDsKept(kk, k1) /\ CapsSame(kk, k1)
    <3>1. Null \in PTs \cup Frames \cup {Null}
      OBVIOUS
    <3> QED BY <3>1, SetEntry
  <2>2. r \in {invalidateTLBByASID(k1, a), invalidateTLBByASIDVA(k1, a, v)}
    BY <1>3
  <2> HIDE DEF k1
  <2>3. r \in State /\ ASIDsKept(k1, r) /\ CapsSame(k1, r)
    BY <2>1, <2>2, Invalidate
  <2> QED BY <2>1, <2>3, KeptTwice
<1> QED BY <1>1, <1>2, <1>3
-----------------------------------------------------------------------------
(* Every operation keeps ASIDInv *)

\* alignTo gives an address
LEMMA AlignType ==
  ASSUME NEW v \in Addrs, NEW l
  PROVE  alignTo(v, l) \in Addrs
  BY VSpaceConstants DEF alignTo, Addrs

\* Capabilities made, copied and mapped: fields of pages change only
LEMMA CapSteps ==
  ASSUME k \in State
  PROVE  /\ \A v \in VRoots : RetypeVSpace(v) => k' \in State /\ ASIDsKept(k, k')
         /\ \A p \in PTs : RetypePageTable(p) => k' \in State /\ ASIDsKept(k, k')
         /\ \A c \in FrameCaps, f \in Frames : RetypeFrame(c, f) => k' \in State /\ ASIDsKept(k, k')
         /\ \A c, d \in FrameCaps : CopyFrame(c, d) => k' \in State /\ ASIDsKept(k, k')
         /\ \A p \in PTs : CopyPageTable(p) => k' \in State /\ ASIDsKept(k, k')
<1>0. /\ k.pte \in [Tables -> [Index -> PTs \cup Frames \cup {Null}]]
      /\ k.vsCap \in [VRoots -> [exists : BOOLEAN, asid : ASIDs]]
      /\ k.ptCap \in [PTs -> [n : Nat, asid : ASIDs, vaddr : Addrs \cup {Null}]]
      /\ k.frameCap \in [FrameCaps -> [frame : Frames \cup {Null}, asid : ASIDs, vaddr : Addrs \cup {Null}]]
      /\ asidInvalid \in ASIDs /\ noEntries \in [Index -> PTs \cup Frames \cup {Null}]
  BY Fields, InvalidASID DEF noEntries
<1>1. ASSUME NEW v \in VRoots, RetypeVSpace(v) PROVE k' \in State /\ ASIDsKept(k, k')
  <2> DEFINE cap == [k.vsCap EXCEPT ![v] = [exists |-> TRUE, asid |-> asidInvalid]]
             pte == [k.pte EXCEPT ![v] = noEntries]
  <2>1. k' = [k EXCEPT !.vsCap = cap, !.pte = pte]
    BY <1>1 DEF RetypeVSpace
  <2>2. cap \in [VRoots -> [exists : BOOLEAN, asid : ASIDs]]
    BY <1>0
  <2>3. pte \in [Tables -> [Index -> PTs \cup Frames \cup {Null}]]
    BY <1>0
  <2> HIDE DEF cap, pte
  <2> QED BY <2>1, <2>2, <2>3 DEF State, ASIDsKept, PoolsSame
<1>2. ASSUME NEW p \in PTs, RetypePageTable(p) PROVE k' \in State /\ ASIDsKept(k, k')
  <2> DEFINE cap == [k.ptCap EXCEPT ![p] = [n |-> 1, asid |-> asidInvalid, vaddr |-> Null]]
             pte == [k.pte EXCEPT ![p] = noEntries]
  <2>1. k' = [k EXCEPT !.ptCap = cap, !.pte = pte]
    BY <1>2 DEF RetypePageTable
  <2>2. cap \in [PTs -> [n : Nat, asid : ASIDs, vaddr : Addrs \cup {Null}]]
    BY <1>0
  <2>3. pte \in [Tables -> [Index -> PTs \cup Frames \cup {Null}]]
    BY <1>0
  <2> HIDE DEF cap, pte
  <2> QED BY <2>1, <2>2, <2>3 DEF State, ASIDsKept, PoolsSame
<1>3. ASSUME NEW c \in FrameCaps, NEW f \in Frames \cup {Null}, NEW a \in ASIDs, NEW v \in Addrs \cup {Null},
             k' = [k EXCEPT !.frameCap[c] = [frame |-> f, asid |-> a, vaddr |-> v]]
      PROVE  k' \in State /\ ASIDsKept(k, k')
  <2> DEFINE cap == [k.frameCap EXCEPT ![c] = [frame |-> f, asid |-> a, vaddr |-> v]]
  <2>1. k' = [k EXCEPT !.frameCap = cap]
    BY <1>3
  <2>2. cap \in [FrameCaps -> [frame : Frames \cup {Null}, asid : ASIDs, vaddr : Addrs \cup {Null}]]
    BY <1>0
  <2> HIDE DEF cap
  <2> QED BY <2>1, <2>2 DEF State, ASIDsKept, PoolsSame
<1>4. \A f : [noFrame EXCEPT !.frame = f] = [frame |-> f, asid |-> asidInvalid, vaddr |-> Null]
  BY SMTT(30) DEF noFrame
<1>5. ASSUME NEW c \in FrameCaps, NEW f \in Frames, RetypeFrame(c, f) PROVE k' \in State /\ ASIDsKept(k, k')
  <2>1. k' = [k EXCEPT !.frameCap[c] = [frame |-> f, asid |-> asidInvalid, vaddr |-> Null]]
    BY <1>4, <1>5 DEF RetypeFrame
  <2> QED BY <1>0, <1>3, <2>1
<1>6. ASSUME NEW c \in FrameCaps, NEW d \in FrameCaps, CopyFrame(c, d) PROVE k' \in State /\ ASIDsKept(k, k')
  <2>1. k' = [k EXCEPT !.frameCap[d] = [frame |-> k.frameCap[c].frame, asid |-> asidInvalid, vaddr |-> Null]]
    BY <1>4, <1>6 DEF CopyFrame
  <2>2. k.frameCap[c].frame \in Frames \cup {Null}
    BY <1>0
  <2> QED BY <1>0, <1>3, <2>1, <2>2
<1>7. ASSUME NEW p \in PTs, CopyPageTable(p) PROVE k' \in State /\ ASIDsKept(k, k')
  <2> DEFINE cap == [k.ptCap EXCEPT ![p].n = @ + 1]
  <2>1. k' = [k EXCEPT !.ptCap = cap]
    BY <1>7 DEF CopyPageTable
  <2>2. cap \in [PTs -> [n : Nat, asid : ASIDs, vaddr : Addrs \cup {Null}]]
    BY <1>0, SMTT(30)
  <2> HIDE DEF cap
  <2> QED BY <2>1, <2>2 DEF State, ASIDsKept, PoolsSame
<1> QED BY <1>1, <1>2, <1>5, <1>6, <1>7

PTCapType == [PTs -> [n : Nat, asid : ASIDs, vaddr : Addrs \cup {Null}]]

FrameCapType == [FrameCaps -> [frame : Frames \cup {Null}, asid : ASIDs, vaddr : Addrs \cup {Null}]]

\* Writing capabilities to page tables
LEMMA SetPTCap ==
  ASSUME NEW kk \in State, NEW cap \in PTCapType, NEW r, r = [kk EXCEPT !.ptCap = cap]
  PROVE  /\ r \in State /\ ASIDsKept(kk, r) /\ r.tlb = kk.tlb /\ r.pte = kk.pte /\ r.ptCap = cap
         /\ r.vsCap = kk.vsCap /\ r.frameCap = kk.frameCap /\ r.tcbVTable = kk.tcbVTable
  BY DEF State, ASIDsKept, PoolsSame, PTCapType

\* and to frames
LEMMA SetFrameCap ==
  ASSUME NEW kk \in State, NEW cap \in FrameCapType, NEW r, r = [kk EXCEPT !.frameCap = cap]
  PROVE  /\ r \in State /\ ASIDsKept(kk, r) /\ r.tlb = kk.tlb /\ r.pte = kk.pte /\ r.frameCap = cap
         /\ r.vsCap = kk.vsCap /\ r.ptCap = kk.ptCap /\ r.tcbVTable = kk.tcbVTable
  BY DEF State, ASIDsKept, PoolsSame, FrameCapType

\* Pages and tables mapped, unmapped and deleted
LEMMA MapSteps ==
  ASSUME k \in State
  PROVE  /\ \A p \in PTs, v \in VRoots, w \in VAddrs : PageTableMap(p, v, w) => k' \in State /\ ASIDsKept(k, k')
         /\ \A p \in PTs : PageTableUnmap(p) => k' \in State /\ ASIDsKept(k, k')
         /\ \A p \in PTs : DeletePageTable(p) => k' \in State /\ ASIDsKept(k, k')
         /\ \A c \in FrameCaps, v \in VRoots, w \in VAddrs :
              performPageInvocationMap(c, v, w) => k' \in State /\ ASIDsKept(k, k')
         /\ \A c \in FrameCaps : performPageInvocationUnmap(c) => k' \in State /\ ASIDsKept(k, k')
         /\ \A c \in FrameCaps : DeleteFrame(c) => k' \in State /\ ASIDsKept(k, k')
<1>0. /\ k.vsCap \in [VRoots -> [exists : BOOLEAN, asid : ASIDs]] /\ k.ptCap \in PTCapType
      /\ k.frameCap \in FrameCapType /\ asidInvalid \in ASIDs /\ VAddrs \subseteq Addrs
      /\ k.pte \in [Tables -> [Index -> PTs \cup Frames \cup {Null}]]
      /\ noEntries \in [Index -> PTs \cup Frames \cup {Null}]
  BY Fields, InvalidASID, VSpaceConstants DEF PTCapType, FrameCapType, Addrs, noEntries
<1>1. ASSUME NEW p \in PTs, NEW v \in VRoots, NEW w \in VAddrs, PageTableMap(p, v, w)
      PROVE  k' \in State /\ ASIDsKept(k, k')
  <2> DEFINE slot == lookupPTSlot(k, v, w)
             a    == k.vsCap[v].asid
             u    == alignTo(w, slot.level)
             k1   == [k EXCEPT !.pte[slot.pt][slot.i] = p]
             cap  == [k.ptCap EXCEPT ![p].asid = a, ![p].vaddr = u]
  <2>1. k' = [k EXCEPT !.pte[slot.pt][slot.i] = p, !.ptCap[p].asid = a, !.ptCap[p].vaddr = u]
    BY <1>1 DEF PageTableMap
  <2>2. a \in ASIDs /\ u \in Addrs /\ p \in PTs \cup Frames \cup {Null}
    BY <1>0, AlignType
  <2> HIDE DEF slot, a, u
  <2>3. k' = [k1 EXCEPT !.ptCap = cap]
    BY <2>1 DEF State
  <2>4. cap \in PTCapType
    BY <1>0, <2>2 DEF PTCapType
  <2>5. k1 \in State /\ ASIDsKept(k, k1)
    BY <2>2, SetEntry
  <2> HIDE DEF k1, cap
  <2>6. k' \in State /\ ASIDsKept(k1, k')
    BY <2>3, <2>4, <2>5, SetPTCap
  <2> QED BY <2>5, <2>6, KeptThen
<1>2. ASSUME NEW p \in PTs, PageTableUnmap(p) PROVE k' \in State /\ ASIDsKept(k, k')
  <2> DEFINE k1  == unmapPageTable(k, k.ptCap[p].asid, k.ptCap[p].vaddr, p)
             pte == [k1.pte EXCEPT ![p] = noEntries]
             cap == [k1.ptCap EXCEPT ![p].asid = asidInvalid, ![p].vaddr = Null]
  <2>1. k' = [k1 EXCEPT !.pte = pte, !.ptCap = cap]
    BY <1>2 DEF PageTableUnmap
  <2>2. k1 \in State /\ ASIDsKept(k, k1) /\ CapsSame(k, k1)
    BY Unmap
  <2> HIDE DEF k1
  <2>3. k1.pte \in [Tables -> [Index -> PTs \cup Frames \cup {Null}]] /\ k1.ptCap \in PTCapType
    BY <2>2, Fields DEF PTCapType
  <2>4. pte \in [Tables -> [Index -> PTs \cup Frames \cup {Null}]]
    BY <1>0, <2>3
  <2>5. cap \in PTCapType
    BY <1>0, <2>3, SMTT(30) DEF PTCapType
  <2> HIDE DEF pte, cap
  <2>6. k' \in State /\ ASIDsKept(k1, k')
    BY <2>1, <2>2, <2>4, <2>5 DEF State, ASIDsKept, PoolsSame, PTCapType
  <2> QED BY <2>2, <2>6, KeptThen
<1>3. ASSUME NEW p \in PTs, DeletePageTable(p) PROVE k' \in State /\ ASIDsKept(k, k')
  <2> DEFINE k1  == IF k.ptCap[p].n = 1 /\ k.ptCap[p].asid # asidInvalid
                    THEN unmapPageTable(k, k.ptCap[p].asid, k.ptCap[p].vaddr, p) ELSE k
             cap == [k1.ptCap EXCEPT ![p].n = @ - 1]
  <2>1. k' = [k1 EXCEPT !.ptCap = cap] /\ k.ptCap[p].n > 0
    BY <1>3 DEF DeletePageTable
  <2>2. k1 \in State /\ ASIDsKept(k, k1) /\ CapsSame(k, k1)
    <3>1. ASIDsKept(k, k) /\ CapsSame(k, k)
      BY DEF ASIDsKept, CapsSame, PoolsSame
    <3> QED BY <3>1, Unmap
  <2> HIDE DEF k1
  <2>3. cap \in PTCapType
    <3>1. k1.ptCap = k.ptCap
      BY <2>2 DEF CapsSame
    <3> QED BY <1>0, <2>1, <3>1, SMTT(30) DEF PTCapType
  <2> HIDE DEF cap
  <2>4. k' \in State /\ ASIDsKept(k1, k')
    BY <2>1, <2>2, <2>3, SetPTCap
  <2> QED BY <2>2, <2>4, KeptThen
<1>4. ASSUME NEW c \in FrameCaps, NEW v \in VRoots, NEW w \in VAddrs, performPageInvocationMap(c, v, w)
      PROVE  k' \in State /\ ASIDsKept(k, k')
  <2> DEFINE slot == lookupPTSlot(k, v, w)
             a    == k.vsCap[v].asid
             f    == k.frameCap[c].frame
             k0   == [k EXCEPT !.pte[slot.pt][slot.i] = f]
             cap  == [k.frameCap EXCEPT ![c].asid = a, ![c].vaddr = w]
             k1   == [k EXCEPT !.frameCap[c].asid = a, !.frameCap[c].vaddr = w, !.pte[slot.pt][slot.i] = f]
  <2>1. k' = k1 \/ k' = invalidateTLBByASIDVA(k1, a, w)
    BY <1>4 DEF performPageInvocationMap
  <2>2. a \in ASIDs /\ w \in Addrs /\ f \in PTs \cup Frames \cup {Null}
    BY <1>0 DEF FrameCapType
  <2> HIDE DEF slot, a, f
  <2>3. k1 = [k0 EXCEPT !.frameCap = cap]
    BY DEF State
  <2>4. cap \in FrameCapType
    BY <1>0, <2>2 DEF FrameCapType
  <2>5. k0 \in State /\ ASIDsKept(k, k0)
    BY <2>2, SetEntry
  <2> HIDE DEF k0, k1, cap
  <2>6. k1 \in State /\ ASIDsKept(k0, k1)
    BY <2>3, <2>4, <2>5, SetFrameCap
  <2>7. ASIDsKept(k, k1)
    BY <2>5, <2>6, KeptThen
  <2>8. CASE k' = invalidateTLBByASIDVA(k1, a, w)
    <3>1. k' \in State /\ ASIDsKept(k1, k')
      BY <2>6, <2>8, Invalidate
    <3> QED BY <2>7, <3>1, KeptThen
  <2> QED BY <2>1, <2>6, <2>7, <2>8
<1>5. ASSUME NEW c \in FrameCaps
      PROVE  unmapFrameCap(k, c) \in State /\ ASIDsKept(k, unmapFrameCap(k, c)) /\ CapsSame(k, unmapFrameCap(k, c))
  <2>1. ASIDsKept(k, k) /\ CapsSame(k, k)
    BY DEF ASIDsKept, CapsSame, PoolsSame
  <2> QED BY <2>1, Unmap DEF unmapFrameCap
<1>6. ASSUME NEW c \in FrameCaps, performPageInvocationUnmap(c) PROVE k' \in State /\ ASIDsKept(k, k')
  <2> DEFINE k1  == unmapFrameCap(k, c)
             cap == [k1.frameCap EXCEPT ![c].asid = asidInvalid, ![c].vaddr = Null]
  <2>1. k' = [k1 EXCEPT !.frameCap = cap]
    BY <1>6 DEF performPageInvocationUnmap
  <2>2. k1 \in State /\ ASIDsKept(k, k1) /\ CapsSame(k, k1)
    BY <1>5
  <2> HIDE DEF k1
  <2>3. cap \in FrameCapType
    <3>1. k1.frameCap = k.frameCap
      BY <2>2 DEF CapsSame
    <3> QED BY <1>0, <3>1 DEF FrameCapType
  <2> HIDE DEF cap
  <2>4. k' \in State /\ ASIDsKept(k1, k')
    BY <2>1, <2>2, <2>3, SetFrameCap
  <2> QED BY <2>2, <2>4, KeptThen
<1>7. ASSUME NEW c \in FrameCaps, DeleteFrame(c) PROVE k' \in State /\ ASIDsKept(k, k')
  <2> DEFINE k1  == unmapFrameCap(k, c)
             cap == [k1.frameCap EXCEPT ![c] = noFrame]
  <2>1. k' = [k1 EXCEPT !.frameCap = cap]
    BY <1>7 DEF DeleteFrame
  <2>2. k1 \in State /\ ASIDsKept(k, k1) /\ CapsSame(k, k1)
    BY <1>5
  <2> HIDE DEF k1
  <2>3. cap \in FrameCapType
    <3>1. k1.frameCap = k.frameCap
      BY <2>2 DEF CapsSame
    <3> QED BY <1>0, <3>1 DEF FrameCapType, noFrame
  <2> HIDE DEF cap
  <2>4. k' \in State /\ ASIDsKept(k1, k')
    BY <2>1, <2>2, <2>3, SetFrameCap
  <2> QED BY <2>2, <2>4, KeptThen
<1> QED BY <1>1, <1>2, <1>3, <1>4, <1>6, <1>7

-----------------------------------------------------------------------------
(* New pools and new ASIDs *)

\* What an operation keeps that gives ASIDs roots and hardware ASIDs to none
LEMMA MoreASIDs ==
  ASSUME NEW kk, ASIDInv(kk), NEW r \in State, PoolsInv(r),
         r.armKSHWASIDTable = kk.armKSHWASIDTable, r.tlb \subseteq kk.tlb, r.ttbr = kk.ttbr,
         findVSpaceForASID(r, asidInvalid) = Null,
         \A c \in ASIDs : findMapForASID(r, c).stored = findMapForASID(kk, c).stored,
         \A c \in ASIDs : findVSpaceForASID(kk, c) # Null => findMapForASID(r, c) = findMapForASID(kk, c)
  PROVE  ASIDInv(r)
<1>0. HWASIDsInv(kk) /\ RootLoaded(kk)
  BY DEF ASIDInv
<1>1. HWASIDsInv(r)
  <2>1. ASSUME NEW c \in ASIDs, findMapForASID(r, c).stored # NoVMID PROVE findVSpaceForASID(r, c) # Null
    <3>1. findVSpaceForASID(kk, c) # Null
      BY <1>0, <2>1 DEF HWASIDsInv
    <3> QED BY <3>1 DEF findVSpaceForASID
  <2>2. \A e \in r.tlb : r.armKSHWASIDTable[e.vmid] # asidInvalid
    BY <1>0 DEF HWASIDsInv
  <2>3. \A h \in HWASIDs, c \in ASIDs \ {asidInvalid} :
          r.armKSHWASIDTable[h] = c <=> findMapForASID(r, c).stored = h
    <3>1. \A h \in HWASIDs, c \in ASIDs \ {asidInvalid} :
            kk.armKSHWASIDTable[h] = c <=> findMapForASID(kk, c).stored = h
      BY <1>0 DEF HWASIDsInv
    <3> QED BY <3>1, SMTT(30)
  <2> QED BY <2>1, <2>2, <2>3 DEF HWASIDsInv
<1>2. RootLoaded(r)
  <2> SUFFICES ASSUME kk.ttbr.root # Null
               PROVE  \E a \in ASIDs : findMapForASID(r, a) = [vspace_root |-> kk.ttbr.root, stored |-> kk.ttbr.vmid]
    BY DEF RootLoaded
  <2>1. PICK a \in ASIDs : findMapForASID(kk, a) = [vspace_root |-> kk.ttbr.root, stored |-> kk.ttbr.vmid]
    BY <1>0 DEF RootLoaded
  <2>2. findVSpaceForASID(kk, a) # Null
    BY <2>1, SMTT(30) DEF findVSpaceForASID
  <2> QED BY <2>1, <2>2
<1> QED BY <1>1, <1>2 DEF ASIDInv

\* ARMASIDControlMakePool: no ASID of the new pool is in use
LEMMA MakePool ==
  ASSUME ASIDInv(k), NEW p \in Pools, performASIDControlInvocation(p)
  PROVE  ASIDInv(k') /\ Retires(k, {}, k')
<1> DEFINE free  == {i \in Hi : k.armKSASIDTable[i] = Null}
           m     == Min(free)
           table == [k.armKSASIDTable EXCEPT ![m] = p]
           arr   == [k.array EXCEPT ![p] = [i \in Lo |-> noMap]]
           caps  == [k.poolCap EXCEPT ![p] = m * asidLowSize]
<1>0. /\ k \in State /\ PoolsInv(k) /\ HWASIDsInv(k)
      /\ k.armKSASIDTable \in [Hi -> Pools \cup {Null}] /\ k.array \in [Pools -> [Lo -> ASIDMap]]
      /\ k.poolCap \in [Pools -> {-1} \cup {i * asidLowSize : i \in Hi}]
  BY Fields DEF ASIDInv
<1>1. k.poolCap[p] = -1 /\ free # {} /\ k' = [k EXCEPT !.poolCap = caps, !.array = arr, !.armKSASIDTable = table]
  BY DEF performASIDControlInvocation, Hi, Lo
<1>2. m \in Hi /\ k.armKSASIDTable[m] = Null
  <2>1. free \in SUBSET Nat
    BY SMTT(30) DEF Hi
  <2> HIDE DEF free
  <2>2. m \in free
    BY <1>1, <2>1, MinOfSet
  <2> QED BY <2>2 DEF free
<1>3. \A j \in Hi : k.armKSASIDTable[j] # p
  <2> SUFFICES ASSUME NEW j \in Hi, k.armKSASIDTable[j] = p PROVE FALSE
    OBVIOUS
  <2>1. k.poolCap[p] = j * asidLowSize
    BY <1>0 DEF PoolsInv, Hi
  <2> QED BY <1>1, <2>1, VSpaceConstants, SMTT(30) DEF Hi
<1>4. noMap \in ASIDMap
  BY DEF noMap, ASIDMap
<1> HIDE DEF free, m
<1>5. arr \in [Pools -> [Lo -> ASIDMap]] /\ table \in [Hi -> Pools \cup {Null}]
      /\ caps \in [Pools -> {-1} \cup {i * asidLowSize : i \in Hi}]
  BY <1>0, <1>2, <1>4
<1>6. /\ \A i \in Hi : table[i] = IF i = m THEN p ELSE k.armKSASIDTable[i]
      /\ \A q \in Pools : arr[q] = IF q = p THEN [i \in Lo |-> noMap] ELSE k.array[q]
      /\ \A q \in Pools : caps[q] = IF q = p THEN m * asidLowSize ELSE k.poolCap[q]
  BY <1>0, <1>2
<1> HIDE DEF table, arr, caps
<1>7. /\ k' \in State /\ PagesSame(k, k') /\ k'.poolCap = caps /\ k'.array = arr /\ k'.armKSASIDTable = table
      /\ k'.armKSHWASIDTable = k.armKSHWASIDTable /\ k'.tlb = k.tlb /\ k'.ttbr = k.ttbr
  BY <1>0, <1>1, <1>5 DEF State, PagesSame, Hi, Lo
<1>8. PoolsInv(k')
  <2> SUFFICES ASSUME NEW i \in Hi, NEW q \in Pools, table[i] = q PROVE caps[q] = i * asidLowSize
    BY <1>7 DEF PoolsInv, Hi
  <2>1. CASE i = m
    BY <1>6, <2>1
  <2>2. CASE i # m
    <3>1. k.armKSASIDTable[i] = q /\ q # p
      BY <1>3, <1>6, <2>2
    <3>2. k.poolCap[q] = i * asidLowSize
      BY <1>0, <3>1 DEF PoolsInv, Hi
    <3> QED BY <1>6, <3>1, <3>2
  <2> QED BY <2>1, <2>2
<1>9. ASSUME NEW c \in ASIDs PROVE findMapForASID(k', c) = findMapForASID(k, c)
  <2> DEFINE i == ASID_HIGH(c)
             j == ASID_LOW(c)
  <2>1. i \in Hi /\ j \in Lo
    BY ASIDParts
  <2>2. findMapForASID(k', c) = IF table[i] = Null THEN noMap ELSE arr[table[i]][j]
    BY <1>7 DEF findMapForASID
  <2>3. findMapForASID(k, c) = IF k.armKSASIDTable[i] = Null THEN noMap ELSE k.array[k.armKSASIDTable[i]][j]
    BY DEF findMapForASID
  <2> HIDE DEF i, j
  <2>4. CASE i = m
    <3>1. table[i] = p
      BY <1>6, <2>1, <2>4
    <3>2. arr[p] = [n \in Lo |-> noMap]
      BY <1>6
    <3>3. arr[p][j] = noMap
      BY <2>1, <3>2
    <3>4. p # Null
      BY VSpaceConstants
    <3> QED BY <1>2, <2>2, <2>3, <2>4, <3>1, <3>3, <3>4
  <2>5. CASE i # m
    <3>1. table[i] = k.armKSASIDTable[i]
      BY <1>6, <2>1, <2>5
    <3>2. k.armKSASIDTable[i] # p /\ k.armKSASIDTable[i] \in Pools \cup {Null}
      BY <1>0, <1>3, <2>1
    <3>3. k.armKSASIDTable[i] # Null => arr[k.armKSASIDTable[i]] = k.array[k.armKSASIDTable[i]]
      BY <1>6, <3>2
    <3> QED BY <2>2, <2>3, <3>1, <3>3, SMTT(30)
  <2> QED BY <2>4, <2>5
<1>10. \A c \in ASIDs : findVSpaceForASID(k', c) = findVSpaceForASID(k, c)
  BY <1>9 DEF findVSpaceForASID
<1>11. ASIDInv(k')
  <2>1. findVSpaceForASID(k', asidInvalid) = Null
    BY <1>0, <1>10, InvalidASID DEF HWASIDsInv
  <2>2. \A c \in ASIDs : findMapForASID(k', c).stored = findMapForASID(k, c).stored
    BY <1>9
  <2>3. k'.tlb \subseteq k.tlb
    BY <1>7
  <2> QED BY <1>7, <1>8, <1>9, <2>1, <2>2, <2>3, MoreASIDs
<1>12. Retires(k, {}, k')
  BY <1>7, <1>10 DEF Retires
<1> QED BY <1>11, <1>12

\* ARMASIDPoolAssign
LEMMA AssignASID ==
  ASSUME ASIDInv(k), NEW p \in Pools, NEW v \in VRoots, performASIDPoolInvocation(p, v)
  PROVE  ASIDInv(k') /\ \E a \in ASIDs \ {asidInvalid} : Assigns(k, a, v, k')
<1> DEFINE base == k.poolCap[p]
           free == {i \in Lo : base + i # 0 /\ k.array[p][i] = noMap}
           j    == Min(free)
           a    == base + j
           x    == [vspace_root |-> v, stored |-> NoVMID]
           arr  == [k.array EXCEPT ![p][j] = x]
           caps == [k.vsCap EXCEPT ![v].asid = a]
<1>0. /\ k \in State /\ PoolsInv(k) /\ HWASIDsInv(k)
      /\ k.armKSASIDTable \in [Hi -> Pools \cup {Null}] /\ k.array \in [Pools -> [Lo -> ASIDMap]]
      /\ k.poolCap \in [Pools -> {-1} \cup {i * asidLowSize : i \in Hi}]
      /\ k.vsCap \in [VRoots -> [exists : BOOLEAN, asid : ASIDs]]
  BY Fields DEF ASIDInv
<1>1. /\ base # -1 /\ k.armKSASIDTable[ASID_HIGH(base)] = p /\ free # {}
      /\ k' = [k EXCEPT !.vsCap = caps, !.array = arr]
  BY DEF performASIDPoolInvocation, Lo
<1>2. j \in Lo /\ base + j # 0 /\ k.array[p][j] = noMap
  <2>1. free \in SUBSET Nat
    BY SMTT(30) DEF Lo
  <2> HIDE DEF free
  <2>2. j \in free
    BY <1>1, <2>1, MinOfSet
  <2> QED BY <2>2 DEF free
<1> HIDE DEF free, j
<1>3. PICK i \in Hi : base = i * asidLowSize
  BY <1>0, <1>1
<1>4. ASID_HIGH(base) = i
  BY <1>3, PoolBase
<1>5. a \in ASIDs /\ a # asidInvalid /\ ASID_HIGH(a) = i /\ ASID_LOW(a) = j
  <2>1. a = i * asidLowSize + j
    BY <1>3
  <2>2. a # asidInvalid
    BY <1>2 DEF asidInvalid
  <2> HIDE DEF a
  <2> QED BY <1>2, <2>1, <2>2, ASIDOf
<1>6. k.armKSASIDTable[ASID_HIGH(a)] = p /\ p # Null
  BY <1>1, <1>4, <1>5, VSpaceConstants
<1>7. findMapForASID(k, a) = noMap
  BY <1>2, <1>5, <1>6 DEF findMapForASID
<1> HIDE DEF a, base
<1>8. caps \in [VRoots -> [exists : BOOLEAN, asid : ASIDs]]
  BY <1>0, <1>5
<1>9. x \in ASIDMap
  BY DEF ASIDMap
<1>9a. x.vspace_root = v /\ x.stored = NoVMID /\ noMap.vspace_root = Null /\ noMap.stored = NoVMID
  BY DEF noMap
<1> HIDE DEF x
<1>10. arr \in [Pools -> [Lo -> ASIDMap]]
  <2>1. [k.array[p] EXCEPT ![j] = x] \in [Lo -> ASIDMap]
    BY <1>0, <1>9
  <2> QED BY <1>0, <2>1
<1> HIDE DEF caps
<1>11. /\ k' \in State /\ k'.vsCap = caps /\ k'.array = arr /\ PoolsSame(k, k')
       /\ k'.armKSHWASIDTable = k.armKSHWASIDTable /\ k'.tlb = k.tlb /\ k'.ttbr = k.ttbr
       /\ k'.pte = k.pte /\ k'.ptCap = k.ptCap /\ k'.frameCap = k.frameCap /\ k'.tcbVTable = k.tcbVTable
  <2> HIDE DEF arr
  <2> QED BY <1>0, <1>1, <1>8, <1>10 DEF State, PoolsSame, Hi, Lo
<1>12. EntrySet(k, a, x, k')
  BY <1>5, <1>6, <1>11 DEF EntrySet, PoolsSame
<1> HIDE DEF arr
<1>13. \A c \in ASIDs : findMapForASID(k', c) = IF c = a THEN x ELSE findMapForASID(k, c)
  BY <1>0, <1>5, <1>9, <1>12, MapSet, SMTT(30)
<1>14. \A c \in ASIDs : findVSpaceForASID(k', c) = IF c = a THEN v ELSE findVSpaceForASID(k, c)
  BY <1>9a, <1>13 DEF findVSpaceForASID
<1>15. findVSpaceForASID(k, a) = Null
  BY <1>7, <1>9a DEF findVSpaceForASID
<1>16. ASIDInv(k')
  <2>1. findVSpaceForASID(k', asidInvalid) = Null
    BY <1>0, <1>5, <1>14, InvalidASID DEF HWASIDsInv
  <2>2. \A c \in ASIDs : findMapForASID(k', c).stored = findMapForASID(k, c).stored
    BY <1>7, <1>9a, <1>13
  <2>3. k'.tlb \subseteq k.tlb
    BY <1>11
  <2>4. \A c \in ASIDs : findVSpaceForASID(k, c) # Null => findMapForASID(k', c) = findMapForASID(k, c)
    BY <1>13, <1>15
  <2>5. PoolsInv(k')
    BY <1>0, <1>11, PoolsKept
  <2> QED BY <1>11, <2>1, <2>2, <2>3, <2>4, <2>5, MoreASIDs
<1>17. Assigns(k, a, v, k')
  BY <1>11, <1>14, <1>15 DEF Assigns, caps
<1> QED BY <1>5, <1>16, <1>17

-----------------------------------------------------------------------------
(* Deleting roots and pools, and switching threads *)

\* Capabilities to roots go after ASIDs were retired
CapsGo(kk, gone, s, r) ==
  /\ r \in State /\ ASIDsKept(s, r) /\ r.pte = s.pte /\ r.ptCap = s.ptCap /\ r.frameCap = s.frameCap
  /\ \A v \in VRoots : r.vsCap[v].asid = s.vsCap[v].asid /\ (r.vsCap[v].exists => s.vsCap[v].exists)
  /\ \A c \in ASIDs \ gone, w \in VRoots :
       findVSpaceForASID(kk, c) = w /\ kk.vsCap[w].asid = c /\ c # asidInvalid /\ ~lastVSpaceCap(kk, w)
         => ~lastVSpaceCap(r, w)

\* Then the ASIDs retired are dropped
LEMMA DropCaps ==
  ASSUME NEW kk, NEW gone, NEW s, Retires(kk, gone, s), ASIDInv(s), NEW r, CapsGo(kk, gone, s, r)
  PROVE  ASIDInv(r) /\ Drops(kk, gone, r)
<1>0. /\ r \in State /\ ASIDsKept(s, r) /\ r.pte = s.pte /\ r.ptCap = s.ptCap /\ r.frameCap = s.frameCap
      /\ \A v \in VRoots : r.vsCap[v].asid = s.vsCap[v].asid /\ (r.vsCap[v].exists => s.vsCap[v].exists)
      /\ \A c \in ASIDs \ gone, w \in VRoots :
           findVSpaceForASID(kk, c) = w /\ kk.vsCap[w].asid = c /\ c # asidInvalid /\ ~lastVSpaceCap(kk, w)
             => ~lastVSpaceCap(r, w)
  BY DEF CapsGo
<1>1. ASIDInv(r) /\ \A c \in ASIDs : findVSpaceForASID(r, c) = findVSpaceForASID(s, c)
  BY <1>0, KeptASIDs
<1>2. r.pte = kk.pte /\ r.ptCap = kk.ptCap /\ r.frameCap = kk.frameCap /\ s.vsCap = kk.vsCap
  BY <1>0 DEF Retires, PagesSame
<1>3. \A e \in r.tlb : /\ e \in kk.tlb /\ kk.armKSHWASIDTable[e.vmid] \notin gone
                       /\ r.armKSHWASIDTable[e.vmid] = kk.armKSHWASIDTable[e.vmid]
  <2>1. r.armKSHWASIDTable = s.armKSHWASIDTable /\ r.tlb \subseteq s.tlb
    BY <1>0 DEF ASIDsKept
  <2>2. \A e \in s.tlb : /\ e \in kk.tlb /\ kk.armKSHWASIDTable[e.vmid] \notin gone
                         /\ s.armKSHWASIDTable[e.vmid] = kk.armKSHWASIDTable[e.vmid]
    BY DEF Retires
  <2> QED BY <2>1, <2>2, SMTT(30)
<1>4. \A c \in ASIDs :
        findVSpaceForASID(r, c) = IF c \in gone THEN Null ELSE findVSpaceForASID(kk, c)
  BY <1>1 DEF Retires
<1> QED BY <1>0, <1>1, <1>2, <1>3, <1>4 DEF Drops

\* Retiring is dropping
LEMMA RetireDrops ==
  ASSUME NEW kk, NEW gone, NEW r, Retires(kk, gone, r)
  PROVE  Drops(kk, gone, r)
<1>1. r.vsCap = kk.vsCap /\ r.tcbVTable = kk.tcbVTable
  BY DEF Retires, PagesSame
<1>2. \A v : lastVSpaceCap(r, v) <=> lastVSpaceCap(kk, v)
  BY <1>1 DEF lastVSpaceCap
<1> QED BY <1>1, <1>2 DEF Drops, Retires, PagesSame

\* finaliseVSpace of the last capability to a root in use retires its ASID
LEMMA FinaliseVSpace ==
  ASSUME NEW kk, ASIDInv(kk), NEW v \in VRoots, NEW final \in BOOLEAN, NEW r, r = finaliseVSpace(kk, v, final)
  PROVE  /\ ASIDInv(r) /\ PoolsSame(kk, r)
         /\ \E gone \in SUBSET (ASIDs \ {asidInvalid}) :
              /\ Retires(kk, gone, r)
              /\ final /\ kk.vsCap[v].asid # asidInvalid /\ findVSpaceForASID(kk, kk.vsCap[v].asid) = v
                   => kk.vsCap[v].asid \in gone
<1> DEFINE a == kk.vsCap[v].asid
<1>0. a \in ASIDs
  <2>1. kk.vsCap \in [VRoots -> [exists : BOOLEAN, asid : ASIDs]]
    BY Fields DEF ASIDInv
  <2> QED BY <2>1
<1>1. r = IF final /\ a # asidInvalid THEN deleteASID(kk, a, v) ELSE kk
  BY DEF finaliseVSpace
<1> HIDE DEF a
<1> SUFFICES /\ ASIDInv(r) /\ PoolsSame(kk, r)
             /\ \E gone \in SUBSET (ASIDs \ {asidInvalid}) :
                  /\ Retires(kk, gone, r)
                  /\ final /\ a # asidInvalid /\ findVSpaceForASID(kk, a) = v => a \in gone
  BY DEF a
<1>2. CASE final /\ a # asidInvalid
  <2> DEFINE gone == IF findVSpaceForASID(kk, a) = v THEN {a} ELSE {}
  <2>1. ASIDInv(r) /\ PoolsSame(kk, r) /\ Retires(kk, gone, r)
    BY <1>0, <1>1, <1>2, DeleteASID
  <2>2. gone \in SUBSET (ASIDs \ {asidInvalid}) /\ (findVSpaceForASID(kk, a) = v => a \in gone)
    BY <1>0, <1>2
  <2> HIDE DEF gone
  <2> QED BY <2>1, <2>2
<1>3. CASE ~(final /\ a # asidInvalid)
  <2>1. r = kk
    BY <1>1, <1>3
  <2>2. Retires(kk, {}, kk)
    BY DEF Retires, PagesSame, ASIDInv
  <2> QED BY <1>3, <2>1, <2>2 DEF PoolsSame
<1> QED BY <1>2, <1>3

\* DeleteVSpace drops the ASID with the last capability to its root
LEMMA DeleteVSpaceStep ==
  ASSUME ASIDInv(k), NEW v \in VRoots, DeleteVSpace(v)
  PROVE  ASIDInv(k') /\ \E gone \in SUBSET (ASIDs \ {asidInvalid}) : Drops(k, gone, k')
<1> DEFINE final == \A t \in Threads : k.tcbVTable[t] # v
           s     == finaliseVSpace(k, v, final)
           caps  == [s.vsCap EXCEPT ![v].exists = FALSE]
<1>1. k' = [s EXCEPT !.vsCap = caps]
  BY DEF DeleteVSpace
<1>2. final \in BOOLEAN
  BY SMTT(30)
<1>3. ASIDInv(s)
  <2> HIDE DEF final
  <2> QED BY <1>2, FinaliseVSpace
<1>4. PICK gone \in SUBSET (ASIDs \ {asidInvalid}) :
        /\ Retires(k, gone, s)
        /\ final /\ k.vsCap[v].asid # asidInvalid /\ findVSpaceForASID(k, k.vsCap[v].asid) = v
             => k.vsCap[v].asid \in gone
  <2> HIDE DEF final
  <2> QED BY <1>2, FinaliseVSpace
<1> HIDE DEF s
<1>5. s \in State /\ s.vsCap \in [VRoots -> [exists : BOOLEAN, asid : ASIDs]]
      /\ s.vsCap = k.vsCap /\ s.tcbVTable = k.tcbVTable
  BY <1>3, <1>4, Fields DEF ASIDInv, Retires, PagesSame
<1>6. /\ caps \in [VRoots -> [exists : BOOLEAN, asid : ASIDs]]
      /\ \A w \in VRoots : caps[w].asid = s.vsCap[w].asid /\ (caps[w].exists => s.vsCap[w].exists)
      /\ \A w \in VRoots : w # v => caps[w] = s.vsCap[w]
  BY <1>5
<1> HIDE DEF caps
<1>7. /\ k' \in State /\ ASIDsKept(s, k') /\ k'.pte = s.pte /\ k'.ptCap = s.ptCap /\ k'.frameCap = s.frameCap
      /\ k'.vsCap = caps /\ k'.tcbVTable = s.tcbVTable
  BY <1>1, <1>5, <1>6 DEF State, ASIDsKept, PoolsSame
<1>8. ASSUME NEW c \in ASIDs \ gone, NEW w \in VRoots, findVSpaceForASID(k, c) = w, k.vsCap[w].asid = c,
             c # asidInvalid, ~lastVSpaceCap(k, w)
      PROVE  ~lastVSpaceCap(k', w)
  <2>1. CASE w = v
    <3>1. ~final
      BY <1>4, <1>8, <2>1
    <3> QED BY <1>5, <1>7, <2>1, <3>1 DEF lastVSpaceCap
  <2>2. CASE w # v
    <3>1. k'.vsCap[w] = k.vsCap[w] /\ k'.tcbVTable = k.tcbVTable
      BY <1>5, <1>6, <1>7, <2>2
    <3> QED BY <1>8, <3>1 DEF lastVSpaceCap
  <2> QED BY <2>1, <2>2
<1>9. \A w \in VRoots : k'.vsCap[w].asid = s.vsCap[w].asid /\ (k'.vsCap[w].exists => s.vsCap[w].exists)
  BY <1>6, <1>7
<1>10. CapsGo(k, gone, s, k')
  BY <1>7, <1>8, <1>9 DEF CapsGo
<1>11. ASIDInv(k') /\ Drops(k, gone, k')
  BY <1>3, <1>4, <1>10, DropCaps
<1> QED BY <1>11

\* deleteVTable likewise, whatever the slot gets next
LEMMA DeleteVTable ==
  ASSUME NEW kk, ASIDInv(kk), NEW t \in Threads, NEW s, s = deleteVTable(kk, t),
         NEW v \in VRoots \cup {Null}, NEW r, r = [s EXCEPT !.tcbVTable[t] = v]
  PROVE  /\ ASIDInv(r) /\ (kk.tcbVTable[t] # Null /\ v = Null => r = s)
         /\ \E gone \in SUBSET (ASIDs \ {asidInvalid}) : Drops(kk, gone, r)
<1> DEFINE u     == kk.tcbVTable[t]
           final == lastVSpaceCap([kk EXCEPT !.tcbVTable[t] = Null], u)
           z     == IF u = Null THEN kk ELSE finaliseVSpace(kk, u, final)
           tab   == [kk.tcbVTable EXCEPT ![t] = v]
<1>0. /\ kk \in State /\ kk.tcbVTable \in [Threads \cup {idle} -> VRoots \cup {Null}]
      /\ u \in VRoots \cup {Null} /\ final \in BOOLEAN
  <2>1. kk \in State /\ kk.tcbVTable \in [Threads \cup {idle} -> VRoots \cup {Null}]
    BY Fields DEF ASIDInv
  <2>2. final \in BOOLEAN
    BY DEF lastVSpaceCap
  <2> QED BY <2>1, <2>2
<1>1. s = IF u = Null THEN kk ELSE [finaliseVSpace(kk, u, final) EXCEPT !.tcbVTable[t] = Null]
  BY DEF deleteVTable
<1>2. u # Null => (final <=> ~kk.vsCap[u].exists /\ \A d \in Threads : tab[d] = u => d = t)
  <2> DEFINE k1 == [kk EXCEPT !.tcbVTable[t] = Null]
  <2>1. k1.vsCap = kk.vsCap /\ k1.tcbVTable = [kk.tcbVTable EXCEPT ![t] = Null]
    BY <1>0 DEF State
  <2>2. final <=> ~k1.vsCap[u].exists /\ \A d \in Threads : k1.tcbVTable[d] # u
    BY DEF lastVSpaceCap
  <2>3. \A d \in Threads : /\ [kk.tcbVTable EXCEPT ![t] = Null][d] = IF d = t THEN Null ELSE kk.tcbVTable[d]
                           /\ tab[d] = IF d = t THEN v ELSE kk.tcbVTable[d]
    BY <1>0
  <2>4. \A d \in Threads : k1.tcbVTable[d] = IF d = t THEN Null ELSE kk.tcbVTable[d]
    BY <2>1, <2>3
  <2> HIDE DEF k1, final, tab, u
  <2> SUFFICES ASSUME u # Null PROVE final <=> ~kk.vsCap[u].exists /\ \A d \in Threads : tab[d] = u => d = t
    OBVIOUS
  <2>5. \A d \in Threads : k1.tcbVTable[d] # u <=> (tab[d] = u => d = t)
    BY <2>3, <2>4, SMTT(30)
  <2>6. (\A d \in Threads : k1.tcbVTable[d] # u) <=> (\A d \in Threads : tab[d] = u => d = t)
    BY <2>5
  <2>7. k1.vsCap[u].exists = kk.vsCap[u].exists
    BY <2>1
  <2> QED BY <2>2, <2>6, <2>7
<1> HIDE DEF final, u
<1>3. ASIDInv(z) /\ \E gone \in SUBSET (ASIDs \ {asidInvalid}) :
        /\ Retires(kk, gone, z)
        /\ u # Null /\ final /\ kk.vsCap[u].asid # asidInvalid /\ findVSpaceForASID(kk, kk.vsCap[u].asid) = u
             => kk.vsCap[u].asid \in gone
  <2>1. CASE u = Null
    <3>1. Retires(kk, {}, kk)
      BY DEF Retires, PagesSame, ASIDInv
    <3>2. z = kk
      BY <2>1
    <3> HIDE DEF z
    <3> QED BY <2>1, <3>1, <3>2
  <2>2. CASE u # Null
    BY <1>0, <2>2, FinaliseVSpace
  <2> QED BY <2>1, <2>2
<1>4. PICK gone \in SUBSET (ASIDs \ {asidInvalid}) :
        /\ Retires(kk, gone, z)
        /\ u # Null /\ final /\ kk.vsCap[u].asid # asidInvalid /\ findVSpaceForASID(kk, kk.vsCap[u].asid) = u
             => kk.vsCap[u].asid \in gone
  BY <1>3
<1>5. s \in {z, [z EXCEPT !.tcbVTable[t] = Null]} /\ (u # Null => s = [z EXCEPT !.tcbVTable[t] = Null])
  BY <1>1
<1> HIDE DEF z
<1>6. z \in State /\ z.vsCap = kk.vsCap /\ z.tcbVTable = kk.tcbVTable
  BY <1>3, <1>4 DEF ASIDInv, Retires, PagesSame
<1>7. r = [z EXCEPT !.tcbVTable = tab]
  <2>1. CASE s = z
    BY <1>6, <2>1 DEF State
  <2>2. CASE s = [z EXCEPT !.tcbVTable[t] = Null]
    <3>1. [[kk.tcbVTable EXCEPT ![t] = Null] EXCEPT ![t] = v] = tab
      BY <1>0
    <3>2. s = [z EXCEPT !.tcbVTable = [kk.tcbVTable EXCEPT ![t] = Null]]
      BY <1>6, <2>2
    <3>3. s.tcbVTable = [kk.tcbVTable EXCEPT ![t] = Null]
      BY <1>6, <3>2 DEF State
    <3>4. r = [s EXCEPT !.tcbVTable = tab]
      BY <3>1, <3>3
    <3> HIDE DEF tab
    <3> QED BY <1>6, <3>2, <3>4 DEF State
  <2> QED BY <1>5, <2>1, <2>2
<1>8. tab \in [Threads \cup {idle} -> VRoots \cup {Null}] /\ \A d \in Threads : d # t => tab[d] = kk.tcbVTable[d]
  BY <1>0
<1>8a. u # Null /\ v = Null => r = s
  BY <1>5, <1>6, <1>7
<1> HIDE DEF tab
<1>9. /\ r \in State /\ ASIDsKept(z, r) /\ r.pte = z.pte /\ r.ptCap = z.ptCap /\ r.frameCap = z.frameCap
      /\ r.vsCap = z.vsCap /\ r.tcbVTable = tab
  BY <1>6, <1>7, <1>8 DEF State, ASIDsKept, PoolsSame
<1>10. ASSUME NEW c \in ASIDs \ gone, NEW w \in VRoots, findVSpaceForASID(kk, c) = w, kk.vsCap[w].asid = c,
              c # asidInvalid, ~lastVSpaceCap(kk, w)
       PROVE  ~lastVSpaceCap(r, w)
  <2>0. w # Null /\ u = kk.tcbVTable[t]
    BY VSpaceConstants DEF u
  <2>1. CASE w = u
    <3>1. ~final
      BY <1>4, <1>10, <2>0, <2>1
    <3>2. kk.vsCap[w].exists \/ \E d \in Threads : tab[d] = w
      BY <1>2, <2>0, <2>1, <3>1
    <3> QED BY <1>6, <1>9, <3>2 DEF lastVSpaceCap
  <2>2. CASE w # u
    <3>1. kk.vsCap[w].exists \/ \E d \in Threads : kk.tcbVTable[d] = w
      BY <1>10 DEF lastVSpaceCap
    <3>2. kk.vsCap[w].exists \/ \E d \in Threads : tab[d] = w
      BY <1>8, <2>0, <2>2, <3>1
    <3> QED BY <1>6, <1>9, <3>2 DEF lastVSpaceCap
  <2> QED BY <2>1, <2>2
<1>11. ASIDInv(r) /\ Drops(kk, gone, r)
  <2>1. \A w \in VRoots : r.vsCap[w].asid = z.vsCap[w].asid /\ (r.vsCap[w].exists => z.vsCap[w].exists)
    BY <1>9
  <2>2. \A c \in ASIDs \ gone, w \in VRoots :
          findVSpaceForASID(kk, c) = w /\ kk.vsCap[w].asid = c /\ c # asidInvalid /\ ~lastVSpaceCap(kk, w)
            => ~lastVSpaceCap(r, w)
    BY <1>10
  <2>3. CapsGo(kk, gone, z, r)
    BY <1>9, <2>1, <2>2 DEF CapsGo
  <2> QED BY <1>3, <1>4, <2>3, DropCaps
<1> QED BY <1>8a, <1>11 DEF u

\* What is left after ASIDs were dropped: the thread that runs, and the root it uses
LEMMA DropThen ==
  ASSUME NEW kk, NEW gone, NEW s, ASIDInv(s), Drops(kk, gone, s), NEW r \in State, ASIDsKept(s, r),
         r.pte = s.pte, r.ptCap = s.ptCap, r.frameCap = s.frameCap, r.vsCap = s.vsCap,
         r.tcbVTable = s.tcbVTable
  PROVE  ASIDInv(r) /\ Drops(kk, gone, r)
<1>1. ASIDInv(r) /\ \A c \in ASIDs : findVSpaceForASID(r, c) = findVSpaceForASID(s, c)
  BY KeptASIDs
<1>2. r.armKSHWASIDTable = s.armKSHWASIDTable /\ r.tlb \subseteq s.tlb
  BY DEF ASIDsKept
<1>3. \A e \in r.tlb : /\ e \in kk.tlb /\ kk.armKSHWASIDTable[e.vmid] \notin gone
                       /\ r.armKSHWASIDTable[e.vmid] = kk.armKSHWASIDTable[e.vmid]
  <2>1. \A e \in s.tlb : /\ e \in kk.tlb /\ kk.armKSHWASIDTable[e.vmid] \notin gone
                         /\ s.armKSHWASIDTable[e.vmid] = kk.armKSHWASIDTable[e.vmid]
    BY DEF Drops
  <2> QED BY <1>2, <2>1, SMTT(30)
<1>4. \A c \in ASIDs :
        findVSpaceForASID(r, c) = IF c \in gone THEN Null ELSE findVSpaceForASID(kk, c)
  BY <1>1 DEF Drops
<1>5. \A w : lastVSpaceCap(r, w) <=> lastVSpaceCap(s, w)
  BY DEF lastVSpaceCap
<1>6. \A c \in ASIDs \ gone, w \in VRoots :
        findVSpaceForASID(kk, c) = w /\ kk.vsCap[w].asid = c /\ c # asidInvalid /\ ~lastVSpaceCap(kk, w)
          => ~lastVSpaceCap(r, w)
  BY <1>5 DEF Drops
<1>7. r.pte = kk.pte /\ r.ptCap = kk.ptCap /\ r.frameCap = kk.frameCap
  BY DEF Drops
<1>8. \A v \in VRoots : r.vsCap[v].asid = kk.vsCap[v].asid /\ (r.vsCap[v].exists => kk.vsCap[v].exists)
  BY DEF Drops
<1> QED BY <1>1, <1>3, <1>4, <1>6, <1>7, <1>8 DEF Drops

\* TCB_SetSpace, the deletion of a thread, and thread switches
LEMMA ThreadSteps ==
  ASSUME ASIDInv(k)
  PROVE  /\ \A t \in Threads, v \in VRoots : SetSpace(t, v) =>
              ASIDInv(k') /\ \E gone \in SUBSET (ASIDs \ {asidInvalid}) : Drops(k, gone, k')
         /\ \A t \in Threads : DeleteThread(t) =>
              ASIDInv(k') /\ \E gone \in SUBSET (ASIDs \ {asidInvalid}) : Drops(k, gone, k')
         /\ \A t \in Threads \cup {idle} : switchToThread(t) => ASIDInv(k') /\ Drops(k, {}, k')
<1>0. k \in State
  BY DEF ASIDInv
<1>1. ASSUME NEW t \in Threads, NEW v \in VRoots, SetSpace(t, v)
      PROVE  ASIDInv(k') /\ \E gone \in SUBSET (ASIDs \ {asidInvalid}) : Drops(k, gone, k')
  <2> DEFINE s == deleteVTable(k, t)
  <2>1. k' = [s EXCEPT !.tcbVTable[t] = v]
    BY <1>1 DEF SetSpace
  <2>2. v \in VRoots \cup {Null}
    BY SMTT(30)
  <2> HIDE DEF s
  <2>3. s = deleteVTable(k, t)
    BY DEF s
  <2> QED BY <2>1, <2>2, <2>3, DeleteVTable, SMTT(30)
<1>2. ASSUME NEW t \in Threads, DeleteThread(t)
      PROVE  ASIDInv(k') /\ \E gone \in SUBSET (ASIDs \ {asidInvalid}) : Drops(k, gone, k')
  <2> DEFINE s == deleteVTable(k, t)
             r == [s EXCEPT !.tcbVTable[t] = Null]
             n == Null
  <2>1. /\ k.tcbVTable[t] # Null
        /\ k' = s \/ k' = [s EXCEPT !.ksCurThread = idle, !.ttbr = armKSGlobalUserVSpace]
    BY <1>2 DEF DeleteThread
  <2>2. n \in VRoots \cup {Null} /\ n = Null
    BY SMTT(30)
  <2>3. s = deleteVTable(k, t) /\ r = [s EXCEPT !.tcbVTable[t] = n]
    BY SMTT(30)
  <2> HIDE DEF s, r, n
  <2>4. /\ ASIDInv(r) /\ (k.tcbVTable[t] # Null /\ n = Null => r = s)
        /\ \E gone \in SUBSET (ASIDs \ {asidInvalid}) : Drops(k, gone, r)
    BY <2>2, <2>3, DeleteVTable, SMTT(30)
  <2>5. r = s
    BY <2>1, <2>2, <2>4
  <2>6. PICK gone \in SUBSET (ASIDs \ {asidInvalid}) : Drops(k, gone, s)
    BY <2>4, <2>5
  <2>7. ASIDInv(s) /\ s \in State
    BY <2>4, <2>5 DEF ASIDInv
  <2>8. CASE k' = [s EXCEPT !.ksCurThread = idle, !.ttbr = armKSGlobalUserVSpace]
    <3>1. armKSGlobalUserVSpace \in [root : VRoots \cup {Null}, vmid : HWASIDs] /\ idle \in Threads \cup {idle}
      BY VSpaceConstants, SMTT(30) DEF armKSGlobalUserVSpace, HWASIDs
    <3>2. /\ k' \in State /\ ASIDsKept(s, k') /\ k'.pte = s.pte /\ k'.ptCap = s.ptCap
          /\ k'.frameCap = s.frameCap /\ k'.vsCap = s.vsCap /\ k'.tcbVTable = s.tcbVTable
      BY <2>7, <2>8, <3>1 DEF State, ASIDsKept, PoolsSame
    <3>3. ASIDInv(k') /\ Drops(k, gone, k')
      BY <2>6, <2>7, <3>2, DropThen
    <3> QED BY <3>3
  <2> QED BY <2>1, <2>6, <2>7, <2>8
<1>3. ASSUME NEW t \in Threads \cup {idle}, switchToThread(t)
      PROVE  ASIDInv(k') /\ Drops(k, {}, k')
  <2> DEFINE s == setVMRoot(k, t)
  <2>1. \/ k' = [k EXCEPT !.ksCurThread = idle, !.ttbr = armKSGlobalUserVSpace]
        \/ k' = [s EXCEPT !.ksCurThread = t]
    BY <1>3 DEF switchToThread
  <2>2. ASIDInv(s) /\ Retires(k, {}, s)
    <3>1. ASIDCore(k)
      BY DEF ASIDInv, ASIDCore
    <3> QED BY <3>1, SetVMRoot
  <2> HIDE DEF s
  <2>3. Drops(k, {}, s) /\ s \in State
    BY <2>2, RetireDrops DEF ASIDInv
  <2>4. CASE k' = [k EXCEPT !.ksCurThread = idle, !.ttbr = armKSGlobalUserVSpace]
    <3>1. armKSGlobalUserVSpace \in [root : VRoots \cup {Null}, vmid : HWASIDs] /\ idle \in Threads \cup {idle}
      BY VSpaceConstants, SMTT(30) DEF armKSGlobalUserVSpace, HWASIDs
    <3>2. /\ k' \in State /\ ASIDsKept(k, k') /\ k'.pte = k.pte /\ k'.ptCap = k.ptCap
          /\ k'.frameCap = k.frameCap /\ k'.vsCap = k.vsCap /\ k'.tcbVTable = k.tcbVTable
      BY <1>0, <2>4, <3>1 DEF State, ASIDsKept, PoolsSame
    <3>3. Retires(k, {}, k)
      BY <1>0 DEF Retires, PagesSame
    <3>4. Drops(k, {}, k)
      BY <3>3, RetireDrops
    <3> QED BY <3>2, <3>4, DropThen
  <2>5. CASE k' = [s EXCEPT !.ksCurThread = t]
    <3>1. /\ k' \in State /\ ASIDsKept(s, k') /\ k'.pte = s.pte /\ k'.ptCap = s.ptCap
          /\ k'.frameCap = s.frameCap /\ k'.vsCap = s.vsCap /\ k'.tcbVTable = s.tcbVTable
      BY <2>3, <2>5 DEF State, ASIDsKept, PoolsSame
    <3> QED BY <2>2, <2>3, <3>1, DropThen
  <2> QED BY <2>1, <2>4, <2>5
<1> QED BY <1>1, <1>2, <1>3

\* The deletion of a pool drops its ASIDs
LEMMA DeletePoolStep ==
  ASSUME ASIDInv(k), NEW p \in Pools, DeletePool(p)
  PROVE  ASIDInv(k') /\ \E gone \in SUBSET (ASIDs \ {asidInvalid}) : Drops(k, gone, k')
<1> DEFINE base == k.poolCap[p]
           s    == deleteASIDPool(k, base, p)
           caps == [s.poolCap EXCEPT ![p] = -1]
<1>1. base # -1 /\ k' = [s EXCEPT !.poolCap = caps]
  BY DEF DeletePool
<1>2. PICK i \in Hi : base = i * asidLowSize
  <2>1. k.poolCap \in [Pools -> {-1} \cup {i * asidLowSize : i \in Hi}]
    BY Fields DEF ASIDInv
  <2> QED BY <1>1, <2>1
<1>3. /\ ASIDInv(s) /\ \A j \in Hi : s.armKSASIDTable[j] # p
      /\ \E gone \in SUBSET (ASIDs \ {asidInvalid}) : Retires(k, gone, s)
  <2>1. s = deleteASIDPool(k, i * asidLowSize, p) /\ k.poolCap[p] = i * asidLowSize
    BY <1>2
  <2> HIDE DEF s
  <2> QED BY <2>1, DeleteASIDPool, SMTT(30)
<1>4. PICK gone \in SUBSET (ASIDs \ {asidInvalid}) : Retires(k, gone, s)
  BY <1>3
<1> HIDE DEF s, base
<1>5. s \in State /\ s.poolCap \in [Pools -> {-1} \cup {j * asidLowSize : j \in Hi}] /\ PoolsInv(s) /\ HWASIDsInv(s)
  BY <1>3, Fields DEF ASIDInv
<1>6. /\ caps \in [Pools -> {-1} \cup {j * asidLowSize : j \in Hi}]
      /\ \A q \in Pools : q # p => caps[q] = s.poolCap[q]
  BY <1>5
<1> HIDE DEF caps
<1>7. /\ k' \in State /\ PagesSame(s, k') /\ k'.poolCap = caps /\ k'.armKSASIDTable = s.armKSASIDTable
      /\ k'.array = s.array /\ k'.armKSHWASIDTable = s.armKSHWASIDTable /\ k'.tlb = s.tlb /\ k'.ttbr = s.ttbr
  BY <1>1, <1>5, <1>6 DEF State, PagesSame, Hi
<1>8. \A c : findMapForASID(k', c) = findMapForASID(s, c) /\ findVSpaceForASID(k', c) = findVSpaceForASID(s, c)
  BY <1>7, SameMaps
<1>9. PoolsInv(k')
  <2> SUFFICES ASSUME NEW j \in Hi, NEW q \in Pools, s.armKSASIDTable[j] = q PROVE caps[q] = j * asidLowSize
    BY <1>7 DEF PoolsInv, Hi
  <2>1. q # p
    BY <1>3
  <2>2. s.poolCap[q] = j * asidLowSize
    BY <1>5 DEF PoolsInv, Hi
  <2> QED BY <1>6, <2>1, <2>2
<1>10. ASIDInv(k')
  <2>1. findVSpaceForASID(k', asidInvalid) = Null
    BY <1>5, <1>8 DEF HWASIDsInv
  <2>2. \A c \in ASIDs : findMapForASID(k', c).stored = findMapForASID(s, c).stored
    BY <1>8
  <2>3. \A c \in ASIDs : findVSpaceForASID(s, c) # Null => findMapForASID(k', c) = findMapForASID(s, c)
    BY <1>8
  <2>4. k'.tlb \subseteq s.tlb
    BY <1>7
  <2> QED BY <1>3, <1>7, <1>9, <2>1, <2>2, <2>3, <2>4, MoreASIDs
<1>11. Retires(k, gone, k')
  <2>1. PagesSame(k, k')
    BY <1>4, <1>7 DEF Retires, PagesSame
  <2>2. \A c \in ASIDs : findVSpaceForASID(k', c) = IF c \in gone THEN Null ELSE findVSpaceForASID(k, c)
    BY <1>4, <1>8 DEF Retires
  <2>3. \A e \in k'.tlb : /\ e \in k.tlb /\ k.armKSHWASIDTable[e.vmid] \notin gone
                          /\ k'.armKSHWASIDTable[e.vmid] = k.armKSHWASIDTable[e.vmid]
    <3>1. \A e \in s.tlb : /\ e \in k.tlb /\ k.armKSHWASIDTable[e.vmid] \notin gone
                           /\ s.armKSHWASIDTable[e.vmid] = k.armKSHWASIDTable[e.vmid]
      BY <1>4 DEF Retires
    <3> QED BY <1>7, <3>1, SMTT(30)
  <2> QED BY <1>7, <2>1, <2>2, <2>3 DEF Retires
<1> QED BY <1>10, <1>11, RetireDrops

\* A cached translation is of the root in use, whose hardware ASID has an owner
LEMMA AccessStep ==
  ASSUME ASIDInv(k), NEW v \in VAddrs, Access(v)
  PROVE  ASIDInv(k') /\ Accesses(k, v, k')
<1> DEFINE f == translation(k, k.ttbr.root, v)
           w == alignTo(v, frameLevel[f])
           e == [vmid |-> k.ttbr.vmid, frame |-> f, vaddr |-> w]
           T == k.tlb \cup {e}
<1>0. /\ k \in State /\ PoolsInv(k) /\ HWASIDsInv(k) /\ RootLoaded(k)
      /\ k.ttbr \in [root : VRoots \cup {Null}, vmid : HWASIDs]
      /\ k.tlb \in SUBSET [vmid : HWASIDs, frame : Frames, vaddr : Addrs]
  BY Fields DEF ASIDInv
<1>1. k.ttbr.root # Null /\ f # Null /\ k' = [k EXCEPT !.tlb = T]
  BY DEF Access
<1>2. f \in Frames
  BY <1>1 DEF translation
<1>3. w \in Addrs
  BY AlignType, VSpaceConstants DEF Addrs
<1>4. PICK a \in ASIDs : findMapForASID(k, a) = [vspace_root |-> k.ttbr.root, stored |-> k.ttbr.vmid]
  BY <1>0, <1>1 DEF RootLoaded
<1>5. k.ttbr.vmid \in HWASIDs /\ findVSpaceForASID(k, a) = k.ttbr.root /\ findMapForASID(k, a).stored = k.ttbr.vmid
  BY <1>0, <1>4, SMTT(30) DEF findVSpaceForASID
<1>6. a # asidInvalid
  BY <1>0, <1>1, <1>5 DEF HWASIDsInv
<1>7. k.armKSHWASIDTable[k.ttbr.vmid] = a
  <2>1. \A h \in HWASIDs, c \in ASIDs \ {asidInvalid} :
           k.armKSHWASIDTable[h] = c <=> findMapForASID(k, c).stored = h
    BY <1>0 DEF HWASIDsInv
  <2>2. a \in ASIDs \ {asidInvalid}
    BY <1>6
  <2> QED BY <1>5, <2>1, <2>2
<1>8. translation(k, findVSpaceForASID(k, a), v) = f
  BY <1>5
<1> HIDE DEF f, w
<1>9. e \in [vmid : HWASIDs, frame : Frames, vaddr : Addrs] /\ e.vmid = k.ttbr.vmid
  BY <1>2, <1>3, <1>5
<1> HIDE DEF e
<1>10. T \in SUBSET [vmid : HWASIDs, frame : Frames, vaddr : Addrs]
  BY <1>0, <1>9
<1> HIDE DEF T
<1>11. /\ k' \in State /\ PagesSame(k, k') /\ PoolsSame(k, k') /\ k'.array = k.array /\ k'.tlb = T
       /\ k'.armKSHWASIDTable = k.armKSHWASIDTable /\ k'.ttbr = k.ttbr
  BY <1>0, <1>1, <1>10 DEF State, PagesSame, PoolsSame
<1>12. \A c : findMapForASID(k', c) = findMapForASID(k, c) /\ findVSpaceForASID(k', c) = findVSpaceForASID(k, c)
  BY <1>11, SameMaps DEF PoolsSame
<1>13. HWASIDsInv(k')
  <2>1. findVSpaceForASID(k', asidInvalid) = Null
    BY <1>0, <1>12 DEF HWASIDsInv
  <2>2. \A c \in ASIDs : findMapForASID(k', c).stored # NoVMID => findVSpaceForASID(k', c) # Null
    BY <1>0, <1>12 DEF HWASIDsInv
  <2>3. \A d \in k'.tlb : k'.armKSHWASIDTable[d.vmid] # asidInvalid
    <3>1. \A d \in k.tlb : k.armKSHWASIDTable[d.vmid] # asidInvalid
      BY <1>0 DEF HWASIDsInv
    <3>2. k.armKSHWASIDTable[e.vmid] # asidInvalid
      BY <1>6, <1>7, <1>9
    <3>3. \A d \in T : d \in k.tlb \/ d = e
      BY DEF T
    <3> QED BY <1>11, <3>1, <3>2, <3>3
  <2>4. \A h \in HWASIDs, c \in ASIDs \ {asidInvalid} :
          k'.armKSHWASIDTable[h] = c <=> findMapForASID(k', c).stored = h
    <3>1. \A h \in HWASIDs, c \in ASIDs \ {asidInvalid} :
            k.armKSHWASIDTable[h] = c <=> findMapForASID(k, c).stored = h
      BY <1>0 DEF HWASIDsInv
    <3> QED BY <1>11, <1>12, <3>1, SMTT(30)
  <2> QED BY <2>1, <2>2, <2>3, <2>4 DEF HWASIDsInv
<1>14. RootLoaded(k')
  BY <1>0, <1>11, <1>12 DEF RootLoaded
<1>15. PoolsInv(k')
  BY <1>0, <1>11, PoolsKept
<1>16. ASIDInv(k')
  BY <1>11, <1>13, <1>14, <1>15 DEF ASIDInv
<1>17. k'.tlb = k.tlb \cup {[vmid |-> k.ttbr.vmid, frame |-> f, vaddr |-> alignTo(v, frameLevel[f])]}
  BY <1>11 DEF T, e, w
<1> QED BY <1>2, <1>5, <1>1, <1>6, <1>7, <1>8, <1>11, <1>12, <1>16, <1>17 DEF Accesses

-----------------------------------------------------------------------------
(* The invariant *)

\* The state the boot code leaves: one ASID is in use and has no hardware ASID
LEMMA InitASIDs ==
  ASSUME Init
  PROVE  /\ ASIDInv(k)
         /\ \A c \in ASIDs : findVSpaceForASID(k, c) = IF c = IT_ASID THEN itTables[1] ELSE Null
<1> DEFINE E == PTs \cup Frames \cup {Null}
           x == [noMap EXCEPT !.vspace_root = itTables[1]]
<1>1. /\ UPT_LEVELS \in Nat \ {0} /\ itTables[1] \in VRoots /\ 0 \in Index /\ itFrame \in Frames /\ itPool \in Pools
      /\ \A l \in 2 .. UPT_LEVELS : itTables[l] \in PTs
      /\ Null \notin Pools
  BY VSpaceConstants
<1>2. noEntries \in [Index -> E] /\ origin \in Addrs
  BY <1>1 DEF noEntries, origin, Addrs
<1>3. noMap \in ASIDMap /\ x \in ASIDMap /\ x.vspace_root = itTables[1] /\ x.stored = NoVMID
      /\ noMap.vspace_root = Null /\ noMap.stored = NoVMID
  BY <1>1 DEF noMap, ASIDMap
<1>4. k.pte \in [Tables -> [Index -> E]]
  <2> DEFINE row(t) == IF \E l \in 1 .. UPT_LEVELS : t = itTables[l]
                       THEN LET l == CHOOSE j \in 1 .. UPT_LEVELS : t = itTables[j]
                            IN [noEntries EXCEPT ![0] = IF l = UPT_LEVELS THEN itFrame
                                                        ELSE itTables[l + 1]]
                       ELSE noEntries
  <2>1. k.pte = [t \in Tables |-> row(t)]
    BY DEF Init
  <2>2. ASSUME NEW t \in Tables PROVE row(t) \in [Index -> E]
    <3>1. CASE \E l \in 1 .. UPT_LEVELS : t = itTables[l]
      <4> DEFINE l == CHOOSE j \in 1 .. UPT_LEVELS : t = itTables[j]
                 y == IF l = UPT_LEVELS THEN itFrame ELSE itTables[l + 1]
      <4>1. l \in 1 .. UPT_LEVELS
        BY <3>1
      <4>2. row(t) = [noEntries EXCEPT ![0] = y]
        BY <3>1
      <4> HIDE DEF l
      <4>3. l # UPT_LEVELS => l + 1 \in 2 .. UPT_LEVELS
        BY <1>1, <4>1, SMTT(30)
      <4>4. y \in E
        BY <1>1, <4>3
      <4> HIDE DEF y, row
      <4> QED BY <1>1, <1>2, <4>2, <4>4
    <3>2. CASE ~\E l \in 1 .. UPT_LEVELS : t = itTables[l]
      BY <1>2, <3>2
    <3> QED BY <3>1, <3>2
  <2> HIDE DEF row
  <2> QED BY <2>1, <2>2
<1>5. k.vsCap \in [VRoots -> [exists : BOOLEAN, asid : ASIDs]]
  <2>1. k.vsCap = [v \in VRoots |-> [exists |-> v = itTables[1],
                                     asid |-> IF v = itTables[1] THEN IT_ASID ELSE asidInvalid]]
    BY DEF Init
  <2> QED BY <2>1, InvalidASID, SMTT(30)
<1>6. k.ptCap \in PTCapType
  <2>1. k.ptCap = [p \in PTs |-> IF \E l \in 2 .. UPT_LEVELS : p = itTables[l]
                                 THEN [n |-> 1, asid |-> IT_ASID, vaddr |-> origin]
                                 ELSE [n |-> 0, asid |-> asidInvalid, vaddr |-> Null]]
    BY DEF Init
  <2>2. /\ [n |-> 1, asid |-> IT_ASID, vaddr |-> origin] \in [n : Nat, asid : ASIDs, vaddr : Addrs \cup {Null}]
        /\ [n |-> 0, asid |-> asidInvalid, vaddr |-> Null] \in [n : Nat, asid : ASIDs, vaddr : Addrs \cup {Null}]
    BY <1>2, InvalidASID
  <2> QED BY <2>1, <2>2 DEF PTCapType
<1>7. k.frameCap \in FrameCapType
  <2>1. k.frameCap = [c \in FrameCaps |-> IF c = itFrameCap
                                          THEN [frame |-> itFrame, asid |-> IT_ASID, vaddr |-> origin]
                                          ELSE noFrame]
    BY DEF Init
  <2>2. /\ [frame |-> itFrame, asid |-> IT_ASID, vaddr |-> origin]
             \in [frame : Frames \cup {Null}, asid : ASIDs, vaddr : Addrs \cup {Null}]
        /\ noFrame \in [frame : Frames \cup {Null}, asid : ASIDs, vaddr : Addrs \cup {Null}]
    BY <1>1, <1>2, InvalidASID DEF noFrame
  <2> QED BY <2>1, <2>2 DEF FrameCapType
<1>8. /\ k.poolCap = [p \in Pools |-> IF p = itPool THEN 0 ELSE -1]
      /\ k.armKSASIDTable = [i \in Hi |-> IF i = 0 THEN itPool ELSE Null]
      /\ k.array = [p \in Pools |-> [i \in Lo |-> IF p = itPool /\ i = IT_ASID THEN x ELSE noMap]]
      /\ k.armKSHWASIDTable = [h \in HWASIDs |-> asidInvalid] /\ k.armKSNextASID = 0
      /\ k.tcbVTable = [t \in Threads \cup {idle} |-> IF t = itThread THEN itTables[1] ELSE Null]
      /\ k.ksCurThread = idle /\ k.ttbr = armKSGlobalUserVSpace /\ k.tlb = {}
  BY DEF Init, Hi, Lo
<1> HIDE DEF x
<1>9. k.poolCap \in [Pools -> {-1} \cup {i * asidLowSize : i \in Hi}]
  <2>1. 0 \in Hi /\ 0 = 0 * asidLowSize
    BY VSpaceConstants, SMTT(30) DEF Hi
  <2>2. 0 \in {-1} \cup {i * asidLowSize : i \in Hi} /\ -1 \in {-1} \cup {i * asidLowSize : i \in Hi}
    BY <2>1
  <2>3. k.poolCap = [p \in Pools |-> IF p = itPool THEN 0 ELSE -1]
    BY <1>8
  <2> QED BY <2>2, <2>3
<1>10. k.armKSASIDTable \in [Hi -> Pools \cup {Null}] /\ k.array \in [Pools -> [Lo -> ASIDMap]]
  <2>1. k.armKSASIDTable = [i \in Hi |-> IF i = 0 THEN itPool ELSE Null]
    BY <1>8
  <2>2. k.armKSASIDTable \in [Hi -> Pools \cup {Null}]
    BY <1>1, <2>1
  <2>3. k.array = [p \in Pools |-> [i \in Lo |-> IF p = itPool /\ i = IT_ASID THEN x ELSE noMap]]
    BY <1>8
  <2>4. k.array \in [Pools -> [Lo -> ASIDMap]]
    BY <1>3, <2>3, SMTT(30)
  <2> QED BY <2>2, <2>4
<1>11. 0 \in HWASIDs /\ k.armKSHWASIDTable \in [HWASIDs -> ASIDs] /\ k.armKSNextASID \in HWASIDs
  <2>1. 0 \in HWASIDs
    BY VSpaceConstants, SMTT(30) DEF HWASIDs
  <2> QED BY <1>8, <2>1, InvalidASID
<1>12. k.tcbVTable \in [Threads \cup {idle} -> VRoots \cup {Null}] /\ k.ksCurThread \in Threads \cup {idle}
  BY <1>1, <1>8
<1>13. k.ttbr \in [root : VRoots \cup {Null}, vmid : HWASIDs] /\ k.ttbr.root = Null
  BY <1>8, <1>11, SMTT(30) DEF armKSGlobalUserVSpace
<1>14. k \in State
  <2>1. k = [pte |-> k.pte, vsCap |-> k.vsCap, ptCap |-> k.ptCap, frameCap |-> k.frameCap, poolCap |-> k.poolCap,
             armKSASIDTable |-> k.armKSASIDTable, array |-> k.array, armKSHWASIDTable |-> k.armKSHWASIDTable,
             armKSNextASID |-> k.armKSNextASID, tcbVTable |-> k.tcbVTable, ksCurThread |-> k.ksCurThread,
             ttbr |-> k.ttbr, tlb |-> k.tlb]
    BY DEF Init
  <2>2. k.tlb \in SUBSET [vmid : HWASIDs, frame : Frames, vaddr : Addrs]
    BY <1>8
  <2> QED BY <1>4, <1>5, <1>6, <1>7, <1>9, <1>10, <1>11, <1>12, <1>13, <2>1, <2>2
          DEF State, PTCapType, FrameCapType, Hi, Lo
<1>15. ASSUME NEW c \in ASIDs PROVE findMapForASID(k, c) = IF c = IT_ASID THEN x ELSE noMap
  <2> DEFINE i == ASID_HIGH(c)
             j == ASID_LOW(c)
  <2>1. i \in Hi /\ j \in Lo /\ c = i * asidLowSize + j
    BY ASIDParts
  <2>2. findMapForASID(k, c) = IF k.armKSASIDTable[i] = Null THEN noMap ELSE k.array[k.armKSASIDTable[i]][j]
    BY DEF findMapForASID
  <2> HIDE DEF i, j
  <2>3. k.armKSASIDTable[i] = (IF i = 0 THEN itPool ELSE Null) /\ k.array[itPool][j] = IF j = IT_ASID THEN x ELSE noMap
    <3>1. /\ k.armKSASIDTable = [n \in Hi |-> IF n = 0 THEN itPool ELSE Null]
          /\ k.array = [p \in Pools |-> [n \in Lo |-> IF p = itPool /\ n = IT_ASID THEN x ELSE noMap]]
      BY <1>8
    <3> QED BY <1>1, <2>1, <3>1, SMTT(30)
  <2>4. c = IT_ASID <=> i = 0 /\ j = IT_ASID
    <3>1. asidLowSize \in Nat \ {0, 1}
      BY VSpaceConstants
    <3>2. i = 0 => c = j
      BY <2>1, <3>1, SMTT(30) DEF Hi, Lo
    <3>3. 0 \in Hi /\ 1 \in Lo
      BY VSpaceConstants, SMTT(30) DEF Hi, Lo
    <3>4. 0 * asidLowSize + 1 = IT_ASID
      BY <3>1, SMTT(30) DEF IT_ASID
    <3>5. ASID_HIGH(IT_ASID) = 0 /\ ASID_LOW(IT_ASID) = 1
      BY <3>3, <3>4, ASIDOf
    <3> QED BY <3>2, <3>5 DEF i, j, IT_ASID
  <2> QED BY <1>1, <2>2, <2>3, <2>4
<1>16. \A c \in ASIDs : /\ findVSpaceForASID(k, c) = IF c = IT_ASID THEN itTables[1] ELSE Null
                       /\ findMapForASID(k, c).stored = NoVMID
  BY <1>3, <1>15 DEF findVSpaceForASID
<1>17. PoolsInv(k)
  <2> SUFFICES ASSUME NEW i \in Hi, NEW p \in Pools, k.armKSASIDTable[i] = p PROVE k.poolCap[p] = i * asidLowSize
    BY DEF PoolsInv, Hi
  <2>1. i = 0 /\ p = itPool
    BY <1>1, <1>8
  <2>2. k.poolCap[p] = 0
    BY <1>1, <1>8, <2>1
  <2> QED BY <2>1, <2>2, VSpaceConstants, SMTT(30)
<1>18. HWASIDsInv(k)
  <2>1. findVSpaceForASID(k, asidInvalid) = Null
    BY <1>16, InvalidASID
  <2>2. \A c \in ASIDs : findMapForASID(k, c).stored # NoVMID => findVSpaceForASID(k, c) # Null
    BY <1>16
  <2>3. \A e \in k.tlb : k.armKSHWASIDTable[e.vmid] # asidInvalid
    BY <1>8
  <2>4. \A h \in HWASIDs, c \in ASIDs \ {asidInvalid} :
          k.armKSHWASIDTable[h] = c <=> findMapForASID(k, c).stored = h
    BY <1>8, <1>16, NotStored
  <2> QED BY <2>1, <2>2, <2>3, <2>4 DEF HWASIDsInv
<1>19. RootLoaded(k)
  BY <1>13 DEF RootLoaded
<1> QED BY <1>14, <1>16, <1>17, <1>18, <1>19 DEF ASIDInv

\* Every step keeps ASIDInv
LEMMA ASIDStep ==
  ASSUME ASIDInv(k), [Next]_vars
  PROVE  ASIDInv(k')
<1>0. k \in State
  BY DEF ASIDInv
<1>1. ASSUME k' \in State, ASIDsKept(k, k') PROVE ASIDInv(k')
  BY <1>1, KeptASIDs
<1>2. ASSUME NEW v \in VRoots, RetypeVSpace(v) PROVE ASIDInv(k')
  BY <1>0, <1>1, <1>2, CapSteps
<1>3. ASSUME NEW v \in VRoots, DeleteVSpace(v) PROVE ASIDInv(k')
  BY <1>3, DeleteVSpaceStep
<1>4. ASSUME NEW p \in PTs, RetypePageTable(p) \/ CopyPageTable(p) PROVE ASIDInv(k')
  BY <1>0, <1>1, <1>4, CapSteps
<1>5. ASSUME NEW p \in PTs, PageTableUnmap(p) \/ DeletePageTable(p) PROVE ASIDInv(k')
  BY <1>0, <1>1, <1>5, MapSteps
<1>6. ASSUME NEW c \in FrameCaps, NEW f \in Frames, RetypeFrame(c, f) PROVE ASIDInv(k')
  BY <1>0, <1>1, <1>6, CapSteps
<1>7. ASSUME NEW c \in FrameCaps, NEW d \in FrameCaps, CopyFrame(c, d) PROVE ASIDInv(k')
  BY <1>0, <1>1, <1>7, CapSteps
<1>8. ASSUME NEW p \in Pools, performASIDControlInvocation(p) PROVE ASIDInv(k')
  BY <1>8, MakePool
<1>9. ASSUME NEW p \in Pools, DeletePool(p) PROVE ASIDInv(k')
  BY <1>9, DeletePoolStep
<1>10. ASSUME NEW p \in Pools, NEW v \in VRoots, performASIDPoolInvocation(p, v) PROVE ASIDInv(k')
  BY <1>10, AssignASID
<1>11. ASSUME NEW p \in PTs, NEW v \in VRoots, NEW w \in VAddrs, PageTableMap(p, v, w) PROVE ASIDInv(k')
  BY <1>0, <1>1, <1>11, MapSteps
<1>12. ASSUME NEW c \in FrameCaps, NEW v \in VRoots, NEW w \in VAddrs, performPageInvocationMap(c, v, w)
       PROVE  ASIDInv(k')
  BY <1>0, <1>1, <1>12, MapSteps
<1>13. ASSUME NEW c \in FrameCaps, performPageInvocationUnmap(c) \/ DeleteFrame(c) PROVE ASIDInv(k')
  BY <1>0, <1>1, <1>13, MapSteps
<1>14. ASSUME NEW t \in Threads, NEW v \in VRoots, SetSpace(t, v) PROVE ASIDInv(k')
  BY <1>14, ThreadSteps
<1>15. ASSUME NEW t \in Threads, DeleteThread(t) PROVE ASIDInv(k')
  BY <1>15, ThreadSteps
<1>16. ASSUME NEW t \in Threads \cup {idle}, switchToThread(t) PROVE ASIDInv(k')
  BY <1>16, ThreadSteps
<1>17. ASSUME NEW v \in VAddrs, Access(v) PROVE ASIDInv(k')
  BY <1>17, AccessStep
<1>18. ASSUME UNCHANGED vars PROVE ASIDInv(k')
  BY <1>18 DEF vars
<1>19. ASSUME Invocation PROVE ASIDInv(k')
  BY <1>2, <1>3, <1>4, <1>5, <1>6, <1>7, <1>8, <1>9, <1>10, <1>11, <1>12, <1>13, <1>14, <1>15,
     <1>19
     DEF Invocation
<1> QED BY <1>16, <1>17, <1>18, <1>19 DEF Next

(* The two tables of hardware ASIDs agree and the root loaded is that of   *)
(* an ASID in use, however many ASIDs, pools, hardware ASIDs and threads   *)
(* there are, whatever findFreeHWASID took away from other address spaces  *)
(* and whatever was deleted in between.                                    *)
THEOREM HardwareASIDs == Spec => []HardwareASIDsAgree
<1>1. Init => ASIDInv(k)
  BY InitASIDs
<1>2. ASIDInv(k) /\ [Next]_vars => ASIDInv(k)'
  BY ASIDStep
<1>3. ASIDInv(k) => HardwareASIDsAgree
  BY DEF ASIDInv, HWASIDsInv, RootLoaded, HardwareASIDsAgree
<1> QED BY <1>1, <1>2, <1>3, PTL DEF Spec
=============================================================================
