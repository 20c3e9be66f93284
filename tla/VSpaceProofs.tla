---------------------------- MODULE VSpaceProofs ----------------------------
(***************************************************************************)
(* Address spaces of any depth, with any number of tables, frames, ASIDs   *)
(* and capabilities: every mapping is one a capability says is there, and  *)
(* the TLB holds no translation the tables do not give.                    *)
(***************************************************************************)
EXTENDS ASIDProofs, WalkProofs

\* The prover of a leaf that names none
USE ZenonT(60)

\* The types of a state
LEMMA ShapeOf ==
  ASSUME NEW kk, ASIDInv(kk)
  PROVE  Shape(kk)
<1>1. kk \in State
  BY DEF ASIDInv
<1>2. \A c \in ASIDs : findVSpaceForASID(kk, c) \in VRoots \cup {Null}
  BY <1>1, MapType
<1>3. \A c \in Live(kk) : findVSpaceForASID(kk, c) \in VRoots
  BY <1>2 DEF Live
<1>4. /\ kk.pte \in [Tables -> [Index -> PTs \cup Frames \cup {Null}]]
      /\ kk.tlb \subseteq [vmid : HWASIDs, frame : Frames, vaddr : Addrs]
  BY <1>1, Fields
<1> QED BY <1>3, <1>4 DEF Shape

\* Operations on pages and tables leave ASIDs alone
LEMMA PageStepOf ==
  ASSUME ASIDInv(k), k' \in State, ASIDsKept(k, k')
  PROVE  PageStep(k, k')
<1>1. ASIDInv(k')
  BY KeptASIDs
<1>2. Shape(k')
  BY <1>1, ShapeOf
<1> QED BY <1>2 DEF PageStep, ASIDInv

\* So do unmapPageTable and unmapPage
LEMMA UnmapsOf ==
  ASSUME ASIDInv(k)
  PROVE  Unmaps(k)
<1>0. k \in State /\ HWASIDsInv(k)
  BY DEF ASIDInv
<1>1. ASSUME NEW a, NEW v, NEW x, NEW r, r \in {unmapPageTable(k, a, v, x), unmapPage(k, a, v, x)}
      PROVE  UnmapStep(k, r)
  <2>1. r \in State /\ ASIDsKept(k, r) /\ CapsSame(k, r)
    BY <1>0, <1>1, Unmap, SMTT(30)
  <2>2. ASIDInv(r)
    BY <2>1, KeptASIDs
  <2>3. Shape(r) /\ HWASIDsInv(r)
    BY <2>2, ShapeOf DEF ASIDInv
  <2> QED BY <1>0, <2>1, <2>3 DEF UnmapStep, PageStep
<1> QED BY <1>1 DEF Unmaps

\* Every operation, context switch and memory access keeps the invariant
LEMMA VSpaceStep ==
  ASSUME ASIDInv(k), VInv(k), [Next]_vars
  PROVE  VInv(k')
<1>0. k \in State
  BY DEF ASIDInv
<1>1. ASSUME k' \in State, ASIDsKept(k, k') PROVE PageStep(k, k')
  BY <1>1, PageStepOf
<1>2. Unmaps(k)
  BY UnmapsOf
<1>3. Shape(k')
  <2>1. ASIDInv(k')
    BY ASIDStep
  <2> QED BY <2>1, ShapeOf
<1>4. ASSUME NEW gone, Drops(k, gone, k') PROVE VInv(k')
  BY <1>3, <1>4, Dropping
<1>5. ASSUME NEW v \in VRoots, RetypeVSpace(v) PROVE VInv(k')
  <2>1. PageStep(k, k')
    BY <1>0, <1>1, <1>5, CapSteps
  <2> QED BY <1>5, <2>1, RetypeSteps
<1>6. ASSUME NEW v \in VRoots, DeleteVSpace(v) PROVE VInv(k')
  BY <1>4, <1>6, DeleteVSpaceStep
<1>7. ASSUME NEW p \in PTs, RetypePageTable(p) PROVE VInv(k')
  <2>1. PageStep(k, k')
    BY <1>0, <1>1, <1>7, CapSteps
  <2> QED BY <1>7, <2>1, RetypeSteps
<1>8. ASSUME NEW p \in PTs, CopyPageTable(p) PROVE VInv(k')
  <2>1. PageStep(k, k')
    BY <1>0, <1>1, <1>8, CapSteps
  <2> QED BY <1>2, <1>8, <2>1, TableCapSteps
<1>9. ASSUME NEW p \in PTs, PageTableUnmap(p) \/ DeletePageTable(p) PROVE VInv(k')
  <2>1. PageStep(k, k')
    BY <1>0, <1>1, <1>9, MapSteps
  <2> QED BY <1>2, <1>9, <2>1, TableCapSteps
<1>10. ASSUME NEW c \in FrameCaps, NEW f \in Frames, RetypeFrame(c, f) PROVE VInv(k')
  <2>1. PageStep(k, k')
    BY <1>0, <1>1, <1>10, CapSteps
  <2> QED BY <1>10, <2>1, FrameCapSteps
<1>11. ASSUME NEW c \in FrameCaps, NEW d \in FrameCaps, CopyFrame(c, d) PROVE VInv(k')
  <2>1. PageStep(k, k')
    BY <1>0, <1>1, <1>11, CapSteps
  <2> QED BY <1>11, <2>1, FrameCapSteps
<1>12. ASSUME NEW p \in Pools, performASIDControlInvocation(p) PROVE VInv(k')
  <2>1. Retires(k, {}, k')
    BY <1>12, MakePool
  <2>2. Drops(k, {}, k')
    BY <2>1, RetireDrops
  <2> QED BY <1>4, <2>2
<1>13. ASSUME NEW p \in Pools, DeletePool(p) PROVE VInv(k')
  BY <1>4, <1>13, DeletePoolStep
<1>14. ASSUME NEW p \in Pools, NEW v \in VRoots, performASIDPoolInvocation(p, v) PROVE VInv(k')
  <2>1. PICK a \in ASIDs \ {asidInvalid} : Assigns(k, a, v, k')
    BY <1>14, AssignASID
  <2>2. k.vsCap[v].exists /\ k.vsCap[v].asid = asidInvalid
    BY <1>14 DEF performASIDPoolInvocation
  <2> QED BY <1>0, <1>3, <2>1, <2>2, Assigning
<1>15. ASSUME NEW p \in PTs, NEW v \in VRoots, NEW w \in VAddrs, PageTableMap(p, v, w) PROVE VInv(k')
  <2>1. PageStep(k, k')
    BY <1>0, <1>1, <1>15, MapSteps
  <2> QED BY <1>15, <2>1, PageTableMapStep
<1>16. ASSUME NEW c \in FrameCaps, NEW v \in VRoots, NEW w \in VAddrs, performPageInvocationMap(c, v, w)
       PROVE  VInv(k')
  <2>1. PageStep(k, k')
    BY <1>0, <1>1, <1>16, MapSteps
  <2> QED BY <1>16, <2>1, PageMapStep
<1>17. ASSUME NEW c \in FrameCaps, performPageInvocationUnmap(c) \/ DeleteFrame(c) PROVE VInv(k')
  <2>1. PageStep(k, k')
    BY <1>0, <1>1, <1>17, MapSteps
  <2> QED BY <1>2, <1>17, <2>1, PageUnmapSteps
<1>18. ASSUME NEW t \in Threads, NEW v \in VRoots, SetSpace(t, v) PROVE VInv(k')
  BY <1>4, <1>18, ThreadSteps
<1>19. ASSUME NEW t \in Threads, DeleteThread(t) PROVE VInv(k')
  BY <1>4, <1>19, ThreadSteps
<1>20. ASSUME NEW t \in Threads \cup {idle}, switchToThread(t) PROVE VInv(k')
  BY <1>4, <1>20, ThreadSteps
<1>21. ASSUME NEW w \in VAddrs, Access(w) PROVE VInv(k')
  <2>1. Accesses(k, w, k') /\ w \in Addrs
    BY <1>21, AccessStep, AddrsOK
  <2> QED BY <1>3, <2>1, Accessing
<1>22. ASSUME UNCHANGED vars PROVE VInv(k')
  BY <1>22 DEF vars
<1>23. ASSUME Invocation PROVE VInv(k')
  BY <1>5, <1>6, <1>7, <1>8, <1>9, <1>10, <1>11, <1>12, <1>13, <1>14, <1>15, <1>16, <1>17,
     <1>18, <1>19,
     <1>23
     DEF Invocation
<1> QED BY <1>20, <1>21, <1>22, <1>23 DEF Next

\* The invariant of the page tables, with that of the ASIDs, is inductive
LEMMA VSpaceInvariant == Spec => [](ASIDInv(k) /\ VInv(k))
<1>1. Init => ASIDInv(k) /\ VInv(k)
  <2> SUFFICES ASSUME Init PROVE ASIDInv(k) /\ VInv(k)
    BY SMTT(30)
  <2>1. /\ ASIDInv(k)
        /\ \A c \in ASIDs : findVSpaceForASID(k, c) = IF c = IT_ASID THEN itTables[1] ELSE Null
    BY InitASIDs
  <2>2. Shape(k)
    BY <2>1, ShapeOf
  <2>3. VInv(k)
    BY <2>1, <2>2, InitInv, SMTT(30)
  <2> QED BY <2>1, <2>3
<1>2. ASIDInv(k) /\ VInv(k) /\ [Next]_vars => ASIDInv(k)' /\ VInv(k)'
  BY ASIDStep, VSpaceStep
<1> QED BY <1>1, <1>2, PTL DEF Spec

(* Whatever is mapped, unmapped, deleted and assigned, in any order, and   *)
(* whatever the processor accesses meanwhile: the TLB holds no translation *)
(* that the tables of the owner of its hardware ASID do not give.          *)
THEOREM NoStaleTranslation == Spec => []TLBCoherent
<1>1. VInv(k) => TLBCoherent
  BY Coherent
<1> QED BY <1>1, VSpaceInvariant, PTL

(* Every root, table and page that an ASID reaches has a capability that   *)
(* says it is mapped there, so the last capability to go finds it.         *)
THEOREM NoStrayMapping == Spec => []MappingsHaveCaps
<1>1. VInv(k) => MappingsHaveCaps
  BY HaveCaps
<1> QED BY <1>1, VSpaceInvariant, PTL
=============================================================================
