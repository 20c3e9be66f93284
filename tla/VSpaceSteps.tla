---------------------------- MODULE VSpaceSteps -----------------------------
(***************************************************************************)
(* What the operations of VSpace do to a state kk, as far as the proofs    *)
(* about page tables (WalkProofs) and about ASIDs (ASIDProofs) have to     *)
(* tell each other.                                                        *)
(***************************************************************************)
EXTENDS VSpace

\* What operations on ASIDs leave alone
PagesSame(kk, r) ==
  /\ r.pte = kk.pte /\ r.vsCap = kk.vsCap /\ r.ptCap = kk.ptCap /\ r.frameCap = kk.frameCap
  /\ r.tcbVTable = kk.tcbVTable /\ r.ksCurThread = kk.ksCurThread

PoolsSame(kk, r) == r.poolCap = kk.poolCap /\ r.armKSASIDTable = kk.armKSASIDTable

\* Operations on pages and tables leave ASIDs alone; translations only go
ASIDsKept(kk, r) ==
  /\ PoolsSame(kk, r) /\ r.array = kk.array /\ r.armKSHWASIDTable = kk.armKSHWASIDTable
  /\ r.ttbr \in {kk.ttbr, armKSGlobalUserVSpace} /\ r.tlb \subseteq kk.tlb

CapsSame(kk, r) ==
  /\ r.vsCap = kk.vsCap /\ r.ptCap = kk.ptCap /\ r.frameCap = kk.frameCap
  /\ r.tcbVTable = kk.tcbVTable /\ r.ksCurThread = kk.ksCurThread

\* v is the root of a now, which was not in use
Assigns(kk, a, v, r) ==
  /\ r \in State /\ findVSpaceForASID(kk, a) = Null
  /\ r.vsCap = [kk.vsCap EXCEPT ![v].asid = a]
  /\ r.pte = kk.pte /\ r.ptCap = kk.ptCap /\ r.frameCap = kk.frameCap /\ r.tcbVTable = kk.tcbVTable
  /\ r.armKSHWASIDTable = kk.armKSHWASIDTable /\ r.tlb = kk.tlb
  /\ \A c \in ASIDs : findVSpaceForASID(r, c) = IF c = a THEN v ELSE findVSpaceForASID(kk, c)

(* The ASIDs of gone lose their root; no root that stays in use loses its  *)
(* last capability, and no table or page changes.                          *)
Drops(kk, gone, r) ==
  /\ r \in State /\ r.pte = kk.pte /\ r.ptCap = kk.ptCap /\ r.frameCap = kk.frameCap
  /\ \A v \in VRoots : r.vsCap[v].asid = kk.vsCap[v].asid /\ (r.vsCap[v].exists => kk.vsCap[v].exists)
  /\ \A c \in ASIDs :
       findVSpaceForASID(r, c) = IF c \in gone THEN Null ELSE findVSpaceForASID(kk, c)
  /\ \A e \in r.tlb : /\ e \in kk.tlb /\ kk.armKSHWASIDTable[e.vmid] \notin gone
                      /\ r.armKSHWASIDTable[e.vmid] = kk.armKSHWASIDTable[e.vmid]
  /\ \A c \in ASIDs \ gone, w \in VRoots :
       findVSpaceForASID(kk, c) = w /\ kk.vsCap[w].asid = c /\ c # asidInvalid /\ ~lastVSpaceCap(kk, w)
         => ~lastVSpaceCap(r, w)

\* The processor caches the translation of v by the root of the ASID it runs
Accesses(kk, v, r) ==
  /\ PagesSame(kk, r) /\ r.armKSHWASIDTable = kk.armKSHWASIDTable
  /\ \A c \in ASIDs : findVSpaceForASID(r, c) = findVSpaceForASID(kk, c)
  /\ \E f \in Frames, a \in ASIDs \ {asidInvalid} :
       /\ findVSpaceForASID(kk, a) # Null /\ kk.armKSHWASIDTable[kk.ttbr.vmid] = a
       /\ translation(kk, findVSpaceForASID(kk, a), v) = f
       /\ r.tlb = kk.tlb \cup {[vmid |-> kk.ttbr.vmid, frame |-> f, vaddr |-> alignTo(v, frameLevel[f])]}
=============================================================================
