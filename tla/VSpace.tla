------------------------------- MODULE VSpace -------------------------------
(***************************************************************************)
(* Address spaces on AArch64 with hypervisor support, the configuration    *)
(* root/build_sdk.py builds: aarch/64/kernel/vspace.c and the parts of     *)
(* aarch/64/object/objecttype.c and armv/context_switch.h that call it.    *)
(*                                                                         *)
(* An address is the sequence of its table indices, one for each of the    *)
(* UPT_LEVELS levels; a page entry in a table of level l translates every  *)
(* address that agrees with its own up to l.  Besides the kernel's data    *)
(* the record k holds the processor's: the root and the hardware ASID (the *)
(* VMID) loaded last, and the translations that may be in its TLB.         *)
(*                                                                         *)
(* An object without a capability is free memory, which Retype or          *)
(* performASIDControlInvocation make a cleared object of (Untyped).        *)
(*                                                                         *)
(* Left out: access rights and memory attributes of mappings, which no     *)
(* operation reads to decide what it does; cache maintenance; SMMU context *)
(* banks (not configured).  One core, as in Kernel.                        *)
(***************************************************************************)
EXTENDS Integers, FiniteSets, FiniteSetsExt

CONSTANTS
  VRoots, PTs,     \* page table roots (vspace objects) and page tables
  Frames,
  frameLevel,      \* the level of the tables a frame's size fits in
  FrameCaps,       \* slots that can hold a capability to a frame
  Pools,           \* memory for ASID pools
  UPT_LEVELS, Index, VAddrs,
  asidLowSize, nASIDPools, nHWASIDs,
  MaxPTCaps,       \* bound: capabilities to one page table
  MaxOps,          \* bound: operations on capabilities
  Threads, idle, Null,
  itTables, itFrame, itFrameCap, itPool, itThread  \* the initial thread's

asidInvalid == 0

IT_ASID == 1

ASIDs == 0 .. nASIDPools * asidLowSize - 1

HWASIDs == 0 .. nHWASIDs - 1

NoVMID == -1

ASSUME VSpaceConstants ==
  /\ UPT_LEVELS \in Nat \ {0} /\ VAddrs \subseteq [1 .. UPT_LEVELS -> Index] /\ 0 \in Index
  /\ frameLevel \in [Frames -> 1 .. UPT_LEVELS]
  /\ asidLowSize \in Nat \ {0, 1} /\ nASIDPools \in Nat \ {0} /\ nHWASIDs \in Nat \ {0}
  /\ idle \notin Threads /\ itThread \in Threads
  /\ VRoots \cap PTs = {} /\ Frames \cap (VRoots \cup PTs) = {}
  /\ Null \notin VRoots \cup PTs \cup Frames \cup Pools
  /\ itTables[1] \in VRoots /\ \A l \in 2 .. UPT_LEVELS : itTables[l] \in PTs
  /\ \A l, m \in 1 .. UPT_LEVELS : itTables[l] = itTables[m] => l = m
  /\ itFrame \in Frames /\ frameLevel[itFrame] = UPT_LEVELS
  /\ itFrameCap \in FrameCaps /\ itPool \in Pools

VARIABLES k, ops

vars == <<k, ops>>

Tables == VRoots \cup PTs

noMap == [vspace_root |-> Null, stored |-> NoVMID]

noFrame == [frame |-> Null, asid |-> asidInvalid, vaddr |-> Null]

armKSGlobalUserVSpace == [root |-> Null, vmid |-> 0]

noEntries == [i \in Index |-> Null]

origin == [l \in 1 .. UPT_LEVELS |-> 0]

\* What create_it_address_space, map_it_frame_cap and write_it_asid_pool leave:
\* the initial thread's address space, with a chain of tables and one page in it
Init ==
  /\ ops = 0
  /\ k = [pte              |-> [t \in Tables |->
                                 IF \E l \in 1 .. UPT_LEVELS : t = itTables[l]
                                 THEN LET l == CHOOSE j \in 1 .. UPT_LEVELS : t = itTables[j]
                                      IN [noEntries EXCEPT ![0] = IF l = UPT_LEVELS THEN itFrame
                                                                  ELSE itTables[l + 1]]
                                 ELSE noEntries],
          vsCap            |-> [v \in VRoots |-> [exists |-> v = itTables[1],
                                                  asid |-> IF v = itTables[1] THEN IT_ASID ELSE asidInvalid]],
          ptCap            |-> [p \in PTs |->
                                 IF \E l \in 2 .. UPT_LEVELS : p = itTables[l]
                                 THEN [n |-> 1, asid |-> IT_ASID, vaddr |-> origin]
                                 ELSE [n |-> 0, asid |-> asidInvalid, vaddr |-> Null]],
          frameCap         |-> [c \in FrameCaps |->
                                 IF c = itFrameCap
                                 THEN [frame |-> itFrame, asid |-> IT_ASID, vaddr |-> origin]
                                 ELSE noFrame],
          poolCap          |-> [p \in Pools |-> IF p = itPool THEN 0 ELSE -1],
          armKSASIDTable   |-> [i \in 0 .. nASIDPools - 1 |-> IF i = 0 THEN itPool ELSE Null],
          array            |-> [p \in Pools |-> [i \in 0 .. asidLowSize - 1 |->
                                 IF p = itPool /\ i = IT_ASID
                                 THEN [noMap EXCEPT !.vspace_root = itTables[1]] ELSE noMap]],
          armKSHWASIDTable |-> [h \in HWASIDs |-> asidInvalid],
          armKSNextASID    |-> 0,
          tcbVTable        |-> [t \in Threads \cup {idle} |->
                                 IF t = itThread THEN itTables[1] ELSE Null],
          ksCurThread      |-> idle,
          ttbr             |-> armKSGlobalUserVSpace,
          tlb              |-> {}]

-----------------------------------------------------------------------------
(* Looking up ASIDs and tables *)

ASID_HIGH(a) == a \div asidLowSize

ASID_LOW(a) == a % asidLowSize

findMapForASID(kk, a) ==
  LET p == kk.armKSASIDTable[ASID_HIGH(a)]
  IN IF p = Null THEN noMap ELSE kk.array[p][ASID_LOW(a)]

findVSpaceForASID(kk, a) == findMapForASID(kk, a).vspace_root

\* A capability to a root is of use while its ASID still names the root
isValidRoot(kk, v) ==
  kk.vsCap[v].asid # asidInvalid /\ findVSpaceForASID(kk, kk.vsCap[v].asid) = v

\* The tables on the way to an address, Null from the first missing one on
walk(kk, root, v) ==
  LET tab[l \in 1 .. UPT_LEVELS] ==
        IF l = 1 THEN root
        ELSE IF tab[l - 1] # Null /\ kk.pte[tab[l - 1]][v[l - 1]] \in PTs
        THEN kk.pte[tab[l - 1]][v[l - 1]]
        ELSE Null
  IN tab

\* The last of them and its level, which tells the size of a page there
lookupPTSlot(kk, root, v) ==
  LET tab == walk(kk, root, v)
      l   == Max({i \in 1 .. UPT_LEVELS : tab[i] # Null})
  IN [pt |-> tab[l], level |-> l, i |-> v[l]]

\* An address rounded down to the size of a page at level l
alignTo(v, l) == [i \in 1 .. UPT_LEVELS |-> IF i <= l THEN v[i] ELSE 0]

checkVPAlignment(v, l) == alignTo(v, l) = v

-----------------------------------------------------------------------------
(* The TLB and the hardware ASIDs *)

invalidateTranslationASID(kk, h) == [kk EXCEPT !.tlb = {e \in @ : e.vmid # h}]

\* The entry that translates v, whatever its size
invalidateTranslationSingle(kk, h, v) ==
  [kk EXCEPT !.tlb = {e \in @ : ~(e.vmid = h /\ alignTo(v, frameLevel[e.frame]) = e.vaddr)}]

invalidateTLBByASID(kk, a) ==
  LET h == findMapForASID(kk, a).stored
  IN IF h = NoVMID THEN kk ELSE invalidateTranslationASID(kk, h)

invalidateTLBByASIDVA(kk, a, v) ==
  LET h == findMapForASID(kk, a).stored
  IN IF h = NoVMID THEN kk ELSE invalidateTranslationSingle(kk, h, v)

setStored(kk, a, h) ==
  [kk EXCEPT !.array[kk.armKSASIDTable[ASID_HIGH(a)]][ASID_LOW(a)].stored = h]

invalidateASID(kk, a) == setStored(kk, a, NoVMID)

storeHWASID(kk, a, h) == [setStored(kk, a, h) EXCEPT !.armKSHWASIDTable[h] = a]

invalidateASIDEntry(kk, a) ==
  LET h == findMapForASID(kk, a).stored
  IN invalidateASID(IF h = NoVMID THEN kk ELSE [kk EXCEPT !.armKSHWASIDTable[h] = asidInvalid], a)

\* The offsets from armKSNextASID at which a hardware ASID is free
freeOffsets(kk) ==
  {o \in HWASIDs : kk.armKSHWASIDTable[(kk.armKSNextASID + o) % nHWASIDs] = asidInvalid}

\* Mutant: the translations of the previous owner stay in the TLB
assignHWASID_unflushed(kk, a) ==
  LET h == IF freeOffsets(kk) = {} THEN kk.armKSNextASID
           ELSE (kk.armKSNextASID + Min(freeOffsets(kk))) % nHWASIDs
      k1 == invalidateASID(kk, kk.armKSHWASIDTable[h])
  IN storeHWASID(IF freeOffsets(kk) # {} THEN kk
                 ELSE [k1 EXCEPT !.armKSNextASID = (@ + 1) % nHWASIDs],
                 a, h)

\* findFreeHWASID and storeHWASID: the first free one, else the next in turn is
\* taken from its owner
assignHWASID(kk, a) ==
  LET h == IF freeOffsets(kk) = {} THEN kk.armKSNextASID
           ELSE (kk.armKSNextASID + Min(freeOffsets(kk))) % nHWASIDs
      k1 == invalidateTranslationASID(invalidateASID(kk, kk.armKSHWASIDTable[h]), h)
  IN storeHWASID(IF freeOffsets(kk) # {} THEN kk
                 ELSE [k1 EXCEPT !.armKSNextASID = (@ + 1) % nHWASIDs],
                 a, h)

getHWASID(kk, a) == IF findMapForASID(kk, a).stored # NoVMID THEN kk ELSE assignHWASID(kk, a)

armv_contextSwitch(kk, v, a) ==
  LET k1 == getHWASID(kk, a)
  IN [k1 EXCEPT !.ttbr = [root |-> v, vmid |-> findMapForASID(k1, a).stored]]

setVMRoot(kk, t) ==
  LET v == kk.tcbVTable[t]
  IN IF v # Null /\ isValidRoot(kk, v) THEN armv_contextSwitch(kk, v, kk.vsCap[v].asid)
     ELSE [kk EXCEPT !.ttbr = armKSGlobalUserVSpace]

-----------------------------------------------------------------------------
(* Unmapping and deleting *)

unmapPageTable(kk, a, v, target) ==
  LET root == findVSpaceForASID(kk, a)
      tab  == walk(kk, root, v)
      L    == {l \in 2 .. UPT_LEVELS : tab[l] = target}
  IN IF root = Null \/ L = {} THEN kk
     ELSE invalidateTLBByASID([kk EXCEPT !.pte[tab[Min(L) - 1]][v[Min(L) - 1]] = Null], a)

unmapPage(kk, a, v, frame) ==
  LET root == findVSpaceForASID(kk, a)
      slot == lookupPTSlot(kk, root, v)
  IN IF root # Null /\ slot.level = frameLevel[frame] /\ kk.pte[slot.pt][slot.i] = frame
     THEN invalidateTLBByASIDVA([kk EXCEPT !.pte[slot.pt][slot.i] = Null], a, v)
     ELSE kk

\* Mutant: the hardware ASID stays with the deleted one
deleteASID_kept(kk, a, v) ==
  IF findVSpaceForASID(kk, a) # v THEN kk
  ELSE setVMRoot([invalidateTLBByASID(kk, a) EXCEPT
                    !.array[kk.armKSASIDTable[ASID_HIGH(a)]][ASID_LOW(a)] = noMap],
                 kk.ksCurThread)

deleteASID(kk, a, v) ==
  IF findVSpaceForASID(kk, a) # v THEN kk
  ELSE LET k1 == invalidateASIDEntry(invalidateTLBByASID(kk, a), a)
       IN setVMRoot([k1 EXCEPT !.array[kk.armKSASIDTable[ASID_HIGH(a)]][ASID_LOW(a)] = noMap],
                    kk.ksCurThread)

\* The loop over the pool does for every ASID in use what deleteASID does for one:
\* its translations and its hardware ASID go
deleteASIDPool(kk, base, p) ==
  LET map  == kk.array[p]
      used == {i \in 0 .. asidLowSize - 1 : map[i].vspace_root # Null}
      hs   == {map[i].stored : i \in used}
      k1   == [kk EXCEPT !.tlb = {e \in @ : e.vmid \notin hs},
                         !.armKSHWASIDTable = [h \in HWASIDs |-> IF h \in hs THEN asidInvalid ELSE @[h]],
                         !.array[p] = [i \in 0 .. asidLowSize - 1 |->
                                         IF i \in used THEN [map[i] EXCEPT !.stored = NoVMID] ELSE map[i]]]
  IN IF kk.armKSASIDTable[ASID_HIGH(base)] # p THEN kk
     ELSE setVMRoot([k1 EXCEPT !.armKSASIDTable[ASID_HIGH(base)] = Null], kk.ksCurThread)

\* The capabilities to a root: one user level holds, and those of threads
lastVSpaceCap(kk, v) == ~kk.vsCap[v].exists /\ \A t \in Threads : kk.tcbVTable[t] # v

\* Arch_finaliseCap of a vspace capability, the slot of which is emptied then
finaliseVSpace(kk, v, final) ==
  IF final /\ kk.vsCap[v].asid # asidInvalid THEN deleteASID(kk, kk.vsCap[v].asid, v) ELSE kk

\* cteDelete of the root of thread t
deleteVTable(kk, t) ==
  LET v  == kk.tcbVTable[t]
      k1 == [kk EXCEPT !.tcbVTable[t] = Null]
  IN IF v = Null THEN kk
     ELSE [finaliseVSpace(kk, v, lastVSpaceCap(k1, v)) EXCEPT !.tcbVTable[t] = Null]

-----------------------------------------------------------------------------
(* Invocations *)

\* Objects are made of cleared memory (Arch_createObject)
RetypeVSpace(v) ==
  /\ lastVSpaceCap(k, v)
  /\ k' = [k EXCEPT !.vsCap[v] = [exists |-> TRUE, asid |-> asidInvalid],
                    !.pte[v] = noEntries]

RetypePageTable(p) ==
  /\ k.ptCap[p].n = 0
  /\ k' = [k EXCEPT !.ptCap[p] = [n |-> 1, asid |-> asidInvalid, vaddr |-> Null],
                    !.pte[p] = noEntries]

RetypeFrame(c, f) ==
  /\ \A d \in FrameCaps : k.frameCap[d].frame # f
  /\ k.frameCap[c] = noFrame
  /\ k' = [k EXCEPT !.frameCap[c] = [noFrame EXCEPT !.frame = f]]

\* Arch_deriveCap: a copy of a frame capability is not mapped; a page table is
\* copied while it is mapped only
CopyFrame(c, d) ==
  /\ k.frameCap[c].frame # Null /\ k.frameCap[d] = noFrame
  /\ k' = [k EXCEPT !.frameCap[d] = [noFrame EXCEPT !.frame = k.frameCap[c].frame]]

CopyPageTable(p) ==
  /\ k.ptCap[p].n \in 1 .. MaxPTCaps - 1 /\ k.ptCap[p].asid # asidInvalid
  /\ k' = [k EXCEPT !.ptCap[p].n = @ + 1]

\* ARMASIDControlMakePool
performASIDControlInvocation(p) ==
  LET free == {i \in 0 .. nASIDPools - 1 : k.armKSASIDTable[i] = Null}
  IN /\ k.poolCap[p] = -1 /\ free # {}
     /\ k' = [k EXCEPT !.poolCap[p] = Min(free) * asidLowSize,
                       !.array[p] = [i \in 0 .. asidLowSize - 1 |-> noMap],
                       !.armKSASIDTable[Min(free)] = p]

\* ARMASIDPoolAssign
performASIDPoolInvocation(p, v) ==
  LET base == k.poolCap[p]
      free == {i \in 0 .. asidLowSize - 1 : base + i # 0 /\ k.array[p][i] = noMap}
  IN /\ base # -1 /\ k.armKSASIDTable[ASID_HIGH(base)] = p
     /\ k.vsCap[v].exists /\ k.vsCap[v].asid = asidInvalid
     /\ free # {}
     /\ k' = [k EXCEPT !.vsCap[v].asid = base + Min(free),
                       !.array[p][Min(free)] = [vspace_root |-> v, stored |-> NoVMID]]

PageTableMap(p, v, addr) ==
  LET slot == lookupPTSlot(k, v, addr)
  IN /\ k.ptCap[p].n > 0 /\ k.ptCap[p].asid = asidInvalid
     /\ k.vsCap[v].exists /\ isValidRoot(k, v)
     /\ slot.level # UPT_LEVELS /\ k.pte[slot.pt][slot.i] = Null
     /\ k' = [k EXCEPT !.pte[slot.pt][slot.i] = p,
                       !.ptCap[p].asid = k.vsCap[v].asid,
                       !.ptCap[p].vaddr = alignTo(addr, slot.level)]

\* Mutant: the unmapped table keeps its entries
PageTableUnmap_uncleared(p) ==
  /\ k.ptCap[p].n = 1 /\ k.ptCap[p].asid # asidInvalid
  /\ k' = [unmapPageTable(k, k.ptCap[p].asid, k.ptCap[p].vaddr, p)
             EXCEPT !.ptCap[p].asid = asidInvalid, !.ptCap[p].vaddr = Null]

\* Needs the last capability: the others would still say where it was mapped
PageTableUnmap(p) ==
  /\ k.ptCap[p].n = 1 /\ k.ptCap[p].asid # asidInvalid
  /\ k' = [unmapPageTable(k, k.ptCap[p].asid, k.ptCap[p].vaddr, p)
             EXCEPT !.pte[p] = noEntries,
                    !.ptCap[p].asid = asidInvalid, !.ptCap[p].vaddr = Null]

\* A mapped frame may be mapped again where it is, over whatever is there
mayMap(c, v, addr) ==
  /\ k.frameCap[c].frame # Null /\ k.vsCap[v].exists /\ isValidRoot(k, v)
  /\ checkVPAlignment(addr, frameLevel[k.frameCap[c].frame])
  /\ k.frameCap[c].asid # asidInvalid
       => k.frameCap[c].asid = k.vsCap[v].asid /\ k.frameCap[c].vaddr = addr

performPageInvocationMap(c, v, addr) ==
  LET slot == lookupPTSlot(k, v, addr)
      a    == k.vsCap[v].asid
      k1   == [k EXCEPT !.frameCap[c].asid = a, !.frameCap[c].vaddr = addr,
                        !.pte[slot.pt][slot.i] = k.frameCap[c].frame]
  IN /\ mayMap(c, v, addr)
     /\ slot.level = frameLevel[k.frameCap[c].frame]
     /\ k' = IF k.pte[slot.pt][slot.i] = Null THEN k1 ELSE invalidateTLBByASIDVA(k1, a, addr)

unmapFrameCap(kk, c) ==
  IF kk.frameCap[c].asid = asidInvalid THEN kk
  ELSE unmapPage(kk, kk.frameCap[c].asid, kk.frameCap[c].vaddr, kk.frameCap[c].frame)

performPageInvocationUnmap(c) ==
  /\ k.frameCap[c].frame # Null
  /\ k' = [unmapFrameCap(k, c) EXCEPT !.frameCap[c].asid = asidInvalid, !.frameCap[c].vaddr = Null]

-----------------------------------------------------------------------------
(* Deleting capabilities (Arch_finaliseCap), and threads *)

DeleteFrame(c) ==
  /\ k.frameCap[c].frame # Null
  /\ k' = [unmapFrameCap(k, c) EXCEPT !.frameCap[c] = noFrame]

DeletePageTable(p) ==
  /\ k.ptCap[p].n > 0
  /\ k' = [IF k.ptCap[p].n = 1 /\ k.ptCap[p].asid # asidInvalid
           THEN unmapPageTable(k, k.ptCap[p].asid, k.ptCap[p].vaddr, p) ELSE k
             EXCEPT !.ptCap[p].n = @ - 1]

DeleteVSpace(v) ==
  /\ k.vsCap[v].exists
  /\ k' = [finaliseVSpace(k, v, \A t \in Threads : k.tcbVTable[t] # v)
             EXCEPT !.vsCap[v].exists = FALSE]

DeletePool(p) ==
  /\ k.poolCap[p] # -1
  /\ k' = [deleteASIDPool(k, k.poolCap[p], p) EXCEPT !.poolCap[p] = -1]

\* TCB_SetSpace: the old root is deleted, then a copy of the new one installed;
\* the processor keeps its root until the next switch
SetSpace(t, v) ==
  /\ k.vsCap[v].exists /\ k.vsCap[v].asid # asidInvalid
  /\ k' = [deleteVTable(k, t) EXCEPT !.tcbVTable[t] = v]

\* The thread is suspended and its slots are deleted; the idle thread runs if it
\* was the current one
DeleteThread(t) ==
  /\ k.tcbVTable[t] # Null
  /\ LET k1 == deleteVTable(k, t)
     IN k' = IF t # k.ksCurThread THEN k1
             ELSE [k1 EXCEPT !.ksCurThread = idle, !.ttbr = armKSGlobalUserVSpace]

switchToThread(t) ==
  /\ t # k.ksCurThread
  /\ k' = IF t = idle
          THEN [k EXCEPT !.ksCurThread = idle, !.ttbr = armKSGlobalUserVSpace]
          ELSE [setVMRoot(k, t) EXCEPT !.ksCurThread = t]

\* The processor walks the tables of its root and may keep the translation
translation(kk, root, addr) ==
  LET slot  == lookupPTSlot(kk, root, addr)
      frame == kk.pte[slot.pt][slot.i]
  IN IF frame \in Frames /\ frameLevel[frame] = slot.level THEN frame ELSE Null

Access(addr) ==
  LET frame == translation(k, k.ttbr.root, addr)
  IN /\ k.ttbr.root # Null /\ frame # Null
     /\ k' = [k EXCEPT !.tlb = @ \cup {[vmid |-> k.ttbr.vmid, frame |-> frame,
                                        vaddr |-> alignTo(addr, frameLevel[frame])]}]

Invocation ==
  \/ \E v \in VRoots : RetypeVSpace(v) \/ DeleteVSpace(v)
  \/ \E p \in PTs : RetypePageTable(p) \/ CopyPageTable(p) \/ PageTableUnmap(p) \/ DeletePageTable(p)
  \/ \E c \in FrameCaps, f \in Frames : RetypeFrame(c, f)
  \/ \E c, d \in FrameCaps : CopyFrame(c, d)
  \/ \E p \in Pools : performASIDControlInvocation(p) \/ DeletePool(p)
  \/ \E p \in Pools, v \in VRoots : performASIDPoolInvocation(p, v)
  \/ \E p \in PTs, v \in VRoots, a \in VAddrs : PageTableMap(p, v, a)
  \/ \E c \in FrameCaps, v \in VRoots, a \in VAddrs : performPageInvocationMap(c, v, a)
  \/ \E c \in FrameCaps : performPageInvocationUnmap(c) \/ DeleteFrame(c)
  \/ \E t \in Threads, v \in VRoots : SetSpace(t, v)
  \/ \E t \in Threads : DeleteThread(t)

Next ==
  \/ Invocation /\ ops < MaxOps /\ ops' = ops + 1
  \/ (\E t \in Threads \cup {idle} : switchToThread(t)) /\ UNCHANGED ops
  \/ (\E a \in VAddrs : Access(a)) /\ UNCHANGED ops

Spec == Init /\ [][Next]_vars

-----------------------------------------------------------------------------
(* Properties *)

(* Every translation the processor may still have cached is the one the    *)
(* tables give now, for the address space that owns the hardware ASID: no  *)
(* unmapping, remapping, deletion or reassignment of a hardware ASID       *)
(* leaves a stale one behind.                                              *)
TLBCoherent ==
  \A e \in k.tlb : LET a == k.armKSHWASIDTable[e.vmid] IN
     /\ a # asidInvalid /\ findVSpaceForASID(k, a) # Null
     /\ translation(k, findVSpaceForASID(k, a), e.vaddr) = e.frame

(* What an address space reaches is what capabilities say is mapped there: *)
(* the frame of every page, and every table on the way, has a capability   *)
(* with this ASID and address.  So memory can be reused when its last      *)
(* capability is gone, whatever tables and roots went before it.           *)
MappingsHaveCaps ==
  \A a \in ASIDs \ {asidInvalid}, addr \in VAddrs :
    LET root == findVSpaceForASID(k, a)
        tab  == walk(k, root, addr)
        slot == lookupPTSlot(k, root, addr)
    IN root # Null =>
         /\ ~lastVSpaceCap(k, root) /\ k.vsCap[root].asid = a
         /\ \A l \in 2 .. UPT_LEVELS : tab[l] # Null =>
              k.ptCap[tab[l]].n > 0 /\ k.ptCap[tab[l]].asid = a
              /\ k.ptCap[tab[l]].vaddr = alignTo(addr, l - 1)
         /\ k.pte[slot.pt][slot.i] # Null =>
              \E c \in FrameCaps : k.frameCap[c] =
                 [frame |-> k.pte[slot.pt][slot.i], asid |-> a, vaddr |-> alignTo(addr, slot.level)]

(* The two tables of hardware ASIDs agree, and the root the processor uses *)
(* is that of an ASID in use, under the hardware ASID it has now.  So the  *)
(* assertions of invalidateASID and storeHWASID hold when a hardware ASID  *)
(* is taken from its owner.                                                *)
HardwareASIDsAgree ==
  /\ \A h \in HWASIDs, a \in ASIDs \ {asidInvalid} :
       k.armKSHWASIDTable[h] = a <=> findMapForASID(k, a).stored = h
  /\ k.ttbr.root # Null =>
       \E a \in ASIDs : findMapForASID(k, a) = [vspace_root |-> k.ttbr.root, stored |-> k.ttbr.vmid]

-----------------------------------------------------------------------------
(* Why they hold: what every operation keeps.  Addresses here are all      *)
(* addresses, since a capability to a table holds a rounded one.           *)

Addrs == [1 .. UPT_LEVELS -> Index]

ASIDMap == [vspace_root : VRoots \cup {Null}, stored : HWASIDs \cup {NoVMID}]

State ==
  [pte              : [Tables -> [Index -> PTs \cup Frames \cup {Null}]],
   vsCap            : [VRoots -> [exists : BOOLEAN, asid : ASIDs]],
   ptCap            : [PTs -> [n : Nat, asid : ASIDs, vaddr : Addrs \cup {Null}]],
   frameCap         : [FrameCaps -> [frame : Frames \cup {Null}, asid : ASIDs, vaddr : Addrs \cup {Null}]],
   poolCap          : [Pools -> {-1} \cup {i * asidLowSize : i \in 0 .. nASIDPools - 1}],
   armKSASIDTable   : [0 .. nASIDPools - 1 -> Pools \cup {Null}],
   array            : [Pools -> [0 .. asidLowSize - 1 -> ASIDMap]],
   armKSHWASIDTable : [HWASIDs -> ASIDs],
   armKSNextASID    : HWASIDs,
   tcbVTable        : [Threads \cup {idle} -> VRoots \cup {Null}],
   ksCurThread      : Threads \cup {idle},
   ttbr             : [root : VRoots \cup {Null}, vmid : HWASIDs],
   tlb              : SUBSET [vmid : HWASIDs, frame : Frames, vaddr : Addrs]]

(* A pool is in the table where its capability says; asidInvalid is never  *)
(* assigned; only an ASID in use has a hardware ASID, and translations are *)
(* of hardware ASIDs that have an owner.                                   *)
PoolsInv(kk) ==
  \A i \in 0 .. nASIDPools - 1, p \in Pools :
    kk.armKSASIDTable[i] = p => kk.poolCap[p] = i * asidLowSize

HWASIDsInv(kk) ==
  /\ findVSpaceForASID(kk, asidInvalid) = Null
  /\ \A a \in ASIDs : findMapForASID(kk, a).stored # NoVMID => findVSpaceForASID(kk, a) # Null
  /\ \A e \in kk.tlb : kk.armKSHWASIDTable[e.vmid] # asidInvalid
  /\ \A h \in HWASIDs, a \in ASIDs \ {asidInvalid} :
       kk.armKSHWASIDTable[h] = a <=> findMapForASID(kk, a).stored = h

RootLoaded(kk) ==
  kk.ttbr.root # Null =>
    \E a \in ASIDs : findMapForASID(kk, a) = [vspace_root |-> kk.ttbr.root, stored |-> kk.ttbr.vmid]

ASIDInv(kk) == kk \in State /\ PoolsInv(kk) /\ HWASIDsInv(kk) /\ RootLoaded(kk)

\* The ASIDs in use
Live(kk) == {a \in ASIDs \ {asidInvalid} : findVSpaceForASID(kk, a) # Null}

Levels == 1 .. UPT_LEVELS

\* The tables on the way to an address in an ASID in use, and the entries for it
path(kk, a, v) == walk(kk, findVSpaceForASID(kk, a), v)

entry(kk, a, v, l) == kk.pte[path(kk, a, v)[l]][v[l]]

RootsInv(kk) ==
  \A a \in Live(kk) : LET root == findVSpaceForASID(kk, a) IN
    kk.vsCap[root].asid = a /\ ~lastVSpaceCap(kk, root)

\* A capability says that a table or a page is mapped where it is
tableHasCap(kk, p, a, v, l) ==
  kk.ptCap[p].n > 0 /\ kk.ptCap[p].asid = a /\ kk.ptCap[p].vaddr = alignTo(v, l - 1)

pageHasCap(kk, f, a, v, l) ==
  /\ f \in Frames /\ frameLevel[f] = l
  /\ \E c \in FrameCaps : kk.frameCap[c] = [frame |-> f, asid |-> a, vaddr |-> alignTo(v, l)]

TablesInv(kk) ==
  \A a \in Live(kk), v \in Addrs, l \in Levels \ {1} :
    path(kk, a, v)[l] # Null => tableHasCap(kk, path(kk, a, v)[l], a, v, l)

(* A table is on one level: its capability cannot tell, as the levels below *)
(* an address are rounded to zero.                                         *)
LevelsInv(kk) ==
  \A a \in Live(kk), v, w \in Addrs, l, m \in Levels \ {1} :
    path(kk, a, v)[l] # Null /\ path(kk, a, v)[l] = path(kk, a, w)[m] => l = m

PagesInv(kk) ==
  \A a \in Live(kk), v \in Addrs, l \in Levels :
    path(kk, a, v)[l] # Null /\ entry(kk, a, v, l) # Null =>
      \/ entry(kk, a, v, l) \in PTs /\ l < UPT_LEVELS
      \/ pageHasCap(kk, entry(kk, a, v, l), a, v, l)

CapsInv(kk) ==
  /\ \A v \in VRoots : kk.vsCap[v].exists /\ kk.vsCap[v].asid = asidInvalid => kk.pte[v] = noEntries
  /\ \A p \in PTs : kk.ptCap[p].n > 0 /\ kk.ptCap[p].asid = asidInvalid => kk.pte[p] = noEntries
  /\ \A p \in PTs : kk.ptCap[p].asid # asidInvalid => kk.ptCap[p].vaddr \in Addrs
  /\ \A c \in FrameCaps : kk.frameCap[c].asid # asidInvalid =>
       kk.frameCap[c].vaddr \in Addrs /\ kk.frameCap[c].frame \in Frames

TLBInv(kk) ==
  \A e \in kk.tlb : LET a == kk.armKSHWASIDTable[e.vmid] IN
    /\ a \in Live(kk) /\ translation(kk, findVSpaceForASID(kk, a), e.vaddr) = e.frame
    /\ alignTo(e.vaddr, frameLevel[e.frame]) = e.vaddr

VSpaceInv ==
  /\ ASIDInv(k) /\ RootsInv(k) /\ TablesInv(k) /\ LevelsInv(k) /\ PagesInv(k)
  /\ CapsInv(k) /\ TLBInv(k)
=============================================================================
