---------------------------- MODULE Capabilities ----------------------------
(***************************************************************************)
(* The capability system: the invocations of CNodes (decodeCNodeInvocation *)
(* of object/cnode.c), untyped memory, interrupt control and handlers, and *)
(* a TCB's fault handler, CSpace and VSpace root (object/tcb.c             *)
(* decodeSetSpace), in any order, by threads that share one CSpace, with   *)
(* interrupts from the hardware.                                           *)
(*                                                                         *)
(* A preempted invocation leaves the state as it is and its thread to try  *)
(* again: what any thread does before that is any other step.              *)
(***************************************************************************)
EXTENDS Untyped

CONSTANTS
  initCNode,    \* seL4_CapInitThreadCNode: its own slot for the root CNode
  rootSlot,     \* the tcbCTable slot of the running threads
  initCaps,     \* the capabilities at the start
  seL4_MinUntypedBits,       \* the smallest piece of untyped memory, in slots
  MaxObjectBits, MaxOffset,  \* bounds on the size and the place user level asks for
  MaxOps        \* bound on the operations that make or move capabilities

\* tcb_cnode_index: the slots of a TCB that are given capabilities here
tcbCTable == 0
tcbVTable == 1
tcbFaultHandler == 3

ASSUME TCBSlots == tcbFaultHandler < tcbCNodeEntries

VARIABLES
  k,
  ops           \* those so far

vars == <<k, ops>>

\* The state the boot code hands over: every capability is an original, and the
\* initial thread has a copy of that of the root CNode
bootState ==
      [ cap |-> initCaps, mdbNext |-> [s \in Slots |-> NULL], mdbPrev |-> [s \in Slots |-> NULL],
        mdbRevocable |-> [s \in Slots |-> ~capIsNull(initCaps[s])],
        mdbFirstBadged |-> [s \in Slots |-> ~capIsNull(initCaps[s])],
        par |-> [s \in Slots |-> NULL], dirty |-> {},
        intStateIRQTable |-> [i \in IRQs |-> "IRQInactive"],
        masked |-> [i \in IRQs |-> TRUE], failed |-> {} ]

Init ==
  /\ k = cteInsert(bootState, initCaps[initCNode], initCNode, rootSlot)
  /\ ops = 0

\* The slots of the CNodes that capabilities in S give access to
named(S) == UNION {capRegion(k.cap[s]) : s \in {t \in S : k.cap[t].capType = "cnode"}}

\* resolveAddressBits from the root: every slot that user level can name.  The
\* bits of an address, and the guards, only choose among these.
reachable == LET S1 == named({rootSlot})
                 S2 == S1 \cup named(S1)
             IN S2 \cup named(S2)

holding(type) == {s \in reachable : k.cap[s].capType = type}

empty == {s \in reachable : ensureEmptySlot(k, s)}

Outcomes(results) == \E r \in results : k' = r.k
-----------------------------------------------------------------------------
(* CNode invocations *)

CNodeCopy(src, dest) ==
  LET c == deriveCap(k, src, k.cap[src])
  IN ~capIsNull(c) /\ k' = cteInsert(k, c, src, dest)

CNodeMint(src, dest, badge) ==
  LET c == deriveCap(k, src, updateCapData(FALSE, badge, k.cap[src]))
  IN ~capIsNull(c) /\ k' = cteInsert(k, c, src, dest)

CNodeMove(src, dest) == ~capIsNull(k.cap[src]) /\ k' = cteMove(k, k.cap[src], src, dest)

CNodeMutate(src, dest) ==
  LET c == updateCapData(TRUE, 0, k.cap[src])
  IN ~capIsNull(c) /\ k' = cteMove(k, c, src, dest)

CNodeRotate(src, pivot, dest) ==
  LET c1 == updateCapData(TRUE, 0, k.cap[src])
      c2 == updateCapData(TRUE, 0, k.cap[pivot])
  IN /\ pivot \notin {src, dest}
     /\ src # dest => ensureEmptySlot(k, dest)
     /\ ~capIsNull(c1) /\ ~capIsNull(c2)
     /\ k' = IF src = dest THEN cteSwap(k, c1, src, c2, pivot)
             ELSE cteMove(cteMove(k, c2, pivot, dest), c1, src, pivot)

\* Of an empty slot there is nothing to revoke or to delete
CNodeRevoke(s) == Outcomes(cteRevoke(k, s))

CNodeDelete(s) == Outcomes(cteDelete(k, s, TRUE))

-----------------------------------------------------------------------------
(* Other invocations *)

\* The new capabilities go to consecutive slots of the CNode node names
UntypedRetype(s, type, userSize, node, offset, window) ==
  LET bits == getObjectSize(type, userSize)
      dest == k.cap[node].capPtr + offset
  IN /\ type = "cnode" => userSize > 0
     /\ type = "untyped" => userSize >= seL4_MinUntypedBits
     /\ offset + window <= 2^k.cap[node].capSizeBits
     /\ \A i \in dest .. (dest + window - 1) : ensureEmptySlot(k, i)
     /\ enoughMemory(k, s, bits, window)
     /\ Outcomes(invokeUntyped_Retype(k, s, retypeBase(k, s, bits), type, userSize, dest, window))

IRQIssueIRQHandler(control, irq, dest) ==
  /\ ~isIRQActive(k, irq)
  /\ k' = invokeIRQControl(k, irq, dest, control)

IRQAckIRQ(s) == k' = invokeIRQHandler_AckIRQ(k, k.cap[s].n)

IRQSetIRQHandler(s, ntfn) ==
  k' = invokeIRQHandler_SetIRQHandler(k, k.cap[s].n, k.cap[ntfn], ntfn)

IRQClearIRQHandler(s) == k' = invokeIRQHandler_ClearIRQHandler(k, k.cap[s].n)

\* installTCBCap: the deletion of the old capability may take the new one's
\* source, or the capability to the TCB in slot, with it
installTCBCap(kk, tCap, slot, index, newCap, srcSlot) ==
  LET tableSlot == tCap.capPtr + index
  IN andThen({IF r.status = "NONE" THEN r
              ELSE [r EXCEPT !.k.failed = @ \cup {"installTCBCap"}] : r \in cteDelete(kk, tableSlot, TRUE)},
             LAMBDA r : {Done(IF /\ ~capIsNull(newCap)
                                 /\ sameObjectAs(newCap, r.k.cap[srcSlot])
                                 /\ sameObjectAs(tCap, r.k.cap[slot])
                              THEN cteInsert(r.k, newCap, srcSlot, tableSlot) ELSE r.k)})

\* A thread without a fault handler is given a null capability
validFaultHandler(c) == c.capType \in {"endpoint", "null"}

TCBSetSpace(slot, fhSlot, cRootSlot, vRootSlot) ==
  LET tCap     == k.cap[slot]
      fhCap    == k.cap[fhSlot]
      cRootCap == deriveCap(k, cRootSlot, k.cap[cRootSlot])
      vRootCap == deriveCap(k, vRootSlot, k.cap[vRootSlot])
  IN /\ ~slotCapLongRunningDelete(k, tCap.capPtr + tcbCTable)
     /\ ~slotCapLongRunningDelete(k, tCap.capPtr + tcbVTable)
     /\ cRootCap.capType = "cnode" /\ vRootCap.capType = "vspace" /\ validFaultHandler(fhCap)
     /\ Outcomes(
          andThen(installTCBCap(k, tCap, slot, tcbFaultHandler, fhCap, fhSlot), LAMBDA r :
          andThen(installTCBCap(r.k, tCap, slot, tcbCTable, cRootCap, cRootSlot), LAMBDA q :
                  installTCBCap(q.k, tCap, slot, tcbVTable, vRootCap, vRootSlot))))

\* The controller delivers only what is not masked
Interrupt(irq) == ~k.masked[irq] /\ k' = handleInterrupt(k, irq)

Next ==
  \/ /\ UNCHANGED ops
     /\ \/ \E s \in reachable \ empty : CNodeRevoke(s) \/ CNodeDelete(s)
        \/ \E h \in holding("irq_handler") :
             \/ IRQAckIRQ(h)
             \/ IRQClearIRQHandler(h)
             \/ \E n \in holding("notification") : IRQSetIRQHandler(h, n)
        \/ \E irq \in IRQs : Interrupt(irq)
  \/ /\ ops < MaxOps /\ ops' = ops + 1
     /\ \/ \E src \in reachable, dest \in empty :
             CNodeCopy(src, dest) \/ \E b \in Badges : CNodeMint(src, dest, b)
        \/ \E s \in holding("untyped"), node \in holding("cnode"), type \in ObjectTypes,
              size \in 0..MaxObjectBits, offset \in 0..MaxOffset,
              window \in 1..CONFIG_RETYPE_FAN_OUT_LIMIT :
             /\ size > 0 => type \in {"cnode", "untyped"}  \* the others have one size
             /\ UntypedRetype(s, type, size, node, offset, window)
        \/ \E c \in holding("irq_control"), irq \in IRQs, dest \in empty :
             IRQIssueIRQHandler(c, irq, dest)
        \/ \E src \in reachable, dest \in empty : CNodeMove(src, dest) \/ CNodeMutate(src, dest)
        \/ \E t \in holding("thread"), fh \in empty \cup holding("endpoint"),
              c \in holding("cnode"), v \in holding("vspace") : TCBSetSpace(t, fh, c, v)
  \/ /\ ops + 1 < MaxOps /\ ops' = ops + 2
     /\ \E src \in reachable, pivot \in reachable, dest \in reachable :
          CNodeRotate(src, pivot, dest)

Spec == Init /\ [][Next]_vars
-----------------------------------------------------------------------------
(* What holds after every invocation, completed or preempted *)

Used == {s \in Slots : ~capIsNull(k.cap[s])}

RECURSIVE Closure(_)

\* S and what was derived from a capability in it, directly or not
Closure(S) ==
  LET children == {c \in Used \ S : k.par[c] \in S}
  IN IF children = {} THEN S ELSE Closure(S \cup children)

Derived(s) == Closure({s}) \ {s}

RECURSIVE FollowingChildren(_, _)

\* What cteRevoke(s) deletes: the slots behind it in the list, up to the first
\* that is not its descendant
FollowingChildren(s, t) ==
  IF k.mdbNext[t] = NULL \/ ~isMDBParentOf(k, s, k.mdbNext[t]) THEN {}
  ELSE {k.mdbNext[t]} \cup FollowingChildren(s, k.mdbNext[t])

(* No assert of cnode.c fails, and installing a capability in a TCB is     *)
(* never preempted ("cteDelete on a cap installed in the tcb cannot fail", *)
(* tcb.c installTCBCap), whatever zombies preempted deletions left behind. *)
NoAssertionFails == k.failed = {}

(* The list and its two flags are the derivation tree: the links of        *)
(* neighbours agree ("NullCaps are always accompanied by null mdb          *)
(* pointers", cteRevoke), and what cteRevoke would delete of a slot is     *)
(* exactly what was derived from it, through every copy, mint, move, swap  *)
(* and deletion, its own included.                                         *)
ListIsDerivationTree ==
  /\ WellFormedList(k)
  /\ \A s \in Used : FollowingChildren(s, s) = Derived(s)

(* isFinalCapability compares two neighbours only, and still tells that no *)
(* other capability to the object exists anywhere: an object is destroyed  *)
(* with its last capability, not earlier and not never.                    *)
FinalMeansLast ==
  \A s \in Used :
     isFinalCapability(k, s) <=>
       \A t \in Used \ {s} : ~sameObjectAs(k.cap[s], k.cap[t]) /\ ~sameObjectAs(k.cap[t], k.cap[s])

(* Memory has one use: two capabilities to overlapping memory are to one   *)
(* object, or one is to untyped memory and the other derived from it.  So  *)
(* ensureNoChildren, which decides about a reset of the memory, tells that *)
(* nothing in it is in use.                                                *)
MemoryHasOneUse ==
  \A s, t \in Used :
     /\ s # t /\ cap_get_capIsPhysical(k.cap[s]) /\ cap_get_capIsPhysical(k.cap[t])
     /\ capRegion(k.cap[s]) \cap capRegion(k.cap[t]) # {}
     => \/ sameObjectAs(k.cap[s], k.cap[t])
        \/ k.cap[s].capType = "untyped" /\ t \in Derived(s)
        \/ k.cap[t].capType = "untyped" /\ s \in Derived(t)

(* Untyped memory behind the free index is clear, also when a reset was    *)
(* preempted between two chunks: resetUntypedCap records how far it got.   *)
FreeMemoryIsClear ==
  \A s \in Used : k.cap[s].capType = "untyped" =>
     k.dirty \cap {a \in capRegion(k.cap[s]) : a >= k.cap[s].capPtr + k.cap[s].n} = {}

\* The slots an object or a zombie still has
slotsOf(c) ==
  CASE c.capType = "cnode" -> capRegion(c)
    [] c.capType = "thread" -> c.capPtr .. (c.capPtr + tcbCNodeEntries - 1)
    [] c.capType = "zombie" -> c.capPtr .. (c.capPtr + c.n - 1)
    [] OTHER -> {}

(* No capability is left in memory that is no longer a slot: every one is  *)
(* in a CNode, a TCB or a zombie that still counts its slot, or in a slot  *)
(* of the kernel.  Otherwise the tree would run through reused memory.     *)
NoStrandedCapability ==
  Used \subseteq {rootSlot} \cup {irqNode[i] : i \in IRQs} \cup UNION {slotsOf(k.cap[s]) : s \in Used}

(* An interrupt is active exactly as long as there is a capability to its  *)
(* handler; an inactive one is masked and signals nothing.                 *)
InterruptsFollowHandlers ==
  \A i \in IRQs :
     /\ isIRQActive(k, i) <=> \E s \in Used : k.cap[s].capType = "irq_handler" /\ k.cap[s].n = i
     /\ ~isIRQActive(k, i) => k.masked[i] /\ ensureEmptySlot(k, irqNode[i])
=============================================================================
