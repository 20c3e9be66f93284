------------------------------- MODULE CSpace -------------------------------
(***************************************************************************)
(* Capabilities and the slots that hold them: object/cnode.c (insertion,   *)
(* move, swap, the derivation list) and the predicates on capabilities of  *)
(* object/objecttype.c.                                                    *)
(*                                                                         *)
(* A slot is named by its address.  Addresses count in units of one slot,  *)
(* so a CNode of radix r is 2^r consecutive addresses and every slot that  *)
(* can ever exist is an address: memory that holds no CNode is a slot with *)
(* a null capability, as zeroed memory is.  The derivation tree is what    *)
(* the code has of it, a list through mdbPrev and mdbNext with two flags.  *)
(* The record k holds all of the state; a C function is an operator on it. *)
(*                                                                         *)
(* Two fields of k are history the code does not have: k.par, the slot a   *)
(* capability was derived from, and k.dirty, the memory objects were made  *)
(* in since it was last cleared.                                           *)
(*                                                                         *)
(* Left out: access rights and CNode guards, which no operation here reads *)
(* to decide what it does to the tree; device memory; the capabilities of  *)
(* the architecture but for that to a VSpace root.                         *)
(***************************************************************************)
EXTENDS Integers, FiniteSets

CONSTANTS
  Slots,         \* addresses of slots: root CNode, untyped memory, interrupt nodes
  IRQs,          \* interrupt numbers
  irqNode,       \* intStateIRQNode: the slot of each interrupt
  Badges,        \* badges user level mints with
  TCBBits,       \* seL4_TCBBits, in units of a slot
  tcbCNodeEntries \* slots of a TCB

NULL == 0

ASSUME CSpaceConstants ==
  /\ Slots \subseteq Nat \ {NULL} /\ IsFiniteSet(Slots)
  /\ irqNode \in [IRQs -> Slots]
  /\ Badges \subseteq Nat \ {0}
  /\ TCBBits \in Nat /\ tcbCNodeEntries \in 1..2^TCBBits

\* n is the badge, the free index, the number of a zombie or of an interrupt
Cap(type, ptr, bits, n) == [capType |-> type, capPtr |-> ptr, capSizeBits |-> bits, n |-> n]

cap_null_cap_new == Cap("null", NULL, 0, 0)

cap_untyped_cap_new(free, bits, ptr) == Cap("untyped", ptr, bits, free)

Zombie_new(number, bits, ptr) == Cap("zombie", ptr, bits, number)

cap_irq_handler_cap_new(irq) == Cap("irq_handler", NULL, 0, irq)

Badged == {"endpoint", "notification"}

capIsNull(c) == c.capType = "null"

cap_get_capIsPhysical(c) == c.capType \notin {"null", "irq_control", "irq_handler"}

capRegion(c) == c.capPtr .. (c.capPtr + 2^c.capSizeBits - 1)

sameRegionAs(a, b) ==
  CASE a.capType = "untyped" ->
         cap_get_capIsPhysical(b) /\ capRegion(b) \subseteq capRegion(a)
    [] a.capType \in Badged \cup {"cnode", "thread", "vspace"} ->
         /\ b.capType = a.capType
         /\ b.capPtr = a.capPtr /\ b.capSizeBits = a.capSizeBits
    [] a.capType = "irq_control" -> b.capType \in {"irq_control", "irq_handler"}
    [] a.capType = "irq_handler" -> b.capType = "irq_handler" /\ b.n = a.n
    [] OTHER -> FALSE

sameObjectAs(a, b) ==
  a.capType \notin {"untyped", "irq_control"} /\ sameRegionAs(a, b)

isCapRevocable(derived, src) ==
  CASE derived.capType \in Badged -> derived.n # src.n
    [] derived.capType = "irq_handler" -> src.capType = "irq_control"
    [] OTHER -> derived.capType = "untyped"

\* What maskCapRights and updateCapData make of a capability: a badge is given
\* once, and never by an operation that moves the capability.
updateCapData(preserve, newData, c) ==
  IF c.capType \notin Badged THEN c
  ELSE IF ~preserve /\ c.n = 0 THEN [c EXCEPT !.n = newData]
  ELSE cap_null_cap_new

-----------------------------------------------------------------------------
(* The derivation list *)

assert(k, cond, where) == IF cond THEN k ELSE [k EXCEPT !.failed = @ \cup {where}]

\* k.f[s] = v for a pointer s that may be NULL
setNext(k, s, v) == IF s = NULL THEN k ELSE [k EXCEPT !.mdbNext[s] = v]

setPrev(k, s, v) == IF s = NULL THEN k ELSE [k EXCEPT !.mdbPrev[s] = v]

isMDBParentOf(k, a, b) ==
  LET ca == k.cap[a]
      cb == k.cap[b]
  IN /\ k.mdbRevocable[a]
     /\ sameRegionAs(ca, cb)
     /\ ca.capType \in Badged /\ ca.n # 0 => ca.n = cb.n /\ ~k.mdbFirstBadged[b]

ensureNoChildren(k, s) == k.mdbNext[s] = NULL \/ ~isMDBParentOf(k, s, k.mdbNext[s])

ensureEmptySlot(k, s) == capIsNull(k.cap[s])

\* Mutant: only the next slot is compared
isFinalCapability_nextOnly(k, s) ==
  k.mdbNext[s] # NULL => ~sameObjectAs(k.cap[s], k.cap[k.mdbNext[s]])

\* Only the neighbours in the list are compared
isFinalCapability(k, s) ==
  /\ k.mdbPrev[s] # NULL => ~sameObjectAs(k.cap[k.mdbPrev[s]], k.cap[s])
  /\ k.mdbNext[s] # NULL => ~sameObjectAs(k.cap[s], k.cap[k.mdbNext[s]])

slotCapLongRunningDelete(k, s) ==
  /\ k.cap[s].capType \in {"thread", "zombie", "cnode"}
  /\ isFinalCapability(k, s)

\* deriveCap: NULL capabilities may not be inserted; a zombie and the interrupt
\* control capability have no copies, an untyped one only while it is childless.
deriveCap(k, s, c) ==
  IF c.capType \in {"zombie", "irq_control"} \/ (c.capType = "untyped" /\ ~ensureNoChildren(k, s))
  THEN cap_null_cap_new
  ELSE c

MAX_FREE_INDEX(bits) == 2^bits

\* A copy of an untyped capability takes over the memory
setUntypedCapAsFull(k, newCap, src) ==
  LET c == k.cap[src]
  IN IF /\ c.capType = "untyped" /\ newCap.capType = "untyped"
        /\ c.capPtr = newCap.capPtr /\ c.capSizeBits = newCap.capSizeBits
     THEN [k EXCEPT !.cap[src].n = MAX_FREE_INDEX(c.capSizeBits)]
     ELSE k

\* The history of a derivation: a child of the source if the source can have
\* it as a child, else of the source's own parent
derivedFrom(k, src, dest) == IF isMDBParentOf(k, src, dest) THEN src ELSE k.par[src]

\* Mutant: a minted capability is not marked as the first of its badge
linkAfter_unmarked(k, src, dest, cap, rev) ==
  LET next == k.mdbNext[src]
      k1   == setPrev([k EXCEPT !.cap[dest] = cap, !.mdbNext[src] = dest,
                                !.mdbPrev[dest] = src, !.mdbNext[dest] = next,
                                !.mdbRevocable[dest] = rev],
                      next, dest)
  IN [k1 EXCEPT !.par[dest] = derivedFrom(k1, src, dest)]

\* destSlot behind srcSlot in the list
linkAfter(k, src, dest, cap, rev) ==
  LET next == k.mdbNext[src]
      k1   == setPrev([k EXCEPT !.cap[dest] = cap, !.mdbNext[src] = dest,
                                !.mdbPrev[dest] = src, !.mdbNext[dest] = next,
                                !.mdbRevocable[dest] = rev, !.mdbFirstBadged[dest] = rev],
                      next, dest)
  IN [k1 EXCEPT !.par[dest] = derivedFrom(k1, src, dest)]

assertEmpty(k, s, where) ==
  assert(k, capIsNull(k.cap[s]) /\ k.mdbNext[s] = NULL /\ k.mdbPrev[s] = NULL, where)

\* Mutant: a copy of an untyped capability leaves its source usable
cteInsert_sourceKept(k, newCap, src, dest) ==
  linkAfter(assertEmpty(k, dest, "cteInsert"), src, dest, newCap,
            isCapRevocable(newCap, k.cap[src]))

cteInsert(k, newCap, src, dest) ==
  linkAfter(setUntypedCapAsFull(assertEmpty(k, dest, "cteInsert"), newCap, src),
            src, dest, newCap, isCapRevocable(newCap, k.cap[src]))

insertNewCap(k, parent, slot, cap) == linkAfter(k, parent, slot, cap, TRUE)

\* The names of two slots exchanged
swapped(s, s1, s2) == IF s = s1 THEN s2 ELSE IF s = s2 THEN s1 ELSE s

\* The list is a list: the links of neighbours agree, and a slot without a
\* capability is in no list
WellFormedList(k) ==
  \A s \in Slots :
     /\ k.mdbNext[s] # NULL => k.mdbPrev[k.mdbNext[s]] = s
     /\ k.mdbPrev[s] # NULL => k.mdbNext[k.mdbPrev[s]] = s
     /\ capIsNull(k.cap[s]) => k.mdbNext[s] = NULL /\ k.mdbPrev[s] = NULL

swappedParents(k, s1, s2) ==
  [s \in Slots |-> swapped(k.par[swapped(s, s1, s2)], s1, s2)]

cteMove(k, newCap, src, dest) ==
  LET k1 == [assertEmpty(k, dest, "cteMove")
               EXCEPT !.cap[dest] = newCap, !.cap[src] = cap_null_cap_new,
                      !.mdbNext[dest] = k.mdbNext[src], !.mdbNext[src] = NULL,
                      !.mdbPrev[dest] = k.mdbPrev[src], !.mdbPrev[src] = NULL,
                      !.mdbRevocable[dest] = k.mdbRevocable[src], !.mdbRevocable[src] = FALSE,
                      !.mdbFirstBadged[dest] = k.mdbFirstBadged[src],
                      !.mdbFirstBadged[src] = FALSE,
                      !.par = swappedParents(k, src, dest)]
  IN setPrev(setNext(k1, k.mdbPrev[src], dest), k.mdbNext[src], dest)

\* The neighbours of s1 now point to s2
relinked(k, s1, s2) == setPrev(setNext(k, k.mdbPrev[s1], s2), k.mdbNext[s1], s2)

exchangedMDB(k, s1, s2) ==
  [k EXCEPT !.mdbNext[s1] = k.mdbNext[s2], !.mdbNext[s2] = k.mdbNext[s1],
            !.mdbPrev[s1] = k.mdbPrev[s2], !.mdbPrev[s2] = k.mdbPrev[s1],
            !.mdbRevocable[s1] = k.mdbRevocable[s2], !.mdbRevocable[s2] = k.mdbRevocable[s1],
            !.mdbFirstBadged[s1] = k.mdbFirstBadged[s2],
            !.mdbFirstBadged[s2] = k.mdbFirstBadged[s1]]

\* The second node is read after the neighbours of the first have been updated,
\* so that two neighbours exchange places correctly.
cteSwap(k, cap1, s1, cap2, s2) ==
  LET k1 == exchangedMDB(relinked(k, s1, s2), s1, s2)
  IN [setPrev(setNext(k1, k1.mdbPrev[s1], s1), k1.mdbNext[s1], s1)
        EXCEPT !.cap[s1] = cap2, !.cap[s2] = cap1, !.par = swappedParents(k, s1, s2)]

capSwapForDelete(k, s1, s2) ==
  IF s1 = s2 THEN k ELSE cteSwap(k, k.cap[s1], s1, k.cap[s2], s2)
=============================================================================
