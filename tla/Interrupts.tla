----------------------------- MODULE Interrupts -----------------------------
(***************************************************************************)
(* Interrupt handlers (object/interrupt.c, with the build for a GICv2):    *)
(* the state of each interrupt, the slot of its notification, masking and  *)
(* acknowledgement; and, because an interrupt's state follows the last     *)
(* capability to it, the emptying of a slot (cnode.c emptySlot and         *)
(* cteDeleteOne).                                                          *)
(***************************************************************************)
EXTENDS CSpace

maskInterrupt(k, disable, irq) == [k EXCEPT !.masked[irq] = disable]

setIRQState(k, state, irq) ==
  [maskInterrupt(k, state = "IRQInactive", irq) EXCEPT !.intStateIRQTable[irq] = state]

isIRQActive(k, irq) == k.intStateIRQTable[irq] # "IRQInactive"

\* Mutant: the interrupt stays active when its handler is gone
deletedIRQHandler_active(k, irq) == k

deletedIRQHandler(k, irq) == setIRQState(k, "IRQInactive", irq)

postCapDeletion(k, cleanup) ==
  IF cleanup.capType = "irq_handler" THEN deletedIRQHandler(k, cleanup.n) ELSE k

\* Children of a deleted capability become its parent's
orphansAdopted(k, s) ==
  [c \in Slots |-> IF c = s THEN NULL ELSE IF k.par[c] = s THEN k.par[s] ELSE k.par[c]]

\* The slot's neighbours joined; the next one is the first of its badge if the
\* slot was
unlinked(k, s) ==
  LET prev == k.mdbPrev[s]
      next == k.mdbNext[s]
      k1   == setPrev(setNext(k, prev, next), next, prev)
  IN IF next # NULL /\ k.mdbFirstBadged[s] THEN [k1 EXCEPT !.mdbFirstBadged[next] = TRUE] ELSE k1

emptySlot(k, s, cleanup) ==
  IF capIsNull(k.cap[s]) THEN k
  ELSE postCapDeletion([unlinked(k, s)
         EXCEPT !.cap[s] = cap_null_cap_new, !.mdbNext[s] = NULL, !.mdbPrev[s] = NULL,
                !.mdbRevocable[s] = FALSE, !.mdbFirstBadged[s] = FALSE,
                !.par = orphansAdopted(k, s)], cleanup)

\* finaliseCap leaves nothing of these capabilities and needs no clean-up; what
\* it does to the object behind a last capability is in module Kernel
cteDeleteOne(k, s) ==
  emptySlot(assert(k, k.cap[s].capType \in Badged \cup {"null"}, "cteDeleteOne"),
            s, cap_null_cap_new)

deletingIRQHandler(k, irq) == cteDeleteOne(k, irqNode[irq])

-----------------------------------------------------------------------------
(* Invocations *)

invokeIRQControl(k, irq, handlerSlot, controlSlot) ==
  cteInsert(setIRQState(k, "IRQSignal", irq), cap_irq_handler_cap_new(irq),
            controlSlot, handlerSlot)

invokeIRQHandler_AckIRQ(k, irq) == maskInterrupt(k, FALSE, irq)

\* Mutant: the new capability is inserted over the old one
invokeIRQHandler_SetIRQHandler_over(k, irq, c, slot) == cteInsert(k, c, slot, irqNode[irq])

invokeIRQHandler_SetIRQHandler(k, irq, c, slot) ==
  cteInsert(cteDeleteOne(k, irqNode[irq]), c, slot, irqNode[irq])

invokeIRQHandler_ClearIRQHandler(k, irq) == cteDeleteOne(k, irqNode[irq])

\* The signal itself is sendSignal of module Kernel.  Both a delivered and an
\* undelivered interrupt stay masked until the handler acknowledges.
handleInterrupt(k, irq) == maskInterrupt(k, TRUE, irq)
=============================================================================
