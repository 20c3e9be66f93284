--------------------------- MODULE MCCapabilities ---------------------------
(* Instances of Capabilities for TLC: a root CNode of four slots at address *)
(* 16, full of capabilities, so that one has to go to make place for others; *)
(* eight slots' worth of untyped memory at 8, a VSpace root at 4, one       *)
(* interrupt whose node is slot 20, and the CSpace root of the initial      *)
(* thread in slot 21.                                                       *)
EXTENDS Capabilities

MC_slots == 8..21

MC_irqNode == [i \in IRQs |-> 20]

MC_initCaps ==
  [s \in Slots |->
     CASE s = 16 -> Cap("cnode", 16, 2, 0)
       [] s = 17 -> Cap("untyped", 8, 3, 0)
       [] s = 18 -> Cap("irq_control", NULL, 0, 0)
       [] s = 19 -> Cap("vspace", 4, 0, 0)
       [] OTHER -> cap_null_cap_new]
=============================================================================
