---------------------------- MODULE RefillQueue ----------------------------
(***************************************************************************)
(* What the refill buffer of a scheduling context promises to sporadic.c:  *)
(* a sequence of one to max refills, popped at the head, extended and      *)
(* changed at the tail.  Sporadic is written over this sequence.           *)
(***************************************************************************)
EXTENDS Integers, Sequences

CONSTANTS Refill, Maxes     \* the refills, and the sizes a queue can be given

VARIABLES q, max, op     \* op: the operation last called

vars == <<q, max, op>>

Init == q \in {<<r>> : r \in Refill} /\ max \in Maxes /\ op = "none"

New == \E r \in Refill, m \in Maxes : q' = <<r>> /\ max' = m /\ op' = "new"

\* Keep the head alone
Truncate == \E m \in Maxes : q' = <<Head(q)>> /\ max' = m /\ op' = "update"

Pop == Len(q) > 1 /\ q' = Tail(q) /\ UNCHANGED max /\ op' = "pop"

Add == \E r \in Refill : Len(q) < max /\ q' = Append(q, r) /\ UNCHANGED max /\ op' = "add"

SetHead == \E r \in Refill : q' = [q EXCEPT ![1] = r] /\ UNCHANGED max /\ op' = "head"

SetTail == \E r \in Refill : q' = [q EXCEPT ![Len(q)] = r] /\ UNCHANGED max /\ op' = "tail"

Next == New \/ Truncate \/ Pop \/ Add \/ SetHead \/ SetTail

Spec == Init /\ [][Next]_vars
=============================================================================
