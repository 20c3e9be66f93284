----------------------------- MODULE RefillRing -----------------------------
(***************************************************************************)
(* The circular buffer behind a scheduling context: refills[0..N-1], of    *)
(* which scRefillMax are in use, from scRefillHead to scRefillTail.  Slots *)
(* outside keep whatever was last written there.                           *)
(***************************************************************************)
EXTENDS Integers, Sequences

CONSTANTS Refill, N     \* refill_absolute_max

ASSUME RefillRingConstants == N \in Nat /\ N >= 2

VARIABLES buf, scRefillHead, scRefillTail, scRefillMax,
  op      \* the operation last called

vars == <<buf, scRefillHead, scRefillTail, scRefillMax, op>>

Maxes == 2 .. N

refill_next(i) == IF i = scRefillMax - 1 THEN 0 ELSE i + 1

\* Mutant: the wrapped queue counted without its last slot
refill_size_short ==
  IF scRefillHead <= scRefillTail THEN scRefillTail - scRefillHead + 1
  ELSE scRefillTail + (scRefillMax - scRefillHead)

refill_size ==
  IF scRefillHead <= scRefillTail THEN scRefillTail - scRefillHead + 1
  ELSE scRefillTail + 1 + (scRefillMax - scRefillHead)

refill_full == refill_size = scRefillMax

refill_single == scRefillHead = scRefillTail

Init ==
  /\ buf \in [0 .. N - 1 -> Refill]
  /\ scRefillHead = 0 /\ scRefillTail = 0
  /\ scRefillMax \in Maxes /\ op = "none"

refill_new ==
  \E r \in Refill, m \in Maxes :
    /\ buf' = [buf EXCEPT ![0] = r]
    /\ scRefillHead' = 0 /\ scRefillTail' = 0
    /\ scRefillMax' = m
    /\ op' = "new"

\* Up to the changes of the head and the tail that follow it
refill_update ==
  \E m \in Maxes :
    /\ buf' = [buf EXCEPT ![0] = buf[scRefillHead]]
    /\ scRefillHead' = 0 /\ scRefillTail' = 0
    /\ scRefillMax' = m
    /\ op' = "update"

refill_pop_head ==
  /\ ~refill_single
  /\ scRefillHead' = refill_next(scRefillHead)
  /\ UNCHANGED <<buf, scRefillTail, scRefillMax>>
  /\ op' = "pop"

refill_add_tail ==
  \E r \in Refill :
    /\ ~refill_full
    /\ scRefillTail' = refill_next(scRefillTail)
    /\ buf' = [buf EXCEPT ![refill_next(scRefillTail)] = r]
    /\ UNCHANGED <<scRefillHead, scRefillMax>>
    /\ op' = "add"

refill_head ==
  \E r \in Refill :
    /\ buf' = [buf EXCEPT ![scRefillHead] = r]
    /\ UNCHANGED <<scRefillHead, scRefillTail, scRefillMax>>
    /\ op' = "head"

refill_tail ==
  \E r \in Refill :
    /\ buf' = [buf EXCEPT ![scRefillTail] = r]
    /\ UNCHANGED <<scRefillHead, scRefillTail, scRefillMax>>
    /\ op' = "tail"

Next ==
  \/ refill_new \/ refill_update
  \/ refill_pop_head \/ refill_add_tail \/ refill_head \/ refill_tail

Spec == Init /\ [][Next]_vars

-----------------------------------------------------------------------------
(* Properties *)

\* The slots from the head h to the tail t of a ring of m slots, in the order
\* refill_sum and refill_ordered walk them; the mapping goes round by arithmetic,
\* not through refill_next.
walk(b, h, t, m) == [i \in 1 .. ((t + m - h) % m) + 1 |-> b[(h + i - 1) % m]]

Contents == walk(buf, scRefillHead, scRefillTail, scRefillMax)

Queue == INSTANCE RefillQueue WITH q <- Contents, max <- scRefillMax

\* The circular buffer behaves as the bounded sequence: popping, adding and
\* updating across the wrap around lose, repeat or reorder no refill.
ImplementsQueue == Queue!Spec
=============================================================================
