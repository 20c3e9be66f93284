------------------------------ MODULE Deletion ------------------------------
(***************************************************************************)
(* Deletion and revocation (object/cnode.c): finaliseSlot, reduceZombie,   *)
(* cteDelete and cteRevoke call each other, and may be preempted between   *)
(* two slots of a CNode or a TCB, which is a zombie until the deletion is  *)
(* taken up again.  A result is a set of outcomes, one for every way the   *)
(* preemption points can answer.                                           *)
(***************************************************************************)
EXTENDS Interrupts

Outcome(k, status, success, cleanup) ==
  [k |-> k, status |-> status, success |-> success, cleanup |-> cleanup]

Done(k) == Outcome(k, "NONE", TRUE, cap_null_cap_new)

Preempted(k) == Outcome(k, "PREEMPTED", FALSE, cap_null_cap_new)

\* EXCEPTION_PREEMPTED out of one step, or the continuation F after it
andThen(results, F(_)) ==
  UNION {IF r.status = "PREEMPTED" THEN {r} ELSE F(r) : r \in results}

\* preemptionPoint, then the rest: it depends on the interrupts pending
preemptionPoint(k, Rest) == {Preempted(k)} \cup Rest

\* finaliseCap: the capability that remains, and the state
remainder(k, c, final) ==
  CASE c.capType = "zombie" -> c
    [] final /\ c.capType = "cnode" -> Zombie_new(2^c.capSizeBits, c.capSizeBits, c.capPtr)
    [] final /\ c.capType = "thread" -> Zombie_new(tcbCNodeEntries, c.capSizeBits, c.capPtr)
    [] OTHER -> cap_null_cap_new

cleanupInfo(c, final) ==
  IF final /\ c.capType = "irq_handler" THEN c ELSE cap_null_cap_new

finaliseCap(k, c, final) ==
  IF final /\ c.capType = "irq_handler" THEN deletingIRQHandler(k, c.n) ELSE k

capRemovable(c, s) ==
  \/ capIsNull(c)
  \/ c.capType = "zombie" /\ (c.n = 0 \/ (c.n = 1 /\ c.capPtr = s))

capCyclicZombie(c, s) == c.capType = "zombie" /\ c.capPtr = s

\* Mutant: one slot too many is taken off the zombie
shrunk_two(k, s, z, end) == [k EXCEPT !.cap[s].n = IF z.n > 1 THEN z.n - 2 ELSE 0]

\* reduceZombie after the last slot of the zombie has been deleted
shrunk(k, s, z, end) ==
  IF k.cap[s] = z
  THEN [assert(k, capIsNull(k.cap[end]), "reduceZombie: slot not empty") EXCEPT !.cap[s].n = z.n - 1]
  ELSE assert(k, \/ capIsNull(k.cap[s])
                 \/ k.cap[s].capType = "zombie" /\ k.cap[s].capPtr = s /\ z.capPtr # s,
              "reduceZombie: not self-referential")

RECURSIVE cteDelete(_, _, _), finaliseSlot(_, _, _), reduceZombie(_, _, _), cteRevoke(_, _)

cteDelete(k, s, exposed) ==
  andThen(finaliseSlot(k, s, exposed),
          LAMBDA r : {Done(IF exposed \/ r.success THEN emptySlot(r.k, s, r.cleanup) ELSE r.k)})

\* One round of the loop, with what finaliseCap returned for the slot
finaliseRound(k, s, immediate, rem, cleanup) ==
  IF capRemovable(rem, s) THEN {Outcome(k, "NONE", TRUE, cleanup)}
  ELSE IF ~immediate /\ capCyclicZombie(rem, s)
  THEN {Outcome([k EXCEPT !.cap[s] = rem], "NONE", FALSE, cleanup)}
  ELSE andThen(reduceZombie([k EXCEPT !.cap[s] = rem], s, immediate),
               LAMBDA r : preemptionPoint(r.k, finaliseSlot(r.k, s, immediate)))

finaliseSlot(k, s, immediate) ==
  IF capIsNull(k.cap[s]) THEN {Done(k)}
  ELSE LET c == k.cap[s]
           final == isFinalCapability(k, s)
       IN finaliseRound(finaliseCap(k, c, final), s, immediate,
                        remainder(k, c, final), cleanupInfo(c, final))

\* A slot inside an unexposed zombie only changes places with its first slot
swapAside(k, s, z) ==
  capSwapForDelete(
    assert(k, /\ z.capPtr # s
              /\ ~capCyclicZombie(k.cap[z.capPtr], z.capPtr), "reduceZombie: cyclic"),
    z.capPtr, s)

reduceZombie(k, s, immediate) ==
  LET z   == k.cap[s]
      end == z.capPtr + z.n - 1
  IN IF immediate
     THEN andThen(cteDelete(assert(k, z.n > 0, "reduceZombie: removable"), end, FALSE),
                  LAMBDA r : {Done(shrunk(r.k, s, z, end))})
     ELSE {Done(swapAside(k, s, z))}

\* Delete the first child until there is none
cteRevoke(k, s) ==
  IF ensureNoChildren(k, s) THEN {Done(k)}
  ELSE andThen(cteDelete(k, k.mdbNext[s], TRUE),
               LAMBDA r : preemptionPoint(r.k, cteRevoke(r.k, s)))
=============================================================================
