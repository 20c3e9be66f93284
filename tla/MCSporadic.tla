----------------------------- MODULE MCSporadic -----------------------------
(* Instances of Sporadic for TLC: the cfgs give the parameters. *)
EXTENDS Sporadic

\* One entry can come as late as the end of the largest head refill.
ASSUME StepsReachTheTimer == Max(Steps) >= Max(Budgets)

\* Some context is not round robin.
ASSUME NotAllRoundRobin == \E b \in Budgets, p \in Periods : b < p /\ b >= MIN_BUDGET
=============================================================================
