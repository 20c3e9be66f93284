------------------------------ MODULE MCKernel ------------------------------
(* Instances of Kernel for TLC. *)
EXTENDS Kernel, TLC

CONSTANTS t1, t2, t3, s1, s2, n1, e1

\* The first threads have a context of their own, the last is a passive server
MC_initSC == [t \in Threads |-> IF t = t1 THEN s1 ELSE IF t = t2 THEN s2 ELSE Null]
MC_prio == [t \in Threads |-> IF t = t1 THEN 1 ELSE 2]
MC_faultEP == [t \in Threads |-> IF t = t1 THEN e1 ELSE Null]
MC_timeoutEP == [t \in Threads |-> IF t = t1 THEN e1 ELSE Null]
MC_bound == [t \in Threads |-> IF t = t1 THEN n1 ELSE Null]
MC_caps == {[badge |-> 1, grant |-> TRUE], [badge |-> 2, grant |-> FALSE]}
MC_grantCap == {[badge |-> 1, grant |-> TRUE]}
MC_unbound == [t \in Threads |-> Null]
MC_noNtfnSC == [n \in Ntfns |-> Null]

ReplySymmetry == Permutations(Replies)
=============================================================================
