------------------------------ MODULE MCVSpace ------------------------------
(* Instance of VSpace for TLC. *)
EXTENDS VSpace, TLC

CONSTANTS v1, v2, p1, p2, f1, f2, c1, c2, q1, q2, t1, t2

MC_VAddrs == {<<0, 0, 0>>, <<0, 0, 1>>}
MC_itTables == <<v1, p1, p2>>
MC_frameLevel == [f \in Frames |-> IF f = f1 THEN 3 ELSE 1]
=============================================================================
