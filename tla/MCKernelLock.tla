---------------------------- MODULE MCKernelLock ----------------------------
(* Instances of KernelLock for TLC. *)
EXTENDS KernelLock, TLC

CoreSymmetry == Permutations(Cores)
=============================================================================
