---------------------------- MODULE MCRefillRing ----------------------------
(* RefillRing with two refills and a buffer of four slots. *)
EXTENDS RefillRing

CONSTANTS ra, rb

MC_Refill == {ra, rb}
=============================================================================
