---------------------------- MODULE MCCostChart ----------------------------
(* CostChart for TLC: two calls in flight, which may change roles. *)
EXTENDS CostChart, TLC

CONSTANTS s1, s2

MCSlots == {s1, s2}
Symmetric == Permutations(MCSlots)
=============================================================================
