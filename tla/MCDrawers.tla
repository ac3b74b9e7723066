----------------------------- MODULE MCDrawers -----------------------------
(* Drawers for TLC: two renders in flight, which may change roles, and of the settings *)
(* of the page four that between them have every pair of values.                       *)
EXTENDS Drawers, TLC

CONSTANTS s1, s2

MCSlots == {s1, s2}
MCPages ==
  {[ns |-> "", tile |-> "", sys |-> FALSE], [ns |-> "", tile |-> "shop", sys |-> TRUE],
   [ns |-> "shop", tile |-> "", sys |-> TRUE], [ns |-> "shop", tile |-> "shop", sys |-> FALSE]}
Symmetric == Permutations(MCSlots)
=============================================================================
