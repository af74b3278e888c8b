----------------------------- MODULE MCHandoffs -----------------------------
(***************************************************************************)
(* Instances of Handoffs for TLC.                                          *)
(***************************************************************************)
EXTENDS Handoffs, TLC

CONSTANTS r1, r2, d1, d2

OneRule == {r1}
TwoRules == {r1, r2}
TwoDispatchers == {d1, d2}

Symmetry == Permutations(TwoRules) \union Permutations(TwoDispatchers)
=============================================================================
