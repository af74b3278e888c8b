----------------------------- MODULE MCVerdicts -----------------------------
(***************************************************************************)
(* The instance of Verdicts and PlanInputs for TLC: all types of the rule  *)
(* tables, and revisions of a few steps of every other input.              *)
(***************************************************************************)
EXTENDS PlanInputs

\* Every pair of facts of a type meets; no rule tests more than two together.
MaxLearntMC == 2
=============================================================================
