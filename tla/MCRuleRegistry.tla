--------------------------- MODULE MCRuleRegistry ---------------------------
(***************************************************************************)
(* Instances of RuleRegistry for TLC: two worker threads, one approved     *)
(* rule, one candidate, one plugin of each kind.                           *)
(***************************************************************************)
EXTENDS RuleRegistry, TLC

CONSTANTS w1, w2, hookPlugin, modulePlugin

TwoWorkers == {w1, w2}
BothPlugins == {hookPlugin, modulePlugin}
HookOnly == {hookPlugin}
ModuleOnly == {modulePlugin}

WorkerSymmetry == Permutations(TwoWorkers)
=============================================================================
