-------------------------- MODULE SeverityCeiling --------------------------
(***************************************************************************)
(* What a gate promises: rules, overlays and findings can only raise the   *)
(* ceiling.  It hears the ranks of any number of verdicts, in any order    *)
(* and from anyone, and decides once, by the highest of them: 0 proceeds,  *)
(* 1 warns and 2 or 3 blocks.  It may also end without a decision.         *)
(***************************************************************************)
EXTENDS Integers

VARIABLES
    ranks,    \* ranks of the verdicts heard
    decision

vars == <<ranks, decision>>

Rank == 0..3

Init == ranks = {} /\ decision = "none"

Hear(some) == decision = "none" /\ ranks' = ranks \union some /\ UNCHANGED decision

ByCeiling(heard) ==
    CASE heard \cap {2, 3} # {} -> "block"
      [] heard \cap {1, 2, 3} = {1} -> "warn"
      [] heard \subseteq {0} -> "proceed"

Decide ==
    /\ decision = "none"
    /\ decision' = ByCeiling(ranks)
    /\ UNCHANGED ranks

Next == Decide \/ \E some \in SUBSET Rank : Hear(some)

Spec == Init /\ [][Next]_vars
=============================================================================
