----------------------------- MODULE RuleTables -----------------------------
(***************************************************************************)
(* The shape of the rules of src/readtheplan/rules: a rule function tests  *)
(* the type of a change, climbs a ladder of actions (replace before        *)
(* delete before update before create) and adds results for what it reads  *)
(* in the attributes.                                                      *)
(*                                                                         *)
(* One type stands for the types that a function treats alike.  A fact is  *)
(* the answer of one test of the attributes; tests that lead to the same   *)
(* result are one fact.  Explanations are left out: of several results the *)
(* highest is what counts.                                                 *)
(***************************************************************************)
EXTENDS Naturals, Sequences, FiniteSets

Risks == {"safe", "review", "dangerous", "irreversible"}

Rank(risk) ==
    CASE risk = "safe" -> 0 [] risk = "review" -> 1 [] risk = "dangerous" -> 2 [] OTHER -> 3

Highest(risks) == CHOOSE r \in risks : \A s \in risks : Rank(s) <= Rank(r)

\* The sets of actions of a change: "replace" is {create, delete} in any order,
\* "apply" is the create of an object that the Kubernetes adapter read from a
\* manifest, "unknown" is missing or malformed metadata.
Actions == {"create", "apply", "update", "delete", "replace", "forget", "read", "unknown"}
Creating == {"create", "apply"}
Writing == {"create", "apply", "update"}
Destroying == {"delete", "replace"}

\* The risks a ladder gives, "none" for no result.
Ladder(replace, delete, update, create) ==
    [replace |-> replace, delete |-> delete, update |-> update, create |-> create]

Rung(ladder, action) ==
    IF action \in DOMAIN ladder THEN ladder[action]
    ELSE IF action = "apply" THEN ladder.create ELSE "none"

\* A result that the attributes add: on some actions, for any of some facts.
Finds(on, facts, risk) == [on |-> on, facts |-> facts, risk |-> risk]

Rule(types, ladder, finds) == [types |-> types, ladder |-> ladder, finds |-> finds]

\* The risks of the RuleResults of one rule.
Results(rule, action, facts) ==
    ({Rung(rule.ladder, action)} \ {"none"})
      \union { f.risk : f \in { g \in rule.finds : action \in g.on /\ g.facts \intersect facts # {} } }

\* Facts that a rule looks for, whatever the action.
FactsOf(rule) == UNION { f.facts : f \in rule.finds }

\* _policy_resource_candidates.
PolicyLadder == Ladder("dangerous", "dangerous", "review", "review")
PublicPolicy == Finds(Actions, {"public policy"}, "dangerous")

\* The ladder most rules climb.
Stateful(update, create) == Ladder("dangerous", "irreversible", update, create)

\* A provider's ladder whose creates and updates are reviewed, and dangerous
\* with any of the weaknesses the rule collects.
Reviewed(types, weaknesses) ==
    Rule(types, Stateful("review", "review"), {Finds(Writing, weaknesses, "dangerous")})

\* ... and one whose creates and updates are always dangerous.
Guarded(types) == Rule(types, Stateful("dangerous", "dangerous"), {})
=============================================================================
