------------------------------ MODULE Verdicts ------------------------------
(***************************************************************************)
(* The two classifiers of one resource change: the Python analyzer         *)
(* (plan.py, rules/_shared.py and the rule tables) and the playground in   *)
(* the browser (classifier.js), which has rules of its own for some types  *)
(* and floors generated from the Python rules for the others.              *)
(*                                                                         *)
(* The change grows worse step by step, as its author revises the plan:    *)
(* one more fact becomes true of its attributes, or an update turns into a *)
(* replacement.  Each revision is classified by both.                      *)
(***************************************************************************)
EXTENDS AwsRules, SaasRules, GitRules, CloudRules, K8sRules, BrowserRules

CONSTANT MaxLearnt      \* bound: facts that revisions add to a change

ASSUME MaxLearntAssumption == MaxLearnt \in Nat

VARIABLES
    change,         \* the type, the action, the facts of the attributes, and which
                    \* of the attributes that are compared are only respelled
    verdicts        \* the risk according to each classifier

vars == <<change, verdicts>>

(***************************************************************************)
(* The registry, filled by importing the rule modules.                     *)
(***************************************************************************)
Registered ==
    AwsRegistered \o CloudflareRules \o DatadogRules \o NewRelicRules \o PagerDutyRules
      \o TfeRules \o VaultRules \o GithubRules \o GitlabRules \o GrafanaRules
      \o AzureRules \o GcpRules \o KubernetesProviderRules \o K8sRegistered

CrossCutting == AwsCrossCutting \o K8sCrossCutting

TypesOf(table) == UNION { table[k].types : k \in DOMAIN table }

RegisteredTypes == TypesOf(Registered)
AuditedTypes == TypesOf(BrowserRuleTable)

\* A type that only the browser's exception names, and one that nobody knows.
PlainTypes == {"aws_dynamodb_table", "acme_widget"}
BaselineOnly == {"aws_dynamodb_table"}
Types == RegisteredTypes \union TypesOf(CrossCutting) \union PlainTypes

\* By type, what its rules look for; the rules that name the type.
Table(rules) == [t \in Types |-> { rules[k] : k \in { j \in DOMAIN rules : t \in rules[j].types } }]
PythonRules == Table(Registered \o CrossCutting)
BrowserByType == Table(BrowserRuleTable)

FactsFor == [t \in Types |-> UNION { FactsOf(r) : r \in PythonRules[t] \union BrowserByType[t] }]

\* Facts that hold of empty attributes: something that ought to be set is not.
AbsenceFacts == {"no authentication", "no checksum", "public by default", "no reviewers",
                 "no secret", "no approval rules", "enforced"}
Bare(type) == FactsFor[type] \intersect AbsenceFacts

(***************************************************************************)
(* The Python analyzer                                                     *)
(***************************************************************************)
\* _risk_for_actions, and baselineRisk of the browser.
BaselineRisk(action) ==
    CASE action \in Creating \union {"read"} -> "safe"
      [] action = "delete" -> "irreversible"
      [] action \in {"replace", "forget"} -> "dangerous"
      [] action \in {"update", "unknown"} -> "review"

PythonRisk(type, action, facts) ==
    Highest({BaselineRisk(action)} \union UNION { Results(r, action, facts) : r \in PythonRules[type] })

(***************************************************************************)
(* The browser                                                             *)
(***************************************************************************)
Canonical == {"create", "update", "delete", "replace", "forget"}

\* risk-floors.js: what Python says of a change with empty attributes.
Floors == [t \in RegisteredTypes |-> [a \in Canonical |-> PythonRisk(t, a, Bare(t))]]

GeneratedRiskFloor(type, action) ==
    IF type \in RegisteredTypes /\ action \in Canonical THEN {Floors[type][action]} ELSE {}

\* Fault: the floor is thought to be enough for types without browser rules.
UnsupportedResults_FloorOnly(type, action) == GeneratedRiskFloor(type, action)

UnsupportedResults(type, action) ==
    IF action \in {"create", "update", "replace", "forget"}
    THEN {"dangerous"} \union GeneratedRiskFloor(type, action)
    ELSE {}

RuleCandidates(type, action, facts) ==
    IF type \in AuditedTypes \union BaselineOnly
    THEN UNION { Results(r, action, facts) : r \in BrowserByType[type] }
    ELSE UnsupportedResults(type, action)

BrowserRisk(type, action, facts) ==
    Highest({BaselineRisk(action)} \union RuleCandidates(type, action, facts)
              \union GeneratedRiskFloor(type, action))

(***************************************************************************)
(* Revisions                                                               *)
(***************************************************************************)
\* A change without actions: _resource_change takes it for an unknown action,
\* parsePlan for a no-op (which the rules treat like a read).
Recorded == Actions \union {"missing"}
PythonReads(action) == IF action = "missing" THEN "unknown" ELSE action
BrowserReads(action) == IF action = "missing" THEN "read" ELSE action

Verdict(c) ==
    [python |-> PythonRisk(c.type, PythonReads(c.action), c.facts),
     browser |-> BrowserRisk(c.type, BrowserReads(c.action), SeenByBrowser(c))]

Init ==
    /\ change \in { [type |-> t, action |-> a, facts |-> Bare(t), respelled |-> {}] :
                      t \in Types, a \in Recorded }
    /\ verdicts = Verdict(change)

Classify(c) ==
    /\ change' = c
    /\ verdicts' = Verdict(c)

Learnt == (change.facts \ Bare(change.type)) \union change.respelled

\* The attributes change so that one more test answers yes.
Learn(fact) ==
    /\ fact \in FactsFor[change.type] \ change.facts
    /\ Cardinality(Learnt) < MaxLearnt
    /\ Classify([change EXCEPT !.facts = @ \union {fact}, !.respelled = @ \ {fact}])

\* An attribute keeps its value, but is written otherwise than it was.
Respell(fact) ==
    /\ change.type \in AuditedTypes
    /\ fact \in Compared \ (change.facts \union change.respelled)
    /\ Cardinality(Learnt) < MaxLearnt
    /\ Classify([change EXCEPT !.respelled = @ \union {fact}])

\* What was missing is set.
Settle(fact) ==
    /\ fact \in change.facts \intersect Bare(change.type)
    /\ Classify([change EXCEPT !.facts = @ \ {fact}])

\* The provider cannot update in place.
ForceReplacement ==
    /\ change.action = "update"
    /\ Classify([change EXCEPT !.action = "replace"])

Next ==
    \/ \E fact \in FactsFor[change.type] : Learn(fact) \/ Settle(fact) \/ Respell(fact)
    \/ ForceReplacement

Spec == Init /\ [][Next]_vars

(***************************************************************************)
(* Properties                                                              *)
(***************************************************************************)
\* Both classifiers have an answer for every change.
TypeOK ==
    /\ change.type \in Types
    /\ change.action \in Recorded
    /\ change.facts \subseteq FactsFor[change.type]
    /\ change.respelled \subseteq Compared \ change.facts
    /\ verdicts \in [python : Risks, browser : Risks]

\* What the browser's copy of the rules cannot see.
BrowserBlind == {"newly deprecated runtime"}

\* The playground never shows a lower risk than the analyzer for a create, an
\* update, a delete, a replacement or a forget, whatever the attributes say: its
\* own rules for some types, and the fallback to dangerous on top of floors that
\* were computed with empty attributes for all others (classifier.js 1-14, 746-799).
BrowserNotLower ==
    (/\ change.action \in Canonical
     /\ change.type \in RegisteredTypes \union AuditedTypes
     /\ change.facts \intersect BrowserBlind = {})
    => Rank(verdicts.browser) >= Rank(verdicts.python)

\* For the types the browser has rules for, the two copies of a rule agree on every
\* action and all combinations of facts, not only on the bare ones the floors cover,
\* as long as attributes are written alike.  Where one is only respelled, the browser
\* says what the analyzer would, had it changed (classifier.js 103-120, _shared.py
\* 293-298).
AuditedAgree ==
    (change.type \in AuditedTypes /\ change.action # "missing"
       /\ change.facts \intersect BrowserBlind = {})
    => /\ change.respelled = {} => verdicts.browser = verdicts.python
       /\ verdicts.browser
            = PythonRisk(change.type, change.action, change.facts \union change.respelled)

\* A change that gets worse never looks better: another finding, or a replacement
\* instead of an update, lowers neither verdict, although rules return early, test
\* actions in an order, and read some attributes only on updates.
Worse ==
    /\ change.facts \subseteq change'.facts
    /\ change.facts \union change.respelled \subseteq change'.facts \union change'.respelled
EscalationNeverLowers ==
    [][Worse => /\ Rank(verdicts'.python) >= Rank(verdicts.python)
                /\ Rank(verdicts'.browser) >= Rank(verdicts.browser)]_vars
=============================================================================
