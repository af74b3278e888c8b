------------------------------ MODULE RiskGate ------------------------------
(***************************************************************************)
(* One run of `readtheplan analyze` or `readtheplan agent-gate` over one   *)
(* plan: action baselines, the registered rules (plan.py, rules/_shared),  *)
(* plan findings, overlays (overlays.py, cli.py), the gate's decision      *)
(* (agent_gate.py), control annotations (controls.py) and the exit code.   *)
(*                                                                         *)
(* A rule is any function: what it returns is chosen freely, and it may    *)
(* raise.  Other threads of the process may register rules meanwhile.      *)
(* Explanations, evidence and the printed report are left out.             *)
(***************************************************************************)
EXTENDS Integers, Sequences, FiniteSets

CONSTANTS
    Plan,       \* plans: whether they can be parsed, changes, items, account
    Option,     \* command lines: command, rules on or off, overlays, fail-on
    Type,       \* resource types
    Rule,       \* rule functions: source and resource types
    AnyType,    \* the type of cross-cutting rules, and "*" in a catalog
    Source,     \* provenance: "builtin" and the plugins
    Risk,       \* risks a rule may name: the tiers, and any other string
    Returns,    \* lists of results a rule may return
    Catalog     \* the framework catalog's control mappings

Tier == {"safe", "review", "dangerous", "irreversible"}

\* RISK_ORDER.get(risk, RISK_ORDER["review"]); RuleResult.risk is any string.
Order(risk) ==
    CASE risk = "safe" -> 0
      [] risk = "dangerous" -> 2
      [] risk = "irreversible" -> 3
      [] OTHER -> 1

ASSUME RuleAssumption ==
    \A f \in Rule : f.source \in Source /\ f.types \subseteq Type \union {AnyType}
ASSUME ReturnsAssumption ==
    \A rs \in Returns : rs \in Seq([risk: Risk, source: Source])
ASSUME NameAssumption == "builtin" \in Source /\ Tier \subseteq Risk
ASSUME PlanAssumption ==
    \A p \in Plan : /\ p.changes \in Seq([type: Type, address: STRING,
                                          actions: SUBSET STRING, malformed: BOOLEAN])
                    /\ p.items \in Seq([section: STRING, actions: SUBSET STRING,
                                        exposed: BOOLEAN, status: STRING])
ASSUME OptionAssumption ==
    \A o \in Option :
        /\ o.command \in {"analyze", "self-improving", "agent-gate"}
        /\ o.rules \in BOOLEAN /\ o.framework \in BOOLEAN
        /\ o.failOn \in Tier \union {"unset"}
        /\ \A k \in DOMAIN o.overrides : o.overrides[k].risk \in Tier
        /\ o.command = "agent-gate" =>
               o.rules /\ o.overrides = <<>> /\ o.additions = {} /\ o.failOn = "unset"

VARIABLES
    plan, option,  \* the input
    exact, cross,  \* _RULE_REGISTRY and _CROSS_CUTTING
    pc,
    result,        \* the running result for the change being classified
    calls,         \* rule functions still to call for it
    candidates,    \* results of those called
    changes,       \* summary.resource_changes: [risk, source]
    findings,      \* summary.plan_findings: indices of plan.items
    at, next,      \* overlays: the change, and the override to try on it
    gate,          \* the gate contract: decision and required checks
    controls,      \* control annotations of the report
    exit,          \* the process's exit code
    heard,         \* history: every verdict given, on what and by whom
    asked,         \* history: rules called, for which change
    early          \* history: rules registered when the run began

input == <<plan, option>>
registry == <<exact, cross>>
history == <<heard, asked, early>>
classify == <<result, calls, candidates>>
vars == <<input, registry, pc, classify, changes, findings, at, next, gate, controls, exit, history>>

NoGate == [decision |-> "none", checks |-> {}]
NoExit == 9

\* A verdict on a change, by its index, or on the plan, by 0.
Verdict(about, risk, by) == [about |-> about, risk |-> risk, by |-> by]

Init ==
    /\ plan \in Plan /\ option \in Option
    /\ exact = [type \in Type |-> <<>>] /\ cross = <<>>
    /\ pc = "load"
    /\ result = [risk |-> "safe", source |-> "builtin"]
    /\ calls = <<>> /\ candidates = <<>>
    /\ changes = <<>> /\ findings = {}
    /\ at = 1 /\ next = 1
    /\ gate = NoGate /\ controls = {} /\ exit = NoExit
    /\ heard = {} /\ asked = {} /\ early = {}

-----------------------------------------------------------------------------
(* Classification of resource changes                                      *)

\* _risk_for_actions.
RiskForActions(actions) ==
    CASE {"delete", "create"} \subseteq actions -> "dangerous"
      [] "delete" \in actions /\ "create" \notin actions -> "irreversible"
      [] "update" \in actions /\ "delete" \notin actions -> "review"
      [] "forget" \in actions /\ actions \cap {"delete", "update"} = {} -> "dangerous"
      [] actions # {} /\ actions \subseteq {"no-op", "read"} -> "safe"
      [] "create" \in actions /\ actions \subseteq {"no-op", "read", "create"} -> "safe"
      [] OTHER -> "review"

Baseline(c) == IF c.malformed THEN "review" ELSE RiskForActions(c.actions)

\* _rule_candidates: the rules of the type, then the cross-cutting ones.
Snapshot(type) == exact[type] \o cross

\* _stamp_source: a plugin's results name the plugin.
Stamp(f, rs) ==
    [k \in DOMAIN rs |-> IF rs[k].source = "builtin" THEN [rs[k] EXCEPT !.source = f.source]
                                                     ELSE rs[k]]

\* Fault: the last result wins.
MaxResult_Last(current, candidate) == candidate

\* _max_result: on a tie the later one wins.
MaxResult(current, candidate) ==
    IF Order(candidate.risk) >= Order(current.risk) THEN candidate ELSE current

Elements(list) == {list[k] : k \in DOMAIN list}

AddOnce(f, bucket) == IF f \in Elements(bucket) THEN bucket ELSE Append(bucket, f)

Registered == Elements(cross) \union (UNION {Elements(exact[type]) : type \in Type})

\* An import before the run, or another thread during it, registers a rule.
Register(f) ==
    /\ exit = NoExit
    /\ exact' = [type \in Type |-> IF type \in f.types THEN AddOnce(f, exact[type])
                                                      ELSE exact[type]]
    /\ cross' = IF AnyType \in f.types THEN AddOnce(f, cross) ELSE cross
    /\ UNCHANGED <<input, pc, classify, changes, findings, at, next, gate, controls, exit,
                   history>>

Stop(code) == pc' = "done" /\ exit' = code

\* The plan is read once; a PlanError ends the run.
Load ==
    /\ pc = "load"
    /\ IF plan.readable THEN pc' = "classify" /\ UNCHANGED exit ELSE Stop(1)
    /\ early' = Registered
    /\ UNCHANGED <<input, registry, classify, changes, findings, at, next, gate, controls,
                   heard, asked>>

\* _resource_change: the baseline, and a snapshot of the rules for this change.
BeginChange ==
    /\ pc = "classify"
    /\ Len(changes) < Len(plan.changes)
    /\ LET i == Len(changes) + 1
           c == plan.changes[i] IN
       /\ result' = [risk |-> Baseline(c), source |-> "builtin"]
       /\ calls' = IF option.rules /\ ~c.malformed THEN Snapshot(c.type) ELSE <<>>
       /\ heard' = heard \union {Verdict(i, Baseline(c), "builtin")}
    /\ pc' = "rules"
    /\ UNCHANGED <<input, registry, candidates, changes, findings, at, next, gate, controls,
                   exit, asked, early>>

\* The next rule returns some results ...
Call(rs) ==
    /\ pc = "rules"
    /\ calls # <<>>
    /\ LET i == Len(changes) + 1
           f == Head(calls)
           given(k) == IF rs[k].source = "builtin" THEN f.source ELSE rs[k].source IN
       /\ candidates' = candidates \o Stamp(f, rs)
       /\ heard' = heard \union {Verdict(i, rs[k].risk, given(k)) : k \in DOMAIN rs}
       /\ asked' = asked \union {<<i, f>>}
    /\ calls' = Tail(calls)
    /\ UNCHANGED <<input, registry, pc, result, changes, findings, at, next, gate, controls,
                   exit, early>>

\* Fault: a rule that raises is skipped, with the rules behind it.
RuleRaises_Skips ==
    /\ pc = "rules"
    /\ calls # <<>>
    /\ calls' = <<>>
    /\ UNCHANGED <<input, registry, pc, result, candidates, changes, findings, at, next, gate,
                   controls, exit, history>>

\* ... or raises, which nothing catches: the process ends with a traceback.
RuleRaises ==
    /\ pc = "rules"
    /\ calls # <<>>
    /\ Stop(1)
    /\ UNCHANGED <<input, registry, classify, changes, findings, at, next, gate, controls,
                   history>>

\* When all have been called, the results are folded one by one.
Fold ==
    /\ pc = "rules"
    /\ calls = <<>>
    /\ candidates # <<>>
    /\ result' = MaxResult(result, Head(candidates))
    /\ candidates' = Tail(candidates)
    /\ UNCHANGED <<input, registry, pc, calls, changes, findings, at, next, gate, controls,
                   exit, history>>

EndChange ==
    /\ pc = "rules"
    /\ calls = <<>>
    /\ candidates = <<>>
    /\ changes' = Append(changes, result)
    /\ pc' = "classify"
    /\ UNCHANGED <<input, registry, classify, findings, at, next, gate, controls, exit,
                   history>>
-----------------------------------------------------------------------------
(* Plan findings and overlays                                              *)

\* The items of a plan's other sections that are findings: of its checks, those
\* that have not passed.
IsFinding(x) == x.section = "checks" => x.status \in {"fail", "error", "unknown"}

FindingRisk(x) ==
    IF \/ x.section \in {"errored", "not_applyable", "deferred_changes", "action_invocations"}
       \/ x.section = "resource_drift" /\ "delete" \in x.actions
       \/ x.section = "output_changes" /\ x.exposed /\ "delete" \notin x.actions
       \/ x.section = "checks" /\ x.status # "unknown"
    THEN "dangerous" ELSE "review"

\* _plan_findings, when every change has been classified.
FindFindings ==
    /\ pc = "classify"
    /\ Len(changes) = Len(plan.changes)
    /\ findings' = {k \in DOMAIN plan.items : IsFinding(plan.items[k])}
    /\ heard' = heard \union {Verdict(0, FindingRisk(plan.items[k]), "builtin") :
                                  k \in findings'}
    /\ pc' = "overlay"
    /\ UNCHANGED <<input, registry, classify, changes, at, next, gate, controls, exit, asked,
                   early>>

\* _override_matches: every condition that is given holds.
Matches(c, match) ==
    /\ "resource_type" \in DOMAIN match => c.type = match.resource_type
    /\ "address" \in DOMAIN match => c.address = match.address
    /\ "address_prefix" \in DOMAIN match => c.address \in match.address_prefix
    /\ "account_id" \in DOMAIN match => plan.account = match.account_id

\* apply_overlay_to_change: a lower risk is ignored; the source stays.
Override(current, risk) ==
    IF Order(risk) >= Order(current.risk) THEN [current EXCEPT !.risk = risk] ELSE current

\* _apply_overlays_to_summary: change by change, the overrides of all overlays
\* in the order of the command line.
TryOverride ==
    /\ pc = "overlay"
    /\ at <= Len(changes)
    /\ next <= Len(option.overrides)
    /\ LET o == option.overrides[next] IN
       IF Matches(plan.changes[at], o.match)
       THEN /\ changes' = [changes EXCEPT ![at] = Override(@, o.risk)]
            /\ heard' = heard \union {Verdict(at, o.risk, "overlay")}
       ELSE UNCHANGED <<changes, heard>>
    /\ next' = next + 1
    /\ UNCHANGED <<input, registry, pc, classify, findings, at, gate, controls, exit, asked,
                   early>>

NextChange ==
    /\ pc = "overlay"
    /\ at <= Len(changes)
    /\ next > Len(option.overrides)
    /\ at' = at + 1
    /\ next' = 1
    /\ UNCHANGED <<input, registry, pc, classify, changes, findings, gate, controls, exit,
                   history>>

Overlaid ==
    /\ pc = "overlay"
    /\ at > Len(changes)
    /\ pc' = IF option.command = "analyze" THEN "report" ELSE "gate"
    /\ UNCHANGED <<input, registry, classify, changes, findings, at, next, gate, controls,
                   exit, history>>

-----------------------------------------------------------------------------
(* Gate, report and exit code                                              *)

\* The risks of summary.all_changes.
Risks == {changes[i].risk : i \in DOMAIN changes}
             \union {FindingRisk(plan.items[k]) : k \in findings}

\* _max_risk: a risk of the highest rank; of several, the gate takes the first.
IsMaxRisk(risk) ==
    IF Risks = {} THEN risk = "safe"
    ELSE risk \in Risks /\ \A other \in Risks : Order(other) <= Order(risk)

\* Fault: a risk that RISK_ORDER does not know proceeds.
DecisionForRisk_Lenient(risk) ==
    CASE risk \in {"dangerous", "irreversible"} -> "block"
      [] risk = "review" -> "warn"
      [] OTHER -> "proceed"

\* _decision_for_risk.
DecisionForRisk(risk) ==
    CASE risk \in {"dangerous", "irreversible"} -> "block"
      [] risk = "review" \/ risk \notin Tier -> "warn"
      [] risk = "safe" -> "proceed"

\* _required_checks, without the catalog's controls.
RequiredChecks(decision) ==
    CASE decision = "block" ->
             {"human_approval", "security_review", "change_record", "evidence_packet"}
                 \union (IF "irreversible" \in Risks THEN {"recovery_plan"} ELSE {})
      [] decision = "warn" -> {"peer_review", "change_evidence"}
      [] decision = "proceed" -> {}

\* _canonical_action: actions joined, a replacement in one order.
CanonicalAction(actions) ==
    CASE actions = {} -> {"unknown"}
      [] {"delete", "create"} \subseteq actions -> {"delete", "create"}
      [] OTHER -> actions

\* What is annotated: type and actions of every change and finding.
Annotated ==
    {[type |-> plan.changes[i].type, actions |-> plan.changes[i].actions] :
         i \in DOMAIN changes}
        \union {[type |-> plan.items[k].section, actions |-> plan.items[k].actions] :
                    k \in findings}

MappingsFor(x, mappings) ==
    {m \in mappings : /\ m.type \in {x.type, AnyType}
                      /\ {CanonicalAction(x.actions), {"*"}} \cap m.actions # {}}

\* control_matches_for reads mapping_kind of every mapping whose control is new;
\* a mapping that an overlay added has none.  The type's mappings come before
\* the wildcard's, the catalog's before the overlays'.
LookupRaises(x) ==
    \E m \in MappingsFor(x, option.additions) :
        \A b \in MappingsFor(x, Catalog) :
            b.control = m.control => b.type = AnyType /\ m.type # AnyType

ControlsFor(x) == {b.control : b \in MappingsFor(x, Catalog)}

\* controls_for, for everything that is annotated.
LookUpControls ==
    IF option.framework THEN controls' = UNION {ControlsFor(x) : x \in Annotated}
                        ELSE UNCHANGED controls

LookupFails == option.framework /\ \E x \in Annotated : LookupRaises(x)

ExitFor(decision) ==
    CASE decision = "block" -> 2 [] decision = "warn" -> 1 [] decision = "proceed" -> 0

\* agent_gate_to_dict; agent-gate ends with the decision's exit code.
Gate ==
    /\ pc = "gate"
    /\ ~LookupFails
    /\ \E risk \in Risks \union {"safe"} :
          /\ IsMaxRisk(risk)
          /\ gate' = [decision |-> DecisionForRisk(risk),
                      checks |-> RequiredChecks(DecisionForRisk(risk))]
    /\ LookUpControls
    /\ IF option.command = "agent-gate" THEN Stop(ExitFor(gate'.decision))
                                        ELSE pc' = "report" /\ UNCHANGED exit
    /\ UNCHANGED <<input, registry, classify, changes, findings, at, next, history>>

\* Fault: a risk that RISK_ORDER does not know counts as safe.
FailOnCode_Lenient(threshold) ==
    CASE threshold = "unset" -> 0
      [] OTHER -> IF \E risk \in Risks \cap Tier : Order(risk) >= Order(threshold) THEN 2 ELSE 0

\* _fail_on_exit_code: RISK_ORDER[risk] raises for a risk it does not know.
FailOnCode(threshold) ==
    CASE threshold = "unset" -> 0
      [] threshold # "unset" /\ ~(Risks \subseteq Tier) -> 1
      [] threshold # "unset" /\ Risks \subseteq Tier ->
             IF \E risk \in Risks : Order(risk) >= Order(threshold) THEN 2 ELSE 0

\* The report, with its annotations, and then the exit code.
Report ==
    /\ pc = "report"
    /\ ~LookupFails
    /\ LookUpControls
    /\ Stop(FailOnCode(option.failOn))
    /\ UNCHANGED <<input, registry, classify, changes, findings, at, next, gate, history>>

\* A lookup that raises ends the process with a traceback.
AnnotationRaises ==
    /\ pc \in {"gate", "report"}
    /\ LookupFails
    /\ Stop(1)
    /\ UNCHANGED <<input, registry, classify, changes, findings, at, next, gate, controls,
                   history>>

Next ==
    \/ Load \/ BeginChange \/ RuleRaises \/ Fold \/ EndChange \/ FindFindings
    \/ TryOverride \/ NextChange \/ Overlaid \/ Gate \/ Report \/ AnnotationRaises
    \/ \E f \in Rule : Register(f)
    \/ \E rs \in Returns : Call(rs)

Spec == Init /\ [][Next]_vars

-----------------------------------------------------------------------------
(* Properties                                                              *)

Result == [risk: Risk, source: Source]

\* The shape of every variable.
TypeOK ==
    /\ plan \in Plan /\ option \in Option
    /\ exact \in [Type -> Seq(Rule)] /\ cross \in Seq(Rule)
    /\ pc \in {"load", "classify", "rules", "overlay", "gate", "report", "done"}
    /\ result \in Result
    /\ calls \in Seq(Rule)
    /\ candidates \in Seq(Result)
    /\ changes \in Seq(Result)
    /\ Len(changes) <= Len(plan.changes)
    /\ pc = "rules" => Len(changes) < Len(plan.changes)
    /\ pc \in {"overlay", "gate", "report"} => Len(changes) = Len(plan.changes)
    /\ findings \subseteq DOMAIN plan.items
    /\ at \in Nat \ {0} /\ next \in Nat \ {0}
    /\ gate.decision \in {"none", "proceed", "warn", "block"}
    /\ exit \in {NoExit, 0, 1, 2}
    /\ exit = NoExit <=> pc # "done"
    /\ asked \subseteq (Nat \X Rule)
    /\ early \subseteq Rule

\* What is reported for a change is at least as severe as its action baseline,
\* as every result of every rule that was asked and as every override that
\* matched, whatever their order, and it is one of them: no verdict is masked
\* and none is made up.
SeverityIsKept ==
    \A i \in DOMAIN changes :
        /\ \A h \in heard : h.about = i => Order(h.risk) <= Order(changes[i].risk)
        /\ \E h \in heard : h.about = i /\ h.risk = changes[i].risk

\* The risk of a change comes from the source that the change names, unless an
\* overlay gave it: a plugin's verdict is not passed off as a built-in one.
RiskHasItsSource ==
    \A i \in DOMAIN changes :
        \E h \in heard : /\ h.about = i /\ h.risk = changes[i].risk
                         /\ h.by \in {changes[i].source, "overlay"}

\* Every rule for the type that was registered when the run began has been
\* asked about each change, although others are registered meanwhile.
EarlyRulesAreAsked ==
    \A i \in DOMAIN changes : \A f \in early :
        /\ option.rules
        /\ ~plan.changes[i].malformed
        /\ f.types \cap {plan.changes[i].type, AnyType} # {}
        => <<i, f>> \in asked

\* Exit code 0 is an answer: no verdict heard on any change or on the plan is
\* at or above the threshold, which is "review" for agent-gate.
ExitZeroMeansClear ==
    exit = 0 =>
        \A h \in heard :
            /\ option.command = "agent-gate" => Order(h.risk) = 0
            /\ option.failOn # "unset" => Order(h.risk) < Order(option.failOn)

\* Overlay control additions are appended to the catalog: a report has the
\* added control of every mapping that matches.
AddedControlsAreReported ==
    pc = "done" /\ option.framework /\ at > Len(changes) =>
        \A m \in option.additions :
            (\E x \in Annotated : m \in MappingsFor(x, {m})) => m.control \in controls

\* The gate decides as if it had kept only the highest rank heard.
Ceiling == INSTANCE SeverityCeiling WITH
               ranks <- {Order(h.risk) : h \in heard}, decision <- gate.decision

ImplementsCeiling == Ceiling!Spec
=============================================================================
