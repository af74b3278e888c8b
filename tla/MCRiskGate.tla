----------------------------- MODULE MCRiskGate -----------------------------
(***************************************************************************)
(* Instances of RiskGate for TLC.                                          *)
(***************************************************************************)
EXTENDS RiskGate, TLC

CONSTANTS built, plug

Change(type, address, actions) ==
    [type |-> type, address |-> address, actions |-> actions, malformed |-> FALSE]

Malformed ==
    [type |-> "<unknown>", address |-> "<unknown>", actions |-> {"unknown"}, malformed |-> TRUE]

Item(section, actions, exposed, status) ==
    [section |-> section, actions |-> actions, exposed |-> exposed, status |-> status]

PlanOf(list, others) ==
    [readable |-> TRUE, changes |-> list, items |-> others, account |-> "prod"]

CreateKey == Change("kms", "kms.prod", {"create"})
ReplaceKey == Change("kms", "kms.prod", {"delete", "create"})
UpdateJob == Change("job", "job.etl", {"update"})
OddJob == Change("job", "job.etl", {"create", "bogus"})

PlansMC == {
    PlanOf(<<CreateKey, UpdateJob>>, <<>>),
    PlanOf(<<CreateKey>>, <<Item("checks", {"pass"}, FALSE, "pass")>>),
    PlanOf(<<Malformed>>, <<Item("resource_drift", {"update"}, FALSE, ""),
                            Item("output_changes", {"update"}, TRUE, "")>>),
    PlanOf(<<ReplaceKey>>, <<Item("checks", {"unknown"}, FALSE, "unknown")>>),
    PlanOf(<<OddJob>>, <<>>),
    [PlanOf(<<>>, <<>>) EXCEPT !.readable = FALSE] }

JobPlan == {PlanOf(<<UpdateJob>>, <<>>)}

\* A plugin rule may name its own source, return several results, or use a risk
\* that the tool does not know.
R(risk, source) == [risk |-> risk, source |-> source]
ReturnsMC == { <<>>, <<R("dangerous", "builtin")>>, <<R("critical", "builtin")>>,
               <<R("irreversible", "acme"), R("safe", "builtin")>> }

TypesMC == {"kms", "job", "<unknown>"}
RisksMC == Tier \union {"critical"}
SourcesMC == {"builtin", "acme"}
RulesMC == { [name |-> built, source |-> "builtin", types |-> {"kms", "job"}],
             [name |-> plug, source |-> "acme", types |-> {"*"}] }

\* risk_overrides of two overlay files, in order.
OverridesMC == <<
    [match |-> [resource_type |-> "kms", address_prefix |-> {"kms.prod"}], risk |-> "review"],
    [match |-> [account_id |-> "test"], risk |-> "irreversible"],
    [match |-> [address |-> "job.etl"], risk |-> "dangerous"] >>

Mapping(type, actions, control) == [type |-> type, actions |-> actions, control |-> control]
CatalogMC == {Mapping("kms", {{"create"}, {"delete", "create"}}, "CC6.1"),
              Mapping("*", {{"*"}}, "CC8.1")}

OptionOf(command, overrides, additions, failOn) ==
    [command |-> command, rules |-> TRUE, framework |-> TRUE, overrides |-> overrides,
     additions |-> additions, failOn |-> failOn]

\* An addition that a built-in mapping of the same type hides, and one that none does.
Hidden == Mapping("kms", {{"create"}}, "CC6.1")
Added == Mapping("job", {{"update"}}, "CC6.1")

OptionsMC == {
    OptionOf("agent-gate", <<>>, {}, "unset"),
    OptionOf("analyze", OverridesMC, {Hidden}, "review"),
    OptionOf("self-improving", OverridesMC, {Added}, "unset"),
    [OptionOf("analyze", OverridesMC, {}, "dangerous") EXCEPT !.rules = FALSE],
    OptionOf("analyze", <<>>, {}, "review") }

AddedOnly == {OptionOf("analyze", <<>>, {Added}, "unset")}
=============================================================================
