\* Six plans and five command lines, two rules that may be registered at any
\* time and return any of four lists of results, or raise.
SPECIFICATION Spec
CONSTANTS
    built = built
    plug = plug
    Plan <- PlansMC
    Option <- OptionsMC
    Type <- TypesMC
    Rule <- RulesMC
    AnyType = "*"
    Source <- SourcesMC
    Risk <- RisksMC
    Returns <- ReturnsMC
    Catalog <- CatalogMC
CHECK_DEADLOCK FALSE
INVARIANTS EarlyRulesAreAsked ExitZeroMeansClear
PROPERTY ImplementsCeiling
