\* One change and one overlay that adds a control for it.
SPECIFICATION Spec
CONSTANTS
    built = built
    plug = plug
    Plan <- JobPlan
    Option <- AddedOnly
    Type <- TypesMC
    Rule <- RulesMC
    AnyType = "*"
    Source <- SourcesMC
    Risk <- RisksMC
    Returns <- ReturnsMC
    Catalog <- CatalogMC
CHECK_DEADLOCK FALSE
INVARIANT AddedControlsAreReported
