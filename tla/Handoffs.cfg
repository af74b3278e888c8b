SPECIFICATION HandoffsSpec
CONSTANTS
    r1 = r1
    r2 = r2
    d1 = d1
    d2 = d2
    Candidate <- TwoRules
    Junk = {junk}
    Dispatcher <- TwoDispatchers
    None = None
    MaxWrites = 3
    MaxFaults = 2
SYMMETRY Symmetry
INVARIANTS ListedIsDelivered RuleIsHandedOff ListedAgainOnlyIfSuperseded
