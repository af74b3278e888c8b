\* Two patterns with candidates of either score, one loop, two approvers and one
\* loader, with a fault of each kind.
SPECIFICATION FairSpec
CONSTANTS
    p1 = p1  p2 = p2  r1 = r1  r2 = r2
    Pattern = {p1, p2}
    RuleId = {r1, r2}
    RuleIdOf <- DistinctIds
    Score = {95, 100}
    Loop = {l1}
    Approver = {a1, a2}
    Loader = {d1}
    None = None
    MaxRuns = 2
    MaxCalls = 2
    MaxLoopFaults = 1
    MaxWriteFaults = 1
    MaxDeaths = 1
INVARIANTS ApprovedIsPublished RetryCanRepair PublishedWasValidated
PROPERTIES ImplementsAllowList EveryCallReturns
CHECK_DEADLOCK FALSE
