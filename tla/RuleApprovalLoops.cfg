\* Two gate processes, each with a pattern of its own, and one rule id for both.
SPECIFICATION Spec
CONSTANTS
    p1 = p1  p2 = p2  r1 = r1  r2 = r2
    Pattern = {p1, p2}
    RuleId = {r1}
    RuleIdOf <- SharedId
    Score = {95}
    Loop = {l1, l2}
    Approver = {a1}
    Loader = {}
    None = None
    MaxRuns = 2
    MaxCalls = 1
    MaxLoopFaults = 0
    MaxWriteFaults = 0
    MaxDeaths = 0
INVARIANT PublishedWasValidated
CHECK_DEADLOCK FALSE
