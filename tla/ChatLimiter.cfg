\* Five checks of one client over more than two windows, at a limit of two.
SPECIFICATION FairSpec
CONSTANTS
    q1 = q1
    q2 = q2
    q3 = q3
    q4 = q4
    q5 = q5
    Request <- FiveRequests
    RateLimit = 2
    Window = 3
    Second = 2
    None = None
    MaxTime = 7
    MaxCrashes = 1
CHECK_DEADLOCK FALSE
INVARIANTS QuotaHolds RetryAfterSuffices
PROPERTY WindowIsDeleted
