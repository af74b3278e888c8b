\* Two requests over a limiter of one per window, with fair timers only.
SPECIFICATION FairChatSpec
CONSTANTS
    q1 = q1
    q2 = q2
    q3 = q3
    Request <- TwoRequests
    RateLimit = 1
    Window = 2
    Second = 1
    None = None
    MaxTime = 4
    MaxCrashes = 1
CHECK_DEADLOCK FALSE
INVARIANTS FundedIsAdmitted NoOrphanedCall
PROPERTIES GoneIsNotFunded EveryAskIsAnswered
