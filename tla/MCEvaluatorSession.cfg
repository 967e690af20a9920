\* Two process deaths, a timeout and a failed write, under fairness.
SPECIFICATION FairSpec
CONSTANTS
    p = p
    q = q
    NoCheckpoint = NoCheckpoint
    Policies <- OnePolicy
    Context = 2
    NumEvents = 4
    MaxCrashes = 2
    MaxTimeouts = 1
    MaxFaults = 1
    MaxRequests = 5
INVARIANTS
    NoEventRunsAhead
    LedgersStayOrderly
PROPERTIES
    PendingRevealResolved
CHECK_DEADLOCK FALSE
