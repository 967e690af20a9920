\* A client that sends frames out of turn; rival policies; against the causal replay.
SPECIFICATION UnrulySpec
CONSTANTS
    p = p
    q = q
    NoCheckpoint = NoCheckpoint
    Policies <- TwoPolicies
    Context = 2
    NumEvents = 4
    MaxCrashes = 1
    MaxTimeouts = 1
    MaxFaults = 0
    MaxRequests = 5
SYMMETRY SamePolicies
PROPERTIES
    RefusalIsFinal
    ImplementsCausalReveal
CHECK_DEADLOCK FALSE
