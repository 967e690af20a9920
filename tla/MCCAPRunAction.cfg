\* One process, action arm, faults and crashes, under fairness.
SPECIFICATION FairSpec
CONSTANTS
    p1 = p1
    p2 = p2
    o1 = o1
    o2 = o2
    NoProc = NoProc
    NoOrigin = NoOrigin
    Procs <- OneProc
    Origins <- OneOrigin
    NumKeys = 2
    RulNA <- NoKeys
    Arm = "ACTION"
    Providers <- Sometimes
    MaxCrashes = 2
    MaxFaults = 1
INVARIANTS
    TypeOK
    CommittedAnswerIsGenuine
    VerifiedPhaseAccountsForCalls
    SealedPhaseFrozen
    AnswerLostOnlyToFaults
PROPERTIES
    ImplementsOneShotSlots
    StartedSlotIsCheckpointed
CHECK_DEADLOCK FALSE
