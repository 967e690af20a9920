\* Two rival processes, one origin, direct arm.
SPECIFICATION Spec
CONSTANTS
    p1 = p1
    p2 = p2
    o1 = o1
    o2 = o2
    NoProc = NoProc
    NoOrigin = NoOrigin
    Procs <- TwoProcs
    Origins <- OneOrigin
    NumKeys = 1
    RulNA <- NoKeys
    Arm = "DIRECT"
    Providers <- Always
    MaxCrashes = 2
    MaxFaults = 1
INVARIANTS
    OneRecordPerSlot
    ReadsStayTrue
    OneCallPerSlot
    CheckpointHasLineage
CHECK_DEADLOCK FALSE
