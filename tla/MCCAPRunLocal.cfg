\* Two origins through the local N0 arm with a forced RUL_NA key.
SPECIFICATION Spec
CONSTANTS
    p1 = p1
    p2 = p2
    o1 = o1
    o2 = o2
    NoProc = NoProc
    NoOrigin = NoOrigin
    Procs <- OneProc
    Origins <- TwoOrigins
    NumKeys = 2
    RulNA <- LastKey
    Arm = "N0"
    Providers <- Always
    MaxCrashes = 2
    MaxFaults = 1
PROPERTIES
    ImplementsOneShotSlots
CHECK_DEADLOCK FALSE
