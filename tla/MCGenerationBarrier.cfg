\* Two cells, formal and legacy evaluators, a death and a failed write, under fairness.
SPECIFICATION FairSpec
CONSTANTS
    f = f
    det = det
    phys = phys
    s = s
    None = None
    Folds <- OneFold
    Arms <- TwoArms
    Physical <- PhysicalArms
    Replay = 1
    Sealers <- OneSealer
    LaunchModes <- BothModes
    MaxCrashes = 1
    MaxFaults = 1
INVARIANTS
    ReceiptsStayTrue
    ScoredAnswersAreAttested
PROPERTIES
    KeepsJointUnseal
    ScoredOrWedged
CHECK_DEADLOCK FALSE
