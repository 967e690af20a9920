\* Two invocations on one output directory, three units of four events, every
\* single fault.
SPECIFICATION Spec
CONSTANTS
    p1 = p1
    p2 = p2
    Procs <- TwoProcs
    N = 4
    LastUnit = 3
    Contexts = {1, 2, 3, 4, 5}
    Horizons <- TriedHorizons
    Models <- TriedModels
    MaxFaults = 1
INVARIANTS
    NoPeeking
    NoFailureIsAveragedAway
    CompleteRunIsWhole
PROPERTIES
    OpenedRunCompletes
CHECK_DEADLOCK FALSE
