\* Two overlapping invocations, three changes of an input.
SPECIFICATION Spec
CONSTANTS
    p1 = p1
    p2 = p2
    Procs <- TwoProcs
    MaxEdits = 3
SYMMETRY Overlap
INVARIANTS
    ExtractionIsEarned
    ReleaseIsListed
PROPERTIES
    RunStands
CHECK_DEADLOCK FALSE
