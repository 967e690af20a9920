\* All kinds of ledger, failed writes, crashes and power losses.
SPECIFICATION Spec
CONSTANTS
    a = a
    b = b
    Ids <- TwoIds
    MaxLines = 4
    MaxFaults = 2
    MaxCrashes = 2
INVARIANTS
    AckedRecordsStand
    SealStands
PROPERTIES
    ImplementsDurableLedger
CHECK_DEADLOCK FALSE
