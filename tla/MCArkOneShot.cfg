\* Two attempts that share an adapter, a transport or nothing, in three lanes.
SPECIFICATION Spec
CONSTANTS
    a1 = a1
    a2 = a2
    d1 = d1
    d2 = d2
    t1 = t1
    t2 = t2
    None = None
    Attempts <- TwoAttempts
    Adapters <- TwoAdapters
    Transports <- TwoTransports
    Wirings <- SoundWirings
    Started = 1
    Deadline = 2
    Latest = 3
INVARIANTS
    CredentialServesOneCall
    EvidenceTellsTheWire
    UsedAnswerIsEarned
    EveryPathCloses
    AuditedAnswerKeepsEvidence
CHECK_DEADLOCK FALSE
