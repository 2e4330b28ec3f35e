SPECIFICATION FairSpec
CONSTANTS
    call = call
    m1 = m1
    b1 = b1
    b2 = b2
    e1 = e1
    e2 = e2
    v1 = v1
    None = None
    Calls <- OneCall
    Models <- OneModel
    Batches <- TwoBatches
    ModelOf <- AskOne
    Attempts <- TwoAttempts
    Accepts <- TakeOne
    Validators <- OneValidator
    Profiles <- FiveProfiles
    BatchSize = 2
    MaxAudits = 2
    MaxFaults = 1
INVARIANTS
    TypeOK
    AuditNeverOverstates
    AuditTellsUnlessHit
PROPERTIES
    JudgedAgainOnlyByOverlap
    KeepsTrail
    AuditRowsEnd
    EveryCallJudged
CHECK_DEADLOCK FALSE
