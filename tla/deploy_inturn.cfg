SPECIFICATION FairSpec
CONSTANTS
    d1 = d1
    r1 = r1
    r2 = r2
    None = None
    Callers <- OneCaller
    Runs <- TwoRuns
    MaxCommit = 3
    MaxFaults = 2
    Hazards <- InTurn
INVARIANTS
    TypeOK
    ManifestIsTrue
PROPERTIES
    NoCallInDoubt
    NoDowngrade
    KeepsRollout
    EndsDeployedOrStopped
CHECK_DEADLOCK FALSE
