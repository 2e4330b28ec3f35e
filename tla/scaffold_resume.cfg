SPECIFICATION FairSpec
CONSTANTS
    d1 = d1
    r1 = r1
    r2 = r2
    None = None
    Callers <- OneCaller
    Runs <- TwoRuns
    MaxMade = 3
    MaxFaults = 2
    Hazards <- InTurn
INVARIANTS
    TypeOK
    CreatesTwiceOnlyIfExcused
PROPERTIES
    KeepsOnboarding
    EndsBoundOrStopped
CHECK_DEADLOCK FALSE
