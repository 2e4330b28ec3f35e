SPECIFICATION Spec
CONSTANTS
    d1 = d1
    r1 = r1
    r2 = r2
    None = None
    Callers <- OneCaller
    Runs <- TwoRuns
    MaxCommit = 2
    MaxFaults = 2
    Hazards <- RefusedOnly
INVARIANTS PushedIsPushed
