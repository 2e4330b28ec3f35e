SPECIFICATION Spec
CONSTANTS
    p1 = p1
    p2 = p2
    p3 = p3
    None = None
    Pids <- TwoPids
    StaleTicks = 1
    MaxCrashes = 0
    Hazards <- Racing
INVARIANTS OneLoop
