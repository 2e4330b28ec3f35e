SPECIFICATION FairSpec
CONSTANTS
    p1 = p1
    p2 = p2
    p3 = p3
    None = None
    Pids <- ThreePids
    StaleTicks = 2
    MaxCrashes = 2
    Hazards <- CrashAndReuse
INVARIANTS
    TypeOK
    OneLoop
    HolderIsRecorded
PROPERTIES LockRecovers
