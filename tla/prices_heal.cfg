SPECIFICATION FairSpec
CONSTANTS
    w = w
    s = s
    Calls <- ThreeCalls
    Date <- Dates
    Published <- ThirdIsOlder
    Quotes <- CallAndTwoHorizons
    Offset <- Horizons
    Entry = "call"
    Procs <- WorkerAndScript
    Workers <- OneWorker
    Conns = {1, 2}
    Pool <- OneOrTwo
    ModesOf <- JobAndSchedule
    JobTimes = {4}
    ByHand <- AllOrSetBased
    Traded <- FirstTwoTicks
    MaxTime = 5
    Stale = 1
    Tolerance = 1
    Grain = 3
    StartDates = {1, 2}
    BatchSize = 1
    MaxRequests = 1
    MaxHeld = 2
    MaxFaults = 1
    Hazards = {"fail", "lost", "idle", "crash", "repair", "hand", "redate", "reset", "bulk"}
INVARIANTS
    TypeOK
    AloneUnlessCut
    PriceNearInstant
PROPERTIES
    RefreshLeavesNoGap
    LosesPriceOnlyIfStale
    PricesGetRecorded
