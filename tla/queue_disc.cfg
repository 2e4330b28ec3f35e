SPECIFICATION Spec
CONSTANTS
    j1 = j1
    j2 = j2
    w1 = w1
    w2 = w2
    lp = lp
    lq = lq
    None = None
    Jobs <- TwoJobs
    LaptopJobs <- LaptopJob
    Workers <- HermesAndTwoLaptops
    Laptops <- TwoLaptops
    MaxAttempts <- MixedAttempts
    Priority <- FirstPriority
    LeaseTicks = 1
    MonitorGrace = 0
    MaxBackoff = 2
    AgeCap = 1
    MaxCrashes = 1
    Hazards <- CrashAndLoss
INVARIANTS
    RunFollowsJob
PROPERTIES KeepsLedger
