SPECIFICATION FairSpec
CONSTANTS
    j1 = j1
    j2 = j2
    w1 = w1
    w2 = w2
    lp = lp
    lq = lq
    None = None
    Jobs <- OneJob
    LaptopJobs <- NoLaptop
    Workers <- TwoHermes
    Laptops <- NoLaptop
    MaxAttempts <- TwoAttempts
    Priority <- SamePriority
    LeaseTicks = 1
    MonitorGrace = 1
    MaxBackoff = 1
    AgeCap = 1
    MaxCrashes = 1
    Hazards <- AnyHazard
INVARIANTS
    TypeOK
    UniqueAttempt
    AttemptsBounded
    FailedOnlyWhenExhausted
    RunningIsLeased
PROPERTIES QueueQuiesces
