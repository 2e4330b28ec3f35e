SPECIFICATION Spec
CONSTANTS
    u1 = u1
    u2 = u2
    c1 = c1
    a1 = a1
    a2 = a2
    cron = cron
    script = script
    None = None
    Alerts <- TwoAlerts
    Users <- TwoUsers
    Creators <- OneCreator
    Owner <- EachOwns
    About <- AboutOf
    Rank <- NoRank
    Runners <- CronAndScript
    Crons <- OneCron
    Limit = 2
    MaxFaults = 1
    Hazards <- AnyHazard
INVARIANTS
    TypeOK
    OneHolder
    TwiceOnlyInDoubt
    LostOnlyByFault
PROPERTIES KeepsOutbox
SYMMETRY UserSymmetry
