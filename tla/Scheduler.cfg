SPECIFICATION FairSpec
CONSTANTS
    Regions = {r1, r2}
    Procs = {p1, p2}
    Schedules <- SomeSchedules
    ClientPriority = 1000000
    Tokens = {t1, t2, t3}
    NoToken = NoToken
    MaxRegions = 1
    Refreshed = {r2}
    MaxRequests = 1
    Faulty = {p1}
    MaxFaults = 1
INVARIANTS
    SchedulerInvariant
    SnapshotsMoveForward
PROPERTIES
    EveryRegionTried
