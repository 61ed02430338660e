SPECIFICATION FairSpec
CONSTANTS
    Jobs = {j1, j2}
    Slots = {s1, s2}
    Hashes = {h1}
    Procs = {p1}
    Tokens = {t1, t2, t3}
    Regions = {r1}
    NoJob = NoJob
    BatchSize = 1
    MaxAttempts = 2
    MaxStamp = 1
    MaxFaults = 1
PROPERTIES
    SnapshotsReachPlans
