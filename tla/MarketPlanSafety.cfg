SPECIFICATION Spec
CONSTANTS
    Jobs = {j1, j2}
    Slots = {s1}
    Hashes = {h1, h2}
    Procs = {p1, p2}
    Tokens = {t1, t2, t3}
    Regions = {r1}
    NoJob = NoJob
    BatchSize = 2
    MaxAttempts = 2
    MaxStamp = 2
    MaxFaults = 1
SYMMETRY Symmetry
INVARIANTS
    LeaseExclusive
    OneUncancelledPlan
    NoMissedSnapshot
PROPERTIES
    ResultsNeverGoBack
