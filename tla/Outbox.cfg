SPECIFICATION FairSpec
CONSTANTS
    i1 = i1
    t1 = t1
    Intents = {i1}
    Direct = {e1}
    Targets = {t1, t2}
    Target <- FirstTarget
    Dispatchers = {d1, d2}
    Handlers = {h1}
    Nobody = Nobody
    BatchSize = 1
    PageSize = 1
    MaxFaults = 3
INVARIANTS
    NoSkippedEvent
    PublishedIsMaterialised
PROPERTIES
    ImplementsEventLog
    EveryIntentApplied
CHECK_DEADLOCK FALSE
