SPECIFICATION FairSpec
CONSTANTS
    Kinds = {k1}
    Workers = {w1, w2}
    Tokens = {t1, t2, t3, t4, t5, t6, t7}
    None = None
    MaxLogins = 2
    MaxDetails = 1
    MaxFaults = 1
INVARIANTS EsiSyncInvariant GrantStaysUsable
PROPERTIES EveryKindTaken
CHECK_DEADLOCK FALSE
