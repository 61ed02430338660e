SPECIFICATION FairSpec
CONSTANTS
    Ids = {a, b}
    Subs = {s1}
    Publishers = {p1}
    Waker = Waker
    Nobody = Nobody
    Modes = {FALSE}
    Failures = FALSE
    QueueSize = 1
    RetentionPerDevice = 2
    MaxCursor = 2
    MaxHints = 1
    MaxReceived = 3
PROPERTIES
    CloseReturns
CHECK_DEADLOCK FALSE
