SPECIFICATION DeliverySpec
CONSTANTS
    Ids = {a, b, c}
    Subs = {s1}
    Publishers = {p1, p2}
    Waker = Waker
    Nobody = Nobody
    Modes = {TRUE, FALSE}
    Failures = TRUE
    QueueSize = 2
    RetentionPerDevice = 2
    MaxCursor = 4
    MaxHints = 1
    MaxReceived = 3
    Sockets = {h1, h2}
    Unlocked = Unlocked
    DeviceRows = 2
    PoolSize = 2
    MaxFaults = 3
SYMMETRY Symmetry
INVARIANTS
    DeliveryInvariant
    MemoryDelivers
PROPERTIES
    ProcessedStays
CHECK_DEADLOCK FALSE
