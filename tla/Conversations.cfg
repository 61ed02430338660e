SPECIFICATION Spec
CONSTANTS
    Convs = {c1, c2}
    Keys = {k1, k2}
    Runs = {r1}
    Handlers = {h1, h2}
    PageLimit = 1
    MaxRequests = 4
    MaxEvents = 1
SYMMETRY HandlerSymmetry
INVARIANTS ConversationsInvariant RunStatesAnnounced SnapshotMissesOnlyLate
PROPERTIES ClosedTakesNothingNew EndedStays
CHECK_DEADLOCK FALSE
