INIT ServicesInit
NEXT ServicesNext
CONSTANTS
    Requests <- SomeRequests
    Quotes <- SomeQuotes
    MaxChainJumps = 2
    MinProfit = 200
    RouteCallers = {r1, r2}
    NoCaller = NoCaller
    Builds <- SomeBuilds
    Routes <- SomeRoutes
    MaxEntries = 1
    MaxJumps = 3
    RelayCodes = {k1}
    Desktop = Desktop
    Phone = Phone
    Envelopes = {e1, e2}
    RelayHandlers = {h1, h2}
    SyncPage = 1
    MaxPosts = 5
    Messages = {m1, m2}
    Passes = {p1, p2}
    Limit = 2
    AttemptLimits = {0, 1}
    BaseDelay = 1
    MaxDelay = 2
    MaxTime = 1
    Callers = {"c1", "c2"}
    ServerOf <- OneServer
    PublicKinds = {"names"}
    Posted = {"names"}
    MaxWait = 1
    Fallback = 1
    MaxHold = 2
    MaxClock = 2
    MaxBacklog = 2
    Editors = {"f1", "f2"}
    MaxVersion = 4
    Mobiles = {d1, d2}
    RawTokens = {t1, t2}
    MaxAttempts = 2
    MaxIds = 4
    Replicas = {"r1", "r2"}
    Releases <- SomeReleases
    Imports = {i1, i2}
    Charts <- SomeCharts
    Floors <- SomeFloors
    Calls = {w1, w2}
    Handles = {n1, n2, n3}
    NoHandle = NoHandle
    MaxBuild = 2
    ClientRequests = {q1, q2}
    MaxDevices = 3
    MaxExpiries = 2
    MaxOthers = 1
    Txns = {x1, x2}
    Challenges = {g1}
    Subjects = {s1, s2}
    Accounts = {a1, a2}
    LoginHandlers = {l1, l2}
    MaxSessions = 3
    a1 = a1
    a2 = a2
    s1 = s1
    s2 = s2
    l1 = l1
    l2 = l2
    x2 = x2
    MaxLoginFaults = 1
INVARIANTS PlansHold RoutesAreShortest AcceptedIsRecoverable QueueInvariant PublicDataIsSound
           DocInvariant PushInvariant SetupInvariant SdeInvariant CredentialsAreSound LoginsAreSound
CHECK_DEADLOCK FALSE
