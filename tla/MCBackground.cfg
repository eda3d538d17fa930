CONSTANTS
    p1 = p1
    p2 = p2
    u1 = u1
    t1 = t1
    t2 = t2
    Users = {u1}
    Operators = {"operator"}
    Kinds = {"once", "recurring", "interval"}
    Last = 2
    MaxRequests = 1
    Failures = {"refused", "refresh", "resolve", "crash"}
    Requests = {"run", "adjust", "toggle", "delete"}
    Proxies = {p1, p2}
    FailureThreshold = 2
    RecoveryThreshold = 2
    Whitelisted = {}
    ProxyOrder <- MCProxyOrder
    AccountOrder <- MCAccountOrder
    Direct = 0
    MaxPins = 2
    NGroups = 3
    NUsers = 3
    Quota = 2
    Threshold = 2
    Epsilon = 1
    Delta = 0
    Protections = {{}, {1}}
    Evacuations = {TRUE}
    InOrder = TRUE
    MaxUsage = 2
    MaxRuns = 1
    Readers = {t1, t2}
    PageSize = 2
    Width = 2
    MaxItems = 3
    MaxPages = 2
    MaxRows = 3
SPECIFICATION AnySpec
SYMMETRY Symmetry
INVARIANTS
    AtMostOnce
    CreditsSettle
    ClearedStaysCleared
    PlacedEvenly
    EvacuationEmpties
    RunsSettle
    OnlyWavesLose
    ClosedDaysAreExact
PROPERTIES
    Hysteresis
CHECK_DEADLOCK FALSE
