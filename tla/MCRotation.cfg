CONSTANTS
    u1 = u1
    u2 = u2
    t1 = t1
    t2 = t2
    p1 = p1
    p2 = p2
    g1 = g1
    g2 = g2
    l1 = l1
    q1 = q1
    a1 = a1
    Users = {u1}
    KeyNames = {"k1"}
    Accounts = {a1}
    AccountPlatform <- MCAccountPlatform
    Groups = {g1, g2, l1, q1}
    Platform <- MCPlatform
    Rotatable = {g1, g2, q1}
    FirstLanding = {l1}
    OldFlows = {}
    Threads = {t1, t2}
    Loads <- MCLoads
    Failures = {"refused", "lost", "crash"}
    MaxRequests <- MCMaxRequests
    MaxCrashes <- MCMaxCrashes
SPECIFICATION Spec
SYMMETRY Symmetry
INVARIANTS
    NoKeyOrphaned
    RollbackRestores
    OneGroupPerPlatform
PROPERTY
    RoutesAreKept
CHECK_DEADLOCK FALSE
