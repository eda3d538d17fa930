CONSTANTS
    t1 = t1
    t2 = t2
    Threads = {t1, t2}
    Failures = {"refused", "lost", "crash"}
    MaxBegun = 3
    Names = {"a", "b"}
    MaxUses = 4
    Bases = {"users"}
    Derived = {"usage"}
    Base <- MCBase
    Viewed = "usage"
    Quick = {"users"}
    Sources = {"users"}
    NScopes = 2
    Retention = 1
    MaxStored = 2
    Users <- MCUsers
    Admin = "admin"
    Address <- MCAddress
    Similar <- MCSimilar
    Groups = {"g1", "g2", "g3"}
    Platform <- MCPlatform
    FirstUsers = {"admin", "u1", "u2"}
    FirstGrants <- MCGrants
    FirstKeys <- MCKeys
    MaxEdits = 1
    MaxTransfers = 2
    Emails = {"e1", "e2"}
    Platforms = {"openai", "grok"}
    OAuthPlatforms = {"openai", "grok"}
    DefaultPlatform = "openai"
    FirstGroups <- MCGroups
    Landing = {1}
    FirstAccounts <- MCAccounts
    MaxFlows = 3
    Scopes = {"s1"}
    For = 2
    Cooldown = 2
    Expiration = 1
    MaxAttempts = 2
    MaxLag = 1
    MaxFailures = 1
    StartOrder <- MCStart
    StopOrder <- MCStop
    Gated = {"rotation"}
    TicksAtStart = {"credit"}
    Refreshes = 2
SPECIFICATION AnySpec
SYMMETRY Symmetry
INVARIANTS
    TypesOK
    KeysAreJudgedRight
    OneTokenEach
    MutationsReadFresh
    QuotaResetOnce
    RetriesReuse
    AccountsBelong
    SustainedOnly
    GateHolds
PROPERTIES
    ReadersKeepTheLatest
    KeysReachTheirNames
    AccountsKeepWhatTheyHave
CHECK_DEADLOCK FALSE
