CONSTANTS
    a1 = a1
    Accounts = {a1}
    FailureThreshold = 2
    RecoveryThreshold = 2
    FailureSets = {{"fail", "lost"}, {"fail", "lost", "crash"}}
    Admin = {"pause", "resume", "disable", "delete"}
    Faults = {"signal", "availability"}
SPECIFICATION FairSpec
INVARIANTS
    OwnPauseIsKnown
    StoredManualEvictionStays
PROPERTIES
    EvictionsSettle
