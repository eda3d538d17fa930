CONSTANTS
    p1 = p1
    p2 = p2
    a1 = a1
    a2 = a2
    Proxies = {p1, p2}
    Accounts = {a1, a2}
    ProxyOrder <- MCProxyOrder
    AccountOrder <- MCAccountOrder
    Direct = Direct
    Gone = Gone
    NoPin = NoPin
SPECIFICATION Spec
INVARIANTS
    ForcedIsParked
    NeverProxiedNeverMoved
    MoveTargetNotDead
PROPERTY
    PinsRespected
