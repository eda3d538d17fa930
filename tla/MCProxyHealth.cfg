CONSTANTS
    p1 = p1
    p2 = p2
    a1 = a1
    a2 = a2
    Proxies = {p1, p2}
    FailureThreshold = 1
    RecoveryThreshold = 1
    Whitelisted = {p1, p2}
    Accounts = {a1}
    ProxyOrder <- MCProxyOrder
    AccountOrder <- MCOneAccount
    Direct = Direct
    Gone = Gone
    NoPin = NoPin
    AutoMove = TRUE
    Edits = {"account", "proxy", "pin"}
SPECIFICATION Spec
PROPERTY
    RebalanceSpec
