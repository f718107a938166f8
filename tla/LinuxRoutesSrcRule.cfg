SPECIFICATION Spec
CHECK_DEADLOCK FALSE
CONSTANTS
    Ips = {ip1, ip2}
    NoRoute = NoRoute
    Base <- MCBase
    MaxChanges = 3
    MayFail = {}
INVARIANTS
    SrcRuleCurrent
