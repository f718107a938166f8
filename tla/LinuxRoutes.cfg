SPECIFICATION LinuxSpec
CHECK_DEADLOCK FALSE
CONSTANTS
    Ips = {ip1, ip2}
    NoRoute = NoRoute
    Base <- MCBase
    MaxChanges = 3
    MaxEvents = 3
    MayFail = {"200", "201", "link", "src", "del", "subscribe", "look"}
INVARIANTS
    LinuxTypeOK
    RunsLeaveNoRules
    ReportsFollowed
PROPERTIES
    RoutesFollow
    DnsAnswered
