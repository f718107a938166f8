SPECIFICATION Spec
CONSTANTS
    Sessions = {s1, s2}
    None = None
    MaxRequests = 3
INVARIANTS
    TypeOK
    OnlyForeignDnsBlocked
    FiltersFollow
PROPERTIES
    RequestsAnswered
CHECK_DEADLOCK FALSE
