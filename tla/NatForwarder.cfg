SPECIFICATION Spec
CHECK_DEADLOCK FALSE
CONSTANTS
    host = host
    None = None
    Datagrams = {1, 2, 3, 4}
    Clients = {host}
    Addr <- MCAddr
    MaxAges = 1
INVARIANTS
    TypeOK
    WaitersHaveSocket
PROPERTIES
    EntryNamesUntilClosed
    HandlersServed
    InactiveDisconnected
