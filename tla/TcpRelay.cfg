SPECIFICATION TcpSpec
CHECK_DEADLOCK FALSE
CONSTANTS
    a = a
    b = b
    Conns <- MCConns
    MaxInFlight = 1
    MaxBytes <- MCBytes
INVARIANTS
    ReturnsReleased
    DownComplete
PROPERTIES
    CopierEnds
    RemoteEndReachesClient
    RequestsServed
