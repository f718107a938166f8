SPECIFICATION DialSpec
CHECK_DEADLOCK FALSE
CONSTANTS
    eth = eth
    wifi = wifi
    vpn = vpn
    Tun = tun
    None = None
    OctetBits = 2
    Octets = 2
    MetricMod = 4
    OutBound <- NoAddress
    Rows <- MCRows
    Adapters <- MCAdapters
    Faulty = {eth}
    Dests <- TwoAddresses
    Dials = {d1}
    Calls = {g1, g2}
    MaxChanges = 1
INVARIANTS
    DialTypeOK
    NotIntoTunnel
PROPERTIES
    DialsBound
