SPECIFICATION Spec
CHECK_DEADLOCK FALSE
CONSTANTS
    p1 = p1
    p2 = p2
    p3 = p3
    p4 = p4
    hostA = hostA
    hostB = hostB
    port5353 = port5353
    port15353 = port15353
    web = web
    dns = dns
    ipv6 = ipv6
    None = None
    Sources <- MCSources
    Ports <- MCPorts
    Remotes <- MCRemotes
    Texts <- MCTexts
    DnsRemotes = {dns}
    BadRemotes = {ipv6}
    Packets <- MCPackets
    SrcIp <- MCSrcIp
    SrcPort <- MCSrcPort
    Dst <- MCDst
    EgressIps = {"ip"}
    IpPortText <- MCIpPortText
INVARIANTS
    RightRemote
PROPERTIES
    ImplementsFlowTable
    HandlersFinish
