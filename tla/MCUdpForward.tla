---------------------------- MODULE MCUdpForward ----------------------------
(* UdpForward on four datagrams of two hosts behind one egress address.    *)
EXTENDS UdpForward

CONSTANTS p1, p2, p3, p4, hostA, hostB, port5353, port15353, web, dns, ipv6

MCSources == {hostA, hostB}
MCPorts == {port5353, port15353}
MCRemotes == {web, dns, ipv6}
MCTexts == MCPorts
MCIpPortText == [x \in {"ip"} \X MCPorts |-> x[2]]

\* Two hosts send to one server from one source port; a third datagram, of
\* the same port, is a DNS question, and a fourth has an IPv6 destination.
MCPackets == {p1, p2, p3, p4}
MCSrcIp == [p \in MCPackets |-> IF p = p1 THEN hostA ELSE hostB]
MCSrcPort == [p \in MCPackets |-> IF p = p4 THEN port15353 ELSE port5353]
MCDst == [p \in MCPackets |->
             CASE p = p3 -> dns [] p = p4 -> ipv6 [] OTHER -> web]
=============================================================================
