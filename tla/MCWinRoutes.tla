---------------------------- MODULE MCWinRoutes ----------------------------
(* WinRoutes with addresses of two octets of two bits, three interfaces    *)
(* and the tunnel.                                                         *)
EXTENDS WinDialer

CONSTANTS eth, wifi, vpn

Row(ifc, net, mask, metric, ifMetric, connected) ==
    [ifc |-> ifc, net |-> net, mask |-> mask, metric |-> metric,
     ifMetric |-> ifMetric, connected |-> connected]

\* Two default routes, whose metrics tie after the 32-bit sum wraps; a longer
\* prefix of wifi; the tunnel's own route, and that of an interface without a
\* link.
MCRows == {
    Row(eth, {}, 0, 1, 1, TRUE), Row(wifi, {}, 0, 3, 3, TRUE),
    Row(wifi, {0, 1}, 3, 1, 1, TRUE),
    Row(Tun, {}, 0, 0, 0, TRUE), Row(vpn, {0}, 1, 0, 0, FALSE)}

MCAdapters == <<[ifc |-> eth, ip |-> {0, 1, 3}], [ifc |-> wifi, ip |-> {0, 2}],
                [ifc |-> vpn, ip |-> None], [ifc |-> Tun, ip |-> {1}]>>

\* Inside the longer prefix and outside.
TwoAddresses == {{}, {0, 1}}
NoAddress == {}
=============================================================================
