---------------------------- MODULE RouteSelect ----------------------------
(***************************************************************************)
(* The choice of a route: model/route.go, and the functions of             *)
(* model/route_windows.go that turn the system's table into CustomRoutes.  *)
(*                                                                         *)
(* An address is the set of the positions of its 1 bits, position 0 being  *)
(* the first bit on the wire, so that a prefix is a set of first positions.*)
(***************************************************************************)
EXTENDS Integers, FiniteSets

CONSTANTS
    OctetBits,   \* bits of an octet (8)
    Octets,      \* octets of an address (4)
    MetricMod,   \* metrics are added modulo 2^32
    OutBound,    \* model.OutBoundIpv4, the address of the default route
    None         \* nil

Width == OctetBits * Octets
Positions == 0..(Width - 1)

ASSUME RouteAssumption ==
    /\ OctetBits \in Nat \ {0} /\ Octets \in Nat \ {0}
    /\ MetricMod \in Nat \ {0}
    /\ OutBound \subseteq Positions
    /\ \A ip \in SUBSET Positions : ip # None

-----------------------------------------------------------------------------
\* getBit(b, i) for i = 0, 1, ... takes the last bit of each octet first.
Visited(k) == OctetBits * (k \div OctetBits) + (OctetBits - 1 - (k % OctetBits))

\* The 1 bits among the first `mask' bits that countBits visits.
CountBits(ip, mask) ==
    IF ip = None THEN 0
    ELSE Cardinality({k \in Positions : k < mask /\ Visited(k) \in ip})

\* Subnet.Contains(ip)
Contains(r, ip) ==
    \A k \in Positions : k < r.mask => (k \in r.net <=> k \in ip)

\* SortRoutes.Less
Less(a, b) ==
    IF a.BitCount = b.BitCount THEN a.Metric < b.Metric
                               ELSE a.BitCount > b.BitCount

\* getDefaultRoute: no interface index, so a dialer is not bound to any.
DefaultRoute == [ifc |-> None, net |-> {}, mask |-> 0, Ip |-> OutBound,
                 Metric |-> 0, BitCount |-> 0]

\* FindContainRoute.  sort.Sort is not stable: the route it puts first may be
\* any that no other precedes, so the result is the set of those.
FindContainRoute(ip, routes) ==
    LET containing == {r \in routes : Contains(r, ip)}
    IN  IF containing = {} THEN {DefaultRoute}
        ELSE {r \in containing : \A s \in containing : ~Less(s, r)}

-----------------------------------------------------------------------------
\* adapterAddresses: the adapters in the system's order, up to the first one
\* without an address, where the loop ends.  One whose address Sockaddr cannot
\* read is left out; if GetAdaptersAddresses fails, `unread' has all of them.
AdapterAddress(adapters, ifc, unread) ==
    IF /\ ifc \notin unread
       /\ \E i \in DOMAIN adapters :
             /\ adapters[i].ifc = ifc
             /\ \A j \in 1..i : adapters[j].ip # None
    THEN adapters[CHOOSE i \in DOMAIN adapters : adapters[i].ifc = ifc].ip
    ELSE None

\* The CustomRoute of a row, with the address found for its interface.
CustomRoute(row, ip) ==
    [ifc |-> row.ifc, net |-> row.net, mask |-> row.mask, Ip |-> ip,
     Metric |-> (row.metric + row.ifMetric) % MetricMod,
     BitCount |-> IF row.mask > 0 THEN CountBits(ip, row.mask) ELSE 0]

\* Mutant: the name of the tunnel is not compared.
UsesRowOfTunnel(row, tun, unknown) == row.connected /\ row.ifc \notin unknown

\* `if row.MediaConnectState == ...': FindRoutes uses a row unless it belongs to
\* the tunnel's interface, to one that is not connected, or to one GtIfEntry2
\* fails for, whose entry, left zero, says so.
UsesRow(row, tun, unknown) ==
    row.connected /\ row.ifc # tun /\ row.ifc \notin unknown

\* FindRoutes, when GtIfEntry2 fails for the interfaces `unknown' and those in
\* `unread' get no address.
FindRoutes(table, adapters, tun, unknown, unread) ==
    {CustomRoute(row, AdapterAddress(adapters, row.ifc, unread)) :
        row \in {r \in table : UsesRow(r, tun, unknown)}}

=============================================================================
