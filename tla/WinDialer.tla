----------------------------- MODULE WinDialer ------------------------------
(***************************************************************************)
(* The dials of the two relays on Windows: each looks model.Routes up      *)
(* (model/route.go) while the callbacks of WinRoutes replace it, and binds *)
(* its socket to the interface found (protocol/socket/socket_windows.go).  *)
(*                                                                         *)
(* Routes is a slice, three machine words that no lock protects: a look-up *)
(* that falls into an assignment may pair the array of one slice with the  *)
(* length of the other.                                                    *)
(***************************************************************************)
EXTENDS WinRoutes, FiniteSetsExt

CONSTANT Dials   \* handlers dialling

ASSUME DialAssumption ==
    \A row \in Rows : /\ row.ifc # None /\ row.mask \in Nat
                      /\ row.metric \in Nat /\ row.ifMetric \in Nat

VARIABLES
    dial,    \* where each dial is: how its socket was bound, in the end
    pick,    \* interface of the route found; None for the default route
    cause    \* history: what Routes was for the look-up

dialVars == <<vars, dial, pick, cause>>

DialInit ==
    /\ Init
    /\ dial = [d \in Dials |-> "idle"]
    /\ pick = [d \in Dials |-> None]
    /\ cause = [d \in Dials |-> "whole"]

-----------------------------------------------------------------------------
Picks(d, r, why) ==
    /\ dial[d] = "idle"
    /\ dial' = [dial EXCEPT ![d] = "picked"]
    /\ pick' = [pick EXCEPT ![d] = r.ifc]
    /\ cause' = [cause EXCEPT ![d] = why]
    /\ UNCHANGED vars

\* FindContainRoute(remoteAddr.IP, model.Routes), between two assignments.
LookUp(d) ==
    \E ip \in Dests : \E r \in Choice(ip) :
        Picks(d, r, IF routes = None THEN "nil" ELSE "whole")

\* The look-up falls into g's assignment, and the shorter length goes with the
\* longer slice's array: some of its routes are not seen.
LookUpTorn(d) ==
    \E g \in Calls :
        LET old == IF routes = None THEN {} ELSE routes
            new == found[g]
            longer == IF Cardinality(old) <= Cardinality(new) THEN new ELSE old
            length == IF longer = new THEN Cardinality(old) ELSE Cardinality(new)
        IN  /\ call[g] \in {"store", "storePart"}
            /\ \E seen \in kSubset(length, longer), ip \in Dests :
                   \E r \in FindContainRoute(ip, seen) : Picks(d, r, "torn")

\* Or the longer length goes with the shorter array, and the look-up runs past
\* its end: a nil entry panics, which the handler's recover turns into a dial
\* that is dropped; anything else there may stop the process.
LookUpOverruns(d) ==
    /\ dial[d] = "idle"
    /\ \E g \in Calls :
          /\ call[g] \in {"store", "storePart"}
          /\ found[g] # (IF routes = None THEN {} ELSE routes)
    /\ \/ dial' = [dial EXCEPT ![d] = "failed"] /\ UNCHANGED fatal
       \/ fatal' = TRUE /\ UNCHANGED dial
    /\ UNCHANGED <<table, routes, call, found, changes, pick, cause>>

\* Control: bind4 with the route's IfIndex.  Index 0, that of the default
\* route, leaves the socket to the system's table.  An interface without rows
\* may be gone: bind4 fails, and its panic too ends in the handler's recover.
Bind(d) ==
    /\ dial[d] = "picked"
    /\ \E end \in IF pick[d] = None THEN {"free"}
                  ELSE IF \E row \in table : row.ifc = pick[d] THEN {"bound"}
                  ELSE {"bound", "failed"} :
           dial' = [dial EXCEPT ![d] = end]
    /\ UNCHANGED <<vars, pick, cause>>

\* The connection ends; the next one dials again.
HangUp(d) ==
    /\ dial[d] \in {"bound", "free", "failed"}
    /\ dial' = [dial EXCEPT ![d] = "idle"]
    /\ pick' = [pick EXCEPT ![d] = None]
    /\ cause' = [cause EXCEPT ![d] = "whole"]
    /\ UNCHANGED vars

Dialling(d) == LookUp(d) \/ LookUpTorn(d) \/ LookUpOverruns(d) \/ Bind(d) \/ HangUp(d)

DialNext ==
    /\ ~fatal
    /\ \/ Next /\ UNCHANGED <<dial, pick, cause>>
       \/ \E d \in Dials : Dialling(d)

DialSpec == DialInit /\ [][DialNext]_dialVars

-----------------------------------------------------------------------------
DialTypeOK ==
    /\ TypeOK
    /\ dial \in [Dials -> {"idle", "picked", "bound", "free", "failed"}]
    /\ pick \in [Dials -> {row.ifc : row \in Rows} \cup {None}]
    /\ cause \in [Dials -> {"nil", "torn", "whole"}]

\* No socket is bound to the tunnel's interface, torn look-ups included: the
\* relay is not fed its own packets that way.
NotIntoTunnel == \A d \in Dials : pick[d] # Tun

\* While the table has a default route of a connected interface and FindRoutes
\* can read all its rows, a dial is left to the system's table (which prefers
\* the tunnel) only before the first callback has stored the routes or in a
\* torn look-up.
HasDefault ==
    /\ \E row \in table : row.mask = 0 /\ row.ifc # Tun /\ row.connected
    /\ Readable
BoundWhenLoaded == \A d \in Dials : dial[d] = "free" => cause[d] # "whole"
DialsBound == []HasDefault => []BoundWhenLoaded

=============================================================================
