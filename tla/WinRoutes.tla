----------------------------- MODULE WinRoutes -----------------------------
(***************************************************************************)
(* The routes on Windows: InitRoute of model/route_windows.go registers    *)
(* two callbacks, one for interfaces and one for routes; each notification *)
(* runs `Routes = FindRoutes()' in a goroutine of its own (the goroutines  *)
(* of ChangeCallback), while every dial looks model.Routes up.             *)
(***************************************************************************)
EXTENDS RouteSelect, Sequences, FiniteSets

CONSTANTS
    Rows,        \* rows the system's route table may hold
    Adapters,    \* the adapters, as GetAdaptersAddresses lists them
    Tun,         \* the tunnel's interface
    Faulty,      \* interfaces a call of FindRoutes may fail for
    Dests,       \* destinations of dials
    Calls,       \* goroutines running one of the two callbacks
    MaxChanges   \* bound on the changes of the table

ASSUME WinAssumption == Tun # None /\ MaxChanges \in Nat

VARIABLES
    table,       \* external: the system's route table
    routes,      \* model.Routes; None until the first callback
    call,        \* where each callback goroutine is
    found,       \* what FindRoutes has returned to it
    fatal,       \* the process has stopped: a panic nobody recovers
    changes      \* how often the table has changed

vars == <<table, routes, call, found, fatal, changes>>

\* No initial notification is asked for: Routes stays nil at first.
Init ==
    /\ table \in SUBSET Rows
    /\ routes = None
    /\ call = [g \in Calls |-> "idle"]
    /\ found = [g \in Calls |-> {}]
    /\ fatal = FALSE
    /\ changes = 0

\* A route comes or goes in the system's table.
Change ==
    /\ changes < MaxChanges
    /\ \E row \in Rows :
          table' = IF row \in table THEN table \ {row} ELSE table \cup {row}
    /\ changes' = changes + 1
    /\ UNCHANGED <<routes, call, found, fatal>>

\* A callback of InitRoute is run, for a route or an interface.  A change may
\* have none, as nobody looks whether a callback could be registered.
Notify(g) ==
    /\ call[g] = "idle"
    /\ call' = [call EXCEPT ![g] = "find"]
    /\ UNCHANGED <<table, routes, found, fatal, changes>>

\* The sets of interfaces adapterAddresses may have no address of: those it
\* cannot read, or all of them.
Unread == SUBSET Faulty \cup {{row.ifc : row \in Rows}}

\* Mutant: the table's rows are returned as they are.
FindRows(g) ==
    /\ call[g] = "find"
    /\ call' = [call EXCEPT ![g] = "store"]
    /\ found' = [found EXCEPT ![g] = table]
    /\ UNCHANGED <<table, routes, fatal, changes>>

\* Mutant: Routes is emptied first and filled row by row.
FindResets(g) ==
    /\ call[g] = "find"
    /\ call' = [call EXCEPT ![g] = "store"]
    /\ found' = [found EXCEPT ![g] = FindRoutes(table, Adapters, Tun, {}, {})]
    /\ routes' = {}
    /\ UNCHANGED <<table, fatal, changes>>

\* FindRoutes, in a callback's goroutine.  Rows of interfaces it cannot get the
\* entry of are left out.
Find(g) ==
    /\ call[g] = "find"
    /\ \E unknown \in SUBSET Faulty, unread \in Unread :
          /\ call' = [call EXCEPT ![g] =
                         IF unknown = {} THEN "store" ELSE "storePart"]
          /\ found' = [found EXCEPT ![g] =
                          FindRoutes(table, Adapters, Tun, unknown, unread)]
    /\ UNCHANGED <<table, routes, fatal, changes>>

\* GetIPForwardTable2 fails: FindRoutes returns nil.
FindFails(g) ==
    /\ call[g] = "find"
    /\ call' = [call EXCEPT ![g] = "storePart"]
    /\ UNCHANGED <<table, routes, found, fatal, changes>>

\* IPInterface fails for the interface of a row that is used: its error is
\* ignored, the nil pointer read, and the panic ends the process.
FindPanics(g) ==
    /\ call[g] = "find"
    /\ \E row \in table : row.ifc \in Faulty /\ UsesRow(row, Tun, {})
    /\ fatal' = TRUE
    /\ UNCHANGED <<table, routes, call, found, changes>>

\* Routes = ...; nil is stored like an empty slice.
Store(g) ==
    /\ call[g] \in {"store", "storePart"}
    /\ call' = [call EXCEPT ![g] = "idle"]
    /\ routes' = found[g]
    /\ found' = [found EXCEPT ![g] = {}]
    /\ UNCHANGED <<table, fatal, changes>>

Next ==
    \/ Change
    \/ \E g \in Calls :
          Notify(g) \/ Find(g) \/ FindFails(g) \/ FindPanics(g) \/ Store(g)

-----------------------------------------------------------------------------
\* The route a dial to ip takes at this moment; nil behaves as empty.
Choice(ip) == FindContainRoute(ip, IF routes = None THEN {} ELSE routes)

\* The routes FindRoutes may make of the rows.
FoundRows ==
    UNION {FindRoutes(Rows, Adapters, Tun, {}, unread) : unread \in Unread}

TypeOK ==
    /\ table \subseteq Rows
    /\ routes = None \/ routes \subseteq FoundRows
    /\ call \in [Calls -> {"idle", "find", "store", "storePart"}]
    /\ found \in [Calls -> SUBSET FoundRows]
    /\ fatal \in BOOLEAN
    /\ changes \in 0..MaxChanges

\* No callback is about to store routes with rows left out.
Readable == \A g \in Calls : call[g] # "storePart"

=============================================================================
