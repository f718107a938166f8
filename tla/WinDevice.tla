------------------------------ MODULE WinDevice ------------------------------
(***************************************************************************)
(* The daemon's device on Windows: InitGateway, configFwp, the goroutine    *)
(* monitorEnforceDns and Close of device/device_windows.go, the methods of  *)
(* LUID they call, gv.Start, and the order CreateClient calls them in.      *)
(*                                                                         *)
(* The filters of the Windows filtering platform belong to a session with   *)
(* the flag DYNAMIC: the system removes them when the session is closed or  *)
(* its process ends.  The program that flips the switch over the two        *)
(* channels is not in the repository.                                      *)
(***************************************************************************)
EXTENDS Naturals

CONSTANTS
    Sessions,    \* handles the filtering engine may give
    None,        \* the zero handle
    MaxRequests  \* bound on the requests to flip the switch

ASSUME NoneAssumption == None \notin Sessions
ASSUME MaxRequestsAssumption == MaxRequests \in Nat

VARIABLES
    at,          \* where the main goroutine and monitorEnforceDns are
    engine,      \* the local engine of configFwp, for both
    closing,     \* the handle Close has found in fwpmSession
    addresses,   \* addresses of the tunnel: those of an earlier run, its own
    routed,      \* is the default route in the tunnel
    dns,         \* servers of the tunnel: none, or set in the new or old way
    stack,       \* what became of the network stack
    enforce,     \* EnableEnforceDns
    fwpmSession, \* the field of Device
    open,        \* sessions open in the filtering engine
    filters,     \* filters of each session
    unclosed,    \* history: sessions that could not be closed
    request,     \* ReadEnableEnforceDnsChan: at most one value
    answers,     \* values in WriteEnableEnforceDnsChan
    wanted,      \* the value monitorEnforceDns has received
    unanswered,  \* requests without answer
    requests     \* requests so far

tunnel == <<addresses, routed, dns, stack>>
channels == <<request, answers, wanted, unanswered, requests>>
vars == <<at, engine, closing, tunnel, enforce, fwpmSession, open, filters,
          unclosed, channels>>

Procs == {"main", "monitor"}
FwpSteps == {"engine", "sublayer", "appID", "permit", "tun", "block"}
MainSteps == FwpSteps \cup
    {"create", "flush", "address", "route", "dns", "netsh", "domain", "enforce",
     "spawn", "stack", "running", "closeTun", "checkSession",
     "closeEngine", "returning", "exited", "crashed"}
MonitorSteps == FwpSteps \cup
    {"none", "channels", "receive", "check", "close", "zero", "answer"}

Alive == at["main"] \notin {"exited", "crashed"}
Goto(p, step) == at' = [at EXCEPT ![p] = step]

\* The process is gone, and with it its sessions and the adapter.
EndProcess(how) ==
    /\ Goto("main", how)
    /\ open' = {}
    /\ filters' = [s \in Sessions |-> {}]
    /\ unclosed' = {}
    /\ addresses' = {}
    /\ routed' = FALSE
    /\ UNCHANGED <<engine, closing, dns, stack, enforce, fwpmSession, channels>>

Init ==
    /\ at = [p \in Procs |-> IF p = "main" THEN "create" ELSE "none"]
    /\ engine = [p \in Procs |-> None]
    /\ closing = None
    /\ addresses = {}
    /\ routed = FALSE
    /\ dns = "none"
    /\ stack = "none"
    /\ enforce \in BOOLEAN
    /\ fwpmSession = None
    /\ open = {}
    /\ filters = [s \in Sessions |-> {}]
    /\ unclosed = {}
    /\ request = {}
    /\ answers = 0
    /\ wanted = FALSE
    /\ unanswered = 0
    /\ requests = 0

-----------------------------------------------------------------------------
(* CreateTUN and InitGateway.                                              *)

\* NewDevice, CreateTUN: the adapter has the GUID of its name, so Windows may
\* still know addresses of an earlier run.  On an error CreateClient returns.
CreateTUN ==
    /\ at["main"] = "create"
    /\ \/ /\ Goto("main", "flush")
          /\ addresses' \in {{}, {"old"}}
          /\ UNCHANGED <<engine, closing, routed, dns, stack, enforce,
                         fwpmSession, open, filters, unclosed, channels>>
       \/ EndProcess("exited")

\* FlushIPAddresses: the table cannot be read and nothing is added, or its
\* rows are deleted, one or another in vain, which nobody looks at.
FlushIPAddresses ==
    /\ at["main"] = "flush"
    /\ \/ Goto("main", "route") /\ UNCHANGED addresses
       \/ Goto("main", "address") /\ addresses' \in SUBSET addresses
    /\ UNCHANGED <<engine, closing, routed, dns, stack, enforce, fwpmSession,
                   open, filters, unclosed, channels>>

\* AddIPAddresses: the error is overwritten by that of the next call.
AddIPAddress ==
    /\ at["main"] = "address"
    /\ Goto("main", "route")
    /\ addresses' \in {addresses, addresses \cup {"own"}}
    /\ UNCHANGED <<engine, closing, routed, dns, stack, enforce, fwpmSession,
                   open, filters, unclosed, channels>>

\* addRouteEntry4 of 0.0.0.0/0; InitGateway panics on an error.
AddRoute ==
    /\ at["main"] = "route"
    /\ \/ /\ Goto("main", IF enforce THEN "dns" ELSE "spawn")
          /\ routed' = TRUE
          /\ UNCHANGED <<engine, closing, addresses, dns, stack, enforce,
                         fwpmSession, open, filters, unclosed, channels>>
       \/ EndProcess("crashed")

\* SetDns4, SetDNS: the settings are accepted, refused, or the system is too
\* old for them.  Errors are logged.
SetDNS ==
    /\ at["main"] = "dns"
    /\ \/ Goto("main", "enforce") /\ dns' \in {"none", "settings"}
       \/ Goto("main", "netsh") /\ UNCHANGED dns
    /\ UNCHANGED <<engine, closing, addresses, routed, stack, enforce,
                   fwpmSession, open, filters, unclosed, channels>>

\* fallbackSetDNSForFamily, runNetsh: an error, which may come after netsh
\* has set the servers, skips the domain.
FallbackSetDNS ==
    /\ at["main"] = "netsh"
    /\ Goto("main", "domain") \/ Goto("main", "enforce")
    /\ dns' \in IF at'["main"] = "domain" THEN {"netsh"} ELSE {"none", "netsh"}
    /\ UNCHANGED <<engine, closing, addresses, routed, stack, enforce,
                   fwpmSession, open, filters, unclosed, channels>>

\* fallbackSetDNSDomain writes the empty domain or fails.
FallbackSetDNSDomain ==
    /\ at["main"] = "domain"
    /\ Goto("main", "enforce")
    /\ UNCHANGED <<engine, closing, tunnel, enforce, fwpmSession, open,
                   filters, unclosed, channels>>

\* The switch is read again, for configFwp.
CheckEnforce ==
    /\ at["main"] = "enforce"
    /\ Goto("main", IF enforce THEN "engine" ELSE "spawn")
    /\ UNCHANGED <<engine, closing, tunnel, enforce, fwpmSession, open,
                   filters, unclosed, channels>>

\* go monitorEnforceDns(); then InitGateway returns, and Config does nothing.
SpawnMonitor ==
    /\ at["main"] = "spawn"
    /\ at' = [at EXCEPT !["main"] = "stack", !["monitor"] = "channels"]
    /\ UNCHANGED <<engine, closing, tunnel, enforce, fwpmSession, open,
                   filters, unclosed, channels>>

\* gv.Start: a stack it cannot set up is closed; CreateClient prints the
\* error and waits for the end nevertheless.
StartStack ==
    /\ at["main"] = "stack"
    /\ Goto("main", "running")
    /\ stack' \in {"started", "closed"}
    /\ UNCHANGED <<engine, closing, addresses, routed, dns, enforce,
                   fwpmSession, open, filters, unclosed, channels>>

-----------------------------------------------------------------------------
(* configFwp, run by the main goroutine and by the monitor.                *)

\* Where p goes after configFwp: `go monitorEnforceDns()', or the answer.
AfterConfig(p) == IF p = "main" THEN "spawn" ELSE "answer"

\* FwpmEngineOpen0 gives a new handle, which becomes that of the device.
OpenEngine(p) ==
    /\ at[p] = "engine"
    /\ \/ \E s \in Sessions \ open :
            /\ engine' = [engine EXCEPT ![p] = s]
            /\ fwpmSession' = s
            /\ open' = open \cup {s}
            /\ filters' = [filters EXCEPT ![s] = {}]
            /\ Goto(p, "sublayer")
            /\ UNCHANGED <<closing, tunnel, enforce, unclosed, channels>>
       \/ EndProcess("crashed")

\* The key is generated and FwpmSubLayerAdd0 adds the layer.
AddSubLayer(p) ==
    /\ at[p] = "sublayer"
    /\ \/ /\ Goto(p, "appID")
          /\ UNCHANGED <<engine, closing, tunnel, enforce, fwpmSession, open,
                         filters, unclosed, channels>>
       \/ EndProcess("crashed")

\* What identifies this program to the first filter.
GetCurrentProcessAppID(p) ==
    /\ at[p] = "appID"
    /\ \/ /\ Goto(p, "permit")
          /\ UNCHANGED <<engine, closing, tunnel, enforce, fwpmSession, open,
                         filters, unclosed, channels>>
       \/ EndProcess("crashed")

\* FwpmFilterAdd0: the filter is added to the session of this configFwp.  A
\* handle closed meanwhile is refused, and every error is a panic.
AddFilter(p, f, next) ==
    /\ at[p] = f
    /\ \/ /\ engine[p] \in open
          /\ filters' = [filters EXCEPT ![engine[p]] = @ \cup {f}]
          /\ Goto(p, next)
          /\ UNCHANGED <<engine, closing, tunnel, enforce, fwpmSession, open,
                         unclosed, channels>>
       \/ EndProcess("crashed")

\* Mutant: the DNS block is added before the permits.
ConfigFwpBlockFirst(p) ==
    \/ OpenEngine(p)
    \/ /\ at[p] = "sublayer"
       /\ Goto(p, "block")
       /\ UNCHANGED <<engine, closing, tunnel, enforce, fwpmSession, open,
                      filters, unclosed, channels>>
    \/ AddFilter(p, "block", "permit")
    \/ AddFilter(p, "permit", "tun")
    \/ AddFilter(p, "tun", AfterConfig(p))

\* configFwp: permit this program, permit the tunnel, block DNS.
ConfigFwp(p) ==
    \/ OpenEngine(p)
    \/ AddSubLayer(p)
    \/ GetCurrentProcessAppID(p)
    \/ AddFilter(p, "permit", "tun")
    \/ AddFilter(p, "tun", "block")
    \/ AddFilter(p, "block", AfterConfig(p))

\* Weight of a filter: the heaviest that matches decides.
Weight == [permit |-> 13, tun |-> 11, block |-> 10]

\* A connection attempt: over IPv4?, by this program?, through the tunnel?, to
\* port 53?
Traffic == [ipv4 : BOOLEAN, own : BOOLEAN, tunnel : BOOLEAN, dns : BOOLEAN]

\* The condition of each filter, all of which are on the layer CONNECT_V4.
Matches(f, t) ==
    /\ t.ipv4
    /\ CASE f = "permit" -> t.own
         [] f = "tun"    -> t.tunnel
         [] f = "block"  -> t.dns

\* A connection is blocked if in the sublayer of some session no filter that
\* matches is heavier than the block.
Blocked(t) ==
    \E s \in open :
        /\ "block" \in filters[s] /\ Matches("block", t)
        /\ \A f \in filters[s] :
              Matches(f, t) => Weight[f] <= Weight["block"]

-----------------------------------------------------------------------------
(* monitorEnforceDns.                                                      *)

\* Both channels are made, each for one value.
MakeChannels ==
    /\ at["monitor"] = "channels"
    /\ Goto("monitor", "receive")
    /\ UNCHANGED <<engine, closing, tunnel, enforce, fwpmSession, open,
                   filters, unclosed, channels>>

\* Mutant: a request that changes nothing is not answered.
ReceiveUnanswered ==
    /\ at["monitor"] = "receive" /\ request # {}
    /\ wanted' \in request
    /\ request' = {}
    /\ enforce' = wanted'
    /\ Goto("monitor", IF wanted' = enforce THEN "receive"
                       ELSE IF wanted' THEN "engine" ELSE "check")
    /\ UNCHANGED <<engine, closing, tunnel, fwpmSession, open, filters,
                   unclosed, answers, unanswered, requests>>

\* A request is received; the switch is set before the filters follow.
Receive ==
    /\ at["monitor"] = "receive" /\ request # {}
    /\ wanted' \in request
    /\ request' = {}
    /\ enforce' = wanted'
    /\ Goto("monitor", IF wanted' = enforce THEN "answer"
                       ELSE IF wanted' THEN "engine" ELSE "check")
    /\ UNCHANGED <<engine, closing, tunnel, fwpmSession, open, filters,
                   unclosed, answers, unanswered, requests>>

\* `if d.fwpmSession != 0'.
CheckSession ==
    /\ at["monitor"] = "check"
    /\ Goto("monitor", IF fwpmSession = None THEN "answer" ELSE "close")
    /\ UNCHANGED <<engine, closing, tunnel, enforce, fwpmSession, open,
                   filters, unclosed, channels>>

\* FwpmEngineClose0(h): the session ends with its filters, or the call returns
\* an error, which is dropped, and they stay.
EngineClose(h) ==
    \/ /\ open' = open \ {h}
       /\ filters' = [s \in Sessions |-> IF s = h THEN {} ELSE filters[s]]
       /\ unclosed' = unclosed \ {h}
    \/ /\ unclosed' = unclosed \cup ({h} \cap open)
       /\ UNCHANGED <<open, filters>>

\* Mutant: the field is cleared and the session is left open.
ForgetSession ==
    /\ at["monitor"] = "close"
    /\ fwpmSession' = None
    /\ Goto("monitor", "answer")
    /\ UNCHANGED <<engine, closing, tunnel, enforce, open, filters, unclosed,
                   channels>>

\* The session is closed, or is not ...
CloseSession ==
    /\ at["monitor"] = "close"
    /\ EngineClose(fwpmSession)
    /\ Goto("monitor", "zero")
    /\ UNCHANGED <<engine, closing, tunnel, enforce, fwpmSession, channels>>

\* ... and the field is cleared.
ZeroSession ==
    /\ at["monitor"] = "zero"
    /\ fwpmSession' = None
    /\ Goto("monitor", "answer")
    /\ UNCHANGED <<engine, closing, tunnel, enforce, open, filters, unclosed,
                   channels>>

\* Mutant: the channel has room for every answer.
AnswerUnbounded ==
    /\ at["monitor"] = "answer"
    /\ answers' = answers + 1
    /\ Goto("monitor", "receive")
    /\ UNCHANGED <<engine, closing, tunnel, enforce, fwpmSession, open,
                   filters, unclosed, request, wanted, unanswered, requests>>

\* The answer, which blocks while the last one has not been taken.
Answer ==
    /\ at["monitor"] = "answer" /\ answers = 0
    /\ answers' = 1
    /\ Goto("monitor", "receive")
    /\ UNCHANGED <<engine, closing, tunnel, enforce, fwpmSession, open,
                   filters, unclosed, request, wanted, unanswered, requests>>

-----------------------------------------------------------------------------
(* The program that flips the switch, and the end of the daemon.           *)

\* A request is put into the channel, if there is room.
Request ==
    /\ at["monitor"] \notin {"none", "channels"}
    /\ request = {} /\ requests < MaxRequests
    /\ \E b \in BOOLEAN : request' = {b}
    /\ unanswered' = unanswered + 1
    /\ requests' = requests + 1
    /\ UNCHANGED <<at, engine, closing, tunnel, enforce, fwpmSession, open,
                   filters, unclosed, answers, wanted>>

\* An answer is taken.
TakeAnswer ==
    /\ answers = 1
    /\ answers' = 0
    /\ unanswered' = unanswered - 1
    /\ UNCHANGED <<at, engine, closing, tunnel, enforce, fwpmSession, open,
                   filters, unclosed, request, wanted, requests>>

\* InitDaemonMonitor returns and the deferred Close begins.
Leave ==
    /\ at["main"] = "running"
    /\ Goto("main", "closeTun")
    /\ UNCHANGED <<engine, closing, tunnel, enforce, fwpmSession, open,
                   filters, unclosed, channels>>

\* NativeTun.Close: the adapter goes, with its addresses and routes.
CloseTun ==
    /\ at["main"] = "closeTun"
    /\ Goto("main", "checkSession")
    /\ addresses' = {}
    /\ routed' = FALSE
    /\ dns' = "none"
    /\ UNCHANGED <<engine, closing, stack, enforce, fwpmSession, open, filters,
                   unclosed, channels>>

\* Close looks whether there is a session, ...
CloseCheck ==
    /\ at["main"] = "checkSession"
    /\ IF fwpmSession = None
       THEN EndProcess("exited")
       ELSE /\ closing' = fwpmSession
            /\ Goto("main", "closeEngine")
            /\ UNCHANGED <<engine, tunnel, enforce, fwpmSession, open, filters,
                           unclosed, channels>>

\* ... and closes it: the handle it has seen or, as the field is read twice
\* without a lock, the one there now.  main then returns.
CloseEngine ==
    /\ at["main"] = "closeEngine"
    /\ \E h \in {closing, fwpmSession} : EngineClose(h)
    /\ Goto("main", "returning")
    /\ UNCHANGED <<engine, closing, tunnel, enforce, fwpmSession, channels>>

Return ==
    /\ at["main"] = "returning"
    /\ EndProcess("exited")

Setup == \/ CreateTUN \/ FlushIPAddresses \/ AddIPAddress \/ AddRoute
         \/ SetDNS \/ FallbackSetDNS \/ FallbackSetDNSDomain \/ CheckEnforce
         \/ SpawnMonitor \/ StartStack
Close == CloseTun \/ CloseCheck \/ CloseEngine \/ Return
Monitor == \/ MakeChannels \/ Receive \/ CheckSession \/ CloseSession
           \/ ZeroSession \/ Answer

Next ==
    /\ Alive
    /\ \/ Setup \/ Leave \/ Close \/ Monitor \/ Request \/ TakeAnswer
       \/ \E p \in Procs : ConfigFwp(p)

\* The monitor's goroutine is scheduled, and the other program takes answers.
Fairness ==
    /\ WF_vars(Alive /\ (Monitor \/ ConfigFwp("monitor")))
    /\ WF_vars(Alive /\ TakeAnswer)

Spec == Init /\ [][Next]_vars /\ Fairness

-----------------------------------------------------------------------------
TypeOK ==
    /\ at \in [Procs -> MainSteps \cup MonitorSteps]
    /\ at["main"] \in MainSteps /\ at["monitor"] \in MonitorSteps
    /\ engine \in [Procs -> Sessions \cup {None}]
    /\ closing \in Sessions \cup {None}
    /\ addresses \subseteq {"old", "own"}
    /\ routed \in BOOLEAN
    /\ dns \in {"none", "settings", "netsh"}
    /\ stack \in {"none", "started", "closed"}
    /\ enforce \in BOOLEAN
    /\ fwpmSession \in Sessions \cup {None}
    /\ open \subseteq Sessions
    /\ filters \in [Sessions -> SUBSET {"permit", "tun", "block"}]
    /\ unclosed \subseteq Sessions
    /\ request \in SUBSET BOOLEAN
    /\ answers \in 0..1
    /\ wanted \in BOOLEAN
    /\ unanswered \in Nat
    /\ requests \in 0..MaxRequests

\* While the switch is being flipped, the configuration half done or the
\* device being closed, configFwp's filters never keep this program from its
\* connections nor anything out of the tunnel, and block nothing but DNS.
OnlyForeignDnsBlocked ==
    \A t \in Traffic : Blocked(t) => t.dns /\ ~t.own /\ ~t.tunnel

\* Between two requests monitorEnforceDns has made the filters follow the
\* switch, but for the sessions it could not close: DNS over IPv4 past the tunnel
\* is blocked if it is on, and otherwise only by what such a session has left.
\* The open sessions are those and the one of the device, which it has if on.
FiltersFollow ==
    at["main"] = "running" /\ at["monitor"] = "receive" =>
        /\ \A t \in Traffic :
              Blocked(t) <=> /\ enforce \/ unclosed # {}
                             /\ t.ipv4 /\ t.dns /\ ~t.own /\ ~t.tunnel
        /\ enforce <=> fwpmSession # None
        /\ open = unclosed \cup ({fwpmSession} \ {None})
        /\ fwpmSession \notin unclosed

\* No request is lost or answered twice: each one without an answer taken is in
\* its channel, with the monitor, or answered in the other channel.
Busy == FwpSteps \cup {"check", "close", "zero", "answer"}
RequestsKept ==
    unanswered = (IF request = {} THEN 0 ELSE 1) + answers
                 + (IF at["monitor"] \in Busy THEN 1 ELSE 0)

\* Every request to flip the switch, be it no change, is answered unless the
\* process ends.
RequestsAnswered == unanswered > 0 ~> unanswered = 0 \/ ~Alive

=============================================================================
