---------------------------- MODULE LinuxDevice ----------------------------
(***************************************************************************)
(* The Linux daemon around the routing of LinuxRoutes: the TUN device is   *)
(* created and addressed before Config (device_tun_linux.go, CreateTUN and *)
(* InitGateway of device_linux.go); the goroutine of device_dns_linux.go   *)
(* flips enforced DNS at the request of another program; and the daemon    *)
(* may be killed at any point and started again, with the kernel keeping   *)
(* the rules of the run before.                                            *)
(***************************************************************************)
EXTENDS LinuxRoutes

CONSTANT MaxEvents   \* bound on link and route changes, requests and restarts

ASSUME EventsAssumption == MaxEvents \in Nat

VARIABLES
    setup,       \* how far the device is: CreateClient up to Config
    enforce,     \* ContextClient.EnableEnforceDns
    dnsAt,       \* where the goroutine of monitorEnforceDns is
    request,     \* ReadEnableEnforceDnsChan: at most one value
    answers,     \* WriteEnableEnforceDnsChan: at most one value
    unanswered,  \* requests without an answer taken
    resolver,    \* external: the resolver uses DNS1 on the device's link
    dnsFailed,   \* history: resolvectl is missing or has failed
    events       \* external events so far

dnsVars == <<enforce, dnsAt, request, answers, unanswered, resolver, dnsFailed>>
linuxVars == <<vars, setup, dnsVars, events>>

\* The first run since the machine came up: what later runs find in the
\* kernel is what Kill makes them find.
LinuxInit ==
    /\ Init /\ baseRules = {} /\ srcRules = {}
    /\ setup = "create"
    /\ enforce \in BOOLEAN
    /\ dnsAt = "none"
    /\ request = {} /\ answers = 0 /\ unanswered = 0
    /\ resolver = FALSE
    /\ dnsFailed = FALSE
    /\ events = 0

External == events < MaxEvents /\ events' = events + 1

-----------------------------------------------------------------------------
(* NewDevice and InitGateway.                                              *)

\* One of the system calls of CreateTUN0 fails: CreateClient returns before
\* it defers Close.
CreateFails ==
    /\ Running /\ setup = "create"
    /\ main' = "exited"
    /\ UNCHANGED <<kernel, list, src, err, monitor, updater, watcher, routes,
                   egress, updates, changes, history, setup, dnsVars,
                   events>>

Create ==
    /\ Running /\ setup = "create"
    /\ setup' = "gateway"
    /\ UNCHANGED <<vars, dnsVars, events>>

\* InitGateway: setInterfaceAddress4 and Activate, whose errors nobody looks at.
\* Whether the device got its address and came up no property asks.
InitGateway ==
    /\ Running /\ setup = "gateway"
    /\ setup' = "config"
    /\ UNCHANGED <<vars, dnsVars, events>>

-----------------------------------------------------------------------------
(* Config and Close, with what they do to the device and the resolver.     *)

\* RouteAdd, whose error is lost.
AddTunnelRoute ==
    /\ setup = "config" /\ ConfigLink
    /\ UNCHANGED <<setup, dnsVars, events>>

\* setDns: without resolvectl nothing is done; a command that fails is not
\* noticed, and the last one decides whether DNS1 is used.
SetDns == \/ resolver' = TRUE /\ UNCHANGED dnsFailed
          \/ dnsFailed' = TRUE /\ UNCHANGED resolver

\* Config's last lines: setDns, and `go monitorEnforceDns()'.
StartDns ==
    /\ setup = "config" /\ ConfigEnd
    /\ monitor' = (enforce /\ ~err)
    /\ IF monitor' THEN SetDns /\ dnsAt' = "channels"
                   ELSE UNCHANGED <<resolver, dnsFailed, dnsAt>>
    /\ UNCHANGED <<setup, enforce, request, answers, unanswered, events>>

\* Every other step of Config, and of Close up to the device.
ConfigStep ==
    /\ setup = "config"
    /\ \/ \E rule \in BaseSet : ConfigRule(rule)
       \/ ConfigSrc
       \/ \E step \in Steps : ConfigFails(step)
       \/ CloseSrc
    /\ UNCHANGED <<setup, dnsVars, events>>

\* A signal; Close removes the rules Config has listed.
CloseRules ==
    /\ CloseBase
    /\ UNCHANGED <<setup, dnsVars, events>>

\* With the descriptor the kernel removes the device, its address and route,
\* and the resolver forgets the link.
DeviceGone == resolver' = FALSE

\* With the process the DNS monitor ends, and its channels.
MonitorGone ==
    /\ dnsAt' = "none"
    /\ request' = {} /\ answers' = 0 /\ unanswered' = 0

CloseDevice ==
    /\ CloseTun
    /\ DeviceGone /\ MonitorGone
    /\ UNCHANGED <<setup, enforce, dnsFailed, events>>

\* Watcher and updater; a look at no route ends the process.
WatchLinks ==
    /\ Watcher
    /\ IF main' = main THEN UNCHANGED resolver ELSE DeviceGone
    /\ UNCHANGED <<setup, enforce, dnsAt, request, answers, unanswered,
                   dnsFailed, events>>

UpdateRules ==
    /\ Updater
    /\ UNCHANGED <<setup, dnsVars, events>>

Links == WatchLinks \/ UpdateRules

-----------------------------------------------------------------------------
(* monitorEnforceDns.                                                      *)

\* The two channels are made: only now can the other program send.
MakeChannels ==
    /\ Running /\ dnsAt = "channels"
    /\ dnsAt' = "receive"
    /\ UNCHANGED <<vars, setup, enforce, request, answers, unanswered,
                   resolver, dnsFailed, events>>

\* A request is received; the switch is set before the resolver follows.
Receives(wanted) ==
    /\ Running /\ dnsAt = "receive" /\ wanted \in request
    /\ request' = {}
    /\ enforce' = wanted
    /\ dnsAt' = CASE wanted = enforce -> "answer"
                  [] wanted # enforce /\ wanted -> "set"
                  [] OTHER -> "revert"
    /\ UNCHANGED <<vars, setup, answers, unanswered, resolver, dnsFailed,
                   events>>

Enforce ==
    /\ Running /\ dnsAt = "set"
    /\ dnsAt' = "answer"
    /\ SetDns
    /\ UNCHANGED <<vars, setup, enforce, request, answers, unanswered,
                   events>>

\* Mutant: the goroutine ends when resolvectl is not found, as setDns does.
RevertReturns ==
    /\ Running /\ dnsAt = "revert"
    /\ \/ dnsAt' = "answer" /\ resolver' = FALSE /\ UNCHANGED dnsFailed
       \/ dnsAt' = "none" /\ dnsFailed' = TRUE /\ UNCHANGED resolver
    /\ UNCHANGED <<vars, setup, enforce, request, answers, unanswered,
                   events>>

\* resolvectl revert; without resolvectl the error is only logged.
Revert ==
    /\ Running /\ dnsAt = "revert"
    /\ dnsAt' = "answer"
    /\ \/ resolver' = FALSE /\ UNCHANGED dnsFailed
       \/ dnsFailed' = TRUE /\ UNCHANGED resolver
    /\ UNCHANGED <<vars, setup, enforce, request, answers, unanswered,
                   events>>

\* The answer, which blocks while the last one has not been taken.
Answer ==
    /\ Running /\ dnsAt = "answer" /\ answers = 0
    /\ dnsAt' = "receive"
    /\ answers' = 1
    /\ UNCHANGED <<vars, setup, enforce, request, unanswered, resolver,
                   dnsFailed, events>>

DnsMonitor == \/ MakeChannels \/ Enforce \/ Revert \/ Answer
              \/ \E wanted \in BOOLEAN : Receives(wanted)

\* The other program: a request, if the channel is there and has room ...
Request ==
    /\ Running /\ dnsAt \notin {"none", "channels"} /\ request = {}
    /\ External
    /\ \E wanted \in BOOLEAN : request' = {wanted}
    /\ unanswered' = unanswered + 1
    /\ UNCHANGED <<vars, setup, enforce, dnsAt, answers, resolver,
                   dnsFailed>>

\* ... and the receipt of an answer.
TakeAnswer ==
    /\ Running /\ answers = 1
    /\ answers' = 0
    /\ unanswered' = unanswered - 1
    /\ UNCHANGED <<vars, setup, enforce, dnsAt, request, resolver,
                   dnsFailed, events>>

-----------------------------------------------------------------------------
(* Links, kills and restarts.                                              *)

\* Links and routes change, also while the daemon is not there to hear of it.
LinkChange ==
    /\ External
    /\ \/ Change
       \/ /\ ~Running
          /\ \E ip \in (Ips \cup {NoRoute}) \ {egress} : egress' = ip
          /\ UNCHANGED <<main, kernel, list, src, err, monitor, updater, watcher,
                         routes, updates, changes, history>>
    /\ UNCHANGED <<setup, dnsVars>>

\* SIGKILL, a panic, or a signal that comes before signal.Notify is called: no
\* Close; the rules stay, the device goes.
Kill ==
    /\ Running
    /\ main' = "crashed"
    /\ DeviceGone
    /\ listed' = {} /\ srcListed' = FALSE
    /\ src' = NoRoute /\ err' = FALSE /\ monitor' = FALSE
    /\ updater' = "none" /\ watcher' = "subscribe" /\ updates' = 0
    /\ kept' = {} /\ late' = FALSE /\ reported' = FALSE
    /\ MonitorGone
    /\ UNCHANGED <<kernel, routes, egress, changes, before, srcBefore, setup,
                   enforce, dnsFailed, events>>

\* The user starts the daemon again; it needs a route to look up.
Restart ==
    /\ ~Running /\ egress # NoRoute /\ External
    /\ main' = Base[1]
    /\ listed' = {} /\ srcListed' = FALSE
    /\ src' = NoRoute /\ err' = FALSE /\ monitor' = FALSE
    /\ updater' = "none" /\ watcher' = "subscribe"
    /\ routes' = egress /\ updates' = 0
    /\ before' = baseRules /\ srcBefore' = srcRules
    /\ kept' = {} /\ late' = FALSE /\ reported' = FALSE
    /\ setup' = "create"
    /\ enforce' \in BOOLEAN
    /\ MonitorGone
    /\ dnsFailed' = FALSE
    /\ UNCHANGED <<kernel, egress, changes, resolver>>

MainStep == \/ CreateFails \/ Create \/ InitGateway
            \/ AddTunnelRoute \/ StartDns \/ ConfigStep \/ CloseDevice

LinuxNext ==
    \/ MainStep \/ CloseRules \/ Links \/ DnsMonitor
    \/ Request \/ TakeAnswer \/ LinkChange \/ Kill \/ Restart

\* The goroutines are scheduled and the other program takes its answers.  No
\* link has to change, and nobody has to stop or start the daemon.
LinuxSpec ==
    /\ LinuxInit /\ [][LinuxNext]_linuxVars
    /\ WF_linuxVars(MainStep)
    /\ WF_linuxVars(WatchLinks) /\ WF_linuxVars(UpdateRules)
    /\ WF_linuxVars(DnsMonitor) /\ WF_linuxVars(TakeAnswer)

-----------------------------------------------------------------------------
LinuxTypeOK ==
    /\ TypeOK
    /\ setup \in {"create", "gateway", "config"}
    /\ enforce \in BOOLEAN
    /\ dnsAt \in {"none", "channels", "receive", "set", "revert", "answer"}
    /\ request \in SUBSET BOOLEAN /\ answers \in 0..1
    /\ unanswered \in 0..MaxEvents
    /\ resolver \in BOOLEAN /\ dnsFailed \in BOOLEAN
    /\ events \in 0..MaxEvents

\* What a run leaves behind when it exits, whatever step of Config failed and
\* however many runs before it were killed with their rules in place: rules it
\* found and did not list, rules the kernel would not delete, and rule99 if the
\* updater added it after Close had passed.  A run whose Config got past the base
\* rules clears away those of earlier runs too.
RunsLeaveNoRules ==
    main = "exited" =>
        /\ baseRules \subseteq before \cup kept
        /\ listed = BaseSet => baseRules \subseteq kept
        /\ srcRules \subseteq
               srcBefore \cup (IF late \/ "src" \in kept THEN {src} ELSE {})
        /\ src \in srcRules /\ srcListed => late \/ "src" \in kept

\* No request is lost or answered twice: each one without an answer taken is in
\* its channel, with the monitor, or answered in the other channel.
RequestsKept ==
    unanswered = (IF request = {} THEN 0 ELSE 1) + answers
                 + (IF dnsAt \in {"set", "revert", "answer"} THEN 1 ELSE 0)

\* Every request to flip the switch is answered, with resolvectl missing or
\* failing too, and the resolver has followed the switch if it did not fail.
DnsAnswered ==
    unanswered > 0 ~>
        (unanswered = 0 /\ (resolver = enforce \/ dnsFailed)) \/ ~Running

=============================================================================
