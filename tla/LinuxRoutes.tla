---------------------------- MODULE LinuxRoutes ----------------------------
(***************************************************************************)
(* Routing on Linux: Config and Close of device/device_linux.go, which add *)
(* and remove the `ip rule's that lead traffic to the TUN device, and the  *)
(* goroutine of InitRoute in model/route_linux.go, which watches the links *)
(* and refreshes model.Routes.                                             *)
(*                                                                         *)
(* Three goroutines share the rules: the main one (InitRoute, Config, wait *)
(* for a signal, Close), the watcher started by InitRoute, and the updater *)
(* started by Config.  Watcher and updater meet on ReaRouteUpdateChan,     *)
(* which has no buffer.                                                    *)
(***************************************************************************)
EXTENDS Naturals, Sequences

CONSTANTS
    Ips,         \* first address of the interface of the first route
    NoRoute,     \* the routing table is empty
    Base,        \* the rules of priority 200, 201 and 202, in this order
    MayFail,     \* the steps of Config and the other calls that can fail
    MaxChanges   \* bound on route changes and link updates together

BaseSet == {Base[i] : i \in DOMAIN Base}

\* Where the main goroutine is after Config.
Stages == {"running", "closeSrc", "closeTun", "exited", "crashed"}

\* Calls outside Config that can fail: RuleDel, LinkSubscribe, and what
\* FindRoutes asks for.
Calls == {"del", "subscribe", "look"}

ASSUME LinuxAssumption ==
    /\ Base \in Seq(STRING) /\ Base # <<>>
    /\ BaseSet \cap ({"link", "src", "check"} \cup Calls \cup Stages) = {}
    /\ NoRoute \notin Ips
    /\ MaxChanges \in Nat
    /\ MayFail \subseteq BaseSet \cup {"link", "src"} \cup Calls

VARIABLES
    main,        \* where the main goroutine is
    baseRules,   \* external: the base rules the kernel has
    srcRules,    \* external: the sources of the rules of priority 150
    listed,      \* the base rules in device.ruleList
    srcListed,   \* is rule99 in device.ruleList
    src,         \* rule99.Src, set once Config reaches it
    err,         \* Config's result variable, shared with the updater
    monitor,     \* has the DNS monitor been started
    updater,     \* where the updater is
    watcher,     \* where the watcher is
    routes,      \* model.Routes: the address of its only route
    egress,      \* external: what a look at the kernel's routes would give
    updates,     \* external: link updates the watcher has not received
    changes,     \* route changes and link updates so far
    before,      \* history: the base rules from before this run
    srcBefore,   \* history: the same of the rules of priority 150
    kept,        \* history: the rules Close failed to delete, "src" for rule99
    late,        \* history: the updater has added rule99 after that
    reported     \* history: a link update since the route changed last

kernel == <<baseRules, srcRules>>
list == <<listed, srcListed>>
history == <<before, srcBefore, kept, late, reported>>
vars == <<main, kernel, list, src, err, monitor, updater, watcher, routes,
          egress, updates, changes, history>>

\* The steps of Config, which add the base rules first.
Steps == BaseSet \cup {"link", "src", "check"}
After(rule) ==
    LET i == CHOOSE i \in DOMAIN Base : Base[i] = rule
    IN  IF i = Len(Base) THEN "link" ELSE Base[i + 1]

\* CreateClient has called InitRoute, which looked the routes up once; rules
\* of an earlier run that did not clean up may still be there.
Init ==
    /\ main = Base[1]
    /\ baseRules \in SUBSET BaseSet
    /\ egress \in Ips
    /\ srcRules \in SUBSET {egress}
    /\ listed = {} /\ srcListed = FALSE
    /\ src = NoRoute
    /\ err = FALSE
    /\ monitor = FALSE
    /\ updater = "none"
    /\ watcher = "subscribe"
    /\ routes = egress
    /\ updates = 0
    /\ changes = 0
    /\ before = baseRules /\ srcBefore = srcRules
    /\ kept = {} /\ late = FALSE /\ reported = FALSE

-----------------------------------------------------------------------------
(* Config.                                                                 *)

\* Mutant: a rule counts as ours only when RuleAdd really added it.
ConfigRuleUnlisted(rule) ==
    /\ main = rule
    /\ main' = After(rule)
    /\ baseRules' = baseRules \cup {rule}
    /\ UNCHANGED <<srcRules, list, src, err, monitor, updater, watcher, routes,
                   egress, updates, changes, history>>

\* RuleAdd succeeds or says EEXIST: the rule is appended to ruleList.
ConfigRule(rule) ==
    /\ main = rule
    /\ main' = After(rule)
    /\ baseRules' = baseRules \cup {rule}
    /\ listed' = listed \cup {rule}
    /\ UNCHANGED <<srcRules, srcListed, src, err, monitor, updater, watcher,
                   routes, egress, updates, changes, history>>

\* LinkByName succeeds; the error of RouteAdd is overwritten.
ConfigLink ==
    /\ main = "link"
    /\ main' = "src"
    /\ UNCHANGED <<kernel, list, src, err, monitor, updater, watcher, routes,
                   egress, updates, changes, history>>

\* A step returns its error; CreateClient logs it and goes on.
ConfigFails(step) ==
    /\ step \in MayFail /\ main = step
    /\ main' = "running"
    /\ err' = TRUE
    /\ src' = IF step = "src" THEN routes ELSE src
    /\ UNCHANGED <<kernel, list, monitor, updater, watcher, routes, egress,
                   updates, changes, history>>

\* rule99: the rule for the address of the default interface, which the
\* variable `route' keeps (its value is never read again), and the updater.
ConfigSrc ==
    /\ main = "src"
    /\ main' = "check"
    /\ src' = routes
    /\ srcRules' = srcRules \cup {routes}
    /\ srcListed' = TRUE
    /\ err' = FALSE
    /\ updater' = "receive"
    /\ UNCHANGED <<baseRules, listed, monitor, watcher, routes, egress,
                   updates, changes, history>>

\* The last look at err, which the updater may have set by now; then the DNS
\* monitor is started if the configuration enables it.
ConfigEnd ==
    /\ main = "check"
    /\ main' = "running"
    /\ \E enabled \in BOOLEAN : monitor' = (enabled /\ ~err)
    /\ UNCHANGED <<kernel, list, src, err, updater, watcher, routes, egress,
                   updates, changes, history>>

-----------------------------------------------------------------------------
(* Close, after a signal.                                                  *)

\* RuleDel may fail for any rule of ruleList; nobody looks at its error, and
\* the rule stays.
CloseBase ==
    /\ main = "running"
    /\ main' = "closeSrc"
    /\ kept' \in SUBSET (IF "del" \in MayFail THEN listed \cap baseRules ELSE {})
    /\ baseRules' = (baseRules \ listed) \cup kept'
    /\ UNCHANGED <<srcRules, list, src, err, monitor, updater, watcher, routes,
                   egress, updates, changes, before, srcBefore, late, reported>>

CloseSrc ==
    /\ main = "closeSrc"
    /\ main' = "closeTun"
    /\ \/ /\ srcRules' = IF srcListed THEN srcRules \ {src} ELSE srcRules
          /\ UNCHANGED kept
       \/ /\ "del" \in MayFail /\ srcListed
          /\ kept' = kept \cup {"src"}
          /\ UNCHANGED srcRules
    /\ UNCHANGED <<baseRules, list, src, err, monitor, updater, watcher, routes,
                   egress, updates, changes, before, srcBefore, late, reported>>

\* NativeTun.Close, and the process ends with its goroutines.
CloseTun ==
    /\ main = "closeTun"
    /\ main' = "exited"
    /\ updater' = "none" /\ watcher' = "subscribe" /\ updates' = 0
    /\ err' = FALSE /\ monitor' = FALSE /\ reported' = FALSE
    /\ UNCHANGED <<kernel, list, src, routes, egress, changes, before, srcBefore,
                   kept, late>>

-----------------------------------------------------------------------------
(* The watcher.                                                            *)

Running == main \notin {"crashed", "exited"}

\* After a failed LinkSubscribe, whose error is only logged, the watcher
\* receives from a channel nobody sends to.
Subscribe ==
    /\ Running /\ watcher = "subscribe"
    /\ \/ watcher' = "receive"
       \/ "subscribe" \in MayFail /\ watcher' = "deaf"
    /\ UNCHANGED <<main, kernel, list, src, err, monitor, updater, routes,
                   egress, updates, changes, history>>

Receive ==
    /\ Running /\ watcher = "receive" /\ updates > 0
    /\ updates' = updates - 1
    /\ watcher' = "send"
    /\ UNCHANGED <<main, kernel, list, src, err, monitor, updater, routes,
                   egress, changes, history>>

\* Mutant: the send gives up when the updater is busy, and so does the round.
MeetOrSkip ==
    /\ Running /\ watcher = "send"
    /\ IF updater = "receive"
       THEN watcher' = "find" /\ updater' = "del"
       ELSE watcher' = "receive" /\ UNCHANGED updater
    /\ UNCHANGED <<main, kernel, list, src, err, monitor, routes, egress,
                   updates, changes, history>>

\* ReaRouteUpdateChan <- true meets the updater's receive.
Meet ==
    /\ Running /\ watcher = "send" /\ updater = "receive"
    /\ watcher' = "find"
    /\ updater' = "del"
    /\ UNCHANGED <<main, kernel, list, src, err, monitor, routes, egress,
                   updates, changes, history>>

\* Mutant: the first route is taken without a look at the length.
FindUnchecked ==
    /\ Running /\ watcher = "find"
    /\ watcher' = "receive" /\ routes' = egress
    /\ UNCHANGED <<main, kernel, list, src, err, monitor, updater, egress,
                   updates, changes, history>>

\* Routes = FindRoutes(); list[0] of an empty list panics, also when RouteList
\* fails, and so does the name of an interface that has gone since; no recover
\* protects this goroutine.
Find ==
    /\ Running /\ watcher = "find"
    /\ \/ /\ egress # NoRoute
          /\ watcher' = "receive" /\ routes' = egress /\ UNCHANGED main
       \/ /\ egress = NoRoute \/ "look" \in MayFail
          /\ main' = "crashed" /\ UNCHANGED <<watcher, routes>>
    /\ UNCHANGED <<kernel, list, src, err, monitor, updater, egress, updates,
                   changes, history>>

-----------------------------------------------------------------------------
(* The updater.                                                            *)

\* RuleDel, which says an error also when the rule is not there.
UpdateDel ==
    /\ Running /\ updater = "del"
    /\ updater' = "add"
    /\ \/ err' = (src \notin srcRules) /\ srcRules' = srcRules \ {src}
       \/ "del" \in MayFail /\ err' = TRUE /\ UNCHANGED srcRules
    /\ UNCHANGED <<main, baseRules, list, src, monitor, watcher, routes,
                   egress, updates, changes, history>>

\* Mutant: the updater gives up after a rule it could not add.
UpdateAddOnce ==
    /\ Running /\ updater = "add"
    /\ updater' = "none"
    /\ srcRules' = srcRules \cup {src}
    /\ err' = FALSE
    /\ UNCHANGED <<main, baseRules, list, src, monitor, watcher, routes,
                   egress, updates, changes, history>>

\* Src is computed again from the same `route', so it does not change.  Close
\* may have passed rule99 by now.
UpdateAdd ==
    /\ Running /\ updater = "add"
    /\ updater' = "receive"
    /\ srcRules' = srcRules \cup {src}
    /\ err' = FALSE
    /\ late' = (late \/ main = "closeTun")
    /\ UNCHANGED <<main, baseRules, list, src, monitor, watcher, routes, egress,
                   updates, changes, before, srcBefore, kept, reported>>

\* RuleAdd fails with something else than EEXIST: logged, and the loop goes on.
UpdateAddFails ==
    /\ "src" \in MayFail
    /\ Running /\ updater = "add"
    /\ updater' = "receive"
    /\ err' = TRUE
    /\ UNCHANGED <<main, kernel, list, src, monitor, watcher, routes, egress,
                   updates, changes, history>>

-----------------------------------------------------------------------------
(* The kernel.                                                             *)

\* The default route changes: another address, or no route at all.  Only links
\* are watched: their updates come before it, after it or never.
RouteChange ==
    /\ Running /\ changes < MaxChanges
    /\ \E ip \in (Ips \cup {NoRoute}) \ {egress} : egress' = ip
    /\ changes' = changes + 1
    /\ reported' = FALSE
    /\ UNCHANGED <<main, kernel, list, src, err, monitor, updater, watcher,
                   routes, updates, before, srcBefore, kept, late>>

\* A link changes, which is reported if the watcher has subscribed.
LinkUpdate ==
    /\ Running /\ changes < MaxChanges
    /\ watcher \notin {"subscribe", "deaf"}
    /\ updates' = updates + 1
    /\ changes' = changes + 1
    /\ reported' = TRUE
    /\ UNCHANGED <<main, kernel, list, src, err, monitor, updater, watcher,
                   routes, egress, before, srcBefore, kept, late>>

Change == RouteChange \/ LinkUpdate

Main ==
    \/ \E rule \in BaseSet : ConfigRule(rule)
    \/ ConfigLink \/ ConfigSrc \/ ConfigEnd
    \/ \E step \in Steps : ConfigFails(step)
    \/ CloseSrc \/ CloseTun

Watcher == Subscribe \/ Receive \/ Meet \/ Find
Updater == UpdateDel \/ UpdateAdd \/ UpdateAddFails

Next == Main \/ CloseBase \/ Watcher \/ Updater \/ Change

\* The goroutines are scheduled.  No link has to change, and no signal has to
\* end the program.
Fairness == WF_vars(Main) /\ WF_vars(Watcher) /\ WF_vars(Updater)

Spec == Init /\ [][Next]_vars /\ Fairness

-----------------------------------------------------------------------------
TypeOK ==
    /\ main \in Steps \cup Stages
    /\ baseRules \subseteq BaseSet
    /\ srcRules \subseteq Ips
    /\ listed \subseteq BaseSet
    /\ srcListed \in BOOLEAN
    /\ src \in Ips \cup {NoRoute}
    /\ err \in BOOLEAN
    /\ monitor \in BOOLEAN
    /\ updater \in {"none", "receive", "del", "add"}
    /\ watcher \in {"subscribe", "deaf", "receive", "send", "find"}
    /\ routes \in Ips
    /\ egress \in Ips \cup {NoRoute}
    /\ updates \in 0..MaxChanges
    /\ changes \in 0..MaxChanges
    /\ before \subseteq BaseSet /\ srcBefore \subseteq Ips
    /\ kept \subseteq BaseSet \cup {"src"}
    /\ late \in BOOLEAN /\ reported \in BOOLEAN

\* Wherever the watcher is when the kernel reports a link, it looks again: once
\* a report has come after the last change of the default route, Routes is
\* right or a look is still to come.  A route that changes without a report, or
\* after it, and a watcher that could not subscribe are the gaps left.
ReportsFollowed ==
    Running /\ reported /\ routes # egress
        => updates > 0 \/ watcher \in {"send", "find"}

\* Once the updater is there to receive, Routes does catch up with a change that
\* a report follows, unless the program ends.  (When Config has failed before,
\* the watcher blocks in its send.)
RoutesFollow ==
    reported /\ routes # egress /\ updater # "none"
        ~> routes = egress \/ ~Running

\* "update dynamically": with no update pending, the source rule is the one
\* for the address of the default interface.
SrcRuleCurrent ==
    /\ main = "running" /\ updater = "receive" /\ watcher = "receive"
    /\ updates = 0 /\ routes = egress
    => egress \in srcRules

=============================================================================
