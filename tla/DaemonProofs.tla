---------------------------- MODULE DaemonProofs -----------------------------
(***************************************************************************)
(* The daemon on Linux: types and the removal of the rules (LinuxDevice),  *)
(* for any list of base rules, any number of link changes, requests, kills *)
(* and restarts; and the daemon beside its parent (Daemon), on both        *)
(* platforms.                                                              *)
(*                                                                         *)
(* What an exit leaves of the rules is not inductive: RuleInv adds that    *)
(* every base rule in the kernel was there before or is in ruleList, that  *)
(* Close has deleted those of ruleList but the ones it kept, and that a    *)
(* run which never reached Config has listed none; SrcInv says the same of *)
(* rule99, which the updater may add again behind Close.                   *)
(***************************************************************************)
EXTENDS LinuxDevice, Daemon, TLAPS

-----------------------------------------------------------------------------
(* The routing below.                                                      *)

\* The updater only runs with a source address; no update without a change.
RouteInv ==
    /\ TypeOK
    /\ updater # "none" => src \in Ips
    /\ updates <= changes
    /\ ReportsFollowed

\* The step after a base rule is a step of Config.
LEMMA AfterIsStep == ASSUME NEW rule \in BaseSet PROVE After(rule) \in Steps
<1> DEFINE i == CHOOSE k \in DOMAIN Base : Base[k] = rule
<1>1. i \in DOMAIN Base /\ DOMAIN Base = 1..Len(Base) /\ Len(Base) \in Nat
  BY LinuxAssumption DEF BaseSet
<1>2. i # Len(Base) => i + 1 \in DOMAIN Base
  BY <1>1
<1>3. i # Len(Base) => Base[i + 1] \in BaseSet
  BY <1>2 DEF BaseSet
<1>4. QED
  BY <1>3 DEF After, Steps

\* The first step is one of Config, and no step has the name of a stage.
LEMMA FirstStep == Base[1] \in BaseSet /\ Base[1] \notin Stages
<1>1. 1 \in DOMAIN Base
  BY LinuxAssumption
<1>2. Base[1] \in BaseSet
  BY <1>1 DEF BaseSet
<1>3. QED
  BY <1>2, LinuxAssumption

\* Every step of main, watcher and updater keeps the types.
LEMMA RouteStep == RouteInv /\ [Next]_vars => RouteInv'
<1> SUFFICES ASSUME RouteInv, [Next]_vars PROVE RouteInv'
  OBVIOUS
<1> USE LinuxAssumption DEF RouteInv, TypeOK, kernel, list, history, Steps,
        Stages, ReportsFollowed, Running
<1>1. CASE UNCHANGED vars
  BY <1>1 DEF vars
<1>2. ASSUME NEW rule \in BaseSet, ConfigRule(rule) PROVE RouteInv'
  BY <1>2, AfterIsStep DEF ConfigRule
<1>3. CASE ConfigLink
  BY <1>3 DEF ConfigLink
<1>4. CASE ConfigSrc
  BY <1>4 DEF ConfigSrc
<1>5. CASE ConfigEnd
  <2>1. monitor' \in BOOLEAN
    BY <1>5, Zenon DEF ConfigEnd
  <2>2. QED
    BY <1>5, <2>1 DEF ConfigEnd
<1>6. ASSUME NEW step \in Steps, ConfigFails(step) PROVE RouteInv'
  BY <1>6 DEF ConfigFails
<1>7. CASE CloseSrc
  <2>1. kept' \subseteq BaseSet \cup {"src"} /\ srcRules' \subseteq Ips
    BY <1>7 DEF CloseSrc
  <2>2. QED
    BY <1>7, <2>1 DEF CloseSrc
<1>8. CASE CloseTun
  <2>1. err' \in BOOLEAN /\ monitor' \in BOOLEAN /\ reported' \in BOOLEAN
    BY <1>8, Zenon DEF CloseTun
  <2>2. QED
    BY <1>8, <2>1 DEF CloseTun
<1>9. CASE CloseBase
  BY <1>9 DEF CloseBase
<1>10. CASE Subscribe
  BY <1>10 DEF Subscribe
<1>11. CASE Receive
  BY <1>11 DEF Receive
<1>12. CASE Meet
  BY <1>12 DEF Meet
<1>13. CASE Find
  BY <1>13 DEF Find
<1>14. CASE UpdateDel
  <2>1. err' \in BOOLEAN
    BY <1>14, Zenon DEF UpdateDel
  <2>2. QED
    BY <1>14, <2>1 DEF UpdateDel
<1>15. CASE UpdateAdd
  BY <1>15 DEF UpdateAdd
<1>16. CASE UpdateAddFails
  BY <1>16 DEF UpdateAddFails
<1>17. CASE Change
  <2>1. reported' \in BOOLEAN
    BY <1>17, Zenon DEF Change, RouteChange, LinkUpdate
  <2>2. CASE RouteChange
    BY <2>1, <2>2 DEF RouteChange
  <2>3. CASE LinkUpdate
    BY <2>1, <2>3 DEF LinkUpdate
  <2>4. QED
    BY <1>17, <2>2, <2>3 DEF Change
<1>18. QED
  BY <1>1, <1>2, <1>3, <1>4, <1>5, <1>6, <1>7, <1>8, <1>9, <1>10, <1>11,
     <1>12, <1>13, <1>14, <1>15, <1>16, <1>17
     DEF Next, Main, Watcher, Updater

\* A step of LinuxDevice is one of LinuxRoutes, or a failed creation, a kill, a
\* restart or a change of the links while no daemon runs.
Elsewhere == LinkChange /\ ~Running
LEMMA LinuxIsRoutes ==
    [LinuxNext]_linuxVars =>
        [Next]_vars \/ CreateFails \/ Kill \/ Restart \/ Elsewhere
BY DEF LinuxNext, linuxVars, MainStep, Create, InitGateway, AddTunnelRoute,
       StartDns, ConfigStep, CloseRules, CloseDevice, Links, WatchLinks,
       UpdateRules, DnsMonitor, MakeChannels, Receives, Enforce, Revert, Answer,
       Request, TakeAnswer, LinkChange, Elsewhere, Next, Main

\* So all of them keep the types of the routing.
LEMMA LinuxRouteStep == RouteInv /\ [LinuxNext]_linuxVars => RouteInv'
<1> SUFFICES ASSUME RouteInv, [LinuxNext]_linuxVars PROVE RouteInv'
  OBVIOUS
<1> USE LinuxAssumption DEF RouteInv, TypeOK, kernel, list, history, Steps,
        Stages, ReportsFollowed, Running
<1>1. CASE [Next]_vars
  BY <1>1, RouteStep
<1>2. CASE CreateFails
  BY <1>2 DEF CreateFails
<1>3. CASE Kill
  <2>1. /\ srcListed' \in BOOLEAN /\ err' \in BOOLEAN /\ monitor' \in BOOLEAN
        /\ late' \in BOOLEAN /\ reported' \in BOOLEAN
    BY <1>3, Zenon DEF Kill
  <2>2. QED
    BY <1>3, <2>1 DEF Kill
<1>4. CASE Restart
  <2>1. /\ srcListed' \in BOOLEAN /\ err' \in BOOLEAN /\ monitor' \in BOOLEAN
        /\ late' \in BOOLEAN /\ reported' \in BOOLEAN
    BY <1>4, Zenon DEF Restart
  <2>2. QED
    BY <1>4, <2>1, FirstStep DEF Restart
<1>5. CASE Elsewhere
  <2>1. CASE Change
    BY <2>1, RouteStep DEF Next
  <2>2. CASE ~Change
    BY <1>5, <2>2 DEF Elsewhere, LinkChange
  <2>3. QED
    BY <2>1, <2>2
<1>6. QED
  BY <1>1, <1>2, <1>3, <1>4, <1>5, LinuxIsRoutes

-----------------------------------------------------------------------------
(* The base rules.                                                         *)

RuleInv ==
    /\ main # "crashed" => baseRules \subseteq before \cup listed
    /\ main \in {"closeSrc", "closeTun", "exited"} => baseRules \cap listed \subseteq kept
    /\ setup # "config" => listed = {} /\ ~srcListed

\* Until Config lists rule99 nobody adds it; then only Close is done with it.
SrcInv ==
    /\ main \notin Stages \cup {"check"} => ~srcListed /\ src = NoRoute
    /\ main # "crashed" => srcRules \subseteq srcBefore \cup {src}
    /\ main # "crashed" /\ ~srcListed => updater = "none" /\ srcRules \subseteq srcBefore
    /\ main \in {"closeTun", "exited"} /\ srcListed /\ src \in srcRules
           => late \/ "src" \in kept

RulesInv == RuleInv /\ SrcInv

\* Config lists what it adds, Close deletes what is listed or keeps it.
LEMMA RuleStep == RouteInv /\ RulesInv /\ [LinuxNext]_linuxVars => RulesInv'
<1> SUFFICES ASSUME RouteInv, RulesInv, [LinuxNext]_linuxVars PROVE RulesInv'
  OBVIOUS
<1> USE DEF RulesInv, RuleInv, SrcInv, kernel, list, history, vars, Stages
<1>1. CASE UNCHANGED linuxVars
  BY <1>1 DEF linuxVars
<1>2. CASE CreateFails
  BY <1>2 DEF CreateFails, Running
<1>3. CASE Create \/ InitGateway
  BY <1>3 DEF Create, InitGateway
<1>4. CASE AddTunnelRoute
  BY <1>4 DEF AddTunnelRoute, ConfigLink
<1>5. CASE StartDns
  BY <1>5 DEF StartDns, ConfigEnd
<1>6. CASE ConfigStep
  <2>1. setup = "config" /\ setup' = setup
    BY <1>6 DEF ConfigStep
  <2>2. ASSUME NEW rule \in BaseSet, ConfigRule(rule) PROVE RulesInv'
    <3>1. main' \notin Stages /\ main \notin Stages \cup {"check"}
      BY <2>2, AfterIsStep, LinuxAssumption DEF ConfigRule, Steps
    <3>2. QED
      BY <2>1, <2>2, <3>1 DEF ConfigRule
  <2>3. CASE ConfigSrc
    BY <2>1, <2>3, LinuxAssumption DEF ConfigSrc, RouteInv, TypeOK
  <2>4. ASSUME NEW step \in Steps, ConfigFails(step) PROVE RulesInv'
    <3>1. main \notin Stages
      BY <2>4, LinuxAssumption DEF ConfigFails, Steps
    <3>2. step = "src" => ~srcListed
      BY <2>4, <3>1 DEF ConfigFails
    <3>3. QED
      BY <2>1, <2>4, <3>1, <3>2 DEF ConfigFails
  <2>5. CASE CloseSrc
    BY <2>1, <2>5 DEF CloseSrc
  <2>6. QED
    BY <1>6, <2>2, <2>3, <2>4, <2>5 DEF ConfigStep
<1>7. CASE CloseRules
  BY <1>7 DEF CloseRules, CloseBase
<1>8. CASE CloseDevice
  BY <1>8 DEF CloseDevice, CloseTun
<1>9. CASE WatchLinks
  BY <1>9 DEF WatchLinks, Watcher, Subscribe, Receive, Meet, Find
<1>10. CASE UpdateRules
  <2>1. srcListed /\ main \notin {"crashed", "exited"}
    BY <1>10 DEF UpdateRules, Updater, UpdateDel, UpdateAdd, UpdateAddFails, Running
  <2>2. QED
    BY <1>10, <2>1 DEF UpdateRules, Updater, UpdateDel, UpdateAdd, UpdateAddFails
<1>11. CASE DnsMonitor \/ Request \/ TakeAnswer
  BY <1>11 DEF DnsMonitor, MakeChannels, Receives, Enforce, Revert, Answer,
               Request, TakeAnswer
<1>12. CASE LinkChange
  BY <1>12 DEF LinkChange, Change, RouteChange, LinkUpdate
<1>13. CASE Kill
  BY <1>13 DEF Kill
<1>14. CASE Restart
  <2>1. main' \notin Stages
    BY <1>14, FirstStep DEF Restart
  <2>2. QED
    BY <1>14, <2>1 DEF Restart
<1>15. QED
  BY <1>1, <1>2, <1>3, <1>4, <1>5, <1>6, <1>7, <1>8, <1>9, <1>10, <1>11,
     <1>12, <1>13, <1>14 DEF LinuxNext, MainStep, Links

-----------------------------------------------------------------------------
(* The DNS monitor.                                                        *)

DnsTypes ==
    /\ setup \in {"create", "gateway", "config"}
    /\ enforce \in BOOLEAN
    /\ dnsAt \in {"none", "channels", "receive", "set", "revert", "answer"}
    /\ request \in SUBSET BOOLEAN /\ answers \in 0..1
    /\ unanswered \in 0..MaxEvents
    /\ resolver \in BOOLEAN /\ dnsFailed \in BOOLEAN
    /\ events \in 0..MaxEvents

\* The monitor starts at the end of Config.
DnsInv == /\ DnsTypes
          /\ RequestsKept /\ unanswered <= events
          /\ main \notin Stages => dnsAt = "none"

\* Steps outside the DNS monitor leave its part alone, or start a new run.
LEMMA DnsStep == DnsInv /\ [LinuxNext]_linuxVars => DnsInv'
<1> SUFFICES ASSUME DnsInv, [LinuxNext]_linuxVars PROVE DnsInv'
  OBVIOUS
<1> USE EventsAssumption DEF DnsInv, DnsTypes, RequestsKept, dnsVars, vars, Stages
<1>1. CASE UNCHANGED linuxVars
  BY <1>1 DEF linuxVars
<1>2. CASE CreateFails
  BY <1>2 DEF CreateFails
<1>3. CASE Create
  BY <1>3 DEF Create
<1>4. CASE InitGateway
  BY <1>4 DEF InitGateway
<1>5. CASE AddTunnelRoute
  BY <1>5 DEF AddTunnelRoute, ConfigLink
<1>6. CASE StartDns
  <2>1. dnsAt = "none" /\ main' = "running"
    BY <1>6 DEF StartDns, ConfigEnd
  <2>2. resolver' \in BOOLEAN /\ dnsFailed' \in BOOLEAN
    BY <1>6, Zenon DEF StartDns, SetDns
  <2>3. dnsAt' \in {"none", "channels"}
    BY <1>6, <2>1, Zenon DEF StartDns
  <2>4. QED
    BY <1>6, <2>1, <2>2, <2>3 DEF StartDns
<1>7. CASE ConfigStep
  <2>1. main \in Stages \/ UNCHANGED dnsVars
    BY <1>7 DEF ConfigStep
  <2>2. main' \notin Stages => main \notin Stages
    BY <1>7, LinuxAssumption
       DEF ConfigStep, ConfigRule, ConfigSrc, ConfigFails, CloseSrc
  <2>3. QED
    BY <1>7, <2>1, <2>2 DEF ConfigStep
<1>8. CASE CloseRules
  BY <1>8 DEF CloseRules, CloseBase
<1>9. CASE CloseDevice
  <2>1. resolver' \in BOOLEAN
    BY <1>9, Zenon DEF CloseDevice, DeviceGone
  <2>2. QED
    BY <1>9, <2>1 DEF CloseDevice, CloseTun, DeviceGone, MonitorGone
<1>10. CASE Links
  <2>1. resolver' \in BOOLEAN
    BY <1>10, Zenon DEF Links, WatchLinks, UpdateRules, DeviceGone
  <2>2. main' = main \/ main' = "crashed"
    BY <1>10 DEF Links, WatchLinks, UpdateRules, Watcher, Updater, Subscribe,
                 Receive, Meet, Find, UpdateDel, UpdateAdd, UpdateAddFails
  <2>3. QED
    BY <1>10, <2>1, <2>2 DEF Links, WatchLinks, UpdateRules
<1>11. CASE MakeChannels
  BY <1>11 DEF MakeChannels
<1>12. ASSUME NEW wanted \in BOOLEAN, Receives(wanted) PROVE DnsInv'
  <2>1. dnsAt' \in {"set", "revert", "answer"} /\ dnsAt = "receive"
    BY <1>12, Zenon DEF Receives
  <2>2. request' = {} /\ request # {} /\ enforce' \in BOOLEAN
    BY <1>12 DEF Receives
  <2>3. QED
    BY <1>12, <2>1, <2>2 DEF Receives
<1>13. CASE Enforce
  <2>1. resolver' \in BOOLEAN /\ dnsFailed' \in BOOLEAN
    BY <1>13, Zenon DEF Enforce, SetDns
  <2>2. QED
    BY <1>13, <2>1 DEF Enforce
<1>14. CASE Revert
  <2>1. resolver' \in BOOLEAN /\ dnsFailed' \in BOOLEAN
    BY <1>14, Zenon DEF Revert
  <2>2. QED
    BY <1>14, <2>1 DEF Revert
<1>15. CASE Answer
  BY <1>15 DEF Answer
<1>16. CASE Request
  <2>1. PICK wanted \in BOOLEAN : request' = {wanted}
    BY <1>16 DEF Request
  <2>2. request' \in SUBSET BOOLEAN /\ request' # {}
    BY <2>1
  <2>3. QED
    BY <1>16, <2>2 DEF Request, External
<1>17. CASE TakeAnswer
  BY <1>17 DEF TakeAnswer
<1>18. CASE LinkChange
  <2>1. main' = main
    BY <1>18 DEF LinkChange, Change, RouteChange, LinkUpdate
  <2>2. QED
    BY <1>18, <2>1 DEF LinkChange, External
<1>19. CASE Kill
  <2>1. resolver' \in BOOLEAN
    BY <1>19, Zenon DEF Kill, DeviceGone
  <2>2. QED
    BY <1>19, <2>1 DEF Kill, DeviceGone, MonitorGone
<1>20. CASE Restart
  <2>1. dnsFailed' \in BOOLEAN
    BY <1>20, Zenon DEF Restart
  <2>2. QED
    BY <1>20, <2>1 DEF Restart, MonitorGone, External
<1>21. QED
  BY <1>1, <1>2, <1>3, <1>4, <1>5, <1>6, <1>7, <1>8, <1>9, <1>10, <1>11,
     <1>12, <1>13, <1>14, <1>15, <1>16, <1>17, <1>18, <1>19, <1>20
     DEF LinuxNext, MainStep, DnsMonitor

-----------------------------------------------------------------------------
\* Nothing of an earlier run, and the device not yet created.
LEMMA LinuxInitInv == LinuxInit => RouteInv /\ RulesInv /\ DnsInv
<1> SUFFICES ASSUME LinuxInit PROVE RouteInv /\ RulesInv /\ DnsInv
  OBVIOUS
<1>1. /\ err \in BOOLEAN /\ monitor \in BOOLEAN /\ srcListed \in BOOLEAN
      /\ late \in BOOLEAN /\ reported \in BOOLEAN
  BY Zenon DEF LinuxInit, Init
<1>2. resolver \in BOOLEAN /\ dnsFailed \in BOOLEAN
  BY Zenon DEF LinuxInit
<1>3. RouteInv
  BY <1>1, FirstStep, LinuxAssumption DEF LinuxInit, Init, RouteInv, TypeOK, Steps,
     ReportsFollowed
<1>4. RulesInv
  BY FirstStep DEF LinuxInit, Init, RulesInv, RuleInv, SrcInv, Stages
<1>5. DnsInv
  BY <1>2, EventsAssumption DEF LinuxInit, DnsInv, DnsTypes, RequestsKept
<1>6. QED
  BY <1>3, <1>4, <1>5

\* The three parts of the invariant hold in every behaviour.
THEOREM LinuxInvariance == LinuxSpec => [](RouteInv /\ RulesInv /\ DnsInv)
BY LinuxInitInv, LinuxRouteStep, RuleStep, DnsStep, PTL DEF LinuxSpec

\* Every reachable state is well typed, with at most one value in each channel.
THEOREM LinuxTypes == LinuxSpec => []LinuxTypeOK
<1>1. RouteInv /\ DnsInv => LinuxTypeOK
  BY DEF RouteInv, DnsInv, DnsTypes, LinuxTypeOK
<1>2. QED
  BY <1>1, LinuxInvariance, PTL

\* No request to flip the switch is lost or answered twice, over all the runs.
THEOREM LinuxRequestsAreKept == LinuxSpec => []RequestsKept
<1>1. DnsInv => RequestsKept
  BY DEF DnsInv
<1>2. QED
  BY <1>1, LinuxInvariance, PTL

\* An exit leaves no rule the run has added but those RuleDel failed for and a
\* rule99 the updater added behind Close; a run past the base rules clears those
\* of all the runs before, however often and wherever they were killed.
THEOREM NoRuleIsLeft == LinuxSpec => []RunsLeaveNoRules
<1>1. RouteInv /\ RulesInv => RunsLeaveNoRules
  BY DEF RouteInv, TypeOK, RulesInv, RuleInv, SrcInv, RunsLeaveNoRules
<1>2. QED
  BY <1>1, LinuxInvariance, PTL

\* No reported link update is passed over, whatever the goroutines are at: a
\* route that changed before it is in Routes or still looked up.
THEOREM NoReportIsLost == LinuxSpec => []ReportsFollowed
<1>1. RouteInv => ReportsFollowed
  BY DEF RouteInv
<1>2. QED
  BY <1>1, LinuxInvariance, PTL

-----------------------------------------------------------------------------
(* The two processes.  ProcInv adds to the types what each flag stands     *)
(* for, and that a parent that has not started a daemon has none; that the *)
(* daemon leaves for a reason follows from it.                             *)

NoneYet == parent = "starting" => daemon = "none"

ProcInv == ProcTypeOK /\ NoneYet /\ OrphanSigns

\* What the parent, the signals and the kills do.
LEMMA ParentStep ==
    ASSUME ProcInv, UNCHANGED linux,
           \/ Spawn \/ Parent \/ SignalParent \/ SignalDaemon
           \/ KillParent \/ KillDaemon \/ Crash
    PROVE  ProcInv'
<1> USE DEF ProcInv, ProcTypeOK, NoneYet, OrphanSigns, PipeBroken, LogsToPipe,
            Working, Ended, Deaf, output, Interrupt
<1>1. CASE Spawn  BY <1>1 DEF Spawn
<1>2. CASE Manage  BY <1>2 DEF Manage
<1>3. CASE NoticeExit  BY <1>3 DEF NoticeExit
<1>4. CASE Return  BY <1>4 DEF Return
<1>5. CASE InterruptDaemon  BY <1>5 DEF InterruptDaemon
<1>6. CASE SignalParent
  <2>1. CASE UNCHANGED <<daemon, cause, sigCh>>  BY <1>6, <2>1 DEF SignalParent
  <2>2. CASE Interrupt
    <3>1. /\ UNCHANGED <<linux, exitSeen, eSign, output>>
          /\ parent # "starting" /\ parent # "gone"
          /\ parent' \in {parent, "gone"} /\ stopped' \in BOOLEAN
      BY <1>6 DEF SignalParent
    <3>2. CASE daemon \in Deaf
      BY <2>2, <3>1, <3>2
    <3>3. CASE daemon \notin Deaf
      BY <2>2, <3>1, <3>3
    <3> QED  BY <3>2, <3>3
  <2> QED  BY <1>6, <2>1, <2>2 DEF SignalParent
<1>7. CASE SignalDaemon  BY <1>7 DEF SignalDaemon
<1>8. CASE KillParent \/ KillDaemon \/ Crash
  BY <1>8 DEF KillParent, KillDaemon, Crash
<1> QED  BY <1>1, <1>2, <1>3, <1>4, <1>5, <1>6, <1>7, <1>8 DEF Parent

\* What the daemon does; on Linux a line logged without a parent ends it.
LEMMA DaemonStepInv ==
    ASSUME ProcInv, UNCHANGED linux, DaemonStep \/ MonitorParent
    PROVE  ProcInv'
<1> USE DEF ProcInv, ProcTypeOK, NoneYet, OrphanSigns, PipeBroken, LogsToPipe,
            Working, Ended, output, LogAndGoto
<1>0. CASE CreatLog
  <2>1. toStdout' \in BOOLEAN  BY <1>0, Zenon DEF CreatLog
  <2>2. CASE daemon' = "starting" /\ UNCHANGED <<toStdout, cause>>
    BY <1>0, <2>1, <2>2 DEF CreatLog
  <2>3. CASE /\ toStdout' = TRUE
             /\ IF PipeBroken' THEN daemon' = "killed" /\ cause' = "pipe"
                               ELSE daemon' = "starting" /\ UNCHANGED cause
    <3>1. cause # "pipe" /\ ~exitSeen
      BY <1>0 DEF CreatLog
    <3>2. CASE PipeBroken'
      <4>1. daemon' = "killed" /\ cause' = "pipe"
        BY <3>2, <2>3
      <4>2. UNCHANGED <<linux, parent, exitSeen, stopped, sigCh, eSign, piped>>
            /\ daemon = "launched"
        BY <1>0 DEF CreatLog
      <4>3. ProcTypeOK' /\ NoneYet'
        BY <2>1, <4>1, <4>2
      <4>4. OrphanSigns'
        BY <3>2, <4>1, <4>2
      <4> QED  BY <4>3, <4>4
    <3>3. CASE ~PipeBroken'
      <4>1. daemon' = "starting" /\ cause' = cause /\ daemon = "launched"
            /\ UNCHANGED <<linux, parent, exitSeen, stopped, sigCh, eSign, piped>>
        BY <1>0, <2>3, <3>3 DEF CreatLog
      <4> QED  BY <2>1, <3>1, <4>1
    <3> QED  BY <3>2, <3>3
  <2> QED  BY <1>0, <2>2, <2>3 DEF CreatLog
<1>1. CASE Configure  BY <1>1 DEF Configure
<1>2. CASE ConfigureFails  BY <1>2 DEF ConfigureFails
<1>3. CASE NotifySignals  BY <1>3 DEF NotifySignals
<1>4. CASE Leave  BY <1>4 DEF Leave
<1>5. CASE Close  BY <1>5 DEF Close
<1>6. CASE Exit  BY <1>6 DEF Exit
<1>7. CASE MonitorParent  BY <1>7 DEF MonitorParent
<1> QED  BY <1>0, <1>1, <1>2, <1>3, <1>4, <1>5, <1>6, <1>7 DEF DaemonStep

LEMMA ProcInvariance == ProcSpec => []ProcInv
<1>1. ASSUME ProcInit PROVE ProcInv
  <2>1. linux \in BOOLEAN /\ piped \in BOOLEAN /\ toStdout \in BOOLEAN /\ eSign \in BOOLEAN
        /\ exitSeen \in BOOLEAN /\ stopped \in BOOLEAN
    BY <1>1, Zenon DEF ProcInit
  <2>2. ProcTypeOK  BY <1>1, <2>1 DEF ProcInit, ProcTypeOK
  <2> QED
    BY <1>1, <2>2 DEF ProcInit, ProcInv, NoneYet, OrphanSigns
<1>2. ProcInv /\ UNCHANGED procVars => ProcInv'
  BY DEF ProcInv, ProcTypeOK, NoneYet, OrphanSigns, PipeBroken, LogsToPipe,
         procVars, state, output
<1>3. ProcInv /\ [ProcNext]_procVars => ProcInv'
  BY <1>2, ParentStep, DaemonStepInv DEF ProcNext
<1> QED  BY <1>1, <1>3, PTL DEF ProcSpec

\* The types of the two processes: sigCh never holds more than one signal.
THEOREM ProcTypes == ProcSpec => []ProcTypeOK
<1>1. ProcInv => ProcTypeOK  BY DEF ProcInv
<1> QED  BY <1>1, ProcInvariance, PTL

\* monitorParentProcess and the log's pipe tell the truth about the parent.
THEOREM SignsAreTrue == ProcSpec => []OrphanSigns
<1>1. ProcInv => OrphanSigns  BY DEF ProcInv
<1> QED  BY <1>1, ProcInvariance, PTL

\* InitDaemonMonitor returns only on an interrupt or when the parent is gone, and
\* ManageDaemonMonitor only on a signal or when the daemon has ended.
THEOREM NobodyLeavesUnasked == ProcSpec => LeavesForCause
<1> DEFINE Daemons == daemon # "leaving" /\ daemon' = "leaving"
                          => sigCh = 1 \/ parent = "gone"
           Parents == parent # "interrupting" /\ parent' = "interrupting"
                          => stopped \/ daemon \in Ended
<1>1. ASSUME ProcInv, ProcNext PROVE Daemons
  <2> SUFFICES ASSUME daemon # "leaving", daemon' = "leaving"
               PROVE  sigCh = 1 \/ parent = "gone"
    OBVIOUS
  <2>1. Leave
    BY <1>1 DEF ProcNext, Parent, DaemonStep, Spawn, Manage, NoticeExit, Return,
                InterruptDaemon, Interrupt, CreatLog, Configure, ConfigureFails,
                NotifySignals, Close, Exit, MonitorParent, SignalParent,
                SignalDaemon, KillParent, KillDaemon, Crash, LogAndGoto
  <2> QED  BY <1>1, <2>1 DEF Leave, ProcInv, ProcTypeOK, OrphanSigns
<1>2. ASSUME ProcInv, ProcNext PROVE Parents
  <2> SUFFICES ASSUME parent # "interrupting", parent' = "interrupting"
               PROVE  stopped \/ daemon \in Ended
    OBVIOUS
  <2>1. Return
    BY <1>2 DEF ProcNext, Parent, DaemonStep, Spawn, Manage, NoticeExit, Return,
                InterruptDaemon, CreatLog, Configure, ConfigureFails,
                NotifySignals, Leave, Close, Exit, MonitorParent, SignalParent,
                SignalDaemon, KillParent, KillDaemon, Crash
  <2> QED  BY <1>2, <2>1 DEF Return, ProcInv, OrphanSigns
<1>3. ProcInv /\ [ProcNext]_procVars => [Daemons /\ Parents]_procVars
  BY <1>1, <1>2
<1> QED  BY <1>3, ProcInvariance, PTL DEF ProcSpec, LeavesForCause

=============================================================================
