-------------------------- MODULE WinDeviceProofs --------------------------
(***************************************************************************)
(* Safety of the DNS filters on Windows, for any handles the filtering      *)
(* engine gives.  The inductive invariant says how far configFwp has got    *)
(* at each of its steps, and that, before Close begins, the switch, the     *)
(* field fwpmSession and the sessions agree wherever nobody is at work.     *)
(***************************************************************************)
EXTENDS WinDevice, TLAPS

Before == {"create", "flush", "address", "route", "dns", "netsh", "domain",
           "enforce"}
Pre == Before \cup FwpSteps \cup {"spawn"}
Full == {"permit", "tun", "block"}

\* The filters of the session when configFwp is at a step.
Added == [sublayer |-> {}, appID |-> {}, permit |-> {}, tun |-> {"permit"},
          block |-> {"permit", "tun"}]

\* The monitor starts when the main goroutine has done with configFwp.
MonitorLater == at["main"] \in Pre => at["monitor"] = "none"

\* A session that is being configured and still open has what was added.
Progress ==
    \A p \in Procs :
        at[p] \in FwpSteps \ {"engine"} /\ engine[p] \in open =>
            filters[engine[p]] = Added[at[p]]

\* DNS is blocked only where the permits are.
BlockGuarded ==
    \A s \in open : "block" \in filters[s] => {"permit", "tun"} \subseteq filters[s]

\* The device has no session, or this one, beside those it could not close.
Nothing == fwpmSession = None /\ open = unclosed
Single(s) == /\ s \in Sessions \ unclosed /\ fwpmSession = s
             /\ open = unclosed \cup {s}
Settled == IF enforce THEN Single(fwpmSession) /\ filters[fwpmSession] = Full
                      ELSE Nothing

\* What could not be closed has all its filters.
Leftover == \A s \in unclosed : s \in Sessions /\ filters[s] = Full

\* Before Close: configFwp, the monitor's way to off, and everybody at rest.
Configuring ==
    \A p \in Procs :
        /\ at[p] = "engine" => enforce /\ Nothing
        /\ at[p] \in FwpSteps \ {"engine"} => enforce /\ Single(engine[p])
SwitchingOff ==
    /\ at["monitor"] = "check" =>
           /\ ~enforce
           /\ \/ Nothing
              \/ Single(fwpmSession) /\ filters[fwpmSession] = Full
    /\ at["monitor"] = "close" =>
           ~enforce /\ Single(fwpmSession) /\ filters[fwpmSession] = Full
    /\ at["monitor"] = "zero"  => ~enforce /\ open = unclosed
AtRest ==
    /\ at["main"] \in Before => Nothing
    /\ at["main"] = "spawn" => Settled
    /\ /\ at["main"] \in {"stack", "running"}
       /\ at["monitor"] \in {"channels", "receive", "answer"}
       => Settled
BeforeClose ==
    at["main"] \in Pre \cup {"stack", "running"} =>
        Configuring /\ SwitchingOff /\ AtRest /\ Leftover

IInv == /\ TypeOK /\ RequestsKept /\ MonitorLater /\ Progress
        /\ BlockGuarded /\ BeforeClose

-----------------------------------------------------------------------------
USE DEF Procs, FwpSteps

\* Nothing is open at first.
LEMMA InitInv == Init => IInv
<1> SUFFICES ASSUME Init PROVE IInv  OBVIOUS
<1>1. TypeOK
  <2>1. /\ at \in [Procs -> MainSteps \cup MonitorSteps]
        /\ at["main"] \in MainSteps /\ at["monitor"] \in MonitorSteps
    BY DEF Init, MainSteps, MonitorSteps
  <2>2. filters \in [Sessions -> SUBSET {"permit", "tun", "block"}]
    BY DEF Init
  <2>3. request \in SUBSET BOOLEAN /\ requests \in 0..MaxRequests
    BY MaxRequestsAssumption DEF Init
  <2>4. routed \in BOOLEAN /\ enforce \in BOOLEAN /\ wanted \in BOOLEAN
    BY DEF Init
  <2>5. /\ engine \in [Procs -> Sessions \cup {None}]
        /\ closing \in Sessions \cup {None} /\ fwpmSession \in Sessions \cup {None}
        /\ addresses \subseteq {"old", "own"} /\ open \subseteq Sessions
        /\ unclosed \subseteq Sessions /\ answers \in 0..1 /\ unanswered \in Nat
    BY DEF Init
  <2>6. dns = "none" /\ stack = "none"
    BY DEF Init
  <2> QED  BY <2>1, <2>2, <2>3, <2>4, <2>5, <2>6 DEF TypeOK
<1>2. RequestsKept /\ MonitorLater /\ Progress /\ BlockGuarded
  BY DEF Init, RequestsKept, Busy, MonitorLater, Progress, BlockGuarded
<1>3. BeforeClose
  BY DEF Init, BeforeClose, Configuring, SwitchingOff, AtRest, Nothing, Leftover,
         Before
<1> QED  BY <1>1, <1>2, <1>3 DEF IInv

\* The end of the process leaves no session to say anything of.
LEMMA EndInv ==
    ASSUME IInv, NEW how \in {"exited", "crashed"}, EndProcess(how) PROVE IInv'
<1>1. TypeOK'
  BY DEF IInv, TypeOK, EndProcess, Goto, channels, MainSteps
<1>2. MonitorLater' /\ Progress' /\ BlockGuarded' /\ BeforeClose'
  BY DEF IInv, TypeOK, EndProcess, Goto, MonitorLater, Progress, BlockGuarded,
         BeforeClose, Pre, Before
<1>3. RequestsKept'
  BY DEF IInv, TypeOK, RequestsKept, EndProcess, Goto, channels
<1> QED  BY <1>1, <1>2, <1>3 DEF IInv

\* What InitGateway does but configFwp leaves switch and sessions alone.
LEMMA SetupInv == ASSUME IInv, Setup PROVE IInv'
<1>1. ASSUME \/ CreateTUN /\ at'["main"] = "flush"
             \/ AddRoute /\ at'["main"] # "crashed"
             \/ FlushIPAddresses \/ AddIPAddress
             \/ SetDNS \/ FallbackSetDNS \/ FallbackSetDNSDomain
             \/ CheckEnforce
      PROVE  IInv'
  <2>1. /\ at["main"] \in Before
        /\ at' = [at EXCEPT !["main"] = at'["main"]]
        /\ at'["main"] \in Before \cup {"engine", "spawn"}
        /\ at'["main"] \in {"engine", "spawn"} => enforce = (at'["main"] = "engine")
        /\ addresses' \subseteq {"old", "own"} /\ routed' \in BOOLEAN
        /\ dns' \in {"none", "settings", "netsh"}
    BY <1>1 DEF IInv, TypeOK, CreateTUN, AddRoute, FlushIPAddresses, AddIPAddress,
                SetDNS, FallbackSetDNS, FallbackSetDNSDomain, CheckEnforce, Goto,
                Before, EndProcess, tunnel, MainSteps
  <2>2. UNCHANGED <<engine, closing, stack, enforce, fwpmSession, open,
                    filters, unclosed, channels>>
    BY <1>1 DEF IInv, TypeOK, CreateTUN, AddRoute, FlushIPAddresses, AddIPAddress,
                SetDNS, FallbackSetDNS, FallbackSetDNSDomain, CheckEnforce, Goto,
                EndProcess, tunnel
  <2>3. at["monitor"] = "none" /\ Nothing
    BY <2>1 DEF IInv, MonitorLater, BeforeClose, AtRest, Pre
  <2>4. TypeOK'
    BY <2>1, <2>2 DEF IInv, TypeOK, channels, MainSteps, Before
  <2>5. MonitorLater' /\ Progress' /\ BlockGuarded'
    BY <2>1, <2>2, <2>3
    DEF IInv, TypeOK, MonitorLater, Progress, BlockGuarded, Before
  <2>6. BeforeClose'
    BY <2>1, <2>2, <2>3
    DEF IInv, TypeOK, BeforeClose, Configuring, SwitchingOff, AtRest, Nothing,
        Leftover, Settled, Before, Pre
  <2>7. RequestsKept'
    BY <2>1, <2>2 DEF IInv, TypeOK, RequestsKept, channels
  <2> QED  BY <2>4, <2>5, <2>6, <2>7 DEF IInv
<1>2. CASE SpawnMonitor
  <2>1. TypeOK'
    BY <1>2 DEF IInv, TypeOK, SpawnMonitor, tunnel, channels, MainSteps, MonitorSteps
  <2>2. MonitorLater' /\ Progress' /\ BlockGuarded'
    BY <1>2 DEF IInv, TypeOK, SpawnMonitor, MonitorLater, Progress, BlockGuarded,
                Pre, Before
  <2>3. BeforeClose'
    BY <1>2 DEF IInv, TypeOK, SpawnMonitor, BeforeClose, Configuring,
                SwitchingOff, AtRest, Settled, Single, Nothing, Leftover, Pre, Before
  <2>4. RequestsKept'
    BY <1>2 DEF IInv, TypeOK, RequestsKept, Busy, MonitorLater, Pre, SpawnMonitor, channels
  <2> QED  BY <2>1, <2>2, <2>3, <2>4 DEF IInv
<1>3. CASE StartStack
  <2>1. TypeOK'
    BY <1>3 DEF IInv, TypeOK, StartStack, Goto, channels, MainSteps
  <2>2. MonitorLater' /\ Progress' /\ BlockGuarded'
    BY <1>3 DEF IInv, TypeOK, StartStack, Goto, MonitorLater, Progress,
                BlockGuarded, Pre, Before
  <2>3. BeforeClose'
    BY <1>3 DEF IInv, TypeOK, StartStack, Goto, BeforeClose, Configuring,
                SwitchingOff, AtRest, Settled, Single, Nothing, Leftover, Pre, Before
  <2>4. RequestsKept'
    BY <1>3 DEF IInv, TypeOK, RequestsKept, StartStack, Goto, channels
  <2> QED  BY <2>1, <2>2, <2>3, <2>4 DEF IInv
<1>4. CASE CreateTUN
  BY <1>1, <1>4, EndInv DEF CreateTUN, Goto, IInv, TypeOK
<1>5. CASE AddRoute
  BY <1>1, <1>5, EndInv DEF AddRoute, Goto, IInv, TypeOK
<1> QED  BY <1>1, <1>2, <1>3, <1>4, <1>5 DEF Setup

\* configFwp opens one session and adds the filters in their order.
LEMMA ConfigInv ==
    ASSUME IInv, Alive, NEW p \in Procs, ConfigFwp(p) PROVE IInv'
<1>1. CASE EndProcess("crashed")
  BY <1>1, EndInv
<1>2. CASE OpenEngine(p) /\ ~EndProcess("crashed")
  <2>1. PICK s \in Sessions \ open :
            /\ at[p] = "engine"
            /\ engine' = [engine EXCEPT ![p] = s]
            /\ fwpmSession' = s
            /\ open' = open \cup {s}
            /\ filters' = [filters EXCEPT ![s] = {}]
            /\ at' = [at EXCEPT ![p] = "sublayer"]
            /\ UNCHANGED <<closing, tunnel, enforce, unclosed, channels>>
    BY <1>2 DEF OpenEngine, Goto
  <2>2. TypeOK'
    BY <2>1 DEF IInv, TypeOK, tunnel, channels, MainSteps, MonitorSteps
  <2>3. MonitorLater'
    BY <2>1 DEF IInv, TypeOK, MonitorLater, Pre, Before
  <2>0. \A q \in Procs \ {p} : at[q] = at'[q] /\ at[q] \notin FwpSteps
    BY <2>1 DEF IInv, TypeOK, MonitorLater, Pre
  <2>4. Progress'
    BY <2>0, <2>1 DEF IInv, TypeOK, Progress, Added
  <2>5. BlockGuarded'
    BY <2>1 DEF IInv, TypeOK, BlockGuarded
  <2>6. BeforeClose'
    <3> SUFFICES ASSUME at["main"] \in Pre \cup {"stack", "running"}
                 PROVE  Configuring' /\ SwitchingOff' /\ AtRest' /\ Leftover'
      BY <2>1 DEF IInv, TypeOK, BeforeClose, Pre
    <3>1. enforce /\ Nothing /\ Leftover
      BY <2>1 DEF IInv, BeforeClose, Configuring
    <3>2. Single(s)' /\ Leftover' /\ enforce' /\ at'[p] = "sublayer"
      BY <2>1, <3>1 DEF IInv, TypeOK, Nothing, Single, Leftover
    <3>4. Configuring'
      BY <2>0, <2>1, <3>2 DEF IInv, TypeOK, Configuring
    <3>5. SwitchingOff' /\ AtRest'
      BY <2>0, <2>1, <3>1
      DEF IInv, TypeOK, MonitorLater, BeforeClose, SwitchingOff, AtRest, Pre, Before
    <3> QED  BY <3>2, <3>4, <3>5
  <2>7. RequestsKept'
    BY <2>1 DEF IInv, TypeOK, RequestsKept, Busy, channels
  <2> QED  BY <2>2, <2>3, <2>4, <2>5, <2>6, <2>7 DEF IInv
<1>3. CASE /\ AddSubLayer(p) \/ GetCurrentProcessAppID(p)
           /\ ~EndProcess("crashed")
  <2>1. /\ at[p] \in {"sublayer", "appID"}
        /\ at' = [at EXCEPT ![p] = IF at[p] = "sublayer" THEN "appID" ELSE "permit"]
        /\ UNCHANGED <<engine, closing, tunnel, enforce, fwpmSession, open,
                       filters, unclosed, channels>>
    BY <1>3 DEF AddSubLayer, GetCurrentProcessAppID, Goto
  <2>2. TypeOK'
    BY <2>1 DEF IInv, TypeOK, tunnel, channels, MainSteps, MonitorSteps
  <2>0. MonitorLater' /\ BlockGuarded'
    BY <2>1 DEF IInv, TypeOK, MonitorLater, BlockGuarded, Pre
  <2>3. Progress'
    <3>1. \A q \in Procs \ {p} : at[q] = at'[q]
      BY <2>1 DEF IInv, TypeOK
    <3>2. Added[at'[p]] = Added[at[p]]
      BY <2>1 DEF IInv, TypeOK, Added
    <3> QED  BY <2>1, <3>1, <3>2 DEF IInv, Progress
  <2>4. BeforeClose'
    <3> SUFFICES ASSUME at["main"] \in Pre \cup {"stack", "running"}
                 PROVE  Configuring' /\ SwitchingOff' /\ AtRest' /\ Leftover'
      BY <2>1 DEF IInv, TypeOK, BeforeClose, Pre
    <3>1. Configuring /\ SwitchingOff /\ AtRest /\ Leftover
      BY DEF IInv, BeforeClose
    <3>2. Configuring' /\ Leftover'
      BY <2>1, <3>1 DEF IInv, TypeOK, Configuring, Nothing, Single, Leftover
    <3>3. p = "main" => at["monitor"] = "none"
      BY <2>1 DEF IInv, MonitorLater, Pre
    <3>4. SwitchingOff' /\ AtRest'
      BY <2>1, <3>1, <3>3
      DEF IInv, TypeOK, MonitorLater, SwitchingOff, AtRest, Pre, Before
    <3> QED  BY <3>2, <3>4
  <2>5. RequestsKept'
    BY <2>1 DEF IInv, TypeOK, RequestsKept, Busy, channels
  <2> QED  BY <2>0, <2>2, <2>3, <2>4, <2>5 DEF IInv
<1>4. ASSUME NEW f, NEW next, AddFilter(p, f, next), ~EndProcess("crashed"),
             <<f, next>> \in {<<"permit", "tun">>, <<"tun", "block">>,
                              <<"block", AfterConfig(p)>>}
      PROVE  IInv'
  <2>1. /\ at[p] = f /\ engine[p] \in open
        /\ filters' = [filters EXCEPT ![engine[p]] = @ \cup {f}]
        /\ at' = [at EXCEPT ![p] = next]
        /\ UNCHANGED <<engine, closing, tunnel, enforce, fwpmSession, open,
                       unclosed, channels>>
    BY <1>4 DEF AddFilter, Goto
  <2>2. /\ f \in Full
        /\ f = "permit" => next = "tun"
        /\ f = "tun" => next = "block"
        /\ f = "block" => next = IF p = "main" THEN "spawn" ELSE "answer"
    BY <1>4 DEF AfterConfig, Full
  <2>3. filters[engine[p]] = Added[f]
    BY <2>1, <2>2 DEF IInv, Progress, Full
  <2>4. TypeOK'
    BY <2>1, <2>2 DEF IInv, TypeOK, Full, tunnel, channels, MainSteps, MonitorSteps
  <2>5. MonitorLater'
    BY <2>1, <2>2 DEF IInv, TypeOK, MonitorLater, Full, Pre
  <2>6. Progress'
    <3> SUFFICES ASSUME NEW q \in Procs, at'[q] \in FwpSteps \ {"engine"},
                        engine[q] \in open
                 PROVE  filters'[engine[q]] = Added[at'[q]]
      BY <2>1 DEF Progress
    <3>1. CASE q = p
      <4>1. at'[p] = next /\ engine[p] \in Sessions
        BY <2>1 DEF IInv, TypeOK
      <4>2. f # "block"
        BY <3>1, <4>1, <2>2
      <4>3. filters'[engine[p]] = Added[f] \cup {f}
        BY <2>1, <2>3, <4>1 DEF IInv, TypeOK
      <4>4. f = "permit" => Added[f] \cup {f} = Added[next]
        BY <2>2 DEF Added
      <4>5. f = "tun" => Added[f] \cup {f} = Added[next]
        BY <2>2 DEF Added
      <4> QED  BY <3>1, <4>1, <4>2, <4>3, <4>4, <4>5, <2>2 DEF Full
    <3>2. CASE q # p
      BY <3>2, <2>1, <2>2 DEF IInv, TypeOK, MonitorLater, Full, Pre
    <3> QED  BY <3>1, <3>2
  <2>7. BlockGuarded'
    BY <2>1, <2>2, <2>3 DEF IInv, TypeOK, BlockGuarded, Added, Full
  <2>8. ASSUME at["main"] \in Pre \cup {"stack", "running"}
        PROVE  enforce /\ Single(engine[p])
    BY <2>1, <2>2, <2>8 DEF IInv, BeforeClose, Configuring, Full
  <2>9. BeforeClose'
    <3> SUFFICES ASSUME at'["main"] \in Pre \cup {"stack", "running"}
                 PROVE  Configuring' /\ SwitchingOff' /\ AtRest' /\ Leftover'
      BY DEF BeforeClose
    <3>1. at["main"] \in Pre \cup {"stack", "running"}
      BY <2>1, <2>2 DEF IInv, TypeOK, Full, Pre
    <3>2. f = "block" => filters'[engine[p]] = Full
      BY <2>1, <2>3, <3>1, <2>8 DEF IInv, TypeOK, Added, Full, Single
    <3>3. Configuring'
      BY <2>1, <2>2, <2>8, <3>1
      DEF IInv, TypeOK, MonitorLater, BeforeClose, Configuring, Single, Nothing,
          Full, Pre
    <3>4. SwitchingOff'
      BY <2>1, <2>2, <2>8, <3>1
      DEF IInv, TypeOK, MonitorLater, Full, SwitchingOff, Pre
    <3>5. AtRest'
      BY <2>1, <2>2, <2>8, <3>1, <3>2
      DEF IInv, TypeOK, MonitorLater, AtRest, Settled, Single, Full, Pre, Before
    <3>6. Leftover'
      BY <2>1, <2>8, <3>1 DEF IInv, TypeOK, BeforeClose, Leftover, Single
    <3> QED  BY <3>3, <3>4, <3>5, <3>6
  <2>10. RequestsKept'
    BY <2>1, <2>2 DEF IInv, TypeOK, RequestsKept, Busy, Full, channels
  <2> QED  BY <2>4, <2>5, <2>6, <2>7, <2>9, <2>10 DEF IInv
<1> QED  BY <1>1, <1>2, <1>3, <1>4 DEF ConfigFwp

\* The monitor's own steps: from rest to rest over switching off.
LEMMA MonitorInv == ASSUME IInv, Alive, Monitor PROVE IInv'
<1>1. at["main"] \notin Pre
  BY DEF IInv, MonitorLater, Monitor, MakeChannels, Receive, CheckSession,
         CloseSession, ZeroSession, Answer
<1>2. /\ at'["main"] = at["main"]
      /\ at' = [at EXCEPT !["monitor"] = at'["monitor"]]
      /\ at'["monitor"] \in {"receive", "answer", "engine", "check", "close", "zero"}
      /\ UNCHANGED <<engine, closing, tunnel>>
  BY DEF IInv, TypeOK, Monitor, MakeChannels, Receive, CheckSession, CloseSession,
         ZeroSession, Answer, Goto
<1>3. TypeOK'
  <2>1. at' \in [Procs -> MainSteps \cup MonitorSteps] /\ at'["monitor"] \in MonitorSteps
    BY <1>2 DEF IInv, TypeOK, MonitorSteps
  <2>2. /\ fwpmSession' \in Sessions \cup {None}
        /\ open' \subseteq Sessions
        /\ filters' \in [Sessions -> SUBSET {"permit", "tun", "block"}]
        /\ unclosed' \subseteq Sessions
        /\ answers' \in 0..1 /\ UNCHANGED <<unanswered, requests>>
    BY DEF IInv, TypeOK, Monitor, MakeChannels, Receive, CheckSession,
           CloseSession, ZeroSession, Answer, EngineClose, channels
  <2>3. request' \in SUBSET BOOLEAN /\ wanted' \in BOOLEAN /\ enforce' \in BOOLEAN
    BY DEF IInv, TypeOK, Monitor, MakeChannels, Receive, CheckSession,
           CloseSession, ZeroSession, Answer, channels
  <2> QED  BY <1>2, <2>1, <2>2, <2>3 DEF IInv, TypeOK, tunnel
<1>4. MonitorLater'
  BY <1>1, <1>2 DEF MonitorLater
<1>5. /\ open' \subseteq open
      /\ \A s \in open' : s \in Sessions /\ filters'[s] = filters[s]
  BY DEF IInv, TypeOK, Monitor, MakeChannels, Receive, CheckSession, CloseSession,
         ZeroSession, Answer, EngineClose
<1>6. Progress' /\ BlockGuarded'
  BY <1>1, <1>2, <1>5 DEF IInv, TypeOK, Progress, BlockGuarded, Pre
<1>7. BeforeClose'
  <2> SUFFICES ASSUME at["main"] \in {"stack", "running"}
               PROVE  Configuring' /\ SwitchingOff' /\ AtRest' /\ Leftover'
    BY <1>1, <1>2 DEF BeforeClose
  <2>0. Configuring /\ SwitchingOff /\ AtRest /\ Leftover
    BY DEF IInv, BeforeClose
  <2>1. CASE MakeChannels \/ Answer
    <3>1. /\ UNCHANGED <<enforce, fwpmSession, open, filters, unclosed>>
          /\ at'["monitor"] = "receive" /\ at["monitor"] \in {"channels", "answer"}
      BY <2>1 DEF IInv, TypeOK, MakeChannels, Answer, Goto
    <3>2. Settled /\ Settled' /\ Leftover'
      BY <2>0, <3>1 DEF AtRest, Settled, Single, Nothing, Leftover
    <3> QED
      BY <3>1, <3>2, <1>1, <1>2 DEF Configuring, SwitchingOff, AtRest, Pre, Before
  <2>2. CASE Receive
    <3>1. Settled
      BY <2>0, <2>2 DEF AtRest, Receive
    <3>2. /\ UNCHANGED <<fwpmSession, open, filters, unclosed>>
          /\ at'["monitor"] = IF wanted' = enforce THEN "answer"
                              ELSE IF wanted' THEN "engine" ELSE "check"
          /\ enforce' = wanted' /\ enforce \in BOOLEAN /\ enforce' \in BOOLEAN
      BY <2>2, <1>3 DEF IInv, TypeOK, Receive, Goto
    <3>0. Leftover'
      BY <2>0, <3>2 DEF Leftover
    <3>3. CASE enforce' = enforce
      <4>1. at'["monitor"] = "answer" /\ Settled'
        BY <3>1, <3>2, <3>3 DEF Settled, Single, Nothing
      <4> QED
        BY <3>0, <4>1, <1>1, <1>2
        DEF Configuring, SwitchingOff, AtRest, Pre, Before
    <3>4. CASE enforce' /\ ~enforce
      <4>1. at'["monitor"] = "engine"
        BY <3>2, <3>4
      <4>2. Nothing'
        BY <3>1, <3>2, <3>4 DEF Settled, Nothing
      <4> QED
        BY <3>0, <4>1, <4>2, <3>4, <1>1, <1>2
        DEF Configuring, SwitchingOff, AtRest, Pre, Before
    <3>5. CASE ~enforce' /\ enforce
      <4>1. at'["monitor"] = "check"
        BY <3>2, <3>5
      <4>2. Single(fwpmSession)' /\ (filters[fwpmSession] = Full)'
        BY <3>1, <3>2, <3>5 DEF Settled, Single
      <4> QED
        BY <3>0, <4>1, <4>2, <3>5, <1>1, <1>2
        DEF Configuring, SwitchingOff, AtRest, Pre, Before
    <3> QED  BY <3>2, <3>3, <3>4, <3>5
  <2>3. CASE CheckSession
    <3>1. /\ UNCHANGED <<enforce, fwpmSession, open, filters, unclosed>>
          /\ at["monitor"] = "check" /\ ~enforce
          /\ at'["monitor"] = IF fwpmSession = None THEN "answer" ELSE "close"
      BY <2>0, <2>3 DEF IInv, TypeOK, CheckSession, Goto, SwitchingOff
    <3>2. Leftover'
      BY <2>0, <3>1 DEF Leftover
    <3>3. CASE fwpmSession = None
      <4>1. Settled'
        BY <2>0, <3>1, <3>3, NoneAssumption DEF SwitchingOff, Settled, Single, Nothing
      <4> QED
        BY <3>1, <3>2, <3>3, <4>1, <1>1, <1>2
        DEF Configuring, SwitchingOff, AtRest, Pre, Before
    <3>4. CASE fwpmSession # None
      <4>1. Single(fwpmSession)' /\ (filters[fwpmSession] = Full)'
        BY <2>0, <3>1, <3>4 DEF SwitchingOff, Single, Nothing
      <4> QED
        BY <3>1, <3>2, <3>4, <4>1, <1>1, <1>2
        DEF Configuring, SwitchingOff, AtRest, Pre, Before
    <3> QED  BY <3>3, <3>4
  <2>4. CASE CloseSession
    <3>1. /\ UNCHANGED <<enforce, fwpmSession>> /\ EngineClose(fwpmSession)
          /\ ~enforce /\ Single(fwpmSession) /\ filters[fwpmSession] = Full
          /\ at'["monitor"] = "zero"
      BY <2>0, <2>4 DEF IInv, TypeOK, CloseSession, Goto, SwitchingOff
    <3>2. open' = unclosed' /\ Leftover'
      <4>1. CASE UNCHANGED filters /\ open' = open
                 /\ unclosed' = unclosed \cup ({fwpmSession} \cap open)
        BY <2>0, <3>1, <4>1 DEF Single, Leftover
      <4>2. CASE /\ open' = open \ {fwpmSession} /\ unclosed' = unclosed \ {fwpmSession}
                 /\ filters' = [s \in Sessions |-> IF s = fwpmSession THEN {}
                                                   ELSE filters[s]]
        BY <2>0, <3>1, <4>2 DEF Single, Leftover
      <4> QED  BY <3>1, <4>1, <4>2 DEF EngineClose
    <3> QED
      BY <3>1, <3>2, <1>1, <1>2 DEF Configuring, SwitchingOff, AtRest, Pre, Before
  <2>5. CASE ZeroSession
    <3>1. /\ UNCHANGED <<enforce, open, filters, unclosed>> /\ fwpmSession' = None
          /\ ~enforce /\ open = unclosed /\ at'["monitor"] = "answer"
      BY <2>0, <2>5 DEF IInv, TypeOK, ZeroSession, Goto, SwitchingOff
    <3>2. Settled' /\ Leftover'
      BY <2>0, <3>1 DEF Settled, Nothing, Leftover
    <3> QED
      BY <3>1, <3>2, <1>1, <1>2 DEF Configuring, SwitchingOff, AtRest, Pre, Before
  <2> QED  BY <2>1, <2>2, <2>3, <2>4, <2>5 DEF Monitor
<1>8. RequestsKept'
  <2>1. CASE Receive
    <3>1. /\ request # {} /\ request' = {} /\ at["monitor"] = "receive"
          /\ at'["monitor"] \in Busy /\ UNCHANGED <<answers, unanswered>>
      BY <2>1 DEF IInv, TypeOK, Receive, Goto, Busy
    <3> QED  BY <3>1 DEF IInv, TypeOK, RequestsKept, Busy
  <2>2. CASE Answer
    BY <2>2 DEF IInv, TypeOK, Answer, Goto, RequestsKept, Busy
  <2>3. CASE MakeChannels \/ CheckSession \/ CloseSession \/ ZeroSession
    <3>1. /\ at["monitor"] \in Busy <=> at'["monitor"] \in Busy
          /\ UNCHANGED <<request, answers, unanswered>>
      BY <2>3 DEF IInv, TypeOK, MakeChannels, CheckSession, CloseSession,
                  ZeroSession, Goto, Busy, channels
    <3> QED  BY <3>1 DEF IInv, RequestsKept
  <2> QED  BY <2>1, <2>2, <2>3 DEF Monitor
<1> QED  BY <1>3, <1>4, <1>6, <1>7, <1>8 DEF IInv

\* Close ends what the invariant says of switch and sessions.
LEMMA CloseInv == ASSUME IInv, Alive, Leave \/ Close PROVE IInv'
<1>1. CASE (CloseCheck /\ fwpmSession = None) \/ Return
  BY <1>1, EndInv DEF CloseCheck, Return
<1>2. CASE \/ Leave \/ CloseTun \/ CloseEngine
           \/ (CloseCheck /\ fwpmSession # None)
  <2>1. /\ at["main"] \in {"running", "closeTun", "checkSession", "closeEngine"}
        /\ at' = [at EXCEPT !["main"] = at'["main"]]
        /\ at'["main"] \in {"closeTun", "checkSession", "closeEngine", "returning"}
        /\ closing' \in Sessions \cup {None}
        /\ UNCHANGED <<engine, stack, enforce, fwpmSession, channels>>
    BY <1>2 DEF IInv, TypeOK, Leave, CloseTun, CloseEngine, CloseCheck, Goto, tunnel
  <2>2. /\ addresses' \subseteq {"old", "own"} /\ routed' \in BOOLEAN
        /\ dns' \in {"none", "settings", "netsh"}
    BY <1>2 DEF IInv, TypeOK, Leave, CloseTun, CloseEngine, CloseCheck, tunnel
  <2>3. /\ open' \subseteq open
        /\ \A s \in open' : s \in Sessions /\ filters'[s] = filters[s]
        /\ filters' \in [Sessions -> SUBSET {"permit", "tun", "block"}]
        /\ unclosed' \subseteq Sessions
    BY <1>2 DEF IInv, TypeOK, Leave, CloseTun, CloseEngine, CloseCheck, EngineClose
  <2>4. TypeOK'
    BY <2>1, <2>2, <2>3 DEF IInv, TypeOK, channels, MainSteps
  <2>5. MonitorLater' /\ BeforeClose'
    BY <2>1 DEF MonitorLater, BeforeClose, Pre, Before
  <2>6. Progress' /\ BlockGuarded'
    BY <2>1, <2>3 DEF IInv, TypeOK, Progress, BlockGuarded
  <2>7. RequestsKept'
    BY <2>1 DEF IInv, TypeOK, RequestsKept, channels
  <2> QED  BY <2>4, <2>5, <2>6, <2>7 DEF IInv
<1> QED  BY <1>1, <1>2 DEF Close

\* The other program only touches the channels.
LEMMA ChannelsInv == ASSUME IInv, Alive, Request \/ TakeAnswer PROVE IInv'
<1>1. UNCHANGED <<at, engine, closing, tunnel, enforce, fwpmSession, open,
                 filters, unclosed, wanted>>
  BY DEF Request, TakeAnswer
<1>2. request' \in SUBSET BOOLEAN /\ answers' \in 0..1 /\ requests' \in 0..MaxRequests
  BY MaxRequestsAssumption DEF IInv, TypeOK, Request, TakeAnswer
<1>3. RequestsKept' /\ unanswered' \in Nat
  <2>1. CASE Request
    <3>1. request = {} /\ request' # {} /\ unanswered' = unanswered + 1
          /\ answers' = answers
      BY <2>1 DEF Request
    <3> QED  BY <3>1, <1>1 DEF IInv, TypeOK, RequestsKept
  <2>2. CASE TakeAnswer
    <3>1. answers = 1 /\ answers' = 0 /\ unanswered' = unanswered - 1
          /\ request' = request
      BY <2>2 DEF TakeAnswer
    <3> QED  BY <3>1, <1>1 DEF IInv, TypeOK, RequestsKept
  <2> QED  BY <2>1, <2>2
<1>4. TypeOK'
  BY <1>1, <1>2, <1>3 DEF IInv, TypeOK, tunnel
<1>5. MonitorLater' /\ Progress' /\ BlockGuarded'
  BY <1>1 DEF IInv, MonitorLater, Progress, BlockGuarded
<1>6. BeforeClose'
  BY <1>1 DEF IInv, BeforeClose, Configuring, SwitchingOff, AtRest, Settled,
              Single, Nothing, Leftover
<1> QED  BY <1>3, <1>4, <1>5, <1>6 DEF IInv

\* The invariant holds throughout.
LEMMA Inductive == Spec => []IInv
<1>1. IInv /\ [Next]_vars => IInv'
  <2> SUFFICES ASSUME IInv, [Next]_vars PROVE IInv'  OBVIOUS
  <2>1. CASE UNCHANGED vars
    BY <2>1 DEF vars, tunnel, channels, IInv, TypeOK, RequestsKept, MonitorLater,
                Progress, BlockGuarded, BeforeClose, Configuring, SwitchingOff,
                AtRest, Settled, Single, Nothing, Leftover
  <2>2. CASE Next
    BY <2>2, SetupInv, ConfigInv, MonitorInv, CloseInv, ChannelsInv DEF Next
  <2> QED  BY <2>1, <2>2
<1> QED  BY InitInv, <1>1, PTL DEF Spec

-----------------------------------------------------------------------------
\* Every variable keeps its type, and each request has its place.
THEOREM TypeCorrect == Spec => []TypeOK
<1>1. IInv => TypeOK  BY DEF IInv
<1> QED  BY <1>1, Inductive, PTL

\* No request to flip the switch is lost or answered twice, while Close runs too.
THEOREM WinRequestsAreKept == Spec => []RequestsKept
<1>1. IInv => RequestsKept  BY DEF IInv
<1> QED  BY <1>1, Inductive, PTL

\* configFwp and monitorEnforceDns never block this program's connections,
\* the tunnel's, or anything but DNS.
THEOREM OnlyForeignDns == Spec => []OnlyForeignDnsBlocked
<1>1. IInv => OnlyForeignDnsBlocked
  <2> SUFFICES ASSUME IInv, NEW t \in Traffic, Blocked(t)
               PROVE  t.dns /\ ~t.own /\ ~t.tunnel
    BY DEF OnlyForeignDnsBlocked
  <2>1. PICK s \in open :
            /\ "block" \in filters[s] /\ Matches("block", t)
            /\ \A f \in filters[s] : Matches(f, t) => Weight[f] <= Weight["block"]
    BY DEF Blocked
  <2>2. "permit" \in filters[s] /\ "tun" \in filters[s]
    BY <2>1 DEF IInv, BlockGuarded
  <2>3. ~Matches("permit", t) /\ ~Matches("tun", t)
    BY <2>1, <2>2 DEF Weight
  <2> QED  BY <2>1, <2>3 DEF Matches
<1> QED  BY <1>1, Inductive, PTL

\* Between requests monitorEnforceDns has made the filters follow the switch, but
\* for those of the sessions it could not close.
THEOREM FiltersFollowSwitch == Spec => []FiltersFollow
<1>1. IInv => FiltersFollow
  <2> SUFFICES ASSUME IInv, at["main"] = "running", at["monitor"] = "receive"
               PROVE  FiltersFollow
    BY DEF FiltersFollow
  <2>1. Settled
    BY DEF IInv, BeforeClose, AtRest
  <2>2. Leftover
    BY DEF IInv, BeforeClose
  <2>3. /\ enforce <=> fwpmSession # None
        /\ open = unclosed \cup ({fwpmSession} \ {None})
        /\ fwpmSession \notin unclosed
    BY <2>1, <2>2, NoneAssumption DEF Settled, Single, Nothing, Leftover
  <2>4. \A s \in open : filters[s] = Full
    BY <2>1, <2>2 DEF Settled, Single, Nothing, Leftover
  <2>5. open # {} <=> enforce \/ unclosed # {}
    BY <2>3
  <2>6. ASSUME NEW t \in Traffic
        PROVE  Blocked(t) <=> /\ enforce \/ unclosed # {}
                              /\ t.ipv4 /\ t.dns /\ ~t.own /\ ~t.tunnel
    <3>1. Blocked(t) <=> /\ open # {} /\ Matches("block", t)
                         /\ \A f \in Full : Matches(f, t) => Weight[f] <= 10
      BY <2>4 DEF Blocked, Full, Weight
    <3>2. Blocked(t) <=> /\ open # {} /\ Matches("block", t)
                         /\ ~Matches("permit", t) /\ ~Matches("tun", t)
      BY <3>1 DEF Full, Weight
    <3> QED  BY <2>5, <3>2 DEF Matches
  <2> QED  BY <2>3, <2>6 DEF FiltersFollow
<1> QED  BY <1>1, Inductive, PTL

=============================================================================
