--------------------------- MODULE WinRoutesProofs ---------------------------
(***************************************************************************)
(* Theorems about the choice of a route (RouteSelect), the routes on       *)
(* Windows (WinRoutes) and the dials that use them (WinDialer), for        *)
(* addresses of any width, any table and any number of dials.              *)
(***************************************************************************)
EXTENDS WinDialer, FiniteSetTheorems, WellFoundedInduction, TLAPS

-----------------------------------------------------------------------------
(* The order of route.go.                                                  *)

\* Less is a strict weak order, which is what sort.Sort asks of it.
THEOREM LessIsStrictWeakOrder ==
    ASSUME NEW a, NEW b, NEW c,
           a.BitCount \in Int, b.BitCount \in Int, c.BitCount \in Int,
           a.Metric \in Int, b.Metric \in Int, c.Metric \in Int
    PROVE  /\ ~Less(a, a)
           /\ Less(a, b) => ~Less(b, a)
           /\ Less(a, b) /\ Less(b, c) => Less(a, c)
           /\ ~Less(a, b) /\ ~Less(b, a) /\ ~Less(b, c) /\ ~Less(c, b)
              => ~Less(a, c) /\ ~Less(c, a)
BY DEF Less

\* The unstable sort leaves a choice between routes of equal rank only.
LEMMA ChoiceHasOneRank ==
    ASSUME NEW ip, NEW rs,
           \A r \in rs : r.BitCount \in Int /\ r.Metric \in Int,
           NEW r \in FindContainRoute(ip, rs), NEW s \in FindContainRoute(ip, rs)
    PROVE  r.BitCount = s.BitCount /\ r.Metric = s.Metric
<1>1. CASE {t \in rs : Contains(t, ip)} = {}
  BY <1>1 DEF FindContainRoute
<1>2. CASE {t \in rs : Contains(t, ip)} # {}
  <2>1. r \in rs /\ s \in rs /\ ~Less(s, r) /\ ~Less(r, s)
    BY <1>2 DEF FindContainRoute
  <2>2. QED
    BY <2>1 DEF Less
<1>3. QED
  BY <1>1, <1>2

\* A set of naturals, finite or not, has a least element.
LEMMA LeastNatural ==
    ASSUME NEW T, T \subseteq Nat, T # {}
    PROVE  \E n \in T : \A m \in T : n <= m
<1> DEFINE R == {ss \in Nat \X Nat : ss[1] < ss[2]}
<1>1. IsWellFoundedOn(R, Nat)
  BY NatLessThanWellFounded, Zenon DEF OpToRel
<1>2. PICK n \in T : \A m \in T : <<m, n>> \notin R
  <2> HIDE DEF R
  <2>1. QED
    BY <1>1, WFMin
<1>3. ASSUME NEW m \in T PROVE n <= m
  <2>1. <<m, n>> \notin R /\ m \in Nat /\ n \in Nat
    BY <1>2
  <2>2. ~(m < n)
    BY <2>1
  <2>3. QED
    BY <2>1, <2>2
<1>4. QED
  BY <1>3

\* The look-up always has an answer, which contains the destination whenever
\* any route does: sorting by Less leaves a route first that none precedes,
\* even among infinitely many, since bits and metrics are bounded.
THEOREM RouteIsFound ==
    ASSUME NEW ip, NEW rs, NEW most \in Nat,
           \A r \in rs : r.BitCount \in 0..most /\ r.Metric \in Nat
    PROVE  /\ FindContainRoute(ip, rs) # {}
           /\ (\E r \in rs : Contains(r, ip)) =>
                  \A r \in FindContainRoute(ip, rs) : r \in rs /\ Contains(r, ip)
<1> DEFINE C == {r \in rs : Contains(r, ip)}
<1>1. CASE C = {}
  BY <1>1 DEF FindContainRoute
<1>2. CASE C # {}
  <2> DEFINE Missing == {most - r.BitCount : r \in C}
  <2>1. PICK n \in Missing : \A m \in Missing : n <= m
    <3>1. Missing \subseteq Nat /\ Missing # {}
      BY <1>2
    <3> HIDE DEF Missing
    <3>2. QED
      BY <3>1, LeastNatural
  <2> DEFINE Best == {r \in C : most - r.BitCount = n}
  <2> DEFINE Costs == {r.Metric : r \in Best}
  <2>2. PICK k \in Costs : \A m \in Costs : k <= m
    <3>1. Best # {} /\ Costs \subseteq Nat /\ Costs # {}
      BY <2>1
    <3> HIDE DEF Costs
    <3>2. QED
      BY <3>1, LeastNatural
  <2>3. PICK r \in Best : r.Metric = k
    BY <2>2
  <2>4. ASSUME NEW s \in C PROVE ~Less(s, r)
    <3>1. most - r.BitCount <= most - s.BitCount
      BY <2>1, <2>3
    <3>2. s.BitCount = r.BitCount => r.Metric <= s.Metric
      BY <2>2, <2>3
    <3>3. /\ s.BitCount \in 0..most /\ s.Metric \in Nat
          /\ r.BitCount \in 0..most /\ r.Metric \in Nat
      BY <2>3
    <3> HIDE DEF C, Best
    <3>4. QED
      BY <3>1, <3>2, <3>3 DEF Less
  <2>5. r \in FindContainRoute(ip, rs)
    BY <1>2, <2>3, <2>4 DEF FindContainRoute
  <2>6. QED
    BY <1>2, <2>5 DEF FindContainRoute
<1>3. QED
  BY <1>1, <1>2

\* A longer mask counts at least the bits a shorter one does.
THEOREM CountBitsMonotone ==
    ASSUME NEW ip, NEW m \in Nat, NEW n \in Nat, m <= n
    PROVE  CountBits(ip, m) <= CountBits(ip, n)
<1> DEFINE B(k) == {i \in Positions : i < k /\ Visited(i) \in ip}
<1>1. IsFiniteSet(Positions)
  BY RouteAssumption, FS_Interval DEF Positions, Width
<1>2. IsFiniteSet(B(n)) /\ B(m) \subseteq B(n)
  <2>1. B(n) \subseteq Positions /\ B(m) \subseteq B(n)
    BY RouteAssumption DEF Positions, Width
  <2>2. QED
    BY <1>1, <2>1, FS_Subset
<1>3. Cardinality(B(m)) <= Cardinality(B(n))
  BY <1>2, FS_Subset
<1>4. QED
  BY <1>3 DEF CountBits

-----------------------------------------------------------------------------
(* Types.                                                                  *)

\* FindRoutes leaves the tunnel out, and each route is of the interface of a row.
LEMMA FoundInterface ==
    ASSUME NEW rows \in SUBSET Rows, NEW unknown, NEW unread,
           NEW r \in FindRoutes(rows, Adapters, Tun, unknown, unread)
    PROVE  /\ r.ifc \in {row.ifc : row \in Rows}
           /\ r.ifc # Tun /\ r.ifc # None
<1>1. PICK row \in rows :
          /\ row.ifc # Tun
          /\ r = CustomRoute(row, AdapterAddress(Adapters, row.ifc, unread))
  BY DEF FindRoutes, UsesRow
<1>2. r.ifc = row.ifc
  BY <1>1 DEF CustomRoute
<1>3. QED
  BY <1>1, <1>2, DialAssumption

\* What FindRoutes makes of a table of known rows is known.
LEMMA FoundIsKnown ==
    ASSUME NEW rows \in SUBSET Rows, NEW unknown \in SUBSET Faulty,
           NEW unread \in Unread
    PROVE  FindRoutes(rows, Adapters, Tun, unknown, unread) \subseteq FoundRows
<1>1. FindRoutes(rows, Adapters, Tun, unknown, unread)
          \subseteq FindRoutes(Rows, Adapters, Tun, {}, unread)
  BY DEF FindRoutes, UsesRow
<1>2. QED
  BY <1>1 DEF FoundRows

\* A route is chosen from those given, or is the default one.
LEMMA ChosenFrom ==
    ASSUME NEW ip, NEW rs, NEW r \in FindContainRoute(ip, rs)
    PROVE  r = DefaultRoute \/ r \in rs
BY DEF FindContainRoute

\* A known route belongs to the interface of a row, and never to the tunnel.
LEMMA KnownInterface ==
    ASSUME NEW r \in FoundRows
    PROVE  /\ r.ifc \in {row.ifc : row \in Rows}
           /\ r.ifc # Tun /\ r.ifc # None
<1>1. PICK unread \in Unread : r \in FindRoutes(Rows, Adapters, Tun, {}, unread)
  BY DEF FoundRows
<1>2. QED
  BY <1>1, FoundInterface

\* The routes the look-ups see are known: Routes, what a callback has found, or
\* part of one of them.
Known == /\ routes = None \/ routes \subseteq FoundRows
         /\ \A g \in Calls : found[g] \subseteq FoundRows

\* The types and, for the induction, the interface picked.
TypeInv == DialTypeOK /\ NotIntoTunnel

\* The step of a look-up, whole or torn, keeps the types.
LEMMA PicksType ==
    ASSUME TypeInv, NEW d \in Dials, NEW r, NEW why \in {"nil", "torn", "whole"},
           Picks(d, r, why), NEW ip, NEW rs \in SUBSET FoundRows,
           r \in FindContainRoute(ip, rs)
    PROVE  TypeInv'
<1>1. r = DefaultRoute \/ r \in FoundRows
  BY ChosenFrom
<1>2. r.ifc \in {row.ifc : row \in Rows} \cup {None} /\ r.ifc # Tun
  BY <1>1, KnownInterface, WinAssumption DEF DefaultRoute
<1>3. TypeOK'
  BY DEF TypeInv, DialTypeOK, TypeOK, Picks, vars
<1>4. /\ dial' \in [Dials -> {"idle", "picked", "bound", "free", "failed"}]
      /\ pick' \in [Dials -> {row.ifc : row \in Rows} \cup {None}]
      /\ cause' \in [Dials -> {"nil", "torn", "whole"}]
      /\ NotIntoTunnel'
  BY <1>2 DEF TypeInv, DialTypeOK, NotIntoTunnel, Picks
<1>5. QED
  BY <1>3, <1>4 DEF TypeInv, DialTypeOK

\* The steps of the callbacks keep the types of WinRoutes.
LEMMA RoutesType == TypeOK /\ [Next]_vars => TypeOK'
<1> SUFFICES ASSUME TypeOK, [Next]_vars PROVE TypeOK'
  OBVIOUS
<1> USE WinAssumption DEF TypeOK
<1>1. CASE UNCHANGED vars
  BY <1>1 DEF vars
<1>2. CASE Change
  <2>1. table' \subseteq Rows
    BY <1>2 DEF Change
  <2>2. QED
    BY <1>2, <2>1 DEF Change
<1>3. ASSUME NEW g \in Calls, Find(g) PROVE TypeOK'
  <2>1. PICK unknown \in SUBSET Faulty, unread \in Unread :
            /\ call' = [call EXCEPT ![g] = IF unknown = {} THEN "store" ELSE "storePart"]
            /\ found' = [found EXCEPT ![g] =
                            FindRoutes(table, Adapters, Tun, unknown, unread)]
    BY <1>3 DEF Find
  <2>2. FindRoutes(table, Adapters, Tun, unknown, unread) \subseteq FoundRows
    BY FoundIsKnown
  <2>3. found' \in [Calls -> SUBSET FoundRows]
    BY <2>1, <2>2
  <2>4. call' \in [Calls -> {"idle", "find", "store", "storePart"}]
    BY <2>1
  <2>5. UNCHANGED <<table, routes, fatal, changes>>
    BY <1>3 DEF Find
  <2>6. QED
    BY <2>3, <2>4, <2>5
<1>4. ASSUME NEW g \in Calls, FindFails(g) PROVE TypeOK'
  BY <1>4 DEF FindFails
<1>5. ASSUME NEW g \in Calls, Store(g) PROVE TypeOK'
  BY <1>5 DEF Store
<1>6. ASSUME NEW g \in Calls, Notify(g) \/ FindPanics(g) PROVE TypeOK'
  BY <1>6 DEF Notify, FindPanics
<1>7. QED
  BY <1>1, <1>2, <1>3, <1>4, <1>5, <1>6 DEF Next

\* Every step of a callback or of a dial keeps the types.
LEMMA DialStepType == TypeInv /\ [DialNext]_dialVars => TypeInv'
<1> SUFFICES ASSUME TypeInv, [DialNext]_dialVars PROVE TypeInv'
  OBVIOUS
<1>0. Known
  BY DEF TypeInv, DialTypeOK, TypeOK, Known
<1>1. CASE UNCHANGED dialVars
  BY <1>1 DEF dialVars, vars, TypeInv, DialTypeOK, TypeOK, NotIntoTunnel
<1>2. CASE Next /\ UNCHANGED <<dial, pick, cause>>
  BY <1>2, RoutesType DEF TypeInv, DialTypeOK, NotIntoTunnel
<1>3. ASSUME NEW d \in Dials, LookUp(d) PROVE TypeInv'
  <2> DEFINE Why == IF routes = None THEN "nil" ELSE "whole"
  <2>0. PICK ip \in Dests : \E r \in Choice(ip) : Picks(d, r, Why)
    BY <1>3 DEF LookUp
  <2>1. PICK r \in Choice(ip) : Picks(d, r, Why)
    BY <2>0
  <2>2. (IF routes = None THEN {} ELSE routes) \in SUBSET FoundRows
    BY <1>0 DEF Known
  <2>3. QED
    BY <2>1, <2>2, PicksType DEF Choice
<1>4. ASSUME NEW d \in Dials, LookUpTorn(d) PROVE TypeInv'
  <2> DEFINE Old == IF routes = None THEN {} ELSE routes
  <2>1. PICK g \in Calls :
            \E longer \in {Old, found[g]} : \E length :
                \E seen \in kSubset(length, longer), ip \in Dests :
                    \E r \in FindContainRoute(ip, seen) : Picks(d, r, "torn")
    BY <1>4 DEF LookUpTorn
  <2>2. \E seen \in SUBSET FoundRows, ip \in Dests :
            \E r \in FindContainRoute(ip, seen) : Picks(d, r, "torn")
    BY <1>0, <2>1 DEF Known, kSubset
  <2>3. QED
    BY <2>2, PicksType
<1>5. ASSUME NEW d \in Dials, LookUpOverruns(d) PROVE TypeInv'
  BY <1>5 DEF LookUpOverruns, TypeInv, DialTypeOK, TypeOK, NotIntoTunnel, vars
<1>6. ASSUME NEW d \in Dials, Bind(d) PROVE TypeInv'
  BY <1>6 DEF Bind, TypeInv, DialTypeOK, TypeOK, NotIntoTunnel, vars
<1>7. ASSUME NEW d \in Dials, HangUp(d) PROVE TypeInv'
  BY <1>7, WinAssumption
     DEF HangUp, TypeInv, DialTypeOK, TypeOK, NotIntoTunnel, vars
<1>8. QED
  BY <1>1, <1>2, <1>3, <1>4, <1>5, <1>6, <1>7 DEF DialNext, Dialling

\* The types and the tunnel together are inductive.
LEMMA TypeInvariance == DialSpec => []TypeInv
<1>1. DialInit => TypeInv
  <2> SUFFICES ASSUME DialInit PROVE TypeInv
    OBVIOUS
  <2>1. fatal \in BOOLEAN
    BY Zenon DEF DialInit, Init
  <2>2. TypeOK
    BY <2>1, WinAssumption DEF DialInit, Init, TypeOK
  <2>3. QED
    BY <2>1, <2>2, WinAssumption DEF DialInit, TypeInv, DialTypeOK, NotIntoTunnel
<1>2. QED
  BY <1>1, DialStepType, PTL DEF DialSpec

\* Routes, what the callbacks have found and the dials are well typed.
THEOREM DialTypes == DialSpec => []DialTypeOK
<1>1. TypeInv => DialTypeOK
  BY DEF TypeInv
<1>2. QED
  BY <1>1, TypeInvariance, PTL

\* No dial is ever bound to the tunnel's interface, for any route table and
\* however a look-up falls into the assignments of Routes.
THEOREM TunnelNeverChosen == DialSpec => []NotIntoTunnel
<1>1. TypeInv => NotIntoTunnel
  BY DEF TypeInv
<1>2. QED
  BY <1>1, TypeInvariance, PTL

-----------------------------------------------------------------------------
(* A default route in the table reaches the dials.                         *)

\* The slices hold a default route, and only a torn look-up, or one before the
\* first callback, misses it.
DefaultInv ==
    /\ routes # None => \E r \in routes : r.mask = 0
    /\ \A g \in Calls : call[g] = "store" => \E r \in found[g] : r.mask = 0
    /\ \A d \in Dials :
          dial[d] \in {"picked", "free"} /\ pick[d] = None => cause[d] # "whole"
    /\ \A d \in Dials : dial[d] = "free" => pick[d] = None

\* FindRoutes keeps the default route of a connected interface whose entry it
\* can get.
LEMMA DefaultFound ==
    ASSUME HasDefault, NEW unread
    PROVE  \E r \in FindRoutes(table, Adapters, Tun, {}, unread) : r.mask = 0
<1>1. PICK row \in table : row.mask = 0 /\ row.ifc # Tun /\ row.connected
  BY DEF HasDefault
<1>2. UsesRow(row, Tun, {})
  BY <1>1 DEF UsesRow
<1>3. CustomRoute(row, AdapterAddress(Adapters, row.ifc, unread)).mask = 0
  BY <1>1 DEF CustomRoute
<1>4. QED
  BY <1>2, <1>3 DEF FindRoutes

\* With a default route among the routes every look-up finds one of them.
LEMMA DefaultContains ==
    ASSUME NEW ip, NEW rs, \E r \in rs : r.mask = 0,
           NEW r \in FindContainRoute(ip, rs)
    PROVE  r \in rs
<1>1. PICK s \in rs : s.mask = 0
  OBVIOUS
<1>2. Contains(s, ip)
  BY <1>1, RouteAssumption DEF Contains, Positions, Width
<1>3. QED
  BY <1>1, <1>2 DEF FindContainRoute

\* While the table has a default route, no step loses it.
LEMMA DefaultStep ==
    TypeInv /\ HasDefault /\ DefaultInv /\ [DialNext]_dialVars => DefaultInv'
<1> SUFFICES ASSUME TypeInv, HasDefault, DefaultInv, [DialNext]_dialVars
             PROVE  DefaultInv'
  OBVIOUS
<1> USE DEF TypeInv, DialTypeOK, TypeOK
<1>1. CASE UNCHANGED dialVars
  BY <1>1 DEF dialVars, vars, DefaultInv
<1>2. CASE Next /\ UNCHANGED <<dial, pick, cause>>
  <2>1. ASSUME Change \/ \E g \in Calls : Notify(g) \/ FindPanics(g)
        PROVE  DefaultInv'
    BY <1>2, <2>1 DEF Change, Notify, FindPanics, DefaultInv
  <2>2. ASSUME NEW g \in Calls, Find(g) PROVE DefaultInv'
    <3>1. PICK unknown \in SUBSET Faulty, unread \in Unread :
              /\ call' = [call EXCEPT ![g] = IF unknown = {} THEN "store"
                                                             ELSE "storePart"]
              /\ found' = [found EXCEPT ![g] =
                              FindRoutes(table, Adapters, Tun, unknown, unread)]
      BY <2>2 DEF Find
    <3>2. ASSUME call'[g] = "store" PROVE \E r \in found'[g] : r.mask = 0
      <4>1. unknown = {}
        BY <3>1, <3>2
      <4>2. found'[g] = FindRoutes(table, Adapters, Tun, {}, unread)
        BY <3>1, <4>1
      <4> QED
        BY <4>2, DefaultFound
    <3>3. \A h \in Calls \ {g} : call'[h] = call[h] /\ found'[h] = found[h]
      BY <3>1
    <3>4. UNCHANGED <<routes, dial, pick, cause>>
      BY <1>2, <2>2 DEF Find
    <3>5. QED
      BY <3>2, <3>3, <3>4 DEF DefaultInv
  <2>3. ASSUME NEW g \in Calls, FindFails(g) PROVE DefaultInv'
    BY <1>2, <2>3 DEF FindFails, DefaultInv
  <2>4. ASSUME NEW g \in Calls, Store(g) PROVE DefaultInv'
    <3>1. call[g] = "store"
      BY <2>4 DEF Store, HasDefault, Readable
    <3>2. QED
      BY <1>2, <2>4, <3>1 DEF Store, DefaultInv
  <2>5. QED
    BY <1>2, <2>1, <2>2, <2>3, <2>4 DEF Next
<1>3. ASSUME NEW d \in Dials, LookUp(d) PROVE DefaultInv'
  <2> DEFINE Why == IF routes = None THEN "nil" ELSE "whole"
  <2>0. PICK ip \in Dests : \E r \in Choice(ip) : Picks(d, r, Why)
    BY <1>3 DEF LookUp
  <2>1. PICK r \in Choice(ip) : Picks(d, r, Why)
    BY <2>0
  <2>2. routes # None => r.ifc # None
    <3> SUFFICES ASSUME routes # None PROVE r.ifc # None
      OBVIOUS
    <3>1. r \in routes
      BY DefaultContains DEF Choice, DefaultInv
    <3>2. QED
      BY <3>1, KnownInterface
  <2>3. QED
    BY <2>1, <2>2 DEF Picks, DefaultInv, vars
<1>4. ASSUME NEW d \in Dials, LookUpTorn(d) PROVE DefaultInv'
  <2>1. PICK r : Picks(d, r, "torn")
    BY <1>4 DEF LookUpTorn
  <2>2. QED
    BY <2>1 DEF Picks, DefaultInv, vars
<1>5. ASSUME NEW d \in Dials, LookUpOverruns(d) PROVE DefaultInv'
  BY <1>5 DEF LookUpOverruns, DefaultInv, vars
<1>6. ASSUME NEW d \in Dials, Bind(d) PROVE DefaultInv'
  BY <1>6 DEF Bind, DefaultInv, vars
<1>7. ASSUME NEW d \in Dials, HangUp(d) PROVE DefaultInv'
  BY <1>7 DEF HangUp, DefaultInv, vars
<1>8. QED
  BY <1>1, <1>2, <1>3, <1>4, <1>5, <1>6, <1>7 DEF DialNext, Dialling

\* As long as the table keeps a default route, a dial whose look-up saw a whole
\* slice is bound to an interface.
THEOREM DialsAreBound == DialSpec => DialsBound
<1>1. DialInit => DefaultInv
  BY DEF DialInit, Init, DefaultInv
<1>2. DefaultInv => BoundWhenLoaded
  BY DEF DefaultInv, BoundWhenLoaded
<1>3. QED
  BY <1>1, <1>2, DefaultStep, TypeInvariance, PTL DEF DialSpec, DialsBound

=============================================================================
