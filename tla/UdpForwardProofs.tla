-------------------------- MODULE UdpForwardProofs --------------------------
(***************************************************************************)
(* Theorems about UdpForward, for any set of datagrams, hosts and routes.  *)
(***************************************************************************)
EXTENDS UdpForward, TLAPS

-----------------------------------------------------------------------------
(* The inductive invariant.                                                *)

\* A datagram in attachConnect has the identity readRemoteDate gave it.
IdentInv ==
    \A p \in Packets :
        \/ pc[p] \notin {"idle", "remote", "doh", "done"}
        \/ state[p] # None
        \/ sock[p] # "nil"
        => ident[p] \in Idents /\ ident[p][2] = Dst[p]

\* A goroutine only dials while the table has no entry for its identity, and
\* the entry stays absent until its own insert.
DialInv ==
    \A p \in Packets :
        pc[p] \in {"dial", "insert", "inserting"}
        => connections[ident[p]] = None

\* A socket belongs to the goroutine about to publish it or is published
\* under its own identity, and only a dialled connection has a reader.
SockInv ==
    \A p \in Packets :
        /\ run[p] # "none" => sock[p] # "nil"
        /\ sock[p] # "nil" =>
            \/ pc[p] \in {"insert", "inserting"}
            \/ pc[p] \in {"firstWrite", "done"} /\ connections[ident[p]] = p

\* What the table holds under an identity was dialled for that identity.
TableInv ==
    \A i \in Idents :
        connections[i] # None =>
            ident[connections[i]] = i /\ sock[connections[i]] # "nil"

\* What a goroutine found in the table, it found under its own identity.
StateInv ==
    \A p \in Packets :
        /\ pc[p] \in {"idle", "remote"} => state[p] = None
        /\ state[p] # None => /\ ident[state[p]] = ident[p]
                              /\ sock[state[p]] # "nil"
        /\ pc[p] = "write" \/ fate[p] = "sent" => state[p] # None
        /\ fate[p] = "sent" => pc[p] = "done"
        /\ pc[p] \in {"insert", "inserting", "firstWrite"} => sock[p] # "nil"

IInv == TypeOK /\ IdentInv /\ LockIsReturned /\ DialInv /\ SockInv /\ TableInv
               /\ StateInv

-----------------------------------------------------------------------------
(* The initial states.                                                     *)

\* The identity a route lookup gives names the datagram's destination.
LEMMA IdentifyType ==
    ASSUME NEW p \in Packets, NEW ip \in EgressIps
    PROVE  Identify(p, ip) \in Idents /\ Identify(p, ip)[2] = Dst[p]
BY UdpAssumption DEF Identify, Idents

\* The table is empty initially and every goroutine is at its start.
LEMMA InitInv == Init => IInv
<1> SUFFICES ASSUME Init PROVE IInv
  OBVIOUS
<1>1. TypeOK
  <2>1. enforceDns \in BOOLEAN
    BY Zenon DEF Init
  <2>2. QED
    BY <2>1 DEF Init, TypeOK, PC, Fates
<1>2. IdentInv /\ LockIsReturned /\ DialInv
  BY UdpAssumption DEF Init, IdentInv, LockIsReturned, DialInv
<1>3. SockInv /\ TableInv /\ StateInv
  BY DEF Init, SockInv, TableInv, StateInv
<1>4. QED
  BY <1>1, <1>2, <1>3 DEF IInv

-----------------------------------------------------------------------------
(* Type correctness is preserved; a look at the table needs IdentInv.      *)

\* Every step of the relay keeps the types; the identity needs its own invariant.
LEMMA TypeStep == TypeOK /\ IdentInv /\ [Next]_vars => TypeOK'
<1> SUFFICES ASSUME TypeOK, IdentInv, [Next]_vars PROVE TypeOK'
  OBVIOUS
<1> USE DEF TypeOK, PC, Fates, flow
<1>1. CASE UNCHANGED vars
  BY <1>1 DEF vars
<1>2. CASE ToggleEnforceDns
  BY <1>2 DEF ToggleEnforceDns
<1>3. CASE ConcurrentMapAccess
  BY <1>3 DEF ConcurrentMapAccess
<1>4. ASSUME NEW p \in Packets,
             HandlePacket(p) \/ ReadRemotePanics(p) \/ StartDoh(p) \/ EndDoh(p)
      PROVE  TypeOK'
  BY <1>4 DEF HandlePacket, ReadRemotePanics, StartDoh, EndDoh, Goto, Finish
<1>5. ASSUME NEW p \in Packets, ReadRemote(p) PROVE TypeOK'
  BY <1>5, IdentifyType DEF ReadRemote, Goto
<1>6. ASSUME NEW p \in Packets, Check(p) PROVE TypeOK'
  BY <1>6 DEF Check, Goto, IdentInv
<1>7. ASSUME NEW p \in Packets, Write(p) \/ Lock(p) \/ FirstWrite(p)
      PROVE  TypeOK'
  BY <1>7 DEF Write, Lock, FirstWrite, Goto, Finish, WriteFate
<1>8. ASSUME NEW p \in Packets, RecheckHit(p) \/ RecheckMiss(p)
      PROVE  TypeOK'
  BY <1>8 DEF RecheckHit, RecheckMiss, Goto, Finish, IdentInv
<1>9. ASSUME NEW p \in Packets, DialFails(p) \/ DialSucceeds(p)
      PROVE  TypeOK'
  BY <1>9 DEF DialFails, DialSucceeds, Goto, Finish
<1>10. ASSUME NEW p \in Packets, BeginInsert(p) \/ EndInsert(p)
       PROVE  TypeOK'
  BY <1>10 DEF BeginInsert, EndInsert, Goto
<1>11. ASSUME NEW c \in Packets, Reader(c) PROVE TypeOK'
  BY <1>11 DEF Reader, Reply, RunEnds, BeginDelete, EndDelete
<1>12. QED
  BY <1>1, <1>2, <1>3, <1>4, <1>5, <1>6, <1>7, <1>8, <1>9, <1>10, <1>11
     DEF Next, Handler

-----------------------------------------------------------------------------
(* The other conjuncts, action by action.                                  *)

Rest == IdentInv /\ LockIsReturned /\ DialInv /\ SockInv /\ TableInv /\ StateInv

\* Every step of the relay keeps the facts about lock, table and sockets.
LEMMA RestStep == IInv /\ TypeOK' /\ [Next]_vars => Rest'
<1> SUFFICES ASSUME IInv, TypeOK', [Next]_vars PROVE Rest'
  OBVIOUS
<1> USE UdpAssumption
    DEF IInv, Rest, TypeOK, IdentInv, LockIsReturned, DialInv, SockInv, TableInv,
        StateInv, flow
<1>1. CASE UNCHANGED vars
  BY <1>1 DEF vars
<1>2. CASE ToggleEnforceDns
  BY <1>2 DEF ToggleEnforceDns
<1>3. CASE ConcurrentMapAccess
  BY <1>3 DEF ConcurrentMapAccess
<1>4. ASSUME NEW p \in Packets,
             HandlePacket(p) \/ ReadRemotePanics(p) \/ StartDoh(p) \/ EndDoh(p)
      PROVE  Rest'
  <2>1. CASE HandlePacket(p)
    BY <2>1 DEF HandlePacket, Goto
  <2>2. CASE ReadRemotePanics(p)
    BY <2>2 DEF ReadRemotePanics, Goto, Finish
  <2>3. CASE StartDoh(p)
    BY <2>3 DEF StartDoh, Goto
  <2>4. CASE EndDoh(p)
    BY <2>4 DEF EndDoh, Goto, Finish
  <2>5. QED
    BY <1>4, <2>1, <2>2, <2>3, <2>4
<1>5. ASSUME NEW p \in Packets, ReadRemote(p) PROVE Rest'
  <2>1. PICK ip \in EgressIps : ident' = [ident EXCEPT ![p] = Identify(p, ip)]
    BY <1>5 DEF ReadRemote
  <2>2. sock[p] = "nil" /\ state[p] = None /\ pc[p] = "remote"
    BY <1>5 DEF ReadRemote, Goto
  <2>3. \A q \in Packets : q # p => ident'[q] = ident[q] /\ pc'[q] = pc[q]
    BY <1>5, <2>1 DEF ReadRemote, Goto
  <2>4. ident'[p] \in Idents /\ ident'[p][2] = Dst[p] /\ pc'[p] = "check"
    BY <1>5, <2>1, IdentifyType DEF ReadRemote, Goto
  <2>5. UNCHANGED <<connections, lock, state, sock, run, fate>>
    BY <1>5 DEF ReadRemote
  <2>6. IdentInv' /\ LockIsReturned' /\ DialInv'
    BY <2>2, <2>3, <2>4, <2>5
  <2>7. SockInv' /\ TableInv'
    BY <2>2, <2>3, <2>4, <2>5
  <2>8. StateInv'
    BY <2>2, <2>3, <2>4, <2>5
  <2>9. QED
    BY <2>6, <2>7, <2>8
<1>6. ASSUME NEW p \in Packets, Check(p) PROVE Rest'
  <2>1. connections[ident[p]] # None =>
            /\ ident[connections[ident[p]]] = ident[p]
            /\ sock[connections[ident[p]]] # "nil"
    BY <1>6 DEF Check, Goto
  <2>2. UNCHANGED <<connections, lock, ident, sock, run, fate>>
    BY <1>6 DEF Check
  <2>3. /\ pc[p] = "check" /\ pc'[p] \in {"lock", "write"}
        /\ pc'[p] = "write" => state'[p] # None
        /\ state'[p] = connections[ident[p]]
    BY <1>6 DEF Check, Goto
  <2>4. \A q \in Packets : q # p => pc'[q] = pc[q] /\ state'[q] = state[q]
    BY <1>6 DEF Check, Goto
  <2>5. IdentInv' /\ LockIsReturned' /\ DialInv'
    BY <2>2, <2>3, <2>4
  <2>6. SockInv' /\ TableInv'
    BY <2>2, <2>3, <2>4
  <2>7. StateInv'
    <3>1. state'[p] # None => /\ ident'[state'[p]] = ident'[p]
                              /\ sock'[state'[p]] # "nil"
      BY <2>1, <2>2, <2>3
    <3>2. fate[p] # "sent"
      BY <2>3
    <3>3. QED
      BY <3>1, <3>2, <2>2, <2>3, <2>4
  <2>8. QED
    BY <2>5, <2>6, <2>7
<1>7. ASSUME NEW p \in Packets, Write(p) PROVE Rest'
  BY <1>7 DEF Write, Goto, Finish, WriteFate
<1>8. ASSUME NEW p \in Packets, Lock(p) PROVE Rest'
  BY <1>8 DEF Lock, Goto
<1>9. ASSUME NEW p \in Packets, RecheckHit(p) PROVE Rest'
  BY <1>9 DEF RecheckHit, Goto, Finish
<1>10. ASSUME NEW p \in Packets, RecheckMiss(p) PROVE Rest'
  BY <1>10 DEF RecheckMiss, Goto
<1>11. ASSUME NEW p \in Packets, DialFails(p) PROVE Rest'
  BY <1>11 DEF DialFails, Goto, Finish
<1>12. ASSUME NEW p \in Packets, DialSucceeds(p) PROVE Rest'
  BY <1>12 DEF DialSucceeds, Goto
<1>13. ASSUME NEW p \in Packets, BeginInsert(p) PROVE Rest'
  BY <1>13 DEF BeginInsert, Goto
<1>14. ASSUME NEW p \in Packets, EndInsert(p) PROVE Rest'
  BY <1>14 DEF EndInsert, Goto
<1>15. ASSUME NEW p \in Packets, FirstWrite(p) PROVE Rest'
  BY <1>15 DEF FirstWrite, Goto, Finish, WriteFate
<1>16. ASSUME NEW c \in Packets, Reader(c) PROVE Rest'
  <2>1. UNCHANGED <<pc, ident, connections, lock, state, fate>>
    BY <1>16 DEF Reader, Reply, RunEnds, BeginDelete, EndDelete
  <2>2. \A q \in Packets : sock[q] = "nil" <=> sock'[q] = "nil"
    BY <1>16 DEF Reader, Reply, RunEnds, BeginDelete, EndDelete
  <2>3. \A q \in Packets : run[q] = "none" <=> run'[q] = "none"
    BY <1>16 DEF Reader, Reply, RunEnds, BeginDelete, EndDelete
  <2>4. QED
    BY <2>1, <2>2, <2>3
<1>17. QED
  BY <1>1, <1>2, <1>3, <1>4, <1>5, <1>6, <1>7, <1>8, <1>9, <1>10, <1>11,
     <1>12, <1>13, <1>14, <1>15, <1>16 DEF Next, Handler

\* The inductive invariant holds in every behaviour of the relay.
THEOREM Invariance == Spec => []IInv
<1>1. IInv /\ [Next]_vars => IInv'
  BY TypeStep, RestStep DEF IInv, Rest
<1>2. QED
  BY <1>1, InitInv, PTL DEF Spec

-----------------------------------------------------------------------------
(* What follows.                                                           *)

\* Every state the relay reaches is well typed.
THEOREM TypeCorrect == Spec => []TypeOK
<1>1. IInv => TypeOK
  BY DEF IInv
<1>2. QED
  BY <1>1, Invariance, PTL

\* attachConnect's double check works: one socket per identity.
THEOREM OneSocket == Spec => []OneSocketPerIdent
<1>1. IInv => OneSocketPerIdent
  BY UdpAssumption
     DEF IInv, OneSocketPerIdent, TypeOK, IdentInv, SockInv, DialInv, LockIsReturned
<1>2. QED
  BY <1>1, Invariance, PTL

\* The unlocked look at the table never yields a nil conn.
THEOREM Published == Spec => []PublishedIsDialled
<1>1. IInv => PublishedIsDialled
  BY DEF IInv, PublishedIsDialled, TypeOK, TableInv, StateInv
<1>2. QED
  BY <1>1, Invariance, PTL

\* The goroutine that holds the package lock is one that gives it back, and no
\* other goroutine is where the lock is needed.
THEOREM LockIsGivenBack == Spec => []LockIsReturned
<1>1. IInv => LockIsReturned
  BY DEF IInv
<1>2. QED
  BY <1>1, Invariance, PTL

\* Datagrams leave only towards their own destination.
THEOREM RemoteIsRight == Spec => []RightRemote
<1>1. IInv => RightRemote
  BY DEF IInv, RightRemote, TypeOK, IdentInv, StateInv
<1>2. QED
  BY <1>1, Invariance, PTL

\* No step of any goroutine replaces or removes an entry of the table.
THEOREM TableStable == Spec => EntriesStable
<1> DEFINE Stable == \A i \in Idents :
              connections[i] # None => connections'[i] = connections[i]
<1>1. IInv /\ [Next]_vars => [Stable]_connections
  <2> SUFFICES ASSUME IInv, [Next]_vars PROVE [Stable]_connections
    OBVIOUS
  <2>1. ASSUME NEW p \in Packets, EndInsert(p) PROVE Stable
    BY <2>1 DEF EndInsert, Goto, IInv, TypeOK, DialInv
  <2>2. CASE UNCHANGED connections
    BY <2>2
  <2>3. QED
    BY <2>1, <2>2
       DEF Next, Handler, Reader, vars, ToggleEnforceDns, ConcurrentMapAccess,
           HandlePacket, ReadRemotePanics, StartDoh, EndDoh, ReadRemote, Check,
           Write, Lock, RecheckHit, RecheckMiss, DialFails, DialSucceeds,
           BeginInsert, FirstWrite, Reply, RunEnds, BeginDelete, EndDelete
<1>2. QED
  BY <1>1, Invariance, PTL DEF Spec, EntriesStable
-----------------------------------------------------------------------------
(* The refinement of FlowTable needs three facts more.                     *)

\* A goroutine is undecided about its datagram until it ends, has its identity
\* from readRemoteDate on, and keeps to its flow's connection; a connection
\* that is being read is open.
FlowInv ==
    \A p \in Packets :
        /\ pc[p] # "done" => fate[p] = "pending"
        /\ pc[p] \in {"idle", "remote"} => ident[p] = NoIdent
        /\ state[p] # None => connections[ident[p]] = state[p]
        /\ run[p] = "copy" => sock[p] = "open"

\* Every step of the relay keeps these facts.
LEMMA FlowStep == IInv /\ FlowInv /\ [Next]_vars => FlowInv'
<1> SUFFICES ASSUME IInv, FlowInv, [Next]_vars PROVE FlowInv'
  OBVIOUS
<1> USE UdpAssumption
    DEF IInv, FlowInv, TypeOK, IdentInv, DialInv, StateInv, flow, Goto, Finish
<1>1. CASE UNCHANGED vars
  BY <1>1 DEF vars
<1>2. CASE ToggleEnforceDns \/ ConcurrentMapAccess
  BY <1>2 DEF ToggleEnforceDns, ConcurrentMapAccess
<1>3. ASSUME NEW p \in Packets,
             \/ HandlePacket(p) \/ ReadRemotePanics(p) \/ StartDoh(p)
             \/ EndDoh(p) \/ Lock(p) \/ BeginInsert(p)
      PROVE  FlowInv'
  BY <1>3 DEF HandlePacket, ReadRemotePanics, StartDoh, EndDoh, Lock,
              BeginInsert
<1>4. ASSUME NEW p \in Packets, ReadRemote(p) PROVE FlowInv'
  <2>1. \A q \in Packets : q # p => ident'[q] = ident[q] /\ pc'[q] = pc[q]
    BY <1>4 DEF ReadRemote
  <2>2. state[p] = None /\ pc[p] = "remote" /\ pc'[p] = "check"
    BY <1>4 DEF ReadRemote
  <2>3. UNCHANGED <<connections, state, sock, run, fate>>
    BY <1>4 DEF ReadRemote
  <2>4. QED
    BY <2>1, <2>2, <2>3
<1>5. ASSUME NEW p \in Packets, Check(p) PROVE FlowInv'
  BY <1>5 DEF Check
<1>6. ASSUME NEW p \in Packets, Write(p) PROVE FlowInv'
  BY <1>6 DEF Write
<1>7. ASSUME NEW p \in Packets, RecheckHit(p) \/ RecheckMiss(p)
      PROVE  FlowInv'
  BY <1>7 DEF RecheckHit, RecheckMiss
<1>8. ASSUME NEW p \in Packets, DialFails(p) \/ DialSucceeds(p)
      PROVE  FlowInv'
  BY <1>8 DEF DialFails, DialSucceeds
<1>9. ASSUME NEW p \in Packets, EndInsert(p) PROVE FlowInv'
  <2>1. \A q \in Packets : state[q] # None => ident[q] # ident[p]
    BY <1>9 DEF EndInsert
  <2>2. UNCHANGED <<ident, state, sock, run, fate>> /\ pc' = [pc EXCEPT ![p] = "firstWrite"]
    BY <1>9 DEF EndInsert
  <2>3. \A q \in Packets : state[q] # None => connections'[ident[q]] = state[q]
    BY <1>9, <2>1 DEF EndInsert
  <2>4. QED
    BY <1>9, <2>2, <2>3 DEF EndInsert
<1>10. ASSUME NEW p \in Packets, FirstWrite(p) PROVE FlowInv'
  <2>1. connections[ident[p]] = p
    BY <1>10 DEF FirstWrite, SockInv
  <2>2. QED
    BY <1>10, <2>1 DEF FirstWrite
<1>11. ASSUME NEW c \in Packets, Reader(c) PROVE FlowInv'
  BY <1>11 DEF Reader, Reply, RunEnds, BeginDelete, EndDelete
<1>12. QED
  BY <1>1, <1>2, <1>3, <1>4, <1>5, <1>6, <1>7, <1>8, <1>9, <1>10, <1>11
     DEF Next, Handler

\* Each step of a goroutine is a step of the flow table or none at all.
LEMMA FlowTableStep == IInv /\ FlowInv /\ [Next]_vars => [FT!Next]_FT!vars
<1> SUFFICES ASSUME IInv, FlowInv, [Next]_vars PROVE [FT!Next]_FT!vars
  OBVIOUS
<1> USE UdpAssumption
    DEF IInv, FlowInv, TypeOK, IdentInv, StateInv, flow, Goto, Finish, Via,
        FT!vars, Idents, FT!Flows
<1>1. CASE UNCHANGED vars
  BY <1>1 DEF vars
<1>2. CASE ToggleEnforceDns \/ ConcurrentMapAccess
  BY <1>2 DEF ToggleEnforceDns, ConcurrentMapAccess
<1>3. ASSUME NEW p \in Packets,
             \/ HandlePacket(p) \/ StartDoh(p) \/ Lock(p) \/ RecheckMiss(p)
             \/ BeginInsert(p) \/ BeginDelete(p) \/ EndDelete(p)
      PROVE  UNCHANGED FT!vars
  BY <1>3 DEF HandlePacket, StartDoh, Lock, RecheckMiss, BeginInsert,
              BeginDelete, EndDelete
<1>4. ASSUME NEW p \in Packets, Check(p) PROVE UNCHANGED FT!vars
  BY <1>4 DEF Check
<1>5. ASSUME NEW p \in Packets, ReadRemote(p) PROVE FT!Classify(p)
  BY <1>5 DEF ReadRemote, Identify, NoIdent, FT!Classify
<1>6. ASSUME NEW p \in Packets,
             ReadRemotePanics(p) \/ EndDoh(p) \/ RecheckHit(p) \/ DialFails(p)
      PROVE  FT!Settle(p)
  BY <1>6 DEF ReadRemotePanics, EndDoh, RecheckHit, DialFails, FT!Settle
<1>7. ASSUME NEW p \in Packets, Write(p) PROVE FT!Deliver(p) \/ FT!Settle(p)
  <2>1. connections[ident[p]] = state[p] /\ state[p] # None
    BY <1>7 DEF Write
  <2>2. ident[p] \in Idents /\ fate[p] = "pending" /\ state[p] \in Packets
    BY <1>7, <2>1 DEF Write
  <2>3. CASE sock[state[p]] = "open"
    <3>1. Via' = [Via EXCEPT ![p] = state[p]]
      BY <1>7, <2>3 DEF Write, WriteFate
    <3>2. FT!Deliver(p)
      BY <1>7, <2>1, <2>2, <2>3, <3>1 DEF Write, WriteFate, FT!Deliver
    <3>3. QED
      BY <3>2
  <2>4. CASE sock[state[p]] # "open"
    <3>1. Via' = Via
      BY <1>7, <2>2, <2>4 DEF Write, WriteFate
    <3>2. FT!Settle(p)
      BY <1>7, <2>2, <2>4, <3>1 DEF Write, WriteFate, FT!Settle
    <3>3. QED
      BY <3>2
  <2>5. QED
    BY <2>3, <2>4
<1>8. ASSUME NEW p \in Packets, DialSucceeds(p) PROVE FT!Dial(p)
  <2>1. \A d \in Packets : sock[d] # "nil" => ident[d] # ident[p]
    BY <1>8 DEF DialSucceeds, SockInv, DialInv, LockIsReturned
  <2>2. QED
    BY <1>8, <2>1 DEF DialSucceeds, FT!Dial
<1>9. ASSUME NEW p \in Packets, EndInsert(p) PROVE FT!Publish(p)
  BY <1>9 DEF EndInsert, DialInv, FT!Publish
<1>10. ASSUME NEW p \in Packets, FirstWrite(p)
       PROVE  FT!Deliver(p) \/ FT!Settle(p)
  <2>1. connections[ident[p]] = p
    BY <1>10 DEF FirstWrite, SockInv
  <2>2. ident[p] \in Idents /\ fate[p] = "pending"
    BY <1>10 DEF FirstWrite
  <2>3. CASE sock[p] = "open"
    <3>1. Via' = [Via EXCEPT ![p] = p]
      BY <1>10, <2>3 DEF FirstWrite, WriteFate
    <3>2. FT!Deliver(p)
      BY <1>10, <2>1, <2>2, <2>3, <3>1 DEF FirstWrite, WriteFate, FT!Deliver
    <3>3. QED
      BY <3>2
  <2>4. CASE sock[p] # "open"
    <3>1. Via' = Via
      BY <1>10, <2>2, <2>4 DEF FirstWrite, WriteFate
    <3>2. FT!Settle(p)
      BY <1>10, <2>2, <2>4, <3>1 DEF FirstWrite, WriteFate, FT!Settle
    <3>3. QED
      BY <3>2
  <2>5. QED
    BY <2>3, <2>4
<1>11. ASSUME NEW c \in Packets, Reply(c) PROVE \E q \in Packets : FT!Answer(q)
  BY <1>11 DEF Reply, FT!Answer
<1>12. ASSUME NEW c \in Packets, RunEnds(c) PROVE FT!Break(c)
  BY <1>12 DEF RunEnds, FT!Break
<1>13. QED
  BY <1>1, <1>2, <1>3, <1>4, <1>5, <1>6, <1>7, <1>8, <1>9, <1>10, <1>11,
     <1>12 DEF Next, Handler, Reader, FT!Next

\* The relay implements the flow table, for any set of datagrams, routes and
\* destinations.
THEOREM RelayIsFlowTable == Spec => ImplementsFlowTable
<1>1. Init => FlowInv /\ FT!Init
  BY DEF Init, FlowInv, FT!Init, Via, NoIdent, Idents, FT!Flows
<1>2. QED
  BY <1>1, FlowStep, FlowTableStep, Invariance, PTL
     DEF Spec, ImplementsFlowTable, FT!Spec
=============================================================================
