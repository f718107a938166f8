---------------------------- MODULE RelayProofs ----------------------------
(***************************************************************************)
(* Safety of two of the handlers of remote sockets, the reverse NAT and    *)
(* the TCP relay, for any number of datagrams, clients and connections,    *)
(* any amount of data and any limit of the forwarder.                      *)
(***************************************************************************)
EXTENDS NatForwarder, TcpRelay, FiniteSetTheorems, TLAPS

-----------------------------------------------------------------------------
(* The reverse NAT.  IInv says that a record's channel is only closed when *)
(* the record has a socket, and that a goroutine past its receive has seen *)
(* that channel closed; a record gets one socket, as its channel can be    *)
(* closed only once.                                                       *)

AvailableHasSocket == \A r \in available : udp[r] # None

SocketIsPublished ==
    \A r \in Datagrams :
        udp[r] # None =>
            r \in available /\ pc[udp[r]] \in {"read", "readFailed", "done"}

SeenAvailable == \A d \in Datagrams : pc[d] = "forward" => conn[d] \in available

IInv == /\ TypeOK /\ AvailableHasSocket /\ SeenAvailable
        /\ WaitersHaveSocket /\ SocketIsPublished

-----------------------------------------------------------------------------
\* What the proofs need of the constants: the numbers of the datagrams do not
\* matter.
LEMMA NatTypes ==
    Addr \in [Datagrams -> Clients] /\ MaxAges \in Nat /\ None \notin Datagrams
BY NatAssumption

\* Initially there are no records and no sockets.
LEMMA InitInv == Init => IInv
<1> SUFFICES ASSUME Init PROVE IInv  OBVIOUS
<1>1. ages \in 0..MaxAges  BY NatTypes DEF Init
<1>2. TypeOK  BY <1>1 DEF Init, TypeOK
<1> QED
  BY <1>2 DEF Init, IInv, AvailableHasSocket, SeenAvailable,
              WaitersHaveSocket, SocketIsPublished

\* Before its record is published, a datagram changes the table only.
LEMMA CreateInv ==
    ASSUME IInv, NEW d \in Datagrams,
           \/ Receive(d) \/ Find(d) \/ DialFails(d) \/ Drop(d)
           \/ DialSucceeds(d) \/ PublishPanics(d)
    PROVE  IInv'
<1> USE NatTypes DEF IInv, records, cleaning
<1>1. Addr[d] \in Clients /\ Entry(d) \in Datagrams \cup {None}
  BY DEF TypeOK, Entry
<1>2. CASE Receive(d) \/ DialFails(d)
  <2>1. TypeOK'  BY <1>2 DEF Receive, DialFails, Goto, TypeOK
  <2> QED
    BY <1>2, <2>1 DEF Receive, DialFails, Goto, TypeOK, AvailableHasSocket,
                      SeenAvailable, WaitersHaveSocket, SocketIsPublished
<1>3. CASE Find(d)
  <2>1. TypeOK'  BY <1>1, <1>3 DEF Find, Goto, TypeOK
  <2>2. \A e \in Datagrams : pc'[e] = "forward" => e # d /\ pc[e] = "forward"
    BY <1>3 DEF Find, Goto, TypeOK
  <2>3. \A e \in Datagrams : e # d => conn'[e] = conn[e]
    BY <1>3 DEF Find, TypeOK
  <2>4. SocketIsPublished'  BY <1>3 DEF Find, Goto, TypeOK, SocketIsPublished
  <2> QED
    BY <1>3, <2>1, <2>2, <2>3, <2>4
    DEF Find, AvailableHasSocket, SeenAvailable, WaitersHaveSocket
<1>4. CASE Drop(d)
  BY <1>4 DEF Drop, Goto, TypeOK, AvailableHasSocket,
              SeenAvailable, WaitersHaveSocket, SocketIsPublished
<1>5. CASE DialSucceeds(d)
  BY <1>5 DEF DialSucceeds, Goto, TypeOK, AvailableHasSocket,
              SeenAvailable, WaitersHaveSocket, SocketIsPublished
<1>6. CASE PublishPanics(d)
  BY <1>6 DEF PublishPanics, Crash, TypeOK, AvailableHasSocket,
              SeenAvailable, WaitersHaveSocket, SocketIsPublished
<1> QED  BY <1>2, <1>3, <1>4, <1>5, <1>6

\* The socket is put into the record found before its channel is closed.
LEMMA PublishInv == ASSUME IInv, NEW d \in Datagrams, Publish(d) PROVE IInv'
<1> USE NatTypes DEF IInv, cleaning
<1>1. Entry(d) \in Datagrams  BY DEF Publish, Entry, TypeOK
<1>2. TypeOK'  BY <1>1 DEF Publish, Goto, TypeOK
<1>3. \A r \in Datagrams : udp[r] # None => udp'[r] # None
  BY <1>1 DEF Publish, TypeOK
<1>4. udp'[Entry(d)] # None  BY <1>1 DEF Publish, TypeOK
<1>5. AvailableHasSocket'
  BY <1>3, <1>4 DEF Publish, AvailableHasSocket, TypeOK
<1>6. SeenAvailable' /\ WaitersHaveSocket'
  <2>1. \A e \in Datagrams : pc'[e] = "forward" => pc[e] = "forward"
    BY DEF Publish, Goto, TypeOK
  <2>2. \A e \in Datagrams : conn'[e] = conn[e]  BY DEF Publish
  <2>3. available \subseteq available'  BY DEF Publish
  <2>4. SeenAvailable'  BY <2>1, <2>2, <2>3 DEF SeenAvailable
  <2> QED
    BY <2>4, <1>5, <1>2 DEF SeenAvailable, AvailableHasSocket, WaitersHaveSocket
<1>7. SocketIsPublished'  BY DEF Publish, Goto, TypeOK, SocketIsPublished
<1> QED  BY <1>2, <1>5, <1>6, <1>7

\* The rest of the goroutine that owns a socket.
LEMMA ReaderInv ==
    ASSUME IInv, NEW d \in Datagrams, ReadFails(d) \/ Remove(d) PROVE  IInv'
<1> USE NatTypes DEF IInv, records, cleaning
<1>1. Addr[d] \in Clients  OBVIOUS
<1>2. CASE ReadFails(d)
  BY <1>2 DEF ReadFails, Goto, TypeOK, AvailableHasSocket,
              SeenAvailable, WaitersHaveSocket, SocketIsPublished
<1>3. CASE Remove(d)
  BY <1>3 DEF Remove, Goto, TypeOK, AvailableHasSocket,
              SeenAvailable, WaitersHaveSocket, SocketIsPublished
<1> QED  BY <1>2, <1>3

\* A goroutine that found a record: past the receive it has a socket.
LEMMA WaiterInv ==
    ASSUME IInv, NEW d \in Datagrams,
           Wait(d) \/ ForwardData(d) \/ Exists(d) \/ Touch(d)
    PROVE  IInv'
<1> USE NatTypes DEF IInv, records, cleaning
<1>1. CASE Wait(d)
  BY <1>1 DEF Wait, Goto, TypeOK, AvailableHasSocket,
              SeenAvailable, WaitersHaveSocket, SocketIsPublished
<1>2. CASE ForwardData(d) \/ Exists(d)
  <2>1. TypeOK'  BY <1>2 DEF ForwardData, Exists, Goto, TypeOK
  <2> QED
    BY <1>2, <2>1 DEF ForwardData, Exists, Goto, TypeOK, AvailableHasSocket,
                      SeenAvailable, WaitersHaveSocket, SocketIsPublished
<1>3. CASE Touch(d)
  BY <1>3 DEF Touch, Goto, TypeOK, AvailableHasSocket,
              SeenAvailable, WaitersHaveSocket, SocketIsPublished
<1> QED  BY <1>1, <1>2, <1>3

\* The janitor closes sockets and deletes entries, but leaves the records.
LEMMA JanitorInv == ASSUME IInv, Janitor PROVE IInv'
<1> USE NatTypes DEF IInv, records
<1>1. CASE JanitorCheck \/ JanitorScan \/ JanitorPanics
  BY <1>1 DEF JanitorCheck, JanitorScan, JanitorPanics, Crash, cleaning,
              TypeOK, AvailableHasSocket, SeenAvailable, WaitersHaveSocket,
              SocketIsPublished
<1>2. CASE JanitorDelete
  BY <1>2 DEF JanitorDelete, TypeOK, AvailableHasSocket, SeenAvailable,
              WaitersHaveSocket, SocketIsPublished
<1> QED  BY <1>1, <1>2 DEF Janitor

\* So do Close, the passing of time and the end of the process.
LEMMA StepInv == IInv /\ [Next]_vars => IInv'
<1> SUFFICES ASSUME IInv, [Next]_vars PROVE IInv'  OBVIOUS
<1> USE NatTypes
<1>1. CASE UNCHANGED vars
  BY <1>1 DEF IInv, vars, records, cleaning, TypeOK, AvailableHasSocket,
              SeenAvailable, WaitersHaveSocket, SocketIsPublished
<1>2. CASE ConcurrentMapAccess \/ ClosePanics
  BY <1>2 DEF IInv, ConcurrentMapAccess, ClosePanics, Crash, records, cleaning,
              TypeOK, AvailableHasSocket, SeenAvailable, WaitersHaveSocket,
              SocketIsPublished
<1>3. CASE Close
  BY <1>3 DEF IInv, Close, records, cleaning, TypeOK, AvailableHasSocket,
              SeenAvailable, WaitersHaveSocket, SocketIsPublished
<1>4. CASE Age
  <2>1. TypeOK'  BY <1>4 DEF IInv, Age, Entries, cleaning, TypeOK
  <2> QED
    BY <1>4, <2>1 DEF IInv, Age, cleaning, AvailableHasSocket, SeenAvailable,
                      WaitersHaveSocket, SocketIsPublished
<1> QED
  BY <1>1, <1>2, <1>3, <1>4, CreateInv, PublishInv, ReaderInv, WaiterInv,
     JanitorInv
  DEF Next, Handle

-----------------------------------------------------------------------------
\* The invariant holds in every behaviour of the forwarder.
THEOREM Invariance == Spec => []IInv
BY InitInv, StepInv, PTL DEF Spec

\* The types of the forwarder's state.
THEOREM TypeCorrect == Spec => []TypeOK
<1>1. IInv => TypeOK  BY DEF IInv
<1> QED  BY <1>1, Invariance, PTL

\* conn.udp.WriteMsgUDP in handle never has a nil socket, in spite of the
\* entry being looked up anew when it is published.
THEOREM WaitersAreSafe == Spec => []WaitersHaveSocket
<1>1. IInv => WaitersHaveSocket  BY DEF IInv
<1> QED  BY <1>1, Invariance, PTL

-----------------------------------------------------------------------------
(* Who publishes a record: while it is in the table and its channel open,  *)
(* the goroutine that made it has yet to drop or to publish it.            *)

Dialling == {"dial", "dropping", "publish"}

TableInv ==
    /\ \A c \in Clients : connections[c] # None => Addr[connections[c]] = c
    /\ \A r \in Datagrams :
           connections[Addr[r]] = r /\ r \notin available => pc[r] \in Dialling
    /\ \A d \in Datagrams : pc[d] = "wait" => conn[d] \in Datagrams

\* A step that only takes entries out of the table keeps this.
LEMMA TableKept ==
    ASSUME TypeOK, TableInv,
           \A c \in Clients : connections'[c] \in {connections[c], None},
           available \subseteq available',
           \A r \in Datagrams :
               pc[r] \in Dialling =>
                   \/ pc'[r] \in Dialling \/ r \in available'
                   \/ connections'[Addr[r]] # r,
           \A d \in Datagrams :
               pc'[d] = "wait" => pc[d] = "wait" /\ conn'[d] = conn[d]
    PROVE  TableInv'
<1> USE NatTypes
<1>1. \A c \in Clients : connections'[c] # None => Addr[connections'[c]] = c
  BY DEF TableInv
<1>2. \A r \in Datagrams :
          connections'[Addr[r]] = r /\ r \notin available' => pc'[r] \in Dialling
  BY DEF TableInv
<1>3. \A d \in Datagrams : pc'[d] = "wait" => conn'[d] \in Datagrams
  BY DEF TableInv
<1> QED  BY <1>1, <1>2, <1>3 DEF TableInv

\* A goroutine enters its own record, or finds one that is there.
LEMMA TableFind ==
    ASSUME TypeOK, TableInv, NEW d \in Datagrams, Find(d) PROVE TableInv'
<1> USE NatTypes DEF Entry, Goto, Dialling
<1>1. \A e \in Datagrams \ {d} : pc'[e] = pc[e] /\ conn'[e] = conn[e]
  BY DEF Find, TypeOK
<1>2. pc[d] = "find" /\ available' = available  BY DEF Find
<1>3. CASE connections[Addr[d]] = None
  <2>1. /\ pc'[d] = "dial" /\ conn' = conn
        /\ connections' = [connections EXCEPT ![Addr[d]] = d]
    BY <1>3 DEF Find, TypeOK
  <2>2. \A c \in Clients : connections'[c] = IF c = Addr[d] THEN d ELSE connections[c]
    BY <2>1 DEF TypeOK
  <2>3. \A c \in Clients : connections'[c] # None => Addr[connections'[c]] = c
    BY <2>2 DEF TableInv
  <2>4. \A r \in Datagrams :
            connections'[Addr[r]] = r /\ r \notin available' => pc'[r] \in Dialling
    BY <1>1, <1>2, <2>1, <2>2 DEF TableInv
  <2>5. \A e \in Datagrams : pc'[e] = "wait" => conn'[e] \in Datagrams
    BY <1>1, <2>1 DEF TableInv
  <2> QED  BY <2>3, <2>4, <2>5 DEF TableInv
<1>4. CASE connections[Addr[d]] # None
  <2>1. /\ pc'[d] = "wait" /\ connections' = connections
        /\ conn'[d] = connections[Addr[d]] /\ conn'[d] \in Datagrams
    BY <1>4 DEF Find, TypeOK
  <2>2. \A r \in Datagrams :
            connections'[Addr[r]] = r /\ r \notin available' => pc'[r] \in Dialling
    BY <1>1, <1>2, <2>1 DEF TableInv
  <2>3. \A e \in Datagrams : pc'[e] = "wait" => conn'[e] \in Datagrams
    BY <1>1, <2>1 DEF TableInv
  <2> QED  BY <2>1, <2>2, <2>3 DEF TableInv
<1> QED  BY <1>3, <1>4

\* A goroutine's own record is the one it publishes, or no longer in the table.
LEMMA TablePublish ==
    ASSUME TypeOK, TableInv, NEW d \in Datagrams, Publish(d) PROVE TableInv'
<1>1. \A r \in Datagrams : r # d => pc'[r] = pc[r]
  BY DEF Publish, Goto, TypeOK
<1>2. pc'[d] = "read" /\ connections' = connections /\ conn' = conn
  BY DEF Publish, Goto, TypeOK
<1>3. available' = available \cup {connections[Addr[d]]}
  BY DEF Publish, Entry
<1>4. \A r \in Datagrams :
          pc[r] \in Dialling =>
              \/ pc'[r] \in Dialling \/ r \in available'
              \/ connections'[Addr[r]] # r
  BY <1>1, <1>2, <1>3
<1>5. \A c \in Clients : connections'[c] \in {connections[c], None}
  BY <1>2
<1>6. \A e \in Datagrams :
          pc'[e] = "wait" => pc[e] = "wait" /\ conn'[e] = conn[e]
  BY <1>1, <1>2
<1> QED  BY <1>3, <1>4, <1>5, <1>6, TableKept

LEMMA TableStep == TypeOK /\ TableInv /\ [Next]_vars => TableInv'
<1> SUFFICES ASSUME TypeOK, TableInv, [Next]_vars PROVE TableInv'  OBVIOUS
<1> USE NatTypes DEF records, cleaning, Dialling
<1>1. ASSUME UNCHANGED <<pc, connections, conn, available>> PROVE TableInv'
  BY <1>1 DEF TableInv
<1>2. ASSUME NEW d \in Datagrams,
             \/ Receive(d) \/ DialFails(d) \/ Drop(d) \/ DialSucceeds(d)
             \/ ReadFails(d) \/ Remove(d)
             \/ Wait(d) \/ ForwardData(d) \/ Exists(d) \/ Touch(d)
      PROVE  TableInv'
  <2>1. conn' = conn /\ available' = available
    BY <1>2 DEF Receive, DialFails, Drop, DialSucceeds, ReadFails,
                Remove, Wait, ForwardData, Exists, Touch
  <2>2. \/ connections' = connections
        \/ connections' = [connections EXCEPT ![Addr[d]] = None]
    BY <1>2 DEF Receive, DialFails, Drop, DialSucceeds, ReadFails,
                Remove, Wait, ForwardData, Exists, Touch
  <2>3. \A c \in Clients : connections'[c] \in {connections[c], None}
    BY <2>2 DEF TypeOK
  <2>4. /\ \A r \in Datagrams : r # d => pc'[r] = pc[r]
        /\ pc'[d] # "wait"
        /\ pc[d] \in Dialling =>
               \/ pc'[d] \in Dialling
               \/ connections' = [connections EXCEPT ![Addr[d]] = None]
    BY <1>2 DEF Receive, DialFails, Drop, DialSucceeds, ReadFails,
                Remove, Wait, ForwardData, Exists, Touch, Goto, TypeOK
  <2>5. \A r \in Datagrams :
            pc[r] \in Dialling =>
                \/ pc'[r] \in Dialling \/ r \in available'
                \/ connections'[Addr[r]] # r
    BY <2>4 DEF TypeOK
  <2>6. \A e \in Datagrams :
            pc'[e] = "wait" => pc[e] = "wait" /\ conn'[e] = conn[e]
    BY <2>1, <2>4
  <2> QED  BY <2>1, <2>3, <2>5, <2>6, TableKept
<1>3. CASE JanitorDelete
  <2>1. /\ UNCHANGED <<pc, conn, available>>
        /\ connections' = [c \in Clients |->
                              IF c \in keysToDelete THEN None ELSE connections[c]]
    BY <1>3 DEF JanitorDelete
  <2>2. \A c \in Clients : connections'[c] \in {connections[c], None}
    BY <2>1
  <2> QED  BY <2>1, <2>2, TableKept
<1>4. CASE \/ JanitorCheck \/ JanitorScan \/ JanitorPanics
           \/ ConcurrentMapAccess \/ Close \/ ClosePanics \/ Age
  BY <1>1, <1>4
  DEF JanitorCheck, JanitorScan, JanitorPanics, Crash,
      ConcurrentMapAccess, Close, ClosePanics, Age
<1>5. CASE UNCHANGED vars  BY <1>1, <1>5 DEF vars
<1>6. ASSUME NEW d \in Datagrams, PublishPanics(d) PROVE TableInv'
  BY <1>1, <1>6 DEF PublishPanics, Crash
<1> QED
  BY <1>2, <1>3, <1>4, <1>5, <1>6, TableFind, TablePublish
  DEF Next, Handle, Janitor

LEMMA TableInvariance == Spec => []TableInv
<1>1. Init => TableInv
  BY NatTypes DEF Init, TableInv
<1>2. IInv => TypeOK  BY DEF IInv
<1> QED  BY <1>1, <1>2, TableStep, Invariance, PTL DEF Spec

\* <-conn.available: somebody will close the channel, or nobody ever can.
THEOREM WaitersAreNotAlone == Spec => []WaitersHaveDialer
<1>1. TableInv => WaitersHaveDialer
  BY DEF TableInv, Dialling, WaitersHaveDialer, Forgotten
<1> QED  BY <1>1, TableInvariance, PTL

\* connections[addr] in handle names the record of that client, and only the
\* goroutine of the record's own datagram ever enters it.
THEOREM ForgottenIsFinal == Spec => ForgottenForGood
<1>1. ASSUME TypeOK, TableInv, [Next]_vars
      PROVE  [\A r \in Datagrams :
                 pc[r] \notin {"unread", "find"} /\ Forgotten(r)
                     => Forgotten(r)']_vars
  <2> SUFFICES ASSUME NEW r \in Datagrams, pc[r] \notin {"unread", "find"},
                      r \notin available, connections[Addr[r]] # r, Next
               PROVE  r \notin available' /\ connections'[Addr[r]] # r
    BY <1>1 DEF Forgotten
  <2> USE NatTypes DEF records, cleaning
  <2>1. ASSUME NEW d \in Datagrams, Publish(d)
        PROVE  r \notin available' /\ connections'[Addr[r]] # r
    <3>1. connections[Addr[d]] # r  BY <1>1, <2>1 DEF TableInv, Publish, Entry, TypeOK
    <3> QED  BY <2>1, <3>1 DEF Publish, Entry
  <2>2. ASSUME NEW d \in Datagrams, Find(d)
        PROVE  r \notin available' /\ connections'[Addr[r]] # r
    <3>1. d # r /\ available' = available  BY <2>2 DEF Find, Goto
    <3> QED  BY <1>1, <2>2, <3>1 DEF Find, TypeOK
  <2>3. ASSUME available' = available,
               \A c \in Clients : connections'[c] \in {connections[c], None}
        PROVE  r \notin available' /\ connections'[Addr[r]] # r
    BY <2>3
  <2>4. ASSUME NEW d \in Datagrams,
               \/ Receive(d) \/ DialFails(d) \/ Drop(d) \/ DialSucceeds(d)
               \/ ReadFails(d) \/ Remove(d)
               \/ Wait(d) \/ ForwardData(d) \/ Exists(d) \/ Touch(d)
               \/ PublishPanics(d)
        PROVE  r \notin available' /\ connections'[Addr[r]] # r
    <3>1. /\ available' = available
          /\ \/ connections' = connections
             \/ connections' = [connections EXCEPT ![Addr[d]] = None]
      BY <2>4 DEF Receive, DialFails, Drop, DialSucceeds, ReadFails,
                  Remove, Wait, ForwardData, Exists, Touch,
                  PublishPanics, Crash
    <3> QED  BY <1>1, <2>3, <3>1 DEF TypeOK
  <2>5. CASE Janitor \/ ConcurrentMapAccess \/ Close \/ ClosePanics \/ Age
    BY <2>3, <2>5
    DEF Janitor, JanitorCheck, JanitorScan, JanitorDelete, JanitorPanics,
        Crash, ConcurrentMapAccess, Close, ClosePanics, Age
  <2> QED  BY <2>1, <2>2, <2>4, <2>5 DEF Next, Handle
<1>2. IInv => TypeOK  BY DEF IInv
<1> QED
  BY <1>1, <1>2, Invariance, TableInvariance, PTL DEF Spec, ForgottenForGood

\* forwardUtil.go under connectionsMutex: whoever deletes an entry closes the
\* socket it names, but for the goroutines of other datagrams at lines 137, 162.
THEOREM DeletedIsClosed == Spec => EntryNamesUntilClosed
<1>1. ASSUME IInv, [Next]_vars
      PROVE  [\A d \in Datagrams :
                 Entry(d) # None /\ udp[Entry(d)] = d /\ sock[d] = "open" =>
                     \/ connections'[Addr[d]] = Entry(d) /\ udp'[Entry(d)] = d
                     \/ sock'[d] = "closed"
                     \/ \E e \in Datagrams \ {d} :
                            /\ Addr[e] = Addr[d]
                            /\ pc[e] \in {"readFailed", "dropping"}
                            /\ pc'[e] = "done"]_vars
  <2> SUFFICES ASSUME NEW d \in Datagrams, Next,
                      Entry(d) # None, udp[Entry(d)] = d, sock[d] = "open",
                      sock'[d] # "closed",
                      ~\E e \in Datagrams \ {d} :
                            /\ Addr[e] = Addr[d]
                            /\ pc[e] \in {"readFailed", "dropping"}
                            /\ pc'[e] = "done"
               PROVE  connections'[Addr[d]] = Entry(d) /\ udp'[Entry(d)] = d
    BY <1>1
  <2> USE NatTypes DEF records, cleaning
  <2>1. Entry(d) \in Datagrams /\ Entry(d) \in available /\ TypeOK
    BY <1>1 DEF IInv, TypeOK, Entry, SocketIsPublished
  <2>2. ASSUME NEW e \in Datagrams, Publish(e)
        PROVE  connections'[Addr[d]] = Entry(d) /\ udp'[Entry(d)] = d
    BY <2>1, <2>2 DEF Publish, Entry, TypeOK
  <2>3. ASSUME NEW e \in Datagrams, Find(e)
        PROVE  connections'[Addr[d]] = Entry(d) /\ udp'[Entry(d)] = d
    BY <2>1, <2>3 DEF Find, Entry, TypeOK
  <2>4. ASSUME NEW e \in Datagrams, Drop(e) \/ Remove(e)
        PROVE  connections'[Addr[d]] = Entry(d) /\ udp'[Entry(d)] = d
    <3>1. /\ udp' = udp /\ pc[e] \in {"readFailed", "dropping"} /\ pc'[e] = "done"
          /\ connections' = [connections EXCEPT ![Addr[e]] = None]
      BY <2>1, <2>4 DEF Drop, Remove, Goto, TypeOK
    <3>2. pc[d] # "dropping"
      BY <1>1, <2>1 DEF IInv, SocketIsPublished
    <3>3. e # d  BY <2>1, <2>4, <3>2 DEF Drop, Remove, Goto, TypeOK
    <3>4. Addr[e] # Addr[d]  BY <3>1, <3>3
    <3> QED  BY <2>1, <3>1, <3>4 DEF Entry, TypeOK
  <2>5. ASSUME NEW e \in Datagrams,
               \/ Receive(e) \/ DialFails(e) \/ DialSucceeds(e) \/ ReadFails(e)
               \/ Wait(e) \/ ForwardData(e) \/ Exists(e) \/ Touch(e)
               \/ PublishPanics(e)
        PROVE  connections'[Addr[d]] = Entry(d) /\ udp'[Entry(d)] = d
    BY <2>5 DEF Receive, DialFails, DialSucceeds, ReadFails, Wait, ForwardData,
                Exists, Touch, PublishPanics, Crash, Entry
  <2>6. CASE JanitorDelete
    <3>1. Addr[d] \notin keysToDelete  BY <2>6 DEF JanitorDelete, Entry
    <3> QED  BY <2>6, <3>1 DEF JanitorDelete, Entry
  <2>7. CASE \/ JanitorCheck \/ JanitorScan \/ JanitorPanics
             \/ ConcurrentMapAccess \/ Close \/ ClosePanics \/ Age
    BY <2>7 DEF JanitorCheck, JanitorScan, JanitorPanics, Crash,
                ConcurrentMapAccess, Close, ClosePanics, Age, Entry
  <2> QED
    BY <2>2, <2>3, <2>4, <2>5, <2>6, <2>7 DEF Next, Handle, Janitor
<1> QED  BY <1>1, Invariance, PTL DEF Spec, EntryNamesUntilClosed

-----------------------------------------------------------------------------
(* The TCP relay.                                                          *)

\* What is open, and whether the other copy runs, at each place of HandleStream
\* and TcpHandle.
PlaceInv ==
    \A c \in Conns :
        /\ at[c] \in {"syn", "request"} =>
               tcp[c] = "none" /\ socket[c] = "none" /\ up[c] = "none"
        /\ at[c] = "dial" =>
               tcp[c] = "open" /\ socket[c] = "none" /\ up[c] = "none"
        /\ at[c] \in {"copy", "closeConn"} =>
               tcp[c] = "open" /\ socket[c] = "open"
        /\ at[c] = "closeTcp" => tcp[c] = "open" /\ socket[c] = "closed"
        /\ at[c] = "done" =>
               \/ tcp[c] # "closed" /\ socket[c] = "none" /\ up[c] = "none"
               \/ tcp[c] = "closed" /\ socket[c] = "closed"
        /\ sees[c] = "eof" => at[c] = "done" /\ socket[c] = "closed"

\* Why the copy towards the client has ended: a reset, or all is written.
DownInv ==
    \A c \in Conns :
        /\ at[c] \in {"closeConn", "closeTcp"} =>
               \/ client[c].rst \/ remote[c].rst
               \/ remote[c].fin /\ downBytes[c].written = remote[c].sent
        /\ sees[c] = "eof" =>
               remote[c].rst \/ downBytes[c].written = remote[c].sent

SlotInv == IsFiniteSet(inFlight) /\ SlotsHeld

TcpInv == TcpTypeOK /\ PlaceInv /\ StreamsFaithful /\ DownInv /\ SlotInv

\* What an end has sent is a count.
LEMMA PeerSent == \A p \in Peer : p.sent \in Nat
BY DEF Peer

\* What each act of an end does to its record.
LEMMA PeerFields ==
    ASSUME NEW p \in Peer
    PROVE  /\ p.sent \in Nat /\ p.rst \in BOOLEAN /\ p.fin \in BOOLEAN
           /\ p.full \in BOOLEAN
           /\ LET q == [p EXCEPT !.sent = @ + 1]
              IN  q \in Peer /\ q.sent = p.sent + 1 /\ q.rst = p.rst
           /\ LET q == [p EXCEPT !.fin = TRUE]
              IN  q \in Peer /\ q.sent = p.sent /\ q.rst = p.rst
           /\ LET q == [p EXCEPT !.rst = TRUE, !.full = FALSE]
              IN  q \in Peer /\ q.sent = p.sent /\ q.fin = p.fin /\ q.rst
           /\ LET q == [p EXCEPT !.full = ~@]
              IN  /\ q \in Peer /\ q.sent = p.sent /\ q.fin = p.fin
                  /\ q.rst = p.rst
<1> USE DEF Peer
<1>1. /\ p.sent \in Nat /\ p.rst \in BOOLEAN /\ p.fin \in BOOLEAN
      /\ p.sent + 1 \in Nat /\ p.full \in BOOLEAN /\ (~p.full) \in BOOLEAN
  OBVIOUS
<1>2. LET q == [p EXCEPT !.sent = @ + 1]
      IN  q \in Peer /\ q.sent = p.sent + 1 /\ q.rst = p.rst
  BY <1>1
<1>3. LET q == [p EXCEPT !.fin = TRUE]
      IN  q \in Peer /\ q.sent = p.sent /\ q.rst = p.rst
  BY <1>1
<1>4. LET q == [p EXCEPT !.rst = TRUE, !.full = FALSE]
      IN  q \in Peer /\ q.sent = p.sent /\ q.fin = p.fin /\ q.rst
  BY <1>1
<1>5. LET q == [p EXCEPT !.full = ~@]
      IN  q \in Peer /\ q.sent = p.sent /\ q.fin = p.fin /\ q.rst = p.rst
  BY <1>1
<1> QED  BY <1>1, <1>2, <1>3, <1>4, <1>5

LEMMA CopiedFields ==
    ASSUME NEW p \in Copied
    PROVE  /\ p.read \in Nat /\ p.written \in Nat
           /\ LET q == [p EXCEPT !.read = @ + 1]
              IN  q \in Copied /\ q.read = p.read + 1 /\ q.written = p.written
           /\ LET q == [p EXCEPT !.written = @ + 1]
              IN  q \in Copied /\ q.written = p.written + 1 /\ q.read = p.read
<1> QED  BY DEF Copied

\* The copies stay faithful if no end takes back what it sent, and a copy
\* reads or writes one byte it may.
LEMMA StreamsStep ==
    ASSUME TcpTypeOK, TcpTypeOK', StreamsFaithful, NEW c \in Conns,
           \A d \in Conns : /\ client[d].sent <= client'[d].sent
                            /\ remote[d].sent <= remote'[d].sent,
           \A d \in Conns :
               d # c => upBytes'[d] = upBytes[d] /\ downBytes'[d] = downBytes[d],
           \/ upBytes'[c] = upBytes[c]
           \/ /\ upBytes[c].read = upBytes[c].written
              /\ upBytes[c].read < client[c].sent
              /\ upBytes'[c].read = upBytes[c].read + 1
              /\ upBytes'[c].written = upBytes[c].written
           \/ /\ upBytes[c].written < upBytes[c].read
              /\ upBytes'[c].read = upBytes[c].read
              /\ upBytes'[c].written = upBytes[c].written + 1,
           \/ downBytes'[c] = downBytes[c]
           \/ /\ downBytes[c].read = downBytes[c].written
              /\ downBytes[c].read < remote[c].sent
              /\ downBytes'[c].read = downBytes[c].read + 1
              /\ downBytes'[c].written = downBytes[c].written
           \/ /\ downBytes[c].written < downBytes[c].read
              /\ downBytes'[c].read = downBytes[c].read
              /\ downBytes'[c].written = downBytes[c].written + 1
    PROVE  StreamsFaithful'
<1> SUFFICES ASSUME NEW d \in Conns
             PROVE  /\ upBytes'[d].written <= upBytes'[d].read
                    /\ upBytes'[d].read <= client'[d].sent
                    /\ upBytes'[d].read <= upBytes'[d].written + 1
                    /\ downBytes'[d].written <= downBytes'[d].read
                    /\ downBytes'[d].read <= remote'[d].sent
                    /\ downBytes'[d].read <= downBytes'[d].written + 1
  BY DEF StreamsFaithful
<1>1. /\ client[d] \in Peer /\ client'[d] \in Peer
      /\ remote[d] \in Peer /\ remote'[d] \in Peer
      /\ upBytes[d] \in Copied /\ upBytes'[d] \in Copied
      /\ downBytes[d] \in Copied /\ downBytes'[d] \in Copied
  BY DEF TcpTypeOK
<1>2. /\ client[d].sent \in Nat /\ client'[d].sent \in Nat
      /\ remote[d].sent \in Nat /\ remote'[d].sent \in Nat
      /\ upBytes[d].read \in Nat /\ upBytes[d].written \in Nat
      /\ upBytes'[d].read \in Nat /\ upBytes'[d].written \in Nat
      /\ downBytes[d].read \in Nat /\ downBytes[d].written \in Nat
      /\ downBytes'[d].read \in Nat /\ downBytes'[d].written \in Nat
  BY <1>1, PeerFields, CopiedFields
<1> HIDE DEF TcpTypeOK
<1>3. /\ upBytes[d].written <= upBytes[d].read
      /\ upBytes[d].read <= client[d].sent
      /\ upBytes[d].read <= upBytes[d].written + 1
      /\ downBytes[d].written <= downBytes[d].read
      /\ downBytes[d].read <= remote[d].sent
      /\ downBytes[d].read <= downBytes[d].written + 1
  BY DEF StreamsFaithful
<1>4. client[d].sent <= client'[d].sent /\ remote[d].sent <= remote'[d].sent
  OBVIOUS
<1>5. /\ upBytes'[d].written <= upBytes'[d].read
      /\ upBytes'[d].read <= client'[d].sent
      /\ upBytes'[d].read <= upBytes'[d].written + 1
  <2>1. CASE d = c  BY <1>2, <1>3, <1>4, <2>1
  <2>2. CASE d # c  BY <1>2, <1>3, <1>4, <2>2
  <2> QED  BY <2>1, <2>2
<1>6. /\ downBytes'[d].written <= downBytes'[d].read
      /\ downBytes'[d].read <= remote'[d].sent
      /\ downBytes'[d].read <= downBytes'[d].written + 1
  <2>1. CASE d = c  BY <1>2, <1>3, <1>4, <2>1
  <2>2. CASE d # c  BY <1>2, <1>3, <1>4, <2>2
  <2> QED  BY <2>1, <2>2
<1> QED  BY <1>5, <1>6

\* A connection begins with nothing open and nothing sent.
LEMMA TcpInitInv == TcpInit => TcpInv
<1> SUFFICES ASSUME TcpInit PROVE TcpInv  OBVIOUS
<1> USE TcpAssumption DEF TcpInit, NewPeer, NothingCopied
<1>1. TcpTypeOK  BY DEF TcpTypeOK, Peer, Copied
<1>2. PlaceInv /\ StreamsFaithful /\ DownInv
  BY DEF PlaceInv, StreamsFaithful, DownInv
<1>3. SlotInv
  <2>1. inFlight = {c \in Conns : at[c] = "request"}  OBVIOUS
  <2> QED  BY <2>1, FS_EmptySet DEF SlotInv, SlotsHeld
<1> QED  BY <1>1, <1>2, <1>3 DEF TcpInv

\* HandleStream and the dial: nothing has been copied yet.
LEMMA OpeningTypes ==
    ASSUME TcpInv, NEW c \in Conns,
           \/ Request(c) \/ CreateFails(c) \/ CreateEndpoint(c)
           \/ TcpDialFails(c) \/ TcpDialSucceeds(c)
    PROVE  TcpTypeOK' /\ PlaceInv' /\ StreamsFaithful' /\ DownInv'
<1> USE TcpAssumption DEF TcpInv, TcpTypeOK, PlaceInv, StreamsFaithful, DownInv,
                          TcpGoto, peers
<1>1. CASE Request(c)  BY <1>1 DEF Request
<1>2. CASE CreateFails(c)  BY <1>2 DEF CreateFails
<1>3. CASE CreateEndpoint(c)  BY <1>3 DEF CreateEndpoint
<1>4. CASE TcpDialFails(c)  BY <1>4 DEF TcpDialFails
<1>5. CASE TcpDialSucceeds(c)  BY <1>5 DEF TcpDialSucceeds
<1> QED  BY <1>1, <1>2, <1>3, <1>4, <1>5

\* The copies and the closes.
LEMMA CopyTypes ==
    ASSUME TcpInv, NEW c \in Conns,
           \/ UpRead(c) \/ UpWrite(c) \/ UpEnds(c)
           \/ DownRead(c) \/ DownWrite(c)
    PROVE  TcpTypeOK' /\ PlaceInv' /\ StreamsFaithful' /\ DownInv'
<1>1. /\ TcpTypeOK /\ PlaceInv /\ StreamsFaithful /\ DownInv
      /\ upBytes[c] \in Copied /\ downBytes[c] \in Copied
      /\ client[c] \in Peer /\ remote[c] \in Peer
  BY DEF TcpInv, TcpTypeOK
<1>2. /\ client[c].sent \in Nat /\ remote[c].sent \in Nat
      /\ upBytes[c].read \in Nat /\ upBytes[c].written \in Nat
      /\ downBytes[c].read \in Nat /\ downBytes[c].written \in Nat
      /\ MaxBytes[c] \in Nat
      /\ client[c].sent <= MaxBytes[c] /\ remote[c].sent <= MaxBytes[c]
  <2>1. client[c].sent \in 0..MaxBytes[c] /\ remote[c].sent \in 0..MaxBytes[c]
    BY <1>1 DEF TcpTypeOK
  <2>2. MaxBytes[c] \in Nat  BY TcpAssumption
  <2>3. upBytes[c].read \in Nat /\ upBytes[c].written \in Nat
    BY <1>1, CopiedFields
  <2>4. downBytes[c].read \in Nat /\ downBytes[c].written \in Nat
    BY <1>1, CopiedFields
  <2> QED  BY <2>1, <2>2, <2>3, <2>4
<1>3. ASSUME NEW q \in Copied, upBytes' = [upBytes EXCEPT ![c] = q],
             q.read <= MaxBytes[c],
             \/ /\ upBytes[c].read = upBytes[c].written
                /\ upBytes[c].read < client[c].sent
                /\ q.read = upBytes[c].read + 1 /\ q.written = upBytes[c].written
             \/ /\ upBytes[c].written < upBytes[c].read
                /\ q.read = upBytes[c].read /\ q.written = upBytes[c].written + 1,
             UNCHANGED <<at, inFlight, tcp, socket, up, client, remote,
                         downBytes, sees>>
      PROVE  TcpTypeOK' /\ PlaceInv' /\ StreamsFaithful' /\ DownInv'
  <2>1. upBytes'[c] = q /\ \A d \in Conns \ {c} : upBytes'[d] = upBytes[d]
    BY <1>1, <1>3 DEF TcpTypeOK
  <2>2. q.read \in 0..MaxBytes[c]  BY <1>2, <1>3, CopiedFields
  <2>3. TcpTypeOK'  BY <1>1, <1>3, <2>1, <2>2 DEF TcpTypeOK
  <2>4. PlaceInv' /\ DownInv'  BY <1>1, <1>3 DEF PlaceInv, DownInv
  <2>5. \A d \in Conns : /\ client[d].sent <= client'[d].sent
                         /\ remote[d].sent <= remote'[d].sent
    BY <1>1, <1>3, PeerSent DEF TcpTypeOK
  <2>6. StreamsFaithful'
    <3>1. downBytes'[c] = downBytes[c]  BY <1>3
    <3>2. \A d \in Conns :
              d # c => upBytes'[d] = upBytes[d] /\ downBytes'[d] = downBytes[d]
      BY <1>3, <2>1
    <3> QED  BY <1>1, <1>3, <2>1, <2>3, <2>5, <3>1, <3>2, StreamsStep
  <2> QED  BY <2>3, <2>4, <2>6
<1>4. ASSUME NEW q \in Copied, downBytes' = [downBytes EXCEPT ![c] = q],
             at[c] = "copy", q.read <= MaxBytes[c],
             \/ /\ downBytes[c].read = downBytes[c].written
                /\ downBytes[c].read < remote[c].sent
                /\ q.read = downBytes[c].read + 1
                /\ q.written = downBytes[c].written
             \/ /\ downBytes[c].written < downBytes[c].read
                /\ q.read = downBytes[c].read
                /\ q.written = downBytes[c].written + 1,
             UNCHANGED <<at, inFlight, tcp, socket, up, client, remote,
                         upBytes, sees>>
      PROVE  TcpTypeOK' /\ PlaceInv' /\ StreamsFaithful' /\ DownInv'
  <2>1. downBytes'[c] = q /\ \A d \in Conns \ {c} : downBytes'[d] = downBytes[d]
    BY <1>1, <1>4 DEF TcpTypeOK
  <2>2. q.read \in 0..MaxBytes[c]  BY <1>2, <1>4, CopiedFields
  <2>3. TcpTypeOK'  BY <1>1, <1>4, <2>1, <2>2 DEF TcpTypeOK
  <2>4. PlaceInv'  BY <1>1, <1>4 DEF PlaceInv
  <2>5. sees[c] # "eof"  BY <1>1, <1>4 DEF PlaceInv
  <2>6. DownInv'  BY <1>1, <1>4, <2>1, <2>5 DEF DownInv
  <2>7. \A d \in Conns : /\ client[d].sent <= client'[d].sent
                         /\ remote[d].sent <= remote'[d].sent
    BY <1>1, <1>4, PeerSent DEF TcpTypeOK
  <2>8. StreamsFaithful'
    <3>1. upBytes'[c] = upBytes[c]  BY <1>4
    <3>2. \A d \in Conns :
              d # c => upBytes'[d] = upBytes[d] /\ downBytes'[d] = downBytes[d]
      BY <1>4, <2>1
    <3> QED  BY <1>1, <1>4, <2>1, <2>3, <2>7, <3>1, <3>2, StreamsStep
  <2> QED  BY <2>3, <2>4, <2>6, <2>8
<1>5. CASE UpRead(c)
  <2> DEFINE q == [upBytes[c] EXCEPT !.read = @ + 1]
  <2>1. q \in Copied /\ q.read = upBytes[c].read + 1 /\ q.written = upBytes[c].written
    BY <1>1, CopiedFields
  <2>2. /\ upBytes' = [upBytes EXCEPT ![c] = q]
        /\ upBytes[c].read = upBytes[c].written
        /\ upBytes[c].read < client[c].sent
        /\ UNCHANGED <<at, inFlight, tcp, socket, up, client, remote, downBytes,
                       sees>>
    BY <1>5 DEF UpRead, peers
  <2>3. q.read <= MaxBytes[c]  BY <1>2, <2>1, <2>2
  <2> HIDE DEF q
  <2> QED  BY <1>3, <2>1, <2>2, <2>3
<1>6. CASE UpWrite(c)
  <2>1. CASE socket[c] = "open" /\ ~remote[c].rst
    <3> DEFINE q == [upBytes[c] EXCEPT !.written = @ + 1]
    <3>1. q \in Copied /\ q.read = upBytes[c].read /\ q.written = upBytes[c].written + 1
      BY <1>1, CopiedFields
    <3>2. /\ upBytes' = [upBytes EXCEPT ![c] = q]
          /\ upBytes[c].written < upBytes[c].read
          /\ UNCHANGED <<at, inFlight, tcp, socket, up, client, remote,
                         downBytes, sees>>
      BY <1>6, <2>1 DEF UpWrite, peers
    <3>3. q.read <= MaxBytes[c]  BY <1>1, <1>2, <3>1 DEF StreamsFaithful
    <3> HIDE DEF q
    <3> QED  BY <1>3, <3>1, <3>2, <3>3
  <2>2. CASE ~(socket[c] = "open" /\ ~remote[c].rst)
    BY <1>1, <1>6, <2>2
    DEF UpWrite, TcpTypeOK, PlaceInv, StreamsFaithful, DownInv, peers
  <2> QED  BY <2>1, <2>2
<1>7. CASE UpEnds(c)
  BY <1>1, <1>7 DEF UpEnds, TcpTypeOK, PlaceInv, StreamsFaithful, DownInv, peers
<1>8. CASE DownRead(c)
  <2> DEFINE q == [downBytes[c] EXCEPT !.read = @ + 1]
  <2>1. q \in Copied /\ q.read = downBytes[c].read + 1 /\ q.written = downBytes[c].written
    BY <1>1, CopiedFields
  <2>2. /\ downBytes' = [downBytes EXCEPT ![c] = q] /\ at[c] = "copy"
        /\ downBytes[c].read = downBytes[c].written
        /\ downBytes[c].read < remote[c].sent
        /\ UNCHANGED <<at, inFlight, tcp, socket, up, client, remote, upBytes,
                       sees>>
    BY <1>8 DEF DownRead, peers
  <2>3. q.read <= MaxBytes[c]  BY <1>2, <2>1, <2>2
  <2> HIDE DEF q
  <2> QED  BY <1>4, <2>1, <2>2, <2>3
<1>9. CASE DownWrite(c)
  <2>1. CASE client[c].rst
    BY <1>1, <1>9, <2>1
    DEF DownWrite, TcpTypeOK, PlaceInv, StreamsFaithful, DownInv, peers
  <2>2. CASE ~client[c].rst
    <3> DEFINE q == [downBytes[c] EXCEPT !.written = @ + 1]
    <3>1. q \in Copied /\ q.read = downBytes[c].read /\ q.written = downBytes[c].written + 1
      BY <1>1, CopiedFields
    <3>2. /\ downBytes' = [downBytes EXCEPT ![c] = q] /\ at[c] = "copy"
          /\ downBytes[c].written < downBytes[c].read
          /\ UNCHANGED <<at, inFlight, tcp, socket, up, client, remote,
                         upBytes, sees>>
      BY <1>9, <2>2 DEF DownWrite, peers
    <3>3. q.read <= MaxBytes[c]  BY <1>1, <1>2, <3>1 DEF StreamsFaithful
    <3> HIDE DEF q
    <3> QED  BY <1>4, <3>1, <3>2, <3>3
  <2> QED  BY <2>1, <2>2
<1> QED  BY <1>5, <1>6, <1>7, <1>8, <1>9

LEMMA CloseTypes ==
    ASSUME TcpInv, NEW c \in Conns, DownEnds(c) \/ CloseConn(c) \/ CloseTcp(c)
    PROVE  TcpTypeOK' /\ PlaceInv' /\ StreamsFaithful' /\ DownInv'
<1> USE TcpAssumption DEF TcpInv, TcpTypeOK, PlaceInv, StreamsFaithful, DownInv,
                          TcpGoto, peers
<1>1. CASE DownEnds(c)  BY <1>1 DEF DownEnds
<1>2. CASE CloseConn(c)  BY <1>2 DEF CloseConn
<1>3. CASE CloseTcp(c)  BY <1>3 DEF CloseTcp
<1> QED  BY <1>1, <1>2, <1>3

\* The ends act on an open connection only: what a clean end has told the
\* client stays true.
LEMMA PeerTypes ==
    ASSUME TcpInv, NEW c \in Conns, ClientActs(c) \/ RemoteActs(c)
    PROVE  TcpTypeOK' /\ PlaceInv' /\ StreamsFaithful' /\ DownInv'
<1>1. /\ TcpTypeOK /\ PlaceInv /\ StreamsFaithful /\ DownInv
      /\ client[c] \in Peer /\ remote[c] \in Peer /\ MaxBytes[c] \in Nat
      /\ client[c].sent \in 0..MaxBytes[c] /\ remote[c].sent \in 0..MaxBytes[c]
  BY TcpAssumption DEF TcpInv, TcpTypeOK
<1>2. CASE ClientActs(c)
  <2>1. PICK p \in Peer : /\ client' = [client EXCEPT ![c] = p]
                          /\ client[c].sent <= p.sent /\ p.sent \in 0..MaxBytes[c]
                          /\ client[c].rst => p.rst
    <3>1. \/ /\ client[c].sent < MaxBytes[c]
             /\ client' = [client EXCEPT ![c] = [client[c] EXCEPT !.sent = @ + 1]]
          \/ client' = [client EXCEPT ![c] = [client[c] EXCEPT !.fin = TRUE]]
          \/ client' = [client EXCEPT ![c] = [client[c] EXCEPT !.rst = TRUE, !.full = FALSE]]
          \/ client' = [client EXCEPT ![c] = [client[c] EXCEPT !.full = ~@]]
      BY <1>2 DEF ClientActs, Acts
    <3> DEFINE q1 == [client[c] EXCEPT !.sent = @ + 1]
               q2 == [client[c] EXCEPT !.fin = TRUE]
               q3 == [client[c] EXCEPT !.rst = TRUE, !.full = FALSE]
               q4 == [client[c] EXCEPT !.full = ~@]
    <3>2. /\ q1 \in Peer /\ q1.sent = client[c].sent + 1 /\ q1.rst = client[c].rst
          /\ q2 \in Peer /\ q2.sent = client[c].sent /\ q2.rst = client[c].rst
          /\ q3 \in Peer /\ q3.sent = client[c].sent /\ q3.fin = client[c].fin /\ q3.rst
          /\ q4 \in Peer /\ q4.sent = client[c].sent /\ q4.fin = client[c].fin
          /\ q4.rst = client[c].rst
      BY <1>1, PeerFields
    <3>3. \/ client[c].sent < MaxBytes[c] /\ client' = [client EXCEPT ![c] = q1]
          \/ client' = [client EXCEPT ![c] = q2]
          \/ client' = [client EXCEPT ![c] = q3]
          \/ client' = [client EXCEPT ![c] = q4]
      BY <3>1
    <3> HIDE DEF q1, q2, q3, q4
    <3>4. CASE client[c].sent < MaxBytes[c] /\ client' = [client EXCEPT ![c] = q1]
      <4>1. /\ client[c].sent <= q1.sent /\ q1.sent \in 0..MaxBytes[c]
            /\ client[c].rst => q1.rst
        BY <1>1, <3>2, <3>4
      <4> QED  BY <3>2, <3>4, <4>1
    <3>5. CASE client' = [client EXCEPT ![c] = q2]
      <4>1. /\ client[c].sent <= q2.sent /\ q2.sent \in 0..MaxBytes[c]
            /\ client[c].rst => q2.rst
        BY <1>1, <3>2, <3>5
      <4> QED  BY <3>2, <3>5, <4>1
    <3>6. CASE client' = [client EXCEPT ![c] = q3]
      <4>1. /\ client[c].sent <= q3.sent /\ q3.sent \in 0..MaxBytes[c]
            /\ client[c].rst => q3.rst
        BY <1>1, <3>2, <3>6
      <4> QED  BY <3>2, <3>6, <4>1
    <3>7. CASE client' = [client EXCEPT ![c] = q4]
      <4>1. /\ client[c].sent <= q4.sent /\ q4.sent \in 0..MaxBytes[c]
            /\ client[c].rst => q4.rst
        BY <1>1, <3>2, <3>7
      <4> QED  BY <3>2, <3>7, <4>1
    <3> QED  BY <3>3, <3>4, <3>5, <3>6, <3>7
  <2>2. /\ UNCHANGED <<at, inFlight, tcp, socket, up, remote, upBytes, downBytes,
                       sees>>
        /\ tcp[c] = "open"
    BY <1>2 DEF ClientActs
  <2>3. client'[c] = p /\ \A d \in Conns \ {c} : client'[d] = client[d]
    BY <1>1, <2>1 DEF TcpTypeOK
  <2>4. TcpTypeOK'  BY <1>1, <2>1, <2>2, <2>3 DEF TcpTypeOK
  <2>5. PlaceInv'  BY <1>1, <2>2 DEF PlaceInv
  <2>6. DownInv'  BY <1>1, <2>1, <2>2, <2>3 DEF DownInv
  <2>7. \A d \in Conns : /\ client[d].sent <= client'[d].sent
                         /\ remote[d].sent <= remote'[d].sent
    BY <1>1, <2>1, <2>2, <2>3, PeerSent DEF TcpTypeOK
  <2>8. StreamsFaithful'  BY <1>1, <2>2, <2>4, <2>7, StreamsStep
  <2> QED  BY <2>4, <2>5, <2>6, <2>8
<1>3. CASE RemoteActs(c)
  <2>1. PICK p \in Peer : /\ remote' = [remote EXCEPT ![c] = p]
                          /\ remote[c].sent <= p.sent /\ p.sent \in 0..MaxBytes[c]
                          /\ remote[c].rst => p.rst
                          /\ remote[c].fin => p.sent = remote[c].sent /\ p.fin
    <3>1. \/ /\ ~remote[c].fin /\ remote[c].sent < MaxBytes[c]
             /\ remote' = [remote EXCEPT ![c] = [remote[c] EXCEPT !.sent = @ + 1]]
          \/ /\ ~remote[c].fin
             /\ remote' = [remote EXCEPT ![c] = [remote[c] EXCEPT !.fin = TRUE]]
          \/ remote' = [remote EXCEPT ![c] = [remote[c] EXCEPT !.rst = TRUE, !.full = FALSE]]
          \/ remote' = [remote EXCEPT ![c] = [remote[c] EXCEPT !.full = ~@]]
      BY <1>3 DEF RemoteActs, Acts
    <3> DEFINE q1 == [remote[c] EXCEPT !.sent = @ + 1]
               q2 == [remote[c] EXCEPT !.fin = TRUE]
               q3 == [remote[c] EXCEPT !.rst = TRUE, !.full = FALSE]
               q4 == [remote[c] EXCEPT !.full = ~@]
    <3>2. /\ q1 \in Peer /\ q1.sent = remote[c].sent + 1 /\ q1.rst = remote[c].rst
          /\ q2 \in Peer /\ q2.sent = remote[c].sent /\ q2.rst = remote[c].rst
          /\ q3 \in Peer /\ q3.sent = remote[c].sent /\ q3.fin = remote[c].fin /\ q3.rst
          /\ q4 \in Peer /\ q4.sent = remote[c].sent /\ q4.fin = remote[c].fin
          /\ q4.rst = remote[c].rst
      BY <1>1, PeerFields
    <3>3. \/ remote[c].sent < MaxBytes[c] /\ remote' = [remote EXCEPT ![c] = q1] /\ ~remote[c].fin
          \/ remote' = [remote EXCEPT ![c] = q2] /\ ~remote[c].fin
          \/ remote' = [remote EXCEPT ![c] = q3]
          \/ remote' = [remote EXCEPT ![c] = q4]
      BY <3>1
    <3> HIDE DEF q1, q2, q3, q4
    <3>4. CASE remote[c].sent < MaxBytes[c] /\ remote' = [remote EXCEPT ![c] = q1] /\ ~remote[c].fin
      <4>1. /\ remote[c].sent <= q1.sent /\ q1.sent \in 0..MaxBytes[c]
            /\ remote[c].rst => q1.rst
            /\ remote[c].fin => q1.sent = remote[c].sent /\ q1.fin
        BY <1>1, <3>2, <3>4
      <4> QED  BY <3>2, <3>4, <4>1
    <3>5. CASE remote' = [remote EXCEPT ![c] = q2] /\ ~remote[c].fin
      <4>1. /\ remote[c].sent <= q2.sent /\ q2.sent \in 0..MaxBytes[c]
            /\ remote[c].rst => q2.rst
            /\ remote[c].fin => q2.sent = remote[c].sent /\ q2.fin
        BY <1>1, <3>2, <3>5
      <4> QED  BY <3>2, <3>5, <4>1
    <3>6. CASE remote' = [remote EXCEPT ![c] = q3]
      <4>1. /\ remote[c].sent <= q3.sent /\ q3.sent \in 0..MaxBytes[c]
            /\ remote[c].rst => q3.rst
            /\ remote[c].fin => q3.sent = remote[c].sent /\ q3.fin
        BY <1>1, <3>2, <3>6
      <4> QED  BY <3>2, <3>6, <4>1
    <3>7. CASE remote' = [remote EXCEPT ![c] = q4]
      <4>1. /\ remote[c].sent <= q4.sent /\ q4.sent \in 0..MaxBytes[c]
            /\ remote[c].rst => q4.rst
            /\ remote[c].fin => q4.sent = remote[c].sent /\ q4.fin
        BY <1>1, <3>2, <3>7
      <4> QED  BY <3>2, <3>7, <4>1
    <3> QED  BY <3>3, <3>4, <3>5, <3>6, <3>7
  <2>2. /\ UNCHANGED <<at, inFlight, tcp, socket, up, client, upBytes, downBytes,
                       sees>>
        /\ socket[c] = "open"
    BY <1>3 DEF RemoteActs
  <2>3. remote'[c] = p /\ \A d \in Conns \ {c} : remote'[d] = remote[d]
    BY <1>1, <2>1 DEF TcpTypeOK
  <2>4. TcpTypeOK'  BY <1>1, <2>1, <2>2, <2>3 DEF TcpTypeOK
  <2>5. PlaceInv'  BY <1>1, <2>2 DEF PlaceInv
  <2>6. at[c] # "closeTcp" /\ sees[c] # "eof"  BY <1>1, <2>2 DEF PlaceInv
  <2>7. DownInv'  BY <1>1, <2>1, <2>2, <2>3, <2>6 DEF DownInv
  <2>8. \A d \in Conns : /\ client[d].sent <= client'[d].sent
                         /\ remote[d].sent <= remote'[d].sent
    BY <1>1, <2>1, <2>2, <2>3, PeerSent DEF TcpTypeOK
  <2>9. StreamsFaithful'  BY <1>1, <2>2, <2>4, <2>8, StreamsStep
  <2> QED  BY <2>4, <2>5, <2>7, <2>9
<1> QED  BY <1>2, <1>3

\* A slot is taken with room left, and given back on both ways out.
LEMMA SlotStep == TcpInv /\ [TcpNext]_tcpVars => SlotInv'
<1> SUFFICES ASSUME TcpInv, [TcpNext]_tcpVars PROVE SlotInv'  OBVIOUS
<1> USE TcpAssumption
<1>1. ASSUME NEW c \in Conns, Request(c) PROVE SlotInv'
  <2>1. c \notin inFlight
    BY <1>1 DEF Request, TcpGoto, TcpInv, SlotInv, SlotsHeld
  <2>2. IsFiniteSet(inFlight') /\ Cardinality(inFlight') = Cardinality(inFlight) + 1
    BY <1>1, <2>1, FS_AddElement DEF Request, TcpInv, SlotInv
  <2>3. Cardinality(inFlight') <= MaxInFlight
    BY <1>1, <2>2, FS_CardinalityType DEF Request, TcpInv, SlotInv
  <2>4. inFlight' = {d \in Conns : at'[d] = "request"}
    BY <1>1 DEF Request, TcpGoto, TcpInv, TcpTypeOK, SlotInv, SlotsHeld
  <2> QED  BY <2>2, <2>3, <2>4 DEF SlotInv, SlotsHeld
<1>2. ASSUME NEW c \in Conns, CreateFails(c) \/ CreateEndpoint(c) PROVE SlotInv'
  <2>1. inFlight' = inFlight \ {c}
    BY <1>2 DEF CreateFails, CreateEndpoint
  <2>2. /\ IsFiniteSet(inFlight')
        /\ Cardinality(inFlight') \in Nat /\ Cardinality(inFlight) \in Nat
        /\ Cardinality(inFlight') <= Cardinality(inFlight)
    BY <2>1, FS_RemoveElement, FS_Subset, FS_CardinalityType DEF TcpInv, SlotInv
  <2>3. inFlight' = {d \in Conns : at'[d] = "request"}
    BY <1>2 DEF CreateFails, CreateEndpoint, TcpGoto, TcpInv, TcpTypeOK, SlotInv,
                SlotsHeld
  <2> QED  BY <2>2, <2>3 DEF TcpInv, SlotInv, SlotsHeld
<1>3. ASSUME UNCHANGED inFlight,
             \A d \in Conns : at'[d] = "request" <=> at[d] = "request"
      PROVE  SlotInv'
  BY <1>3 DEF TcpInv, SlotInv, SlotsHeld
<1>4. ASSUME NEW c \in Conns,
             \/ TcpDialFails(c) \/ TcpDialSucceeds(c) \/ DownRead(c)
             \/ DownWrite(c) \/ DownEnds(c) \/ CloseConn(c) \/ CloseTcp(c)
      PROVE  SlotInv'
  BY <1>3, <1>4 DEF TcpDialFails, TcpDialSucceeds, DownRead, DownWrite, DownEnds,
                    CloseConn, CloseTcp, TcpGoto, TcpInv, TcpTypeOK
<1>5. ASSUME NEW c \in Conns, Up(c) \/ ClientActs(c) \/ RemoteActs(c)
      PROVE  SlotInv'
  BY <1>3, <1>5 DEF Up, UpRead, UpWrite, UpEnds, ClientActs, RemoteActs
<1>6. CASE UNCHANGED tcpVars  BY <1>3, <1>6 DEF tcpVars
<1> QED  BY <1>1, <1>2, <1>4, <1>5, <1>6 DEF TcpNext, TcpHandler

\* The invariant holds in every behaviour of the relay.
THEOREM TcpInvariance == TcpSpec => []TcpInv
<1>1. TcpInv /\ UNCHANGED tcpVars
          => TcpTypeOK' /\ PlaceInv' /\ StreamsFaithful' /\ DownInv'
  BY DEF TcpInv, tcpVars, peers, TcpTypeOK, PlaceInv, StreamsFaithful, DownInv
<1>2. TcpInv /\ [TcpNext]_tcpVars => TcpInv'
  BY <1>1, OpeningTypes, CopyTypes, CloseTypes, PeerTypes, SlotStep
  DEF TcpInv, TcpNext, TcpHandler, Up
<1> QED  BY TcpInitInv, <1>2, PTL DEF TcpSpec

\* The types of the relay's state: no copy reads past what was sent.
THEOREM TcpTypes == TcpSpec => []TcpTypeOK
<1>1. TcpInv => TcpTypeOK  BY DEF TcpInv
<1> QED  BY <1>1, TcpInvariance, PTL

\* TcpHandle gives the client a clean end only of a complete stream.
THEOREM CleanEndIsComplete == TcpSpec => []DownComplete
<1>1. TcpInv => DownComplete  BY DEF TcpInv, DownInv, DownComplete
<1> QED  BY <1>1, TcpInvariance, PTL

\* io.Copy in both directions: nothing is skipped, repeated or made up.
THEOREM CopiesAreFaithful == TcpSpec => []StreamsFaithful
<1>1. TcpInv => StreamsFaithful  BY DEF TcpInv
<1> QED  BY <1>1, TcpInvariance, PTL

\* TcpHandle leaves nothing open but the endpoint of a failed dial, and closes
\* both ends under the other copy.
THEOREM NothingStaysOpen == TcpSpec => []ReturnsReleased
<1>1. TcpInv => ReturnsReleased
  BY DEF TcpInv, TcpTypeOK, PlaceInv, ReturnsReleased
<1> QED  BY <1>1, TcpInvariance, PTL

\* Complete is called once on every path of HandleStream.
THEOREM SlotsAreGivenBack == TcpSpec => []SlotsHeld
<1>1. TcpInv => SlotsHeld  BY DEF TcpInv, SlotInv
<1> QED  BY <1>1, TcpInvariance, PTL

=============================================================================
