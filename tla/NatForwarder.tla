---------------------------- MODULE NatForwarder ----------------------------
(***************************************************************************)
(* The reverse NAT of handler/remoteSocketHandler/udp/forwardUtil.go: a    *)
(* listener whose datagrams are forwarded to one destination, through a    *)
(* socket per client that a janitor closes after a time of inactivity.     *)
(*                                                                         *)
(* A member of Datagrams stands for one datagram, for its handle goroutine *)
(* and, when the client has no entry yet, for the `connection' record and  *)
(* the socket this goroutine creates.  The datagrams of a client are       *)
(* numbered in the order in which their goroutines get the mutex for the   *)
(* first time, as nothing tells them apart before.  The sections under     *)
(* connectionsMutex are single steps; between them anything may happen.    *)
(* The callbacks of the owner are not steps: they see none of this state.  *)
(***************************************************************************)
EXTENDS Naturals, FiniteSets

CONSTANTS
    Datagrams,     \* what the listener receives, numbered
    Clients,       \* the source addresses, the keys of f.connections
    Addr,          \* the source address of each datagram
    MaxAges,       \* bound on how often an entry becomes inactive
    None           \* nil

ASSUME NatAssumption ==
    /\ Datagrams \subseteq Nat
    /\ Addr \in [Datagrams -> Clients]
    /\ MaxAges \in Nat
    /\ None \notin Datagrams

VARIABLES
    pc,            \* where each handle goroutine is
    connections,   \* f.connections: the record of each client
    conn,          \* handle's local variable: the record it has found
    available,     \* the records whose channel has been closed
    udp,           \* the udp field of each record: whose socket it is
    sock,          \* the socket each goroutine has dialled
    stale,         \* the records inactive for longer than f.timeout
    ages,          \* how often a record has become inactive
    janitor,       \* where the janitor is
    keysToDelete,  \* the janitor's local variable
    closed,        \* f.closed, and the listener is closed
    crashed        \* a panic or a fatal error has ended the process

records == <<conn, available, udp, stale>>
cleaning == <<janitor, keysToDelete>>
vars == <<pc, connections, records, sock, ages, cleaning, closed, crashed>>

Init ==
    /\ pc = [d \in Datagrams |-> "unread"]
    /\ connections = [c \in Clients |-> None]
    /\ conn = [d \in Datagrams |-> None]
    /\ available = {}
    /\ udp = [d \in Datagrams |-> None]
    /\ sock = [d \in Datagrams |-> "nil"]
    /\ stale = {}
    /\ ages = 0
    /\ janitor = "check"
    /\ keysToDelete = {}
    /\ closed = FALSE
    /\ crashed = FALSE

Entry(d) == connections[Addr[d]]

Goto(d, from, to) ==
    /\ ~crashed
    /\ pc[d] = from
    /\ pc' = [pc EXCEPT ![d] = to]

\* A panic in a goroutine without recover, or a fatal error of the runtime.
Crash ==
    /\ crashed' = TRUE
    /\ UNCHANGED <<pc, connections, records, sock, ages, cleaning, closed>>

\* The datagrams of the same client numbered before this one.
Earlier(d) == {e \in Datagrams : Addr[e] = Addr[d] /\ e < d}

-----------------------------------------------------------------------------
(* run and handle.                                                         *)

\* run reads a datagram and starts its goroutine; it ends with the listener.
Receive(d) ==
    /\ ~closed
    /\ \A e \in Earlier(d) : pc[e] # "unread"
    /\ Goto(d, "unread", "find")
    /\ UNCHANGED <<connections, records, sock, ages, cleaning, closed, crashed>>

\* Mutant: the new record's channel is already closed.
FindAvailable(d) ==
    /\ \A e \in Earlier(d) : pc[e] # "find"
    /\ Goto(d, "find", IF Entry(d) = None THEN "dial" ELSE "wait")
    /\ IF Entry(d) = None
       THEN /\ connections' = [connections EXCEPT ![Addr[d]] = d]
            /\ available' = available \cup {d}
            /\ UNCHANGED conn
       ELSE conn' = [conn EXCEPT ![d] = Entry(d)]
            /\ UNCHANGED <<connections, available>>
    /\ UNCHANGED <<udp, stale, sock, ages, cleaning, closed, crashed>>

\* The first datagram of a client makes an entry, without a socket yet.
Find(d) ==
    /\ \A e \in Earlier(d) : pc[e] # "find"
    /\ Goto(d, "find", IF Entry(d) = None THEN "dial" ELSE "wait")
    /\ IF Entry(d) = None
       THEN /\ connections' = [connections EXCEPT ![Addr[d]] = d]
            /\ UNCHANGED conn
       ELSE conn' = [conn EXCEPT ![d] = Entry(d)] /\ UNCHANGED connections
    /\ UNCHANGED <<available, udp, stale, sock, ages, cleaning, closed, crashed>>

\* DialUDP fails: the entry is deleted without the mutex, and the goroutines
\* that wait for the record keep waiting.
DialFails(d) ==
    /\ Goto(d, "dial", "dropping")
    /\ UNCHANGED <<connections, records, sock, ages, cleaning, closed, crashed>>

Drop(d) ==
    /\ Goto(d, "dropping", "done")
    /\ connections' = [connections EXCEPT ![Addr[d]] = None]
    /\ UNCHANGED <<records, sock, ages, cleaning, closed, crashed>>

\* Another goroutine's access to the map falls into that delete.
ConcurrentMapAccess ==
    /\ ~crashed
    /\ \E d \in Datagrams :
          /\ pc[d] = "dropping"
          /\ \/ janitor \in {"scan", "delete"}
             \/ \E e \in Datagrams \ {d} :
                   pc[e] \in {"find", "dropping", "publish", "readFailed",
                              "exists", "touch"}
    /\ Crash

DialSucceeds(d) ==
    /\ Goto(d, "dial", "publish")
    /\ sock' = [sock EXCEPT ![d] = "open"]
    /\ UNCHANGED <<connections, records, ages, cleaning, closed, crashed>>

\* Mutant: the channel is not closed.
PublishSilently(d) ==
    /\ Goto(d, "publish", "read")
    /\ Entry(d) # None /\ Entry(d) \notin available
    /\ udp' = [udp EXCEPT ![Entry(d)] = d]
    /\ stale' = stale \ {Entry(d)}
    /\ UNCHANGED <<connections, conn, available, sock, ages, cleaning, closed,
                   crashed>>

\* The entry is looked up again; it need not be the record made in Find.
Publish(d) ==
    /\ Goto(d, "publish", "read")
    /\ Entry(d) # None /\ Entry(d) \notin available
    /\ udp' = [udp EXCEPT ![Entry(d)] = d]
    /\ stale' = stale \ {Entry(d)}
    /\ available' = available \cup {Entry(d)}
    /\ UNCHANGED <<connections, conn, sock, ages, cleaning, closed, crashed>>

\* There is no entry any more (nil dereference), or its channel has been
\* closed by the goroutine of another datagram (close of closed channel).
PublishPanics(d) ==
    /\ ~crashed /\ pc[d] = "publish"
    /\ Entry(d) = None \/ Entry(d) \in available
    /\ Crash

\* ReadMsgUDP returns an error: the socket has been closed, or the network
\* reports one.
ReadFails(d) ==
    /\ Goto(d, "read", "readFailed")
    /\ UNCHANGED <<connections, records, sock, ages, cleaning, closed, crashed>>

\* The socket is closed and the client's entry deleted, whichever it is.
Remove(d) ==
    /\ Goto(d, "readFailed", "done")
    /\ sock' = [sock EXCEPT ![d] = "closed"]
    /\ connections' = [connections EXCEPT ![Addr[d]] = None]
    /\ UNCHANGED <<records, ages, cleaning, closed, crashed>>

\* A later datagram: <-conn.available
Wait(d) ==
    /\ conn[d] \in available
    /\ Goto(d, "wait", "forward")
    /\ UNCHANGED <<connections, records, sock, ages, cleaning, closed, crashed>>

\* It is written to the record's socket; an error is logged.
ForwardData(d) ==
    /\ Goto(d, "forward", "exists")
    /\ UNCHANGED <<connections, records, sock, ages, cleaning, closed, crashed>>

\* shouldChangeTime: lastActive is always before now + timeout / 4.
Exists(d) ==
    /\ Goto(d, "exists", IF Entry(d) # None THEN "touch" ELSE "done")
    /\ UNCHANGED <<connections, records, sock, ages, cleaning, closed, crashed>>

Touch(d) ==
    /\ Goto(d, "touch", "done")
    /\ stale' = stale \ {Entry(d)}
    /\ UNCHANGED <<connections, conn, available, udp, sock, ages, cleaning,
                   closed, crashed>>

-----------------------------------------------------------------------------
(* janitor, Close, and the passing of time.                                *)

\* for !f.closed { time.Sleep(f.timeout) ...
JanitorCheck ==
    /\ ~crashed /\ janitor = "check"
    /\ janitor' = IF closed THEN "stopped" ELSE "scan"
    /\ UNCHANGED <<pc, connections, records, sock, ages, keysToDelete, closed,
                   crashed>>

\* Mutant: the records are collected in place of their keys.
JanitorScanRecords ==
    /\ ~crashed /\ janitor = "scan"
    /\ janitor' = "delete"
    /\ keysToDelete' = {connections[c] : c \in Clients} \cap stale
    /\ UNCHANGED <<pc, connections, records, sock, ages, closed, crashed>>

\* Mutant: the comparison of the times is the wrong way round.
JanitorScanActive ==
    /\ ~crashed /\ janitor = "scan"
    /\ janitor' = "delete"
    /\ keysToDelete' = {c \in Clients : connections[c] \notin stale \cup {None}}
    /\ UNCHANGED <<pc, connections, records, sock, ages, closed, crashed>>

JanitorScan ==
    /\ ~crashed /\ janitor = "scan"
    /\ janitor' = "delete"
    /\ keysToDelete' = {c \in Clients : connections[c] \in stale}
    /\ UNCHANGED <<pc, connections, records, sock, ages, closed, crashed>>

\* What f.connections[k].udp.Close() needs; the read lock has been released
\* since the keys were collected.
CanClose(c) == connections[c] # None /\ udp[connections[c]] # None

\* Mutant: of the keys collected, the sockets of the clients still inactive
\* are closed.
JanitorDeleteStale ==
    /\ ~crashed /\ janitor = "delete"
    /\ \A c \in keysToDelete : CanClose(c)
    /\ janitor' = "check" /\ keysToDelete' = {}
    /\ sock' = [d \in Datagrams |->
                   IF \E c \in keysToDelete : /\ udp[connections[c]] = d
                                              /\ connections[c] \in stale
                   THEN "closed" ELSE sock[d]]
    /\ connections' = [c \in Clients |->
                          IF c \in keysToDelete THEN None ELSE connections[c]]
    /\ UNCHANGED <<pc, records, ages, closed, crashed>>

JanitorDelete ==
    /\ ~crashed /\ janitor = "delete"
    /\ \A c \in keysToDelete : CanClose(c)
    /\ janitor' = "check" /\ keysToDelete' = {}
    /\ sock' = [d \in Datagrams |->
                   IF \E c \in keysToDelete : udp[connections[c]] = d
                   THEN "closed" ELSE sock[d]]
    /\ connections' = [c \in Clients |->
                          IF c \in keysToDelete THEN None ELSE connections[c]]
    /\ UNCHANGED <<pc, records, ages, closed, crashed>>

JanitorPanics ==
    /\ ~crashed /\ janitor = "delete"
    /\ \E c \in keysToDelete : ~CanClose(c)
    /\ Crash

Entries == {connections[c] : c \in Clients} \ {None}

\* Close, called once by the owner: a record without a socket yet makes it
\* panic.
Close ==
    /\ ~crashed /\ ~closed
    /\ \A r \in Entries : udp[r] # None
    /\ closed' = TRUE
    /\ sock' = [d \in Datagrams |-> IF \E r \in Entries : udp[r] = d
                                    THEN "closed" ELSE sock[d]]
    /\ UNCHANGED <<pc, connections, records, ages, cleaning, crashed>>

ClosePanics ==
    /\ ~crashed /\ ~closed
    /\ \E r \in Entries : udp[r] = None
    /\ Crash

\* f.timeout passes since lastActive of an entry.
Age ==
    /\ ~crashed /\ ages < MaxAges
    /\ \E r \in Entries \ stale : stale' = stale \cup {r}
    /\ ages' = ages + 1
    /\ UNCHANGED <<pc, connections, conn, available, udp, sock, cleaning,
                   closed, crashed>>

Handle(d) ==
    \/ Find(d) \/ DialFails(d) \/ Drop(d) \/ DialSucceeds(d)
    \/ Publish(d) \/ PublishPanics(d) \/ Remove(d)
    \/ Wait(d) \/ ForwardData(d) \/ Exists(d) \/ Touch(d)

Janitor == JanitorCheck \/ JanitorScan \/ JanitorDelete \/ JanitorPanics

Next ==
    \/ \E d \in Datagrams : Receive(d) \/ Handle(d) \/ ReadFails(d)
    \/ Janitor
    \/ ConcurrentMapAccess \/ Close \/ ClosePanics \/ Age

\* The goroutines are scheduled, and the read of a closed socket returns.  An
\* open socket need not fail, and nobody has to send, to close or to wait.
Fairness ==
    /\ \A d \in Datagrams : /\ WF_vars(Handle(d))
                            /\ WF_vars(sock[d] = "closed" /\ ReadFails(d))
    /\ WF_vars(Janitor)

Spec == Init /\ [][Next]_vars /\ Fairness

-----------------------------------------------------------------------------
TypeOK ==
    /\ pc \in [Datagrams -> {"unread", "find", "dial", "dropping", "publish",
                             "read", "readFailed", "wait", "forward", "exists", "touch", "done"}]
    /\ connections \in [Clients -> Datagrams \cup {None}]
    /\ conn \in [Datagrams -> Datagrams \cup {None}]
    /\ available \subseteq Datagrams
    /\ udp \in [Datagrams -> Datagrams \cup {None}]
    /\ sock \in [Datagrams -> {"nil", "open", "closed"}]
    /\ stale \subseteq Datagrams
    /\ ages \in 0..MaxAges
    /\ janitor \in {"check", "scan", "delete", "stopped"}
    /\ keysToDelete \subseteq Clients
    /\ closed \in BOOLEAN
    /\ crashed \in BOOLEAN

\* A goroutine that gets past <-conn.available finds a socket in the record
\* it waited for, although the goroutine that published it may have been
\* another one than the record's own, and the janitor may have deleted it.
WaitersHaveSocket ==
    \A d \in Datagrams : pc[d] = "forward" => udp[conn[d]] # None

\* A client's entry goes on naming an open socket until the socket is closed:
\* the janitor closes what it deletes although the lock was released since it
\* collected the keys, and no later publication takes the entry over.  Only the
\* reader of an earlier socket of the client, and a failed dial, delete the entry
\* whatever it names (lines 162 and 137): such a socket stays open unnamed.
EntryNamesUntilClosed ==
    [][\A d \in Datagrams :
           Entry(d) # None /\ udp[Entry(d)] = d /\ sock[d] = "open" =>
               \/ connections'[Addr[d]] = Entry(d) /\ udp'[Entry(d)] = d
               \/ sock'[d] = "closed"
               \/ \E e \in Datagrams \ {d} :
                      /\ Addr[e] = Addr[d]
                      /\ pc[e] \in {"readFailed", "dropping"}
                      /\ pc'[e] = "done"]_vars

\* A record that has left the table without a socket, as its dial failed or
\* the reader of an earlier socket of the client removed it: nobody will
\* close its channel any more.
Forgotten(r) == r \notin available /\ connections[Addr[r]] # r

\* A record once forgotten stays so: no later datagram's goroutine finds it in
\* the table again, and its waiters are not released by another one's socket.
ForgottenForGood ==
    [][\A r \in Datagrams :
           pc[r] \notin {"unread", "find"} /\ Forgotten(r) => Forgotten(r)']_vars

\* A goroutine that waits for a record still has somebody to wait for: the
\* goroutine that made the record is about to publish it, unless the record is
\* forgotten; which goroutine publishes which record is decided anew each time.
WaitersHaveDialer ==
    \A d \in Datagrams :
        pc[d] = "wait" =>
            \/ conn[d] \in available \/ Forgotten(conn[d])
            \/ pc[conn[d]] \in {"dial", "dropping", "publish"}

\* Every datagram is handled to its end: the goroutines waiting for a record
\* are released unless it is forgotten, or the process has panicked.
HandlersServed ==
    \A d \in Datagrams :
        pc[d] = "find" ~>
            \/ pc[d] \in {"read", "done"} \/ crashed
            \/ pc[d] = "wait" /\ Forgotten(conn[d])

\* The janitor disconnects an inactive client, while the forwarder is open.
InactiveDisconnected ==
    \A c \in Clients :
        connections[c] \in stale ~>
            connections[c] \notin stale \/ closed \/ crashed

=============================================================================
