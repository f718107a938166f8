----------------------------- MODULE UdpForward -----------------------------
(***************************************************************************)
(* The UDP relay: handler/remoteSocketHandler/udp/forwardUdp.go and        *)
(* forwardState.go.                                                        *)
(*                                                                         *)
(* Every datagram read from the TUN device gets a goroutine of its own,    *)
(* which looks up the egress route, computes an identity string and        *)
(* attaches the datagram to the connection the table `connections' holds   *)
(* under that identity, dialling one first if there is none.  Each         *)
(* connection has a second goroutine, run(), that copies the replies back. *)
(*                                                                         *)
(* A member of Packets stands for one datagram, for its goroutine and for  *)
(* the connectionState the handler allocates for it (forwardUdp.go 209).   *)
(***************************************************************************)
EXTENDS Naturals, FiniteSets

CONSTANTS
    Packets,      \* the datagrams the stack delivers
    Sources,      \* the local source IPs of those datagrams
    Ports,        \* their source ports
    Remotes,      \* their destinations, the text "ip:port"
    EgressIps,    \* the values route.Ip takes in the routing table
    Texts,        \* the texts route.Ip.String() + port
    SrcIp, SrcPort, Dst,  \* header fields of each datagram
    IpPortText,   \* the concatenation route.Ip.String() + port
    DnsRemotes,   \* the destinations with port 53
    BadRemotes,   \* destinations whose text does not parse: IPv6, no brackets
    None          \* nil

ASSUME UdpAssumption ==
    /\ SrcIp \in [Packets -> Sources]
    /\ SrcPort \in [Packets -> Ports]
    /\ Dst \in [Packets -> Remotes]
    /\ IpPortText \in [EgressIps \X Ports -> Texts]
    /\ DnsRemotes \subseteq Remotes
    /\ BadRemotes \subseteq Remotes
    /\ DnsRemotes \cap BadRemotes = {}
    /\ None \notin Packets

VARIABLES
    pc,           \* where the goroutine of each datagram is
    enforceDns,   \* ContextClient.EnableEnforceDns with a DoH server set
    ident,        \* the identity string each datagram was given
    connections,  \* forwardState.connections
    lock,         \* the holder of forwardState.go's package lock
    state,        \* the connectionState attachConnect writes to
    sock,         \* connState.conn of each connectionState
    run,          \* where the run() goroutine of each connectionState is
    fate,         \* history: what became of each datagram
    replies,      \* history: <<q, c>>, the answer to q came back through c
    fatal         \* the runtime stopped the process: concurrent map access

flow == <<enforceDns, ident>>
vars == <<pc, flow, connections, lock, state, sock, run, fate, replies, fatal>>

Idents == Texts \X Remotes
NoIdent == <<None, None>>

\* Mutant: the key is the source alone, as the comment of the table has it.
IdentifySource(p, ip) == <<IpPortText[ip, SrcPort[p]], CHOOSE r \in Remotes : TRUE>>

\* route.Ip.String() + port + "-" + remoteAddressStr: the egress address of
\* the route, not the source address of the datagram.
Identify(p, ip) == <<IpPortText[ip, SrcPort[p]], Dst[p]>>

PC == {"idle", "remote", "doh", "check", "lock", "recheck", "dial", "insert",
       "inserting", "firstWrite", "write", "done"}

Fates == {"pending", "sent", "answered", "lost"}

Init ==
    /\ pc = [p \in Packets |-> "idle"]
    /\ enforceDns \in BOOLEAN
    /\ ident = [p \in Packets |-> NoIdent]
    /\ connections = [i \in Idents |-> None]
    /\ lock = None
    /\ state = [p \in Packets |-> None]
    /\ sock = [p \in Packets |-> "nil"]
    /\ run = [p \in Packets |-> "none"]
    /\ fate = [p \in Packets |-> "pending"]
    /\ replies = {}
    /\ fatal = FALSE

-----------------------------------------------------------------------------
\* The goroutine of p moves on from `from' to `to'; the process is alive.
Goto(p, from, to) ==
    /\ ~fatal
    /\ pc[p] = from
    /\ pc' = [pc EXCEPT ![p] = to]

\* The goroutine of p ends, and f is what became of its datagram.
Finish(p, from, f) ==
    /\ Goto(p, from, "done")
    /\ fate' = [fate EXCEPT ![p] = f]

\* The result of conn.Write on c's socket; its error is ignored by the code.
WriteFate(c) == IF sock[c] = "open" THEN "sent" ELSE "lost"

-----------------------------------------------------------------------------
(* HandlePacket and HandleRemotePacket.                                    *)

\* The stack hands over a datagram: `go HandleRemotePacket(clone)'.
HandlePacket(p) ==
    /\ Goto(p, "idle", "remote")
    /\ UNCHANGED <<flow, connections, lock, state, sock, run, fate, replies,
                   fatal>>

\* The user switches enforced DNS on or off (ContextClient is shared state).
ToggleEnforceDns ==
    /\ ~fatal
    /\ enforceDns' = ~enforceDns
    /\ UNCHANGED <<pc, ident, connections, lock, state, sock, run,
                   fate, replies, fatal>>

\* A destination that does not parse leaves remoteAddr nil; the dereference
\* panics and the handler's recover drops the datagram.
ReadRemotePanics(p) ==
    /\ Dst[p] \in BadRemotes
    /\ Finish(p, "remote", "lost")
    /\ UNCHANGED <<flow, connections, lock, state, sock, run, replies, fatal>>

\* IsEnableEnforceDns: a DNS question goes to the DoH server instead.
StartDoh(p) ==
    /\ enforceDns /\ Dst[p] \in DnsRemotes
    /\ Goto(p, "remote", "doh")
    /\ UNCHANGED <<flow, connections, lock, state, sock, run, fate, replies,
                   fatal>>

\* SendDoh returned: an answer is sent to the client, unless the route the
\* stack should have found is nil (a panic, recovered); an error is logged.
EndDoh(p) ==
    /\ \E f \in {"answered", "lost"} : Finish(p, "doh", f)
    /\ UNCHANGED <<flow, connections, lock, state, sock, run, replies, fatal>>

\* Any other datagram: FindContainRoute reads the routing table, which may
\* have changed since the last lookup, and `go attachConnect' takes over.
ReadRemote(p) ==
    /\ Dst[p] \notin BadRemotes
    /\ ~(enforceDns /\ Dst[p] \in DnsRemotes)
    /\ Goto(p, "remote", "check")
    /\ \E ip \in EgressIps : ident' = [ident EXCEPT ![p] = Identify(p, ip)]
    /\ UNCHANGED <<enforceDns, connections, lock, state, sock, run, fate,
                   replies, fatal>>

-----------------------------------------------------------------------------
(* attachConnect.                                                          *)

\* The unlocked look at the table.
Check(p) ==
    LET c == connections[ident[p]] IN
    /\ Goto(p, "check", IF c = None THEN "lock" ELSE "write")
    /\ state' = [state EXCEPT ![p] = c]
    /\ UNCHANGED <<flow, connections, lock, sock, run, fate, replies, fatal>>

\* The datagram is written to the connection found, under its writeLock.
Write(p) ==
    /\ Finish(p, "write", WriteFate(state[p]))
    /\ UNCHANGED <<flow, connections, lock, state, sock, run, replies, fatal>>

Lock(p) ==
    /\ lock = None
    /\ Goto(p, "lock", "recheck")
    /\ lock' = p
    /\ UNCHANGED <<flow, connections, state, sock, run, fate, replies, fatal>>

\* The second look finds that another goroutine has connected: there is no
\* else branch, so attachConnect returns without writing.
RecheckHit(p) ==
    /\ Finish(p, "recheck", "lost")
    /\ connections[ident[p]] # None
    /\ state' = [state EXCEPT ![p] = connections[ident[p]]]
    /\ lock' = None
    /\ UNCHANGED <<flow, connections, sock, run, replies, fatal>>

\* Mutant: the second look is forgotten.
RecheckForgotten(p) ==
    /\ Goto(p, "recheck", "dial")
    /\ UNCHANGED <<flow, connections, lock, state, sock, run, fate, replies,
                   fatal>>

\* Mutant: the connection is published before it is dialled.
PublishThenDial(p) ==
    /\ Goto(p, "recheck", "dial")
    /\ connections[ident[p]] = None
    /\ connections' = [connections EXCEPT ![ident[p]] = p]
    /\ UNCHANGED <<flow, lock, state, sock, run, fate, replies, fatal>>

RecheckMiss(p) ==
    /\ Goto(p, "recheck", "dial")
    /\ connections[ident[p]] = None
    /\ UNCHANGED <<flow, connections, lock, state, sock, run, fate, replies,
                   fatal>>

\* Mutant: the error return forgets to unlock.
DialFailsLocked(p) ==
    /\ Finish(p, "dial", "lost")
    /\ UNCHANGED <<flow, connections, lock, state, sock, run, replies, fatal>>

\* Dial fails or panics (the socket control function); deferred unlock.
DialFails(p) ==
    /\ Finish(p, "dial", "lost")
    /\ lock' = None
    /\ UNCHANGED <<flow, connections, state, sock, run, replies, fatal>>

\* Dial succeeds: conn is set and `go connState.run()' starts the reader.
DialSucceeds(p) ==
    /\ Goto(p, "dial", "insert")
    /\ sock' = [sock EXCEPT ![p] = "open"]
    /\ run' = [run EXCEPT ![p] = "copy"]
    /\ UNCHANGED <<flow, connections, lock, state, fate, replies, fatal>>

\* The map assignment takes time: other accesses may fall into it.
BeginInsert(p) ==
    /\ Goto(p, "insert", "inserting")
    /\ UNCHANGED <<flow, connections, lock, state, sock, run, fate, replies,
                   fatal>>

EndInsert(p) ==
    /\ Goto(p, "inserting", "firstWrite")
    /\ connections' = [connections EXCEPT ![ident[p]] = p]
    /\ UNCHANGED <<flow, lock, state, sock, run, fate, replies, fatal>>

\* The first datagram is written, then writeLock and lock are released.
FirstWrite(p) ==
    /\ Finish(p, "firstWrite", WriteFate(p))
    /\ state' = [state EXCEPT ![p] = p]
    /\ lock' = None
    /\ UNCHANGED <<flow, connections, sock, run, replies, fatal>>

-----------------------------------------------------------------------------
(* run: the reader goroutine of connection c.                              *)

\* The answer to a datagram q that went out on c's socket is written to the
\* client c was created for (c's sendLocal closure).
Reply(c) ==
    /\ ~fatal /\ run[c] = "copy"
    /\ \E q \in Packets :
          /\ fate[q] = "sent" /\ state[q] = c
          /\ replies' = replies \cup {<<q, c>>}
    /\ UNCHANGED <<pc, flow, connections, lock, state, sock, run, fate, fatal>>

\* io.Copy ends: the socket reports an error (an ICMP unreachable after a
\* write), sendLocal fails, or sendLocal panics on a nil route.  The deferred
\* function closes the socket.
RunEnds(c) ==
    /\ ~fatal /\ run[c] = "copy"
    /\ sock' = [sock EXCEPT ![c] = "closed"]
    /\ run' = [run EXCEPT ![c] = "delete"]
    /\ UNCHANGED <<pc, flow, connections, lock, state, fate, replies, fatal>>

\* delete(connections, connState.identify), without the lock.  A delete from
\* an empty map returns before it marks the map as being written.
BeginDelete(c) ==
    /\ ~fatal /\ run[c] = "delete"
    /\ run' = [run EXCEPT ![c] = IF \E i \in Idents : connections[i] # None
                                 THEN "deleting" ELSE "done"]
    /\ UNCHANGED <<pc, flow, connections, lock, state, sock, fate, replies,
                   fatal>>

\* The field `identify' is never assigned, so the key is the empty string,
\* which no entry has: the table keeps c.
EndDelete(c) ==
    /\ ~fatal /\ run[c] = "deleting"
    /\ run' = [run EXCEPT ![c] = "done"]
    /\ UNCHANGED <<pc, flow, connections, lock, state, sock, fate, replies,
                   fatal>>

-----------------------------------------------------------------------------
(* Go's map is not safe for concurrent use.  An access that falls into     *)
(* another goroutine's write may be noticed by the runtime, which then     *)
(* stops the whole process (recover does not help); or it goes unnoticed.  *)

Access(p) == pc[p] \in {"check", "recheck", "insert"} \/ run[p] = "delete"

MapWriters == {p \in Packets : pc[p] = "inserting" \/ run[p] = "deleting"}

ConcurrentMapAccess ==
    /\ ~fatal
    /\ MapWriters # {}
    /\ \E p \in Packets : Access(p)
    /\ fatal' = TRUE
    /\ UNCHANGED <<pc, flow, connections, lock, state, sock, run, fate,
                   replies>>

Handler(p) ==
    \/ ReadRemotePanics(p) \/ StartDoh(p) \/ ReadRemote(p)
    \/ Check(p) \/ Write(p) \/ Lock(p) \/ RecheckHit(p) \/ RecheckMiss(p)
    \/ DialFails(p) \/ DialSucceeds(p)
    \/ BeginInsert(p) \/ EndInsert(p) \/ FirstWrite(p)

Reader(c) == Reply(c) \/ RunEnds(c) \/ BeginDelete(c) \/ EndDelete(c)

Next ==
    \/ \E p \in Packets : HandlePacket(p) \/ Handler(p) \/ EndDoh(p) \/ Reader(p)
    \/ ToggleEnforceDns
    \/ ConcurrentMapAccess

\* The Go scheduler runs every goroutine that can move, and Dial returns
\* within its 5 s timeout.  The DoH request has no timeout, and no datagram,
\* reply or setting has to arrive.
Fairness == \A p \in Packets : WF_vars(Handler(p))

Spec == Init /\ [][Next]_vars /\ Fairness

-----------------------------------------------------------------------------
TypeOK ==
    /\ pc \in [Packets -> PC]
    /\ enforceDns \in BOOLEAN
    /\ ident \in [Packets -> Idents \cup {NoIdent}]
    /\ connections \in [Idents -> Packets \cup {None}]
    /\ lock \in Packets \cup {None}
    /\ state \in [Packets -> Packets \cup {None}]
    /\ sock \in [Packets -> {"nil", "open", "closed"}]
    /\ run \in [Packets -> {"none", "copy", "delete", "deleting", "done"}]
    /\ fate \in [Packets -> Fates]
    /\ replies \subseteq Packets \X Packets
    /\ fatal \in BOOLEAN

\* However the goroutines interleave, no two sockets are dialled for one
\* identity: the point of attachConnect's second look under the lock.
OneSocketPerIdent ==
    \A c, d \in Packets :
        sock[c] # "nil" /\ sock[d] # "nil" /\ ident[c] = ident[d] => c = d

\* A connection found in the table without the lock already has its socket,
\* so state.conn.Write never dereferences a nil conn.
PublishedIsDialled ==
    /\ \A i \in Idents : connections[i] # None => sock[connections[i]] # "nil"
    /\ \A p \in Packets : pc[p] = "write" => sock[state[p]] # "nil"

\* A datagram only leaves on a socket connected to its own destination, although
\* it is the first datagram of its identity that has the socket dialled and the
\* route, part of the identity, may change between two datagrams of a flow.
RightRemote ==
    \A p \in Packets : fate[p] = "sent" => Dst[state[p]] = Dst[p]

\* An identity keeps its connection: no step replaces or removes an entry of
\* the table, so goroutines that found a connection agree on which it is.
EntriesStable ==
    [][\A i \in Idents :
          connections[i] # None => connections'[i] = connections[i]]_connections

\* The package lock is held by the one goroutine between Lock and Unlock, never
\* by one that has ended, waits for the lock or writes to a connection it found.
LockIsReturned ==
    \A p \in Packets :
        lock = p <=> pc[p] \in {"recheck", "dial", "insert", "inserting",
                                "firstWrite"}

\* Every datagram's goroutine ends, whatever the dials of the others do,
\* unless the DoH server keeps it waiting or the runtime stops the process.
HandlersFinish ==
    \A p \in Packets :
        pc[p] = "remote" ~> pc[p] \in {"done", "doh"} \/ fatal

\* "the identity (source ip and port, destination ip and port) keeps the
\* connection consistent": an answer goes back to the source that asked.
ReplyToSender ==
    \A r \in replies : /\ SrcIp[r[1]] = SrcIp[r[2]]
                       /\ SrcPort[r[1]] = SrcPort[r[2]]

\* The connection a datagram was written to; a datagram that met its connection
\* too late or closed left on none.
Via == [p \in Packets |-> IF fate[p] = "sent" THEN state[p] ELSE None]

FT == INSTANCE FlowTable WITH conn <- sock, table <- connections, via <- Via

\* However the goroutines interleave, attachConnect's two looks and its lock
\* give every flow one connection for good: none is dialled beside another,
\* published unopened or replaced, and each datagram leaves on its own flow's.
ImplementsFlowTable == FT!Spec

=============================================================================
