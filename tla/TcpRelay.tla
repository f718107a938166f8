------------------------------ MODULE TcpRelay ------------------------------
(***************************************************************************)
(* The TCP relay: handler/remoteSocketHandler/tcp/buildSocket.go, and the  *)
(* forwarder of the network stack that gv.go installs for it.              *)
(*                                                                         *)
(* HandleStream accepts a client's connection on a stack endpoint `tcp';   *)
(* TcpHandle dials the destination, `conn', and copies both directions:    *)
(* client to remote in a goroutine of its own (up), remote to client in    *)
(* its own loop (down).  Only the end of the down copy closes anything.    *)
(* A stream is represented by how many bytes have passed each point.       *)
(***************************************************************************)
EXTENDS Naturals, FiniteSets

CONSTANTS
    Conns,        \* the clients' connection attempts
    MaxInFlight,  \* limit of the stack's forwarder on pending requests
    MaxBytes      \* bound on what each end sends, per connection

ASSUME TcpAssumption ==
    MaxInFlight \in Nat \ {0} /\ MaxBytes \in [Conns -> Nat]

VARIABLES
    at,         \* where HandleStream / TcpHandle is
    inFlight,   \* external: requests the forwarder has not seen completed
    tcp,        \* the stack's endpoint towards the client
    socket,     \* the socket towards the destination
    up,         \* the goroutine that copies client to remote
    client,     \* external: what the client has done
    remote,     \* external: what the remote has done
    upBytes,    \* bytes io.Copy(conn, tcp) has read and written
    downBytes,  \* bytes io.Copy(tcp, conn) has read and written
    sees        \* how the connection ended for the client

peers == <<client, remote>>
tcpVars == <<at, inFlight, tcp, socket, up, peers, upBytes, downBytes, sees>>

\* A peer is full while it does not drain its window, and the buffers before
\* that are full too: a write to it blocks, without a deadline.
Peer == [sent : Nat, fin : BOOLEAN, rst : BOOLEAN, full : BOOLEAN]
NewPeer == [sent |-> 0, fin |-> FALSE, rst |-> FALSE, full |-> FALSE]
Copied == [read : Nat, written : Nat]
NothingCopied == [read |-> 0, written |-> 0]

TcpInit ==
    /\ at = [c \in Conns |-> "syn"]
    /\ inFlight = {}
    /\ tcp = [c \in Conns |-> "none"]
    /\ socket = [c \in Conns |-> "none"]
    /\ up = [c \in Conns |-> "none"]
    /\ client = [c \in Conns |-> NewPeer]
    /\ remote = [c \in Conns |-> NewPeer]
    /\ upBytes = [c \in Conns |-> NothingCopied]
    /\ downBytes = [c \in Conns |-> NothingCopied]
    /\ sees = [c \in Conns |-> "open"]

TcpGoto(c, from, to) ==
    /\ at[c] = from
    /\ at' = [at EXCEPT ![c] = to]

-----------------------------------------------------------------------------
(* HandleStream.                                                           *)

\* The forwarder takes a SYN unless too many requests are pending; a SYN it
\* drops is sent again by the client.
Request(c) ==
    /\ Cardinality(inFlight) < MaxInFlight
    /\ TcpGoto(c, "syn", "request")
    /\ inFlight' = inFlight \cup {c}
    /\ UNCHANGED <<tcp, socket, up, peers, upBytes, downBytes, sees>>

\* Mutant: the error path does not complete the request.
CreateFailsPending(c) ==
    /\ TcpGoto(c, "request", "done")
    /\ sees' = [sees EXCEPT ![c] = "reset"]
    /\ UNCHANGED <<inFlight, tcp, socket, up, peers, upBytes, downBytes>>

\* CreateEndpoint fails (no handshake, no route): r.Complete(true) resets.
CreateFails(c) ==
    /\ TcpGoto(c, "request", "done")
    /\ inFlight' = inFlight \ {c}
    /\ sees' = [sees EXCEPT ![c] = "reset"]
    /\ UNCHANGED <<tcp, socket, up, peers, upBytes, downBytes>>

\* The endpoint exists: r.Complete(false), and `go th.TcpHandle'.
CreateEndpoint(c) ==
    /\ TcpGoto(c, "request", "dial")
    /\ inFlight' = inFlight \ {c}
    /\ tcp' = [tcp EXCEPT ![c] = "open"]
    /\ UNCHANGED <<socket, up, peers, upBytes, downBytes, sees>>

-----------------------------------------------------------------------------
(* TcpHandle.                                                              *)

\* Dial returns an error, or its socket control function panics (recovered):
\* the function returns and leaves the endpoint as it is.
TcpDialFails(c) ==
    /\ TcpGoto(c, "dial", "done")
    /\ UNCHANGED <<inFlight, tcp, socket, up, peers, upBytes, downBytes, sees>>

TcpDialSucceeds(c) ==
    /\ TcpGoto(c, "dial", "copy")
    /\ socket' = [socket EXCEPT ![c] = "open"]
    /\ up' = [up EXCEPT ![c] = "copy"]
    /\ UNCHANGED <<inFlight, tcp, peers, upBytes, downBytes, sees>>

\* io.Copy(conn, tcp) in its goroutine, one read or write at a time.
UpRead(c) ==
    /\ up[c] = "copy" /\ tcp[c] = "open" /\ ~client[c].rst
    /\ upBytes[c].read = upBytes[c].written
    /\ upBytes[c].read < client[c].sent
    /\ upBytes' = [upBytes EXCEPT ![c].read = @ + 1]
    /\ UNCHANGED <<at, inFlight, tcp, socket, up, peers, downBytes, sees>>

\* The write blocks while the remote is full, until conn is closed under it.
UpWrite(c) ==
    /\ up[c] = "copy"
    /\ upBytes[c].written < upBytes[c].read
    /\ IF socket[c] = "open" /\ ~remote[c].rst
       THEN /\ ~remote[c].full
            /\ upBytes' = [upBytes EXCEPT ![c].written = @ + 1] /\ up' = up
       ELSE up' = [up EXCEPT ![c] = "done"] /\ upBytes' = upBytes
    /\ UNCHANGED <<at, inFlight, tcp, socket, peers, downBytes, sees>>

\* End of stream, a reset, or the endpoint closed under the reader.  The
\* goroutine logs an error and ends; it closes neither side.
UpEnds(c) ==
    /\ up[c] = "copy"
    /\ upBytes[c].read = upBytes[c].written
    /\ \/ tcp[c] = "closed"
       \/ client[c].rst
       \/ client[c].fin /\ upBytes[c].read = client[c].sent
    /\ up' = [up EXCEPT ![c] = "done"]
    /\ UNCHANGED <<at, inFlight, tcp, socket, peers, upBytes, downBytes, sees>>

\* io.Copy(tcp, conn) in TcpHandle itself.
DownRead(c) ==
    /\ at[c] = "copy" /\ ~remote[c].rst
    /\ downBytes[c].read = downBytes[c].written
    /\ downBytes[c].read < remote[c].sent
    /\ downBytes' = [downBytes EXCEPT ![c].read = @ + 1]
    /\ UNCHANGED <<at, inFlight, tcp, socket, up, peers, upBytes, sees>>

\* The write blocks while the client is full; nothing else ends it then.
DownWrite(c) ==
    /\ at[c] = "copy"
    /\ downBytes[c].written < downBytes[c].read
    /\ IF client[c].rst
       THEN at' = [at EXCEPT ![c] = "closeConn"] /\ downBytes' = downBytes
       ELSE /\ ~client[c].full
            /\ downBytes' = [downBytes EXCEPT ![c].written = @ + 1] /\ at' = at
    /\ UNCHANGED <<inFlight, tcp, socket, up, peers, upBytes, sees>>

\* Mutant: TcpHandle stops at the remote's end of stream, with bytes pending.
DownEndsEarly(c) ==
    /\ remote[c].rst \/ remote[c].fin
    /\ TcpGoto(c, "copy", "closeConn")
    /\ UNCHANGED <<inFlight, tcp, socket, up, peers, upBytes, downBytes, sees>>

\* Mutant: TcpHandle also waits for the other direction to end.
DownEndsAfterUp(c) ==
    /\ up[c] = "done"
    /\ downBytes[c].read = downBytes[c].written
    /\ \/ remote[c].rst
       \/ remote[c].fin /\ downBytes[c].read = remote[c].sent
    /\ TcpGoto(c, "copy", "closeConn")
    /\ UNCHANGED <<inFlight, tcp, socket, up, peers, upBytes, downBytes, sees>>

DownEnds(c) ==
    /\ downBytes[c].read = downBytes[c].written
    /\ \/ remote[c].rst
       \/ remote[c].fin /\ downBytes[c].read = remote[c].sent
    /\ TcpGoto(c, "copy", "closeConn")
    /\ UNCHANGED <<inFlight, tcp, socket, up, peers, upBytes, downBytes, sees>>

CloseConn(c) ==
    /\ TcpGoto(c, "closeConn", "closeTcp")
    /\ socket' = [socket EXCEPT ![c] = "closed"]
    /\ UNCHANGED <<inFlight, tcp, up, peers, upBytes, downBytes, sees>>

\* Mutant: the endpoint towards the client is not closed.
CloseTcpForgotten(c) ==
    /\ TcpGoto(c, "closeTcp", "done")
    /\ UNCHANGED <<inFlight, tcp, socket, up, peers, upBytes, downBytes, sees>>

\* The stack closes with a reset when received bytes have not been read.
CloseTcp(c) ==
    /\ TcpGoto(c, "closeTcp", "done")
    /\ tcp' = [tcp EXCEPT ![c] = "closed"]
    /\ sees' = [sees EXCEPT ![c] =
                   IF client[c].rst \/ upBytes[c].read < client[c].sent
                   THEN "reset" ELSE "eof"]
    /\ UNCHANGED <<inFlight, socket, up, peers, upBytes, downBytes>>

-----------------------------------------------------------------------------
(* The two ends: each sends, ends its stream, stops or goes on draining    *)
(* what the other has sent, or resets the connection.                      *)

Acts(peer, other, c) ==
    /\ ~peer[c].rst
    /\ \/ /\ ~peer[c].fin /\ peer[c].sent < MaxBytes[c]
          /\ peer' = [peer EXCEPT ![c].sent = @ + 1]
       \/ ~peer[c].fin /\ peer' = [peer EXCEPT ![c].fin = TRUE]
       \/ other[c].sent > 0 /\ peer' = [peer EXCEPT ![c].full = ~@]
       \/ peer' = [peer EXCEPT ![c].rst = TRUE, ![c].full = FALSE]

ClientActs(c) ==
    /\ tcp[c] = "open"
    /\ Acts(client, remote, c)
    /\ UNCHANGED <<at, inFlight, tcp, socket, up, remote, upBytes, downBytes,
                   sees>>

RemoteActs(c) ==
    /\ socket[c] = "open"
    /\ Acts(remote, client, c)
    /\ UNCHANGED <<at, inFlight, tcp, socket, up, client, upBytes, downBytes,
                   sees>>

TcpHandler(c) ==
    \/ CreateFails(c) \/ CreateEndpoint(c)
    \/ TcpDialFails(c) \/ TcpDialSucceeds(c)
    \/ DownRead(c) \/ DownWrite(c) \/ DownEnds(c) \/ CloseConn(c) \/ CloseTcp(c)

Up(c) == UpRead(c) \/ UpWrite(c) \/ UpEnds(c)

TcpNext == \E c \in Conns : \/ Request(c) \/ TcpHandler(c) \/ Up(c)
                            \/ ClientActs(c) \/ RemoteActs(c)

\* Goroutines are scheduled; the handshake in CreateEndpoint and Dial (5 s)
\* time out; a client repeats its SYN.  Neither end has to do anything, nor to
\* drain what is written to it.
TcpFairness ==
    \A c \in Conns : /\ WF_tcpVars(Request(c))
                     /\ WF_tcpVars(TcpHandler(c))
                     /\ WF_tcpVars(Up(c))

TcpSpec == TcpInit /\ [][TcpNext]_tcpVars /\ TcpFairness

-----------------------------------------------------------------------------
TcpTypeOK ==
    /\ at \in [Conns -> {"syn", "request", "dial", "copy", "closeConn",
                         "closeTcp", "done"}]
    /\ inFlight \subseteq Conns
    /\ tcp \in [Conns -> {"none", "open", "closed"}]
    /\ socket \in [Conns -> {"none", "open", "closed"}]
    /\ up \in [Conns -> {"none", "copy", "done"}]
    /\ client \in [Conns -> Peer] /\ remote \in [Conns -> Peer]
    /\ upBytes \in [Conns -> Copied] /\ downBytes \in [Conns -> Copied]
    /\ \A c \in Conns : {client[c].sent, upBytes[c].read, remote[c].sent,
                         downBytes[c].read} \subseteq 0..MaxBytes[c]
    /\ sees \in [Conns -> {"open", "eof", "reset"}]

\* A client that sees a clean end of stream has been sent every byte of a
\* remote that did not reset, however the copies and the closes interleave.
DownComplete ==
    \A c \in Conns :
        sees[c] = "eof" /\ ~remote[c].rst =>
            downBytes[c].written = remote[c].sent

\* What the copies have written is what the other end has sent, up to the one
\* buffer read and not yet written: no byte is skipped or written twice.
StreamsFaithful ==
    \A c \in Conns :
        /\ upBytes[c].written <= upBytes[c].read
        /\ upBytes[c].read <= client[c].sent
        /\ upBytes[c].read <= upBytes[c].written + 1
        /\ downBytes[c].written <= downBytes[c].read
        /\ downBytes[c].read <= remote[c].sent
        /\ downBytes[c].read <= downBytes[c].written + 1

\* Whatever way HandleStream and TcpHandle return, no socket of theirs stays
\* open, an endpoint only if the dial has failed, and a copy still under way
\* finds both ends closed.
ReturnsReleased ==
    \A c \in Conns : at[c] = "done" =>
        /\ socket[c] # "open"
        /\ tcp[c] = "open" => socket[c] = "none"
        /\ up[c] = "copy" => socket[c] = "closed" /\ tcp[c] = "closed"

\* The forwarder's slots are those of the requests not yet completed, and
\* there are never more of them than its limit.
SlotsHeld ==
    /\ inFlight = {c \in Conns : at[c] = "request"}
    /\ Cardinality(inFlight) <= MaxInFlight

\* Every SYN is taken in the end: no path keeps its slot of the forwarder.
RequestsServed == \A c \in Conns : <>(at[c] # "syn")

\* When TcpHandle has returned, the copying goroutine ends too: closing both
\* connections unblocks its read or its write.
CopierEnds == \A c \in Conns : at[c] = "done" ~> up[c] \in {"none", "done"}

\* Once the remote has ended or reset its stream, the connection of a client that
\* goes on draining is ended as well, even if it neither sends nor closes.  One
\* that never drains again keeps TcpHandle in its write.
RemoteEndReachesClient ==
    \A c \in Conns :
        <>[]~client[c].full =>
            (remote[c].fin \/ remote[c].rst ~> sees[c] # "open")

=============================================================================
