----------------------------- MODULE FlowTable -----------------------------
(***************************************************************************)
(* What the UDP relay promises, without its lock, its goroutines and its   *)
(* unlocked look at the table: a flow (an identity) is given one           *)
(* connection, once and for all; a datagram leaves on the connection of    *)
(* its flow, towards its own destination and while that connection is      *)
(* open, or it is dropped; an answer comes back through the connection     *)
(* the question went out on.  UdpForward implements it.                    *)
(***************************************************************************)
CONSTANTS Packets, Texts, Remotes, Dst, None

VARIABLES
    ident,    \* the flow of each datagram
    conn,     \* the connection dialled for each datagram, if there is one
    table,    \* the connection of each flow
    fate,     \* what became of each datagram
    via,      \* the connection each datagram left on
    replies   \* <<q, c>>: the answer to q came back through c

vars == <<ident, conn, table, fate, via, replies>>

Flows == Texts \X Remotes

Init ==
    /\ ident = [p \in Packets |-> <<None, None>>]
    /\ conn = [p \in Packets |-> "nil"]
    /\ table = [i \in Flows |-> None]
    /\ fate = [p \in Packets |-> "pending"]
    /\ via = [p \in Packets |-> None]
    /\ replies = {}

\* A datagram is assigned to a flow, which must lead to its destination.
Classify(p) ==
    /\ ident[p] = <<None, None>>
    /\ \E t \in Texts : ident' = [ident EXCEPT ![p] = <<t, Dst[p]>>]
    /\ UNCHANGED <<conn, table, fate, via, replies>>

\* The flow's one connection is dialled ...
Dial(p) ==
    /\ ident[p] \in Flows
    /\ \A d \in Packets : conn[d] # "nil" => ident[d] # ident[p]
    /\ conn' = [conn EXCEPT ![p] = "open"]
    /\ UNCHANGED <<ident, table, fate, via, replies>>

\* ... and becomes the flow's connection; no step takes it away again.
Publish(p) ==
    /\ conn[p] # "nil" /\ table[ident[p]] = None
    /\ table' = [table EXCEPT ![ident[p]] = p]
    /\ UNCHANGED <<ident, conn, fate, via, replies>>

Break(p) ==
    /\ conn[p] = "open"
    /\ conn' = [conn EXCEPT ![p] = "closed"]
    /\ UNCHANGED <<ident, table, fate, via, replies>>

Deliver(p) ==
    LET c == table[ident[p]] IN
    /\ fate[p] = "pending" /\ ident[p] \in Flows
    /\ c # None /\ conn[c] = "open"
    /\ fate' = [fate EXCEPT ![p] = "sent"]
    /\ via' = [via EXCEPT ![p] = c]
    /\ UNCHANGED <<ident, conn, table, replies>>

\* UDP promises no more: a datagram may be dropped; a DNS question may be
\* answered by the DoH server instead of being sent.
Settle(p) ==
    /\ fate[p] = "pending"
    /\ \E f \in {"answered", "lost"} : fate' = [fate EXCEPT ![p] = f]
    /\ UNCHANGED <<ident, conn, table, via, replies>>

Answer(p) ==
    /\ fate[p] = "sent"
    /\ replies' = replies \cup {<<p, via[p]>>}
    /\ UNCHANGED <<ident, conn, table, fate, via>>

Next == \E p \in Packets :
            \/ Classify(p) \/ Dial(p) \/ Publish(p) \/ Break(p)
            \/ Deliver(p) \/ Settle(p) \/ Answer(p)

Spec == Init /\ [][Next]_vars

=============================================================================
