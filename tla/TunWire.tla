------------------------------ MODULE TunWire ------------------------------
(***************************************************************************)
(* What the endpoint promises to the network stack, without queue, lock    *)
(* and buffers: a packet it has accepted leaves whole and at most once, or *)
(* is lost; the packets of the device reach the stack in their order and   *)
(* keep their contents while the stack works on them; and nothing of this  *)
(* brings the process down.  TunDevice implements it.                      *)
(***************************************************************************)
EXTENDS Naturals, Sequences

CONSTANTS
    Packets,     \* the packets the stack may send
    MaxFrames    \* bound on the packets of the device

VARIABLES
    up,        \* the process is alive
    accepted,  \* the packets the stack has handed over
    out,       \* what left through the device, in this order
    lost,      \* packets the device refused
    heard      \* what the stack got from the device, by its number there

vars == <<up, accepted, out, lost, heard>>

Init == up = TRUE /\ accepted = {} /\ out = <<>> /\ lost = {} /\ heard = <<>>

Accept(p) ==
    /\ p \notin accepted
    /\ accepted' = accepted \cup {p}
    /\ UNCHANGED <<up, out, lost, heard>>

Pending(p) ==
    p \in accepted /\ p \notin lost /\ \A i \in DOMAIN out : out[i] # p

Emit(p) ==
    /\ Pending(p)
    /\ out' = Append(out, p)
    /\ UNCHANGED <<up, accepted, lost, heard>>

Lose(p) ==
    /\ Pending(p)
    /\ lost' = lost \cup {p}
    /\ UNCHANGED <<up, accepted, out, heard>>

\* The device's n-th packet; packets before it may have been left out.
Hear(n) ==
    /\ \A i \in DOMAIN heard : heard[i] < n
    /\ heard' = Append(heard, n)
    /\ UNCHANGED <<up, accepted, out, lost>>

Next ==
    \/ \E p \in Packets : Accept(p) \/ Emit(p) \/ Lose(p)
    \/ \E n \in 1..MaxFrames : Hear(n)

Spec == Init /\ [][Next]_vars

=============================================================================
