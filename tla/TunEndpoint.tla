---------------------------- MODULE TunEndpoint ----------------------------
(***************************************************************************)
(* The way back to the TUN device: WriteNotify of endpoint/endpoint.go and *)
(* the outbound queue of gvisor's channel endpoint, which it embeds.       *)
(*                                                                         *)
(* Any goroutine of the network stack may send a packet.  The queue takes  *)
(* it and, outside of its own lock, calls WriteNotify in the goroutine     *)
(* that sent it; WriteNotify reads SOME packet from the queue, not         *)
(* necessarily its caller's, and then builds the bytes of that packet in   *)
(* the buffer all goroutines share.                                        *)
(*                                                                         *)
(* A member of Packets stands for one packet and for the goroutine that    *)
(* sends it.                                                               *)
(***************************************************************************)
EXTENDS Naturals, Sequences, FiniteSets

CONSTANTS
    Packets,      \* the packets sent to the device
    QueueSize,    \* capacity of the channel endpoint's queue (512)
    None          \* nil

ASSUME TunAssumption ==
    /\ IsFiniteSet(Packets)
    /\ QueueSize \in Nat
    /\ None \notin Packets

VARIABLES
    pc,        \* where each packet's goroutine is
    queue,     \* external: the packets in the channel endpoint's queue
    pkt,       \* the packet WriteNotify has read, per goroutine
    mu,        \* the holder of e.mu
    buff,      \* e.buff: the packets its header and data bytes belong to
    tun,       \* the packets written to the device, as header and data
    failed     \* history: the packets whose Write returned an error

vars == <<pc, queue, pkt, mu, buff, tun, failed>>

\* What the buffer may hold, and what is written from it.
Images == [header : Packets \cup {None}, data : Packets \cup {None}]

PC == {"send", "notify", "refused", "panic", "lock", "header", "data",
       "write", "unlock", "done"}

Init ==
    /\ pc = [p \in Packets |-> "send"]
    /\ queue = <<>>
    /\ pkt = [p \in Packets |-> None]
    /\ mu = None
    /\ buff = [header |-> None, data |-> None]
    /\ tun = <<>>
    /\ failed = {}

Goto(p, from, to) ==
    /\ pc[p] = from
    /\ pc' = [pc EXCEPT ![p] = to]

-----------------------------------------------------------------------------
\* Mutant: the queue takes packets beyond its capacity.
EnqueueUnbounded(p) ==
    /\ Goto(p, "send", "notify")
    /\ queue' = Append(queue, p)
    /\ UNCHANGED <<pkt, mu, buff, tun, failed>>

\* queue.Write puts the packet into the channel and calls WriteNotify ...
Enqueue(p) ==
    /\ Len(queue) < QueueSize
    /\ Goto(p, "send", "notify")
    /\ queue' = Append(queue, p)
    /\ UNCHANGED <<pkt, mu, buff, tun, failed>>

\* ... or, the channel being full, drops it without a call.
Refuse(p) ==
    /\ Len(queue) >= QueueSize
    /\ Goto(p, "send", "refused")
    /\ UNCHANGED <<queue, pkt, mu, buff, tun, failed>>

\* Mutant: WriteNotify takes the whole queue and keeps its first packet.
ReadDrains(p) ==
    /\ Goto(p, "notify", IF queue = <<>> THEN "panic" ELSE "lock")
    /\ pkt' = [pkt EXCEPT ![p] = IF queue = <<>> THEN None ELSE Head(queue)]
    /\ queue' = <<>>
    /\ UNCHANGED <<mu, buff, tun, failed>>

\* pkt := e.Endpoint.Read(), before the lock.  It does not block: an empty
\* queue gives nil, whose NetworkHeader() would panic.
Read(p) ==
    /\ Goto(p, "notify", IF queue = <<>> THEN "panic" ELSE "lock")
    /\ pkt' = [pkt EXCEPT ![p] = IF queue = <<>> THEN None ELSE Head(queue)]
    /\ queue' = IF queue = <<>> THEN queue ELSE Tail(queue)
    /\ UNCHANGED <<mu, buff, tun, failed>>

\* Mutant: the buffer is used without the lock.
LockForgotten(p) ==
    /\ Goto(p, "lock", "header")
    /\ UNCHANGED <<queue, pkt, mu, buff, tun, failed>>

Lock(p) ==
    /\ mu = None
    /\ Goto(p, "lock", "header")
    /\ mu' = p
    /\ UNCHANGED <<queue, pkt, buff, tun, failed>>

\* append(e.buff[:0], ...): the headers overwrite those of the packet before.
BuildHeader(p) ==
    /\ Goto(p, "header", "data")
    /\ buff' = [buff EXCEPT !.header = pkt[p]]
    /\ UNCHANGED <<queue, pkt, mu, tun, failed>>

\* The payload, shorter than the 2048 bytes of one ReadAt as the MTU is 1500.
BuildData(p) ==
    /\ Goto(p, "data", "write")
    /\ buff' = [buff EXCEPT !.data = pkt[p]]
    /\ UNCHANGED <<queue, pkt, mu, tun, failed>>

\* e.Writer.Write(buf) succeeds, or its error is logged.
Write(p) ==
    /\ Goto(p, "write", "unlock")
    /\ \/ tun' = Append(tun, buff) /\ UNCHANGED failed
       \/ failed' = failed \cup {pkt[p]} /\ UNCHANGED tun
    /\ UNCHANGED <<queue, pkt, mu, buff>>

\* Mutant: the goroutine returns without unlocking.
UnlockForgotten(p) ==
    /\ Goto(p, "unlock", "done")
    /\ UNCHANGED <<queue, pkt, mu, buff, tun, failed>>

Unlock(p) ==
    /\ Goto(p, "unlock", "done")
    /\ mu' = None
    /\ UNCHANGED <<queue, pkt, buff, tun, failed>>

WriteNotify(p) == \/ Read(p) \/ Lock(p) \/ BuildHeader(p) \/ BuildData(p)
                  \/ Write(p) \/ Unlock(p)

Next == \E p \in Packets : Enqueue(p) \/ Refuse(p) \/ WriteNotify(p)

\* The goroutines of the stack are scheduled, and writes to the device
\* return.  No packet has to be sent.
Spec == Init /\ [][Next]_vars /\ \A p \in Packets : WF_vars(WriteNotify(p))

-----------------------------------------------------------------------------
TypeOK ==
    /\ pc \in [Packets -> PC]
    /\ queue \in Seq(Packets) /\ Len(queue) <= QueueSize
    /\ pkt \in [Packets -> Packets \cup {None}]
    /\ mu \in Packets \cup {None}
    /\ buff \in Images
    /\ tun \in Seq(Images)
    /\ failed \subseteq Packets

\* WriteNotify always finds a packet: however the goroutines that sent and
\* those that read overtake each other, Read does not return nil.
ReadFindsPacket == \A p \in Packets : pc[p] # "panic"

\* What reaches the device is one whole packet at a time, in spite of the
\* shared buffer: never one packet's headers before another one's data.
WholePackets ==
    \A i \in DOMAIN tun : tun[i].header = tun[i].data /\ tun[i].header # None

\* No packet is written twice, or written after its Write failed.
WrittenOnce ==
    \A i, j \in DOMAIN tun :
        /\ tun[i].header = tun[j].header => i = j
        /\ tun[i].header \notin failed

\* No packet is left behind, although goroutines take each other's: one that the
\* queue took is still there, with the goroutine that read it, on the device or
\* failed; as many calls of WriteNotify are to read as packets are queued, and
\* the holder of e.mu is one that unlocks it.
PacketsKept ==
    /\ Len(queue) = Cardinality({p \in Packets : pc[p] = "notify"})
    /\ \A p \in Packets : pc[p] \notin {"send", "refused"} =>
          \/ \E i \in DOMAIN queue : queue[i] = p
          \/ \E q \in Packets : /\ pc[q] \in {"lock", "header", "data", "write"}
                               /\ pkt[q] = p
          \/ p \in failed \/ \E i \in DOMAIN tun : tun[i].header = p
    /\ mu # None => pc[mu] \in {"header", "data", "write", "unlock"}

\* A packet the queue took is written to the device in the end, although the
\* goroutine that sent it may have taken another one, or its Write fails.
PacketsLeave ==
    \A p \in Packets :
        pc[p] = "notify" ~>
            p \in failed \/ \E i \in DOMAIN tun : tun[i].header = p

=============================================================================
