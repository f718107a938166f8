----------------------------- MODULE TunDevice -----------------------------
(***************************************************************************)
(* Both directions of the TUN device: the way back of TunEndpoint and the  *)
(* goroutine Attach of endpoint/endpoint.go starts, which reads packets    *)
(* through device/tun.go and injects them into the stack.                  *)
(*                                                                         *)
(* The directions meet in one place: the stack may answer a packet at once *)
(* (an echo, a reset), in the goroutine that injected it, so the reading   *)
(* loop itself goes through WriteNotify and waits for e.mu.                *)
(***************************************************************************)
EXTENDS TunEndpoint

CONSTANTS
    Replies,     \* the packets the stack sends from within InjectInbound
    MaxFrames    \* bound on the packets read from the device

ASSUME DeviceAssumption == Replies \subseteq Packets /\ MaxFrames \in Nat

VARIABLES
    loop,     \* where the reading goroutine is
    given,    \* history: the kinds of the packets Read has returned
    mem,      \* which packet's bytes each allocated buffer holds
    stack,    \* external: the buffers the stack has been given, in order
    reply     \* the packet being sent by the reading goroutine

inVars == <<loop, given, mem, stack, reply>>
deviceVars == <<vars, inVars>>

\* The first half byte of a packet: IPv4, IPv6, or something else, as when
\* the device returned no packet and no error.
Kinds == {"v4", "v6", "other"}

DeviceInit ==
    /\ Init
    /\ loop = "read"
    /\ given = <<>>
    /\ mem = <<>>
    /\ stack = <<>>
    /\ reply = None

-----------------------------------------------------------------------------
\* Mutant: the buffer is allocated once, before the loop.
ReadFrameReuse ==
    /\ loop = "read" /\ Len(given) < MaxFrames
    /\ loop' = "inject"
    /\ \E k \in Kinds : given' = Append(given, k)
    /\ mem' = [b \in DOMAIN mem \cup {1} |-> Len(given')]
    /\ UNCHANGED <<vars, stack, reply>>

\* buf := make([]byte, size), and Read fills it with the next packet.
ReadFrame ==
    /\ loop = "read" /\ Len(given) < MaxFrames
    /\ loop' = "inject"
    /\ \E k \in Kinds : given' = Append(given, k)
    /\ mem' = Append(mem, Len(given'))
    /\ UNCHANGED <<vars, stack, reply>>

\* Any error of Read ends the loop, and with it the direction, for good.
ReadFails ==
    /\ loop = "read"
    /\ loop' = "ended"
    /\ UNCHANGED <<vars, given, mem, stack, reply>>

\* InjectInbound hands the buffer over; the stack keeps a reference to it.
InjectInbound ==
    /\ loop = "inject" /\ given[Len(given)] # "other"
    /\ loop' = "stack"
    /\ stack' = Append(stack, Len(mem))
    /\ UNCHANGED <<vars, given, mem, reply>>

\* A packet that is neither IPv4 nor IPv6 is left to DecRef.
DropFrame ==
    /\ loop = "inject" /\ given[Len(given)] = "other"
    /\ loop' = "read"
    /\ UNCHANGED <<vars, given, mem, stack, reply>>

\* The stack sends an answer before InjectInbound returns.
ReplyInline(p) ==
    /\ loop = "stack" /\ reply = None /\ p \in Replies
    /\ \/ Enqueue(p) /\ reply' = p
       \/ Refuse(p) /\ UNCHANGED reply
    /\ UNCHANGED <<loop, given, mem, stack>>

\* InjectInbound returns: there was no answer, or its WriteNotify is done.
InjectReturns ==
    /\ loop = "stack" /\ (reply # None => pc[reply] = "done")
    /\ loop' = "read"
    /\ reply' = None
    /\ UNCHANGED <<vars, given, mem, stack>>

\* Any other goroutine of the stack sends a packet.
Send(p) ==
    /\ p \notin Replies
    /\ Enqueue(p) \/ Refuse(p)
    /\ UNCHANGED inVars

Notify(p) == WriteNotify(p) /\ UNCHANGED inVars

Inject == InjectInbound \/ DropFrame \/ InjectReturns

DeviceNext ==
    \/ \E p \in Packets : Send(p) \/ Notify(p) \/ ReplyInline(p)
    \/ ReadFrame \/ ReadFails \/ Inject

\* The goroutines are scheduled, and writes to the device return.  No packet
\* has to be sent or answered, the device need not have one, nor fail.
DeviceSpec ==
    /\ DeviceInit /\ [][DeviceNext]_deviceVars
    /\ \A p \in Packets : WF_deviceVars(Notify(p))
    /\ WF_deviceVars(Inject)

-----------------------------------------------------------------------------
DeviceTypeOK ==
    /\ TypeOK
    /\ loop \in {"read", "inject", "stack", "ended"}
    /\ given \in Seq(Kinds) /\ Len(given) <= MaxFrames
    /\ mem \in Seq(Nat) /\ Len(mem) = Len(given)
    /\ stack \in Seq(1..Len(mem))
    /\ reply \in Replies \cup {None}

\* What left through the device: a packet, if header and data are of one.
Out == [i \in DOMAIN tun |->
           IF tun[i].header = tun[i].data THEN tun[i].header ELSE None]

\* The packets of the device as the stack sees them in the buffers it holds.
Heard == [i \in DOMAIN stack |-> mem[stack[i]]]

Wire == INSTANCE TunWire WITH
            up <- \A p \in Packets : pc[p] # "panic",
            accepted <- {p \in Packets : pc[p] \notin {"send", "refused"}},
            out <- Out,
            lost <- failed,
            heard <- Heard

\* Through one shared buffer, a queue read by whoever comes and a fresh buffer
\* per packet read, packets pass the endpoint whole, once and unchanged, and
\* WriteNotify never finds the queue empty.
ImplementsWire == Wire!Spec

\* The goroutine that reads the device is not held up for ever by the packets
\* that go the other way: after every packet it reads again.
ReadingGoesOn == loop \in {"inject", "stack"} ~> loop = "read"

=============================================================================
