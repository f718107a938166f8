-------------------------- MODULE TunDeviceProofs --------------------------
(***************************************************************************)
(* Safety of the TUN device's two directions, for any number of packets    *)
(* each way and any size of the queue.                                     *)
(*                                                                         *)
(* The way out (TunEndpoint): the inductive invariant IInv says that the   *)
(* queue holds exactly as many packets as there are calls of WriteNotify   *)
(* yet to read one; that only the holder of e.mu is between Lock and       *)
(* Unlock, with the buffer built as far as its position says; and that     *)
(* each packet is in one place only: unsent, queued, held by one           *)
(* goroutine, or gone.                                                     *)
(*                                                                         *)
(* Both ways (TunDevice): no step of the reading loop disturbs IInv, and   *)
(* with InboundInv for the way in the device implements TunWire.           *)
(***************************************************************************)
EXTENDS TunDevice, FiniteSetTheorems, TLAPS

Notified == {p \in Packets : pc[p] = "notify"}
Counted == Len(queue) = Cardinality(Notified)

Mutex ==
    \A p \in Packets :
        /\ pc[p] \in {"header", "data", "write", "unlock"} => mu = p
        /\ pc[p] \in {"data", "write"} => buff.header = pkt[p]
        /\ pc[p] = "write" => buff.data = pkt[p]

Holding == {p \in Packets : pc[p] \in {"lock", "header", "data", "write"}}
Gone == failed \cup {tun[i].header : i \in DOMAIN tun}

OnePlace ==
    /\ \A i, j \in DOMAIN queue : queue[i] = queue[j] => i = j
    /\ \A i \in DOMAIN queue : pc[queue[i]] # "send" /\ queue[i] \notin Gone
    /\ \A p, q \in Holding : pkt[p] = pkt[q] => p = q
    /\ \A p \in Holding : /\ pkt[p] \in Packets
                          /\ pc[pkt[p]] # "send" /\ pkt[p] \notin Gone
                          /\ \A i \in DOMAIN queue : queue[i] # pkt[p]
    /\ \A p \in Packets : p \in Gone => pc[p] # "send"

IInv == /\ TypeOK /\ ReadFindsPacket /\ Counted /\ Mutex /\ OnePlace
        /\ WholePackets /\ WrittenOnce

-----------------------------------------------------------------------------
\* The set of pending calls is finite, so its cardinality is a number.
LEMMA NotifiedFinite == IsFiniteSet(Notified) /\ Cardinality(Notified) \in Nat
<1>1. Notified \subseteq Packets  BY DEF Notified
<1>2. IsFiniteSet(Notified)  BY <1>1, FS_Subset, TunAssumption
<1> QED  BY <1>2, FS_CardinalityType

\* Initially nothing is queued and no call is pending.
LEMMA InitInv == Init => IInv
<1> SUFFICES ASSUME Init PROVE IInv  OBVIOUS
<1>1. TypeOK
  <2>1. <<>> \in Seq(Packets) /\ Len(<<>>) <= QueueSize  BY TunAssumption
  <2> QED  BY <2>1 DEF Init, TypeOK, PC, Images
<1>2. Notified = {}  BY DEF Init, Notified
<1>3. Counted  BY <1>2, FS_EmptySet DEF Init, Counted
<1>4. Holding = {}  BY DEF Init, Holding
<1>5. DOMAIN queue = {} /\ DOMAIN tun = {} /\ Gone = {}  BY DEF Init, Gone
<1>6. OnePlace  BY <1>4, <1>5 DEF OnePlace
<1> QED
  BY <1>1, <1>3, <1>5, <1>6
  DEF Init, IInv, ReadFindsPacket, Mutex, WholePackets, WrittenOnce

-----------------------------------------------------------------------------
\* A packet enters the queue, and a call is pending for it.
LEMMA EnqueueInv == ASSUME IInv, NEW p \in Packets, Enqueue(p) PROVE IInv'
<1>1. TypeOK'
  <2>1. queue' \in Seq(Packets) /\ Len(queue') = Len(queue) + 1
    BY DEF IInv, TypeOK, Enqueue
  <2>2. Len(queue') <= QueueSize
    BY <2>1, TunAssumption DEF IInv, TypeOK, Enqueue
  <2> QED  BY <2>1, <2>2 DEF IInv, TypeOK, Enqueue, Goto, PC
<1>2. Counted'
  <2>1. Notified' = Notified \cup {p} /\ p \notin Notified
    BY DEF IInv, TypeOK, Enqueue, Goto, Notified
  <2>2. Cardinality(Notified') = Cardinality(Notified) + 1
    BY <2>1, NotifiedFinite, FS_AddElement
  <2>3. Len(queue') = Len(queue) + 1
    BY DEF IInv, TypeOK, Enqueue
  <2> QED  BY <2>2, <2>3 DEF IInv, Counted
<1>3. OnePlace'
  <2>1. Holding' = Holding /\ Gone' = Gone
    BY DEF IInv, TypeOK, Enqueue, Goto, Holding, Gone
  <2>2. /\ DOMAIN queue' = DOMAIN queue \cup {Len(queue) + 1}
        /\ \A i \in DOMAIN queue : queue'[i] = queue[i] /\ queue[i] \in Packets
        /\ queue'[Len(queue) + 1] = p
    BY DEF IInv, TypeOK, Enqueue
  <2>3. /\ pc[p] = "send" /\ pc'[p] = "notify" /\ pkt' = pkt
        /\ \A q \in Packets : q # p => pc'[q] = pc[q]
    BY DEF IInv, TypeOK, Enqueue, Goto
  <2>4. p \notin Gone /\ \A i \in DOMAIN queue : queue[i] # p
    BY <2>3 DEF IInv, OnePlace
  <2>5. \A q \in Holding : pkt[q] # p
    BY <2>3 DEF IInv, OnePlace
  <2>6. /\ \A i, j \in DOMAIN queue' : queue'[i] = queue'[j] => i = j
        /\ \A i \in DOMAIN queue' :
              pc'[queue'[i]] # "send" /\ queue'[i] \notin Gone
    BY <2>2, <2>3, <2>4 DEF IInv, OnePlace
  <2>7. \A q \in Holding : /\ pkt[q] \in Packets
                           /\ pc'[pkt[q]] # "send" /\ pkt[q] \notin Gone
                           /\ \A i \in DOMAIN queue' : queue'[i] # pkt[q]
    BY <2>2, <2>3, <2>5 DEF IInv, OnePlace
  <2> QED
    BY <2>1, <2>3, <2>6, <2>7 DEF IInv, OnePlace
<1> QED
  BY <1>1, <1>2, <1>3
  DEF IInv, TypeOK, Enqueue, Goto, ReadFindsPacket, Mutex, WholePackets,
      WrittenOnce

\* A pending call takes the first packet: the count is why there is one.
LEMMA ReadInv == ASSUME IInv, NEW p \in Packets, Read(p) PROVE IInv'
<1>1. p \in Notified  BY DEF IInv, TypeOK, Read, Goto, Notified
<1>2. Cardinality(Notified \ {p}) = Cardinality(Notified) - 1
  BY <1>1, NotifiedFinite, FS_RemoveElement
<1>3. queue # <<>>
  <2>1. Notified \ {p} \subseteq Notified  OBVIOUS
  <2>2. Cardinality(Notified \ {p}) \in Nat
    BY <2>1, NotifiedFinite, FS_Subset, FS_CardinalityType
  <2>3. Cardinality(Notified) > 0  BY <1>2, <2>2, NotifiedFinite
  <2> QED  BY <2>3 DEF IInv, Counted, TypeOK
<1>4. /\ pc[p] = "notify" /\ pc' = [pc EXCEPT ![p] = "lock"]
      /\ pkt' = [pkt EXCEPT ![p] = Head(queue)] /\ queue' = Tail(queue)
      /\ UNCHANGED <<mu, buff, tun, failed>>
  BY <1>3 DEF Read, Goto
<1>5. /\ Head(queue) = queue[1] /\ 1 \in DOMAIN queue
      /\ Len(queue') = Len(queue) - 1 /\ queue' \in Seq(Packets)
      /\ DOMAIN queue' = 1..(Len(queue) - 1)
      /\ \A i \in DOMAIN queue' : i + 1 \in DOMAIN queue /\ queue'[i] = queue[i + 1]
      /\ \A i \in DOMAIN queue : queue[i] \in Packets
  BY <1>3, <1>4 DEF IInv, TypeOK
<1>6. TypeOK'
  BY <1>4, <1>5, TunAssumption DEF IInv, TypeOK, PC
<1>7. Counted'
  <2>1. Notified' = Notified \ {p}
    BY <1>4 DEF IInv, TypeOK, Notified
  <2> QED  BY <2>1, <1>2, <1>5 DEF IInv, Counted
<1>8. OnePlace'
  <2>1. Holding' = Holding \cup {p} /\ p \notin Holding /\ Gone' = Gone
    BY <1>4 DEF IInv, TypeOK, Holding, Gone
  <2>2. /\ pkt'[p] = queue[1]
        /\ \A q \in Packets : q # p => pkt'[q] = pkt[q]
        /\ \A q \in Packets : pc'[q] = "send" <=> pc[q] = "send"
    BY <1>4, <1>5 DEF IInv, TypeOK
  <2>3. \A q \in Holding : q \in Packets /\ pkt'[q] = pkt[q]
    BY <2>1, <2>2 DEF Holding
  <2>4. /\ \A i, j \in DOMAIN queue' : queue'[i] = queue'[j] => i = j
        /\ \A i \in DOMAIN queue' : /\ pc'[queue'[i]] # "send"
                                    /\ queue'[i] \notin Gone
                                    /\ queue'[i] # queue[1]
    <3> SUFFICES ASSUME NEW i \in DOMAIN queue', NEW j \in DOMAIN queue'
                 PROVE  /\ queue'[i] = queue'[j] => i = j
                        /\ pc'[queue'[i]] # "send" /\ queue'[i] \notin Gone
                        /\ queue'[i] # queue[1]
      OBVIOUS
    <3>1. /\ i \in Nat /\ j \in Nat /\ i + 1 # 1
          /\ i + 1 \in DOMAIN queue /\ j + 1 \in DOMAIN queue
          /\ queue'[i] = queue[i + 1] /\ queue'[j] = queue[j + 1]
          /\ queue[i + 1] \in Packets
      BY <1>5 DEF IInv, TypeOK
    <3>2. /\ queue[i + 1] = queue[j + 1] => i + 1 = j + 1
          /\ queue[i + 1] = queue[1] => i + 1 = 1
          /\ pc[queue[i + 1]] # "send" /\ queue[i + 1] \notin Gone
      BY <3>1, <1>5 DEF IInv, OnePlace
    <3> QED  BY <3>1, <3>2, <2>2
  <2>5. \A q \in Holding : pkt[q] # queue[1]
    BY <1>5 DEF IInv, OnePlace
  <2>6. \A q, r \in Holding' : pkt'[q] = pkt'[r] => q = r
    BY <2>1, <2>2, <2>3, <2>5 DEF IInv, OnePlace
  <2>7. \A q \in Holding' : /\ pkt'[q] \in Packets
                            /\ pc'[pkt'[q]] # "send" /\ pkt'[q] \notin Gone
                            /\ \A i \in DOMAIN queue' : queue'[i] # pkt'[q]
    <3>1. /\ queue[1] \in Packets /\ pc'[queue[1]] # "send"
          /\ queue[1] \notin Gone
      BY <1>5, <2>2 DEF IInv, OnePlace
    <3>2. \A q \in Holding : \A i \in DOMAIN queue' : queue'[i] # pkt[q]
      BY <1>5 DEF IInv, OnePlace
    <3> QED  BY <2>1, <2>2, <2>3, <2>4, <3>1, <3>2 DEF IInv, OnePlace
  <2> QED
    BY <2>1, <2>2, <2>4, <2>6, <2>7 DEF IInv, OnePlace
<1> QED
  BY <1>4, <1>6, <1>7, <1>8
  DEF IInv, TypeOK, ReadFindsPacket, Mutex, WholePackets, WrittenOnce

\* The packet held is written as a whole, or its write fails: it is gone.
LEMMA WriteInv == ASSUME IInv, NEW p \in Packets, Write(p) PROVE IInv'
<1>1. /\ pc[p] = "write" /\ pc' = [pc EXCEPT ![p] = "unlock"]
      /\ UNCHANGED <<queue, pkt, mu, buff>>
      /\ p \in Holding /\ pkt[p] \in Packets
      /\ buff.header = pkt[p] /\ buff.data = pkt[p]
  BY DEF IInv, TypeOK, Mutex, OnePlace, Holding, Write, Goto
<1>2. Holding' = Holding \ {p} /\ Notified' = Notified
  BY <1>1 DEF IInv, TypeOK, Holding, Notified
<1>3. \/ /\ DOMAIN tun' = DOMAIN tun \cup {Len(tun) + 1}
         /\ Len(tun) + 1 \notin DOMAIN tun
         /\ \A i \in DOMAIN tun : tun'[i] = tun[i]
         /\ tun'[Len(tun) + 1] = buff /\ failed' = failed
      \/ tun' = tun /\ failed' = failed \cup {pkt[p]}
  <2>1. tun \in Seq(Images) /\ buff \in Images  BY DEF IInv, TypeOK
  <2>2. CASE tun' = Append(tun, buff) /\ failed' = failed
    BY <2>1, <2>2
  <2> QED  BY <2>2 DEF Write
<1>4. Gone' = Gone \cup {pkt[p]} /\ pkt[p] \notin Gone
  <2>1. pkt[p] \notin Gone  BY <1>1 DEF IInv, OnePlace
  <2>2. Gone' = Gone \cup {pkt[p]}  BY <1>1, <1>3 DEF Gone
  <2> QED  BY <2>1, <2>2
<1>5. TypeOK'
  <2>1. tun' \in Seq(Images)
    BY DEF IInv, TypeOK, Write
  <2> QED  BY <1>1, <1>3, <2>1 DEF IInv, TypeOK, PC
<1>6. OnePlace'
  <2>1. \A q \in Packets : pc'[q] = "send" <=> pc[q] = "send"
    BY <1>1 DEF IInv, TypeOK
  <2>2. \A i \in DOMAIN queue : queue[i] \in Packets  BY DEF IInv, TypeOK
  <2>3. \A q \in Holding \ {p} : pkt[q] # pkt[p]
    BY <1>1 DEF IInv, OnePlace
  <2>4. pc'[pkt[p]] # "send" /\ \A i \in DOMAIN queue : queue[i] # pkt[p]
    BY <1>1, <2>1 DEF IInv, OnePlace
  <2> QED
    BY <1>1, <1>2, <1>4, <2>1, <2>2, <2>3, <2>4 DEF IInv, OnePlace
<1>7. WholePackets' /\ WrittenOnce'
  <2>1. CASE tun' = tun /\ failed' = failed \cup {pkt[p]}
    BY <1>4, <2>1 DEF IInv, WholePackets, WrittenOnce, Gone
  <2>2. CASE /\ DOMAIN tun' = DOMAIN tun \cup {Len(tun) + 1}
             /\ Len(tun) + 1 \notin DOMAIN tun
             /\ \A i \in DOMAIN tun : tun'[i] = tun[i]
             /\ tun'[Len(tun) + 1] = buff /\ failed' = failed
    <3>1. pkt[p] # None  BY <1>1, TunAssumption
    <3>2. pkt[p] \notin failed /\ \A i \in DOMAIN tun : tun[i].header # pkt[p]
      BY <1>4 DEF Gone
    <3> QED  BY <1>1, <2>2, <3>1, <3>2 DEF IInv, WholePackets, WrittenOnce
  <2> QED  BY <1>3, <2>1, <2>2
<1> QED
  BY <1>1, <1>2, <1>5, <1>6, <1>7
  DEF IInv, TypeOK, ReadFindsPacket, Counted, Mutex

\* The other actions move no packet.
LEMMA StepInv == IInv /\ [Next]_vars => IInv'
<1> SUFFICES ASSUME IInv, [Next]_vars PROVE IInv'  OBVIOUS
<1>1. CASE UNCHANGED vars
  BY <1>1 DEF vars, IInv, TypeOK, ReadFindsPacket, Counted, Mutex, OnePlace,
              Notified, Holding, Gone, WholePackets, WrittenOnce
<1>2. ASSUME NEW p \in Packets, Refuse(p) PROVE IInv'
  <2>1. Notified' = Notified /\ Holding' = Holding /\ Gone' = Gone
    BY <1>2 DEF IInv, TypeOK, Refuse, Goto, Notified, Holding, Gone
  <2>2. \A q \in Packets : pc'[q] = "send" => pc[q] = "send"
    BY <1>2 DEF IInv, TypeOK, Refuse, Goto
  <2>3. OnePlace'
    BY <1>2, <2>1, <2>2 DEF IInv, TypeOK, Refuse, OnePlace
  <2> QED
    BY <1>2, <2>1, <2>3
    DEF IInv, TypeOK, PC, Refuse, Goto, ReadFindsPacket, Counted, Mutex,
        WholePackets, WrittenOnce
<1>3. ASSUME NEW p \in Packets,
             Lock(p) \/ BuildHeader(p) \/ BuildData(p)
      PROVE  IInv'
  <2>1. Notified' = Notified /\ Holding' = Holding /\ Gone' = Gone
    BY <1>3 DEF IInv, TypeOK, Lock, BuildHeader, BuildData, Goto, Notified,
                Holding, Gone
  <2>2. \A q \in Packets : pc'[q] = "send" <=> pc[q] = "send"
    BY <1>3 DEF IInv, TypeOK, Lock, BuildHeader, BuildData, Goto
  <2>3. OnePlace'
    BY <1>3, <2>1, <2>2 DEF IInv, TypeOK, Lock, BuildHeader, BuildData, OnePlace
  <2>4. pkt[p] \in Packets \cup {None}  BY DEF IInv, TypeOK
  <2>5. TypeOK' /\ Mutex'
    <3>1. CASE Lock(p)
      <4>1. TypeOK'  BY <3>1 DEF IInv, TypeOK, PC, Lock, Goto
      <4>2. Mutex'
        BY <3>1, TunAssumption DEF IInv, TypeOK, Mutex, Lock, Goto
      <4> QED  BY <4>1, <4>2
    <3>2. CASE BuildHeader(p)
      <4>1. /\ buff' \in Images /\ buff'.header = pkt[p]
            /\ buff'.data = buff.data
        BY <2>4, <3>2 DEF IInv, TypeOK, Images, BuildHeader
      <4>2. TypeOK'  BY <3>2, <4>1 DEF IInv, TypeOK, PC, BuildHeader, Goto
      <4>3. Mutex'  BY <3>2, <4>1 DEF IInv, TypeOK, Mutex, BuildHeader, Goto
      <4> QED  BY <4>2, <4>3
    <3>3. CASE BuildData(p)
      <4>1. /\ buff' \in Images /\ buff'.data = pkt[p]
            /\ buff'.header = buff.header
        BY <2>4, <3>3 DEF IInv, TypeOK, Images, BuildData
      <4>2. TypeOK'  BY <3>3, <4>1 DEF IInv, TypeOK, PC, BuildData, Goto
      <4>3. Mutex'  BY <3>3, <4>1 DEF IInv, TypeOK, Mutex, BuildData, Goto
      <4> QED  BY <4>2, <4>3
    <3> QED  BY <1>3, <3>1, <3>2, <3>3
  <2> QED
    BY <1>3, <2>1, <2>3, <2>5
    DEF IInv, TypeOK, Lock, BuildHeader, BuildData, Goto, ReadFindsPacket,
        Counted, WholePackets, WrittenOnce
<1>4. ASSUME NEW p \in Packets, Unlock(p) PROVE IInv'
  <2>1. Notified' = Notified /\ Holding' = Holding /\ Gone' = Gone
    BY <1>4 DEF IInv, TypeOK, Unlock, Goto, Notified, Holding, Gone
  <2>2. \A q \in Packets : pc'[q] = "send" <=> pc[q] = "send"
    BY <1>4 DEF IInv, TypeOK, Unlock, Goto
  <2>3. OnePlace'
    BY <1>4, <2>1, <2>2 DEF IInv, TypeOK, Unlock, OnePlace
  <2> QED
    BY <1>4, <2>1, <2>3
    DEF IInv, TypeOK, PC, Unlock, Goto, ReadFindsPacket, Counted, Mutex,
        WholePackets, WrittenOnce
<1> QED
  BY <1>1, <1>2, <1>3, <1>4, EnqueueInv, ReadInv, WriteInv
  DEF Next, WriteNotify

-----------------------------------------------------------------------------
\* The invariant holds in every behaviour of the endpoint.
THEOREM Invariance == Spec => []IInv
BY InitInv, StepInv, PTL DEF Spec

\* The types of the endpoint's state, the bound of the queue among them.
THEOREM TypeCorrect == Spec => []TypeOK
<1>1. IInv => TypeOK  BY DEF IInv
<1> QED  BY <1>1, Invariance, PTL

\* WriteNotify never reads a nil packet: a call for every packet, and one
\* read in every call.
THEOREM AlwaysFinds == Spec => []ReadFindsPacket
<1>1. IInv => ReadFindsPacket  BY DEF IInv
<1> QED  BY <1>1, Invariance, PTL

\* The mutex of WriteNotify is enough to protect the shared buffer.
THEOREM BufferIsSafe == Spec => []WholePackets
<1>1. IInv => WholePackets  BY DEF IInv
<1> QED  BY <1>1, Invariance, PTL

\* A packet taken from the queue is written at most once.
THEOREM AtMostOnce == Spec => []WrittenOnce
<1>1. IInv => WrittenOnce  BY DEF IInv
<1> QED  BY <1>1, Invariance, PTL

-----------------------------------------------------------------------------
(* Nothing is left behind on the way out.                                  *)

Queued == {queue[i] : i \in DOMAIN queue}
Held == {pkt[q] : q \in Holding}

\* Every packet the queue took has a place, and the mutex has a holder that
\* unlocks it.
Attended ==
    /\ \A p \in Packets :
          pc[p] \notin {"send", "refused"} => p \in Queued \cup Held \cup Gone
    /\ mu # None => pc[mu] \in {"header", "data", "write", "unlock"}

\* A packet moves on from the queue to a goroutine, and from there to the
\* device or the failed ones, in one step each.
LEMMA AttendedStep == IInv /\ Attended /\ [Next]_vars => Attended'
<1> SUFFICES ASSUME IInv, Attended, [Next]_vars PROVE Attended'  OBVIOUS
<1> USE TunAssumption DEF IInv, TypeOK, Goto
<1>1. CASE UNCHANGED vars
  BY <1>1 DEF vars, Attended, Queued, Held, Holding, Gone
<1>2. ASSUME NEW p \in Packets, Enqueue(p) PROVE Attended'
  <2>1. /\ DOMAIN queue' = DOMAIN queue \cup {Len(queue) + 1}
        /\ \A i \in DOMAIN queue : queue'[i] = queue[i]
        /\ queue'[Len(queue) + 1] = p
    BY <1>2 DEF Enqueue
  <2>2. /\ pc[p] = "send" /\ pc' = [pc EXCEPT ![p] = "notify"]
        /\ UNCHANGED <<pkt, mu, tun, failed>>
    BY <1>2 DEF Enqueue
  <2>3. \A r \in Packets : r \in Queued \/ r = p => r \in Queued'
    BY <2>1 DEF Queued
  <2>4. \A r \in Packets : /\ r \in Held => r \in Held'
                           /\ r \in Gone => r \in Gone'
    BY <2>2 DEF Held, Holding, Gone
  <2>5. mu' # None => pc'[mu'] \in {"header", "data", "write", "unlock"}
    BY <2>2 DEF Attended
  <2>6. \A r \in Packets : r # p => pc'[r] = pc[r]
    BY <2>2
  <2>7. \A r \in Packets : pc'[r] \notin {"send", "refused"} =>
                           r \in (Queued \cup Held \cup Gone)'
    BY <2>3, <2>4, <2>6 DEF Attended
  <2> QED  BY <2>5, <2>7 DEF Attended
<1>3. ASSUME NEW p \in Packets, Refuse(p) PROVE Attended'
  BY <1>3 DEF Refuse, Attended, Queued, Held, Holding, Gone
<1>4. ASSUME NEW p \in Packets, Read(p) PROVE Attended'
  <2>1. queue # <<>>
    BY <1>4, ReadInv DEF Read, ReadFindsPacket
  <2>2. /\ pc[p] = "notify" /\ pc' = [pc EXCEPT ![p] = "lock"]
        /\ queue' = Tail(queue) /\ pkt' = [pkt EXCEPT ![p] = queue[1]]
        /\ UNCHANGED <<mu, tun, failed>>
    BY <1>4, <2>1 DEF Read
  <2>3. \A i \in DOMAIN queue : i # 1 => i - 1 \in DOMAIN queue' /\ queue'[i - 1] = queue[i]
    BY <2>1, <2>2
  <2>4. ASSUME NEW r \in Packets, r \in Queued PROVE r \in Queued' \/ r \in Held'
    <3>1. PICK i \in DOMAIN queue : queue[i] = r
      BY <2>4 DEF Queued
    <3>2. CASE i = 1
      <4>1. pc'[p] = "lock" /\ pkt'[p] = r
        BY <2>2, <3>1, <3>2
      <4> QED  BY <4>1 DEF Held, Holding
    <3>3. CASE i # 1  BY <2>3, <3>1, <3>3 DEF Queued
    <3> QED  BY <3>2, <3>3
  <2>5. ASSUME NEW r \in Packets, r \in Held PROVE r \in Held'
    <3>1. PICK q \in Holding : pkt[q] = r
      BY <2>5 DEF Held
    <3>2. q # p /\ q \in Packets /\ q \in Holding' /\ pkt'[q] = r
      BY <2>2, <3>1 DEF Holding
    <3> QED  BY <3>2 DEF Held
  <2>6. mu' # None => pc'[mu'] \in {"header", "data", "write", "unlock"}
    BY <2>2 DEF Attended
  <2>7. \A r \in Packets : /\ r \in Gone => r \in Gone'
                           /\ pc'[r] \notin {"send", "refused"} =>
                                  pc[r] \notin {"send", "refused"}
    BY <2>2 DEF Gone
  <2> QED  BY <2>4, <2>5, <2>6, <2>7 DEF Attended
<1>5. ASSUME NEW p \in Packets, Lock(p) \/ BuildHeader(p) \/ BuildData(p)
      PROVE  Attended'
  <2>1. /\ UNCHANGED <<queue, pkt, tun, failed>> /\ p \in Holding
        /\ \E to \in {"header", "data", "write"} : pc' = [pc EXCEPT ![p] = to]
        /\ mu' = mu \/ mu' = p
    BY <1>5 DEF Lock, BuildHeader, BuildData, Holding
  <2>2. \A r \in Packets : /\ r \in Queued => r \in Queued'
                           /\ r \in Held => r \in Held'
                           /\ r \in Gone => r \in Gone'
                           /\ pc'[r] \notin {"send", "refused"} =>
                                  pc[r] \notin {"send", "refused"}
    BY <2>1 DEF Queued, Held, Holding, Gone
  <2>3. mu' # None => pc'[mu'] \in {"header", "data", "write", "unlock"}
    BY <2>1 DEF Attended
  <2> QED  BY <2>2, <2>3 DEF Attended
<1>6. ASSUME NEW p \in Packets, Write(p) PROVE Attended'
  <2>1. /\ pc[p] = "write" /\ pc' = [pc EXCEPT ![p] = "unlock"]
        /\ buff.header = pkt[p] /\ UNCHANGED <<queue, pkt, mu>>
    BY <1>6 DEF Write, Mutex
  <2>2. pkt[p] \in Gone' /\ Gone \subseteq Gone'
    <3>1. CASE tun' = Append(tun, buff) /\ UNCHANGED failed
      <4>1. /\ DOMAIN tun' = DOMAIN tun \cup {Len(tun) + 1}
            /\ \A i \in DOMAIN tun : tun'[i] = tun[i]
            /\ tun'[Len(tun) + 1] = buff
        BY <3>1
      <4> QED  BY <2>1, <3>1, <4>1 DEF Gone
    <3>2. CASE failed' = failed \cup {pkt[p]} /\ UNCHANGED tun
      BY <3>2 DEF Gone
    <3> QED  BY <1>6, <3>1, <3>2 DEF Write
  <2>3. ASSUME NEW r \in Packets, r \in Held PROVE r \in Held' \/ r \in Gone'
    <3>1. PICK q \in Holding : pkt[q] = r
      BY <2>3 DEF Held
    <3>2. q # p => q \in Holding' /\ pkt'[q] = r
      BY <2>1, <3>1 DEF Holding
    <3> QED  BY <2>2, <3>1, <3>2 DEF Held
  <2>4. mu' # None => pc'[mu'] \in {"header", "data", "write", "unlock"}
    BY <2>1 DEF Attended
  <2>5. \A r \in Packets : /\ r \in Queued => r \in Queued'
                           /\ pc'[r] \notin {"send", "refused"} =>
                                  pc[r] \notin {"send", "refused"}
    BY <2>1 DEF Queued
  <2> QED  BY <2>2, <2>3, <2>4, <2>5 DEF Attended
<1>7. ASSUME NEW p \in Packets, Unlock(p) PROVE Attended'
  <2>1. /\ UNCHANGED <<queue, pkt, tun, failed>> /\ mu' = None
        /\ pc[p] = "unlock" /\ pc' = [pc EXCEPT ![p] = "done"]
    BY <1>7 DEF Unlock
  <2>2. \A r \in Packets : /\ r \in Queued => r \in Queued'
                           /\ r \in Held => r \in Held'
                           /\ r \in Gone => r \in Gone'
                           /\ pc'[r] \notin {"send", "refused"} =>
                                  pc[r] \notin {"send", "refused"}
    BY <2>1 DEF Queued, Held, Holding, Gone
  <2> QED  BY <2>1, <2>2 DEF Attended
<1> QED
  BY <1>1, <1>2, <1>3, <1>4, <1>5, <1>6, <1>7 DEF Next, WriteNotify

-----------------------------------------------------------------------------
(* Both directions.                                                        *)

\* Every buffer holds the packet it was allocated for, and the stack has been
\* given each at most once, in their order.
InboundInv ==
    /\ DeviceTypeOK
    /\ \A b \in DOMAIN mem : mem[b] = b
    /\ \A i, j \in DOMAIN stack : i < j => stack[i] < stack[j]
    /\ loop = "inject" => /\ Len(mem) # 0
                          /\ \A i \in DOMAIN stack : stack[i] < Len(mem)

\* A packet the queue has refused is neither in the queue nor in a goroutine.
Admitted ==
    /\ \A i \in DOMAIN queue : pc[queue[i]] # "refused"
    /\ \A p \in Holding : pc[pkt[p]] # "refused"

DeviceInv == IInv /\ InboundInv /\ Admitted

-----------------------------------------------------------------------------
\* Initially neither direction has seen a packet.
LEMMA DeviceInitInv == DeviceInit => DeviceInv
<1> SUFFICES ASSUME DeviceInit PROVE DeviceInv  OBVIOUS
<1>1. IInv  BY InitInv DEF DeviceInit
<1>2. InboundInv
  BY <1>1, DeviceAssumption
  DEF DeviceInit, InboundInv, DeviceTypeOK, IInv
<1>3. Admitted  BY DEF DeviceInit, Init, Admitted, Holding
<1> QED  BY <1>1, <1>2, <1>3 DEF DeviceInv

\* The reading loop acts on the way out as any sender does, or not at all.
LEMMA OutwardStep == [DeviceNext]_deviceVars => [Next]_vars
BY DEF DeviceNext, deviceVars, Next, Send, Notify, ReplyInline, ReadFrame,
       ReadFails, Inject, InjectInbound, DropFrame, InjectReturns

\* Packets leave the state "refused" never, and "send" only for the queue.
LEMMA AdmittedStep == IInv /\ Admitted /\ [Next]_vars => Admitted'
<1> SUFFICES ASSUME IInv, Admitted, [Next]_vars PROVE Admitted'  OBVIOUS
<1> USE DEF IInv, TypeOK, Admitted, Holding, Goto
<1>1. CASE UNCHANGED vars  BY <1>1 DEF vars
<1>2. ASSUME NEW p \in Packets, Enqueue(p) PROVE Admitted'
  <2>1. /\ DOMAIN queue' = DOMAIN queue \cup {Len(queue) + 1}
        /\ \A i \in DOMAIN queue : queue'[i] = queue[i] /\ queue[i] \in Packets
        /\ queue'[Len(queue) + 1] = p
    BY <1>2 DEF Enqueue
  <2>2. QED  BY <1>2, <2>1 DEF Enqueue, OnePlace
<1>3. ASSUME NEW p \in Packets, Refuse(p) PROVE Admitted'
  BY <1>3 DEF Refuse, OnePlace
<1>4. ASSUME NEW p \in Packets, Read(p) PROVE Admitted'
  <2>1. queue # <<>>
    BY <1>4, ReadInv DEF Read, ReadFindsPacket
  <2>2. /\ Head(queue) = queue[1] /\ 1 \in DOMAIN queue
        /\ queue' = Tail(queue) /\ pkt' = [pkt EXCEPT ![p] = queue[1]]
    BY <1>4, <2>1 DEF Read
  <2>3. \A i \in DOMAIN queue' : i + 1 \in DOMAIN queue /\ queue'[i] = queue[i + 1]
    BY <2>1, <2>2
  <2>4. /\ pc[p] = "notify" /\ pc'[p] = "lock"
        /\ \A q \in Packets : q # p => pc'[q] = pc[q]
    BY <1>4, <2>1 DEF Read
  <2>5. \A i \in DOMAIN queue : queue[i] \in Packets
    OBVIOUS
  <2>6. \A q \in Holding : pkt[q] \in Packets
    BY DEF OnePlace
  <2> QED  BY <2>2, <2>3, <2>4, <2>5, <2>6
<1>5. ASSUME NEW p \in Packets, Lock(p) \/ BuildHeader(p) \/ BuildData(p)
      PROVE  Admitted'
  BY <1>5 DEF Lock, BuildHeader, BuildData, OnePlace
<1>6. ASSUME NEW p \in Packets, Write(p) \/ Unlock(p) PROVE Admitted'
  BY <1>6 DEF Write, Unlock, OnePlace
<1> QED
  BY <1>1, <1>2, <1>3, <1>4, <1>5, <1>6 DEF Next, WriteNotify

\* A new buffer per packet: what the stack holds is never written again.
LEMMA InboundStep ==
    InboundInv /\ TypeOK' /\ [DeviceNext]_deviceVars => InboundInv'
<1> SUFFICES ASSUME InboundInv, TypeOK', [DeviceNext]_deviceVars
             PROVE  InboundInv'
  OBVIOUS
<1> USE DeviceAssumption DEF InboundInv, DeviceTypeOK, Kinds
<1>1. CASE UNCHANGED deviceVars
  BY <1>1 DEF deviceVars, inVars
<1>2. ASSUME NEW p \in Packets, Send(p) \/ Notify(p) PROVE InboundInv'
  BY <1>2 DEF Send, Notify, inVars
<1>3. ASSUME NEW p \in Packets, ReplyInline(p) PROVE InboundInv'
  BY <1>3 DEF ReplyInline
<1>4. CASE ReadFrame
  <2>1. PICK k \in Kinds : given' = Append(given, k)
    BY <1>4 DEF ReadFrame
  <2>2. /\ given' \in Seq(Kinds) /\ Len(given') = Len(given) + 1
        /\ Len(given') <= MaxFrames
    BY <1>4, <2>1 DEF ReadFrame
  <2>3. /\ mem' \in Seq(Nat) /\ Len(mem') = Len(mem) + 1
        /\ \A b \in DOMAIN mem' : mem'[b] = b
    BY <1>4, <2>2 DEF ReadFrame
  <2>4. stack' \in Seq(1..Len(mem'))
        /\ \A i \in DOMAIN stack' : stack'[i] < Len(mem')
    BY <1>4, <2>3 DEF ReadFrame
  <2> QED  BY <1>4, <2>2, <2>3, <2>4 DEF ReadFrame
<1>5. CASE ReadFails  BY <1>5 DEF ReadFails
<1>6. CASE InjectInbound
  <2>1. /\ stack' \in Seq(1..Len(mem)) /\ Len(stack') = Len(stack) + 1
        /\ \A i \in DOMAIN stack : stack'[i] = stack[i]
        /\ stack'[Len(stack) + 1] = Len(mem)
    BY <1>6 DEF InjectInbound
  <2>2. \A i, j \in DOMAIN stack' : i < j => stack'[i] < stack'[j]
    BY <1>6, <2>1 DEF InjectInbound
  <2> QED  BY <1>6, <2>1, <2>2 DEF InjectInbound
<1>7. CASE DropFrame \/ InjectReturns
  BY <1>7 DEF DropFrame, InjectReturns
<1> QED
  BY <1>1, <1>2, <1>3, <1>4, <1>5, <1>6, <1>7 DEF DeviceNext, Inject

\* The invariant of both directions.
THEOREM DeviceInvariance == DeviceSpec => []DeviceInv
<1>1. DeviceInv /\ [DeviceNext]_deviceVars => DeviceInv'
  BY OutwardStep, StepInv, AdmittedStep, InboundStep DEF DeviceInv, IInv
<1> QED  BY <1>1, DeviceInitInv, PTL DEF DeviceSpec

\* However the goroutines of WriteNotify overtake each other, each packet
\* taken has a place, a call for each packet queued, and the mutex a holder.
THEOREM NothingLeftBehind == DeviceSpec => []PacketsKept
<1>1. DeviceInit => Attended
  BY DEF DeviceInit, Init, Attended
<1>2. IInv /\ Attended => PacketsKept
  <2> SUFFICES ASSUME IInv, Attended PROVE PacketsKept  OBVIOUS
  <2>1. \A p \in Packets : p \in Gone =>
            p \in failed \/ \E i \in DOMAIN tun : tun[i].header = p
    BY DEF Gone
  <2>2. Len(queue) = Cardinality({p \in Packets : pc[p] = "notify"})
    BY DEF IInv, Counted, Notified
  <2> QED  BY <2>1, <2>2 DEF Attended, Queued, Held, Holding, PacketsKept
<1>3. DeviceInv => IInv
  BY DEF DeviceInv
<1> QED
  BY <1>1, <1>2, <1>3, AttendedStep, OutwardStep, DeviceInvariance, PTL
  DEF DeviceSpec

\* The types of the state of both directions.
THEOREM DeviceTypes == DeviceSpec => []DeviceTypeOK
<1>1. DeviceInv => DeviceTypeOK  BY DEF DeviceInv, InboundInv
<1> QED  BY <1>1, DeviceInvariance, PTL
-----------------------------------------------------------------------------
(* The refinement.                                                         *)

\* Every packet written is whole, so Out is the sequence of their names.
LEMMA OutIsHeaders ==
    IInv => Out = [i \in DOMAIN tun |-> tun[i].header]
BY DEF IInv, WholePackets, Out

\* A step of WriteNotify is a step of the wire if it writes, and hidden if not.
LEMMA NotifyStep ==
    ASSUME DeviceInv, DeviceInv', NEW p \in Packets, Notify(p)
    PROVE  IF Write(p) THEN Wire!Emit(pkt[p]) \/ Wire!Lose(pkt[p])
                       ELSE UNCHANGED Wire!vars
<1> DEFINE Accepted == {q \in Packets : pc[q] \notin {"send", "refused"}}
           Up == \A q \in Packets : pc[q] # "panic"
<1>1. Up /\ Up' /\ UNCHANGED Heard
  BY DEF DeviceInv, IInv, ReadFindsPacket, Notify, inVars, Heard
<1>2. Accepted' = Accepted
  BY DEF DeviceInv, IInv, TypeOK, Notify, WriteNotify, Read, Lock, BuildHeader,
         BuildData, Write, Unlock, Goto
<1>3. CASE ~Write(p)
  <2>1. UNCHANGED <<tun, failed>>
    BY <1>3 DEF Notify, WriteNotify, Read, Lock, BuildHeader, BuildData, Unlock
  <2>2. UNCHANGED Out
    BY <2>1 DEF Out
  <2> QED  BY <1>1, <1>2, <1>3, <2>1, <2>2 DEF Wire!vars
<1>4. CASE Write(p)
  <2>1. /\ p \in Holding /\ pkt[p] \in Packets /\ pkt[p] \notin Gone
        /\ pc[pkt[p]] \notin {"send", "refused"}
    BY <1>4 DEF Write, Goto, Holding, DeviceInv, IInv, TypeOK, OnePlace, Admitted
  <2>2. Out = [i \in DOMAIN tun |-> tun[i].header]
    BY OutIsHeaders DEF DeviceInv
  <2>3. Out' = [i \in DOMAIN tun' |-> tun'[i].header]
    BY OutIsHeaders DEF DeviceInv, IInv, WholePackets, Out
  <2>4. Wire!Pending(pkt[p])
    BY <2>1, <2>2 DEF Wire!Pending, Gone
  <2>5. CASE tun' = Append(tun, buff) /\ failed' = failed
    <3>1. buff.header = pkt[p]
      BY <1>4 DEF Write, Goto, DeviceInv, IInv, Mutex
    <3>2. /\ tun \in Seq(Images) /\ Len(tun') = Len(tun) + 1
          /\ DOMAIN tun' = 1..(Len(tun) + 1) /\ DOMAIN tun = 1..Len(tun)
          /\ \A i \in DOMAIN tun : tun'[i] = tun[i]
          /\ tun'[Len(tun) + 1] = buff
      BY <2>5 DEF DeviceInv, IInv, TypeOK
    <3>3. Out \in Seq(Packets \cup {None}) /\ Len(Out) = Len(tun)
      <4>1. \A i \in 1..Len(tun) : tun[i].header \in Packets \cup {None}
        <5>1. \A i \in 1..Len(tun) : tun[i] \in Images
          BY <3>2
        <5>2. \A r \in Images : r.header \in Packets \cup {None}
          BY DEF Images
        <5> QED  BY <5>1, <5>2
      <4>2. Out = [i \in 1..Len(tun) |-> tun[i].header] /\ Len(tun) \in Nat
        BY <2>2, <3>2
      <4> QED  BY <4>1, <4>2
    <3>4. Out' = Append(Out, pkt[p])
      BY <2>2, <2>3, <3>1, <3>2, <3>3
    <3> QED  BY <1>1, <1>2, <1>4, <2>4, <2>5, <3>4 DEF Wire!Emit
  <2>6. CASE failed' = failed \cup {pkt[p]} /\ tun' = tun
    <3>1. UNCHANGED Out
      BY <2>6 DEF Out
    <3> QED  BY <1>1, <1>2, <1>4, <2>4, <2>6, <3>1 DEF Wire!Lose
  <2> QED  BY <1>4, <2>5, <2>6 DEF Write
<1> QED  BY <1>3, <1>4

\* A packet that enters the queue is accepted, a refused one is not.
LEMMA SendStep ==
    ASSUME DeviceInv, DeviceInv', NEW p \in Packets, Enqueue(p) \/ Refuse(p),
           UNCHANGED <<mem, stack>>
    PROVE  Wire!Accept(p) \/ UNCHANGED Wire!vars
<1> DEFINE Accepted == {q \in Packets : pc[q] \notin {"send", "refused"}}
           Up == \A q \in Packets : pc[q] # "panic"
<1>1. /\ Up /\ Up' /\ UNCHANGED <<Heard, Out, failed>>
  BY DEF DeviceInv, IInv, ReadFindsPacket, Heard, Out, Enqueue, Refuse
<1>2. CASE Enqueue(p)
  <2>1. p \notin Accepted /\ Accepted' = Accepted \cup {p}
    BY <1>2 DEF Enqueue, Goto, DeviceInv, IInv, TypeOK
  <2> QED  BY <1>1, <2>1 DEF Wire!Accept
<1>3. CASE Refuse(p)
  <2>1. Accepted' = Accepted
    BY <1>3 DEF Refuse, Goto, DeviceInv, IInv, TypeOK
  <2> QED  BY <1>1, <2>1 DEF Wire!vars
<1> QED  BY <1>2, <1>3

\* The reading loop shows when it injects a packet, and only then.
LEMMA LoopStep ==
    ASSUME DeviceInv, DeviceInv', ReadFrame \/ ReadFails \/ Inject
    PROVE  \/ \E n \in 1..MaxFrames : Wire!Hear(n)
           \/ UNCHANGED Wire!vars
<1> USE DEF DeviceInv, InboundInv, DeviceTypeOK
<1>1. UNCHANGED <<pc, tun, failed, Out>>
  BY DEF ReadFrame, ReadFails, Inject, InjectInbound, DropFrame, InjectReturns,
         vars, Out
<1>2. CASE InjectInbound
  <2>1. /\ Len(mem) \in 1..MaxFrames
        /\ \A i \in DOMAIN stack : stack[i] < Len(mem)
    BY <1>2, DeviceAssumption DEF InjectInbound
  <2>2. /\ DOMAIN stack' = 1..(Len(stack) + 1) /\ DOMAIN stack = 1..Len(stack)
        /\ \A i \in DOMAIN stack : stack'[i] = stack[i] /\ stack[i] \in DOMAIN mem
        /\ stack'[Len(stack) + 1] = Len(mem) /\ mem' = mem
    BY <1>2 DEF InjectInbound
  <2>3. Heard \in Seq(Nat) /\ Len(Heard) = Len(stack)
    BY <2>2 DEF Heard
  <2>4. Heard' = [i \in DOMAIN stack' |-> mem[stack'[i]]]
    BY <2>2 DEF Heard
  <2>5. mem[stack'[Len(stack) + 1]] = Len(mem)
    BY <2>1, <2>2
  <2>6. Heard' = Append(Heard, Len(mem))
    BY <2>2, <2>3, <2>4, <2>5 DEF Heard
  <2>7. \A i \in DOMAIN Heard : Heard[i] < Len(mem)
    BY <2>1, <2>2 DEF Heard
  <2> QED  BY <1>1, <2>1, <2>6, <2>7 DEF Wire!Hear
<1>3. CASE ReadFrame
  <2>1. mem' = Append(mem, Len(given')) /\ stack' = stack
    BY <1>3 DEF ReadFrame
  <2>2. \A i \in DOMAIN stack : stack[i] \in DOMAIN mem /\ mem'[stack[i]] = mem[stack[i]]
    BY <2>1
  <2>3. UNCHANGED Heard
    BY <2>1, <2>2 DEF Heard
  <2> QED  BY <1>1, <2>3 DEF Wire!vars
<1>4. CASE ReadFails \/ DropFrame \/ InjectReturns
  <2>1. UNCHANGED Heard
    BY <1>4 DEF ReadFails, DropFrame, InjectReturns, Heard
  <2> QED  BY <1>1, <2>1 DEF Wire!vars
<1> QED  BY <1>2, <1>3, <1>4 DEF Inject

\* Both directions of the endpoint implement the wire.
THEOREM DeviceIsWire == DeviceSpec => ImplementsWire
<1>1. DeviceInit => Wire!Init
  BY DEF DeviceInit, Init, Wire!Init, Out, Heard
<1>2. DeviceInv /\ DeviceInv' /\ [DeviceNext]_deviceVars => [Wire!Next]_Wire!vars
  <2> SUFFICES ASSUME DeviceInv, DeviceInv', [DeviceNext]_deviceVars
               PROVE  [Wire!Next]_Wire!vars
    OBVIOUS
  <2>1. CASE UNCHANGED deviceVars
    BY <2>1 DEF deviceVars, vars, inVars, Wire!vars, Out, Heard
  <2>2. ASSUME NEW p \in Packets, Notify(p) PROVE [Wire!Next]_Wire!vars
    <3>1. CASE ~Write(p)
      <4>1. UNCHANGED Wire!vars
        BY <2>2, <3>1, NotifyStep
      <4> QED  BY <4>1
    <3>2. CASE Write(p)
      <4>1. pkt[p] \in Packets
        BY <3>2 DEF Write, Goto, Holding, DeviceInv, IInv, OnePlace
      <4> QED  BY <2>2, <4>1, NotifyStep DEF Wire!Next
    <3> QED  BY <3>1, <3>2
  <2>3. ASSUME NEW p \in Packets, Send(p) \/ ReplyInline(p)
        PROVE  [Wire!Next]_Wire!vars
    BY <2>3, SendStep DEF Send, ReplyInline, inVars, Wire!Next
  <2>4. CASE ReadFrame \/ ReadFails \/ Inject
    BY <2>4, LoopStep DEF Wire!Next
  <2> QED  BY <2>1, <2>2, <2>3, <2>4 DEF DeviceNext
<1> QED
  BY <1>1, <1>2, DeviceInvariance, PTL DEF DeviceSpec, ImplementsWire, Wire!Spec
=============================================================================
