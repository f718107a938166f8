---------------------------- MODULE CallBarrier ----------------------------
(***************************************************************************)
(* What the change notifications of winipcfg promise to those who register *)
(* a callback: a change of the system reaches every registered callback,   *)
(* and nobody is told that a callback is unregistered while a call of it   *)
(* runs or can still start.  Mutexes, the subscription and the WaitGroup   *)
(* belong to the implementation, ChangeCallback.                           *)
(***************************************************************************)
EXTENDS Naturals

CONSTANT Callbacks

VARIABLES
    status,    \* "in": registered, "leaving": Unregister waits, "out"
    running    \* how many calls of each callback are in progress

vars == <<status, running>>

Init ==
    /\ status = [c \in Callbacks |-> "out"]
    /\ running = [c \in Callbacks |-> 0]

Enter(c) ==
    /\ status[c] = "out" /\ running[c] = 0
    /\ status' = [status EXCEPT ![c] = "in"]
    /\ UNCHANGED running

\* The registration is refused: no call has been made.
Refuse(c) ==
    /\ status[c] = "in" /\ running[c] = 0
    /\ status' = [status EXCEPT ![c] = "out"]
    /\ UNCHANGED running

\* Unregister, called again if it failed: no call starts from here on.
Leave(c) ==
    /\ status[c] \in {"in", "out"}
    /\ status' = [status EXCEPT ![c] = "leaving"]
    /\ UNCHANGED running

\* The owner may be told that the callback is gone.
Left(c) ==
    /\ status[c] = "leaving" /\ running[c] = 0
    /\ status' = [status EXCEPT ![c] = "out"]
    /\ UNCHANGED running

\* A change starts one call of every registered callback, and of no other.
Start ==
    /\ running' = [c \in Callbacks |->
                      IF status[c] = "in" THEN running[c] + 1 ELSE running[c]]
    /\ UNCHANGED status

End(c) ==
    /\ running[c] > 0
    /\ running' = [running EXCEPT ![c] = @ - 1]
    /\ UNCHANGED status

Next ==
    \/ \E c \in Callbacks : \/ Enter(c) \/ Refuse(c) \/ Leave(c) \/ Left(c)
                            \/ End(c)
    \/ Start

Spec == Init /\ [][Next]_vars

=============================================================================
