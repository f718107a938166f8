--------------------------- MODULE ChangeCallback ---------------------------
(***************************************************************************)
(* Change notifications of winipcfg: route_change_handler.go, and, line    *)
(* for line the same, interface_change_handler.go and                      *)
(* unicast_address_change_handler.go.  The Windows InitRoute registers the *)
(* callbacks that keep model.Routes up to date with them.                  *)
(*                                                                         *)
(* A member of Callbacks stands for one RouteChangeCallback structure and  *)
(* the thread that registers and unregisters it; a member of Notifiers for *)
(* one system thread that calls routeChanged.                              *)
(***************************************************************************)
EXTENDS Naturals, FiniteSets

CONSTANTS
    Callbacks,   \* the callback structures
    Notifiers,   \* the system's notification threads
    MaxCalls,    \* bound on the calls of one callback in progress at a time
    None         \* nobody

ASSUME ChangeAssumption ==
    /\ MaxCalls \in Nat \ {0}
    /\ None \notin Callbacks

VARIABLES
    pc,              \* where each callback's thread is
    addRemoveMutex,  \* holder of routeChangeAddRemoveMutex
    mutex,           \* holder of routeChangeMutex, when it is held for long
    callbacks,       \* routeChangeCallbacks
    handle,          \* routeChangeHandle # 0
    removeIt,        \* Unregister's local variable, per thread
    wait,            \* the counter of each callback's WaitGroup
    subscribed,      \* external: the system delivers notifications
    notifier         \* external: where each notification thread is

vars == <<pc, addRemoveMutex, mutex, callbacks, handle, removeIt, wait,
          subscribed, notifier>>

Registering == {"add", "subscribe", "return"}
Unregistering == {"remove", "wait", "removed", "cancelling"}
PC == {"new", "registered", "refused", "failed", "unregistered"}
      \cup Registering \cup Unregistering

Init ==
    /\ pc = [c \in Callbacks |-> "new"]
    /\ addRemoveMutex = None
    /\ mutex = None
    /\ callbacks = {}
    /\ handle = FALSE
    /\ removeIt = [c \in Callbacks |-> FALSE]
    /\ wait = [c \in Callbacks |-> 0]
    /\ subscribed = FALSE
    /\ notifier = [n \in Notifiers |-> "idle"]

Goto(c, from, to) ==
    /\ pc[c] = from
    /\ pc' = [pc EXCEPT ![c] = to]

-----------------------------------------------------------------------------
(* RegisterRouteChangeCallback.                                            *)

RegisterLock(c) ==
    /\ Goto(c, "new", "add")
    /\ addRemoveMutex = None
    /\ addRemoveMutex' = c
    /\ UNCHANGED <<mutex, callbacks, handle, removeIt, wait, subscribed,
                   notifier>>

\* The second mutex, held until the function returns.
RegisterAdd(c) ==
    /\ Goto(c, "add", IF handle THEN "return" ELSE "subscribe")
    /\ mutex = None
    /\ mutex' = c
    /\ callbacks' = callbacks \cup {c}
    /\ UNCHANGED <<addRemoveMutex, handle, removeIt, wait, subscribed,
                   notifier>>

\* notifyRouteChange2 stores the handle; from here on the system notifies.
Subscribe(c) ==
    /\ Goto(c, "subscribe", "return")
    /\ handle' = TRUE
    /\ subscribed' = TRUE
    /\ UNCHANGED <<addRemoveMutex, mutex, callbacks, removeIt, wait, notifier>>

\* Mutant: the refused callback stays in the table.
SubscribeFailsDirty(c) ==
    /\ Goto(c, "subscribe", "refused")
    /\ handle' = FALSE
    /\ mutex' = None
    /\ addRemoveMutex' = None
    /\ UNCHANGED <<callbacks, removeIt, wait, subscribed, notifier>>

SubscribeFails(c) ==
    /\ Goto(c, "subscribe", "refused")
    /\ callbacks' = callbacks \ {c}
    /\ handle' = FALSE
    /\ mutex' = None
    /\ addRemoveMutex' = None
    /\ UNCHANGED <<removeIt, wait, subscribed, notifier>>

RegisterReturn(c) ==
    /\ Goto(c, "return", "registered")
    /\ mutex' = None
    /\ addRemoveMutex' = None
    /\ UNCHANGED <<callbacks, handle, removeIt, wait, subscribed, notifier>>

-----------------------------------------------------------------------------
(* Unregister, also called again after it returned an error.               *)

UnregisterLock(c) ==
    /\ pc[c] \in {"registered", "failed"}
    /\ pc' = [pc EXCEPT ![c] = "remove"]
    /\ addRemoveMutex = None
    /\ addRemoveMutex' = c
    /\ UNCHANGED <<mutex, callbacks, handle, removeIt, wait, subscribed,
                   notifier>>

\* Mutant: the second mutex is kept over the wait and the cancellation.
UnregisterRemoveLocked(c) ==
    /\ Goto(c, "remove", "wait")
    /\ mutex = None
    /\ mutex' = c
    /\ callbacks' = callbacks \ {c}
    /\ removeIt' = [removeIt EXCEPT ![c] = callbacks' = {} /\ handle]
    /\ UNCHANGED <<addRemoveMutex, handle, wait, subscribed, notifier>>

\* Mutant: the callback is left in the table.
UnregisterRemoveForgotten(c) ==
    /\ Goto(c, "remove", "wait")
    /\ mutex = None
    /\ removeIt' = [removeIt EXCEPT ![c] = callbacks = {c} /\ handle]
    /\ UNCHANGED <<addRemoveMutex, mutex, callbacks, handle, wait, subscribed,
                   notifier>>

\* Under the second mutex, which is released at once.
UnregisterRemove(c) ==
    /\ Goto(c, "remove", "wait")
    /\ mutex = None
    /\ callbacks' = callbacks \ {c}
    /\ removeIt' = [removeIt EXCEPT ![c] = callbacks' = {} /\ handle]
    /\ UNCHANGED <<addRemoveMutex, mutex, handle, wait, subscribed, notifier>>

\* Mutant: Unregister does not wait for the calls in progress.
UnregisterNoWait(c) ==
    /\ Goto(c, "wait", "removed")
    /\ UNCHANGED <<addRemoveMutex, mutex, callbacks, handle, removeIt, wait,
                   subscribed, notifier>>

\* callback.wait.Wait()
UnregisterWait(c) ==
    /\ Goto(c, "wait", "removed")
    /\ wait[c] = 0
    /\ UNCHANGED <<addRemoveMutex, mutex, callbacks, handle, removeIt, wait,
                   subscribed, notifier>>

\* Other callbacks remain, or the notification was never set up.
UnregisterKeep(c) ==
    /\ ~removeIt[c]
    /\ Goto(c, "removed", "unregistered")
    /\ addRemoveMutex' = None
    /\ UNCHANGED <<mutex, callbacks, handle, removeIt, wait, subscribed,
                   notifier>>

\* cancelMibChangeNotify2 first stops new notifications ...
Cancel(c) ==
    /\ removeIt[c]
    /\ Goto(c, "removed", "cancelling")
    /\ subscribed' = FALSE
    /\ UNCHANGED <<addRemoveMutex, mutex, callbacks, handle, removeIt, wait,
                   notifier>>

\* ... and returns when none is being delivered.
CancelReturns(c) ==
    /\ \A n \in Notifiers : notifier[n] = "idle"
    /\ Goto(c, "cancelling", "unregistered")
    /\ handle' = FALSE
    /\ addRemoveMutex' = None
    /\ UNCHANGED <<mutex, callbacks, removeIt, wait, subscribed, notifier>>

\* Its error is returned and the handle kept.
CancelFails(c) ==
    /\ removeIt[c]
    /\ Goto(c, "removed", "failed")
    /\ addRemoveMutex' = None
    /\ UNCHANGED <<mutex, callbacks, handle, removeIt, wait, subscribed,
                   notifier>>

\* A later registration allocates a new structure.
Reallocate(c) ==
    /\ pc[c] \in {"refused", "unregistered"}
    /\ pc' = [pc EXCEPT ![c] = "new"]
    /\ wait' = [wait EXCEPT ![c] = 0]
    /\ UNCHANGED <<addRemoveMutex, mutex, callbacks, handle, removeIt,
                   subscribed, notifier>>

-----------------------------------------------------------------------------
(* The system, routeChanged and the goroutines it starts.                  *)

Calling == {n \in Notifiers : notifier[n] = "calling"}

\* A route changes: the system calls routeChanged on one of its threads.
Notify(n) ==
    /\ subscribed
    /\ notifier[n] = "idle"
    /\ \A c \in Callbacks : wait[c] + Cardinality(Calling) < MaxCalls
    /\ notifier' = [notifier EXCEPT ![n] = "calling"]
    /\ UNCHANGED <<pc, addRemoveMutex, mutex, callbacks, handle, removeIt,
                   wait, subscribed>>

\* Under the second mutex: wait.Add(1) and a goroutine for every callback.
Changed(n) ==
    /\ notifier[n] = "calling"
    /\ mutex = None
    /\ wait' = [c \in Callbacks |->
                   IF c \in callbacks THEN wait[c] + 1 ELSE wait[c]]
    /\ notifier' = [notifier EXCEPT ![n] = "idle"]
    /\ UNCHANGED <<pc, addRemoveMutex, mutex, callbacks, handle, removeIt,
                   subscribed>>

\* Mutant: Done is also called when no call is in progress.
DoneUnmatched(c) ==
    /\ wait' = [wait EXCEPT ![c] = @ - 1]
    /\ UNCHANGED <<pc, addRemoveMutex, mutex, callbacks, handle, removeIt,
                   subscribed, notifier>>

\* The callback function has returned: wait.Done().
Done(c) ==
    /\ wait[c] > 0
    /\ wait' = [wait EXCEPT ![c] = @ - 1]
    /\ UNCHANGED <<pc, addRemoveMutex, mutex, callbacks, handle, removeIt,
                   subscribed, notifier>>

Register(c) == \/ RegisterLock(c) \/ RegisterAdd(c) \/ Subscribe(c)
               \/ SubscribeFails(c) \/ RegisterReturn(c)

Unregister(c) == \/ UnregisterRemove(c) \/ UnregisterWait(c)
                 \/ UnregisterKeep(c) \/ Cancel(c) \/ CancelReturns(c)
                 \/ CancelFails(c)

Next ==
    \/ \E c \in Callbacks : \/ Register(c) \/ UnregisterLock(c)
                            \/ Unregister(c) \/ Reallocate(c) \/ Done(c)
    \/ \E n \in Notifiers : Notify(n) \/ Changed(n)

\* A thread inside Register or Unregister, a notification being delivered and
\* a callback being run are all scheduled.  The callbacks the program
\* registers read the routing table and return.  Nobody has to register,
\* unregister or change a route.
Fairness ==
    /\ \A c \in Callbacks : /\ WF_vars(pc[c] # "new" /\ Register(c))
                            /\ WF_vars(Unregister(c))
                            /\ WF_vars(Done(c))
    /\ \A n \in Notifiers : WF_vars(Changed(n))

Spec == Init /\ [][Next]_vars /\ Fairness

-----------------------------------------------------------------------------
TypeOK ==
    /\ pc \in [Callbacks -> PC]
    /\ addRemoveMutex \in Callbacks \cup {None}
    /\ mutex \in Callbacks \cup {None}
    /\ callbacks \subseteq Callbacks
    /\ handle \in BOOLEAN
    /\ removeIt \in [Callbacks -> BOOLEAN]
    /\ wait \in [Callbacks -> Nat]
    /\ subscribed \in BOOLEAN
    /\ notifier \in [Notifiers -> {"idle", "calling"}]

\* When Unregister has returned nil, no goroutine runs the callback any more,
\* and none can start: its owner may free what the callback uses.
NoCallAfterUnregister ==
    \A c \in Callbacks : pc[c] = "unregistered" => wait[c] = 0 /\ c \notin callbacks

\* While nobody registers or unregisters, the handle tells whether the system
\* notifies, and every registered callback is in the table and is notified.
HandleMatches ==
    addRemoveMutex = None =>
        /\ handle = subscribed
        /\ callbacks = {c \in Callbacks : pc[c] = "registered"}
        /\ callbacks # {} => subscribed

\* WaitGroup's rule: no Add from zero while Unregister is waiting.  No step
\* starts a call of a callback its Unregister has taken out of the table.
NoLateStart ==
    [][\A c \in Callbacks :
          wait'[c] > wait[c] =>
              pc[c] \notin {"wait", "removed", "cancelling", "unregistered"}]_vars

\* What Unregister waits for can only come to an end: from its first step to
\* its last the second mutex is free for the threads it waits for, and once the
\* cancellation has begun the system delivers nothing new.
WaitsCanEnd ==
    \A c \in Callbacks :
        /\ pc[c] \in Unregistering => addRemoveMutex = c /\ mutex = None
        /\ pc[c] = "cancelling" => ~subscribed

\* Unregister returns, whatever notifications are under way: the system's
\* thread that waits for the second mutex and the cancellation that waits for
\* that thread do not block each other.
UnregisterReturns ==
    \A c \in Callbacks :
        pc[c] = "remove" ~> pc[c] \in {"unregistered", "failed"}

\* What the callbacks' owners see: notified from Register to the removal by
\* Unregister (which finds nothing to remove when it is called again), waiting
\* for the calls under way, gone.
Status ==
    [c \in Callbacks |->
        CASE \/ pc[c] \in {"subscribe", "return", "registered"}
             \/ pc[c] = "remove" /\ c \in callbacks -> "in"
          [] pc[c] = "wait" -> "leaving"
          [] OTHER -> "out"]

CB == INSTANCE CallBarrier WITH status <- Status, running <- wait

\* Register, Unregister and routeChanged together are a barrier: every change
\* reaches all callbacks of the table at once, no call starts after the removal,
\* and Unregister gets past its wait only when the last call has ended.
ImplementsBarrier == CB!Spec

=============================================================================
