------------------------ MODULE ChangeCallbackProofs ------------------------
(***************************************************************************)
(* Theorems about ChangeCallback, for any number of callbacks, of system   *)
(* threads and of calls in progress.                                       *)
(***************************************************************************)
EXTENDS ChangeCallback, TLAPS

-----------------------------------------------------------------------------
(* The inductive invariant.                                                *)

\* Each mutex is held exactly between its Lock and its Unlock.
MutexInv ==
    \A c \in Callbacks :
        /\ pc[c] \in Registering \cup Unregistering <=> addRemoveMutex = c
        /\ pc[c] \in {"subscribe", "return"} <=> mutex = c

\* The table holds the registered callbacks, the one being registered and the
\* one Unregister is about to take out.
TableInv ==
    \A c \in Callbacks :
        /\ c \in callbacks =>
               pc[c] \in {"subscribe", "return", "registered", "remove"}
        /\ pc[c] \in {"subscribe", "return", "registered"} => c \in callbacks

\* Calls are only in progress from the registration to the end of the wait.
WaitInv ==
    \A c \in Callbacks :
        wait[c] # 0 => pc[c] \in {"registered", "remove", "wait"}

\* The handle follows the subscription except while it is being cancelled,
\* and a removal decided before the wait is still right after it.
HandleInv ==
    /\ \A c \in Callbacks :
          /\ pc[c] = "subscribe" => ~handle /\ callbacks = {c}
          /\ pc[c] = "return" => handle
          /\ pc[c] \in {"wait", "removed", "cancelling"} /\ removeIt[c] =>
                 callbacks = {} /\ handle
          /\ pc[c] = "cancelling" => removeIt[c] /\ ~subscribed
    /\ (\A c \in Callbacks : pc[c] # "cancelling") => (handle <=> subscribed)
    /\ (\A c \in Callbacks : pc[c] # "subscribe") /\ callbacks # {} => handle

IInv == TypeOK /\ MutexInv /\ TableInv /\ WaitInv /\ HandleInv

-----------------------------------------------------------------------------
\* Nothing is registered initially, so handle, table and counters agree.
LEMMA InitInv == Init => IInv
<1> SUFFICES ASSUME Init PROVE IInv
  OBVIOUS
<1>1. removeIt \in [Callbacks -> BOOLEAN] /\ handle \in BOOLEAN /\ subscribed \in BOOLEAN
  BY Zenon DEF Init
<1>2. TypeOK
  BY <1>1 DEF Init, TypeOK, PC
<1>3. MutexInv /\ TableInv /\ WaitInv /\ HandleInv
  BY ChangeAssumption
     DEF Init, MutexInv, TableInv, WaitInv, HandleInv, Registering,
         Unregistering
<1>4. QED
  BY <1>2, <1>3 DEF IInv

\* Every step of Register, Unregister and the notification handler keeps IInv.
LEMMA StepInv == IInv /\ [Next]_vars => IInv'
<1> SUFFICES ASSUME IInv, [Next]_vars PROVE IInv'
  OBVIOUS
<1> USE ChangeAssumption
    DEF IInv, TypeOK, MutexInv, TableInv, WaitInv, HandleInv, PC, Registering,
        Unregistering, Goto
<1>1. CASE UNCHANGED vars
  BY <1>1 DEF vars
<1>2. ASSUME NEW c \in Callbacks, RegisterLock(c) PROVE IInv'
  BY <1>2 DEF RegisterLock
<1>3. ASSUME NEW c \in Callbacks, RegisterAdd(c) PROVE IInv'
  BY <1>3 DEF RegisterAdd
<1>4. ASSUME NEW c \in Callbacks, Subscribe(c) PROVE IInv'
  BY <1>4 DEF Subscribe
<1>5. ASSUME NEW c \in Callbacks, SubscribeFails(c) PROVE IInv'
  BY <1>5 DEF SubscribeFails
<1>6. ASSUME NEW c \in Callbacks, RegisterReturn(c) PROVE IInv'
  BY <1>6 DEF RegisterReturn
<1>7. ASSUME NEW c \in Callbacks, UnregisterLock(c) PROVE IInv'
  BY <1>7 DEF UnregisterLock
<1>8. ASSUME NEW c \in Callbacks, UnregisterRemove(c) PROVE IInv'
  BY <1>8 DEF UnregisterRemove
<1>9. ASSUME NEW c \in Callbacks, UnregisterWait(c) PROVE IInv'
  BY <1>9 DEF UnregisterWait
<1>10. ASSUME NEW c \in Callbacks, UnregisterKeep(c) PROVE IInv'
  BY <1>10 DEF UnregisterKeep
<1>11. ASSUME NEW c \in Callbacks, Cancel(c) PROVE IInv'
  BY <1>11 DEF Cancel
<1>12. ASSUME NEW c \in Callbacks, CancelReturns(c) PROVE IInv'
  <2>1. pc[c] = "cancelling" /\ removeIt[c] /\ callbacks = {} /\ ~subscribed
    BY <1>12 DEF CancelReturns
  <2>2. \A d \in Callbacks : d # c => pc[d] \notin Registering \cup Unregistering
    BY <2>1
  <2>3. TypeOK' /\ MutexInv' /\ TableInv' /\ WaitInv'
    BY <1>12, <2>1, <2>2 DEF CancelReturns
  <2>4. HandleInv'
    BY <1>12, <2>1, <2>2 DEF CancelReturns
  <2>5. QED
    BY <2>3, <2>4
<1>13. ASSUME NEW c \in Callbacks, CancelFails(c) PROVE IInv'
  BY <1>13 DEF CancelFails
<1>14. ASSUME NEW c \in Callbacks, Reallocate(c) PROVE IInv'
  BY <1>14 DEF Reallocate
<1>15. ASSUME NEW c \in Callbacks, Done(c) PROVE IInv'
  BY <1>15 DEF Done
<1>16. ASSUME NEW n \in Notifiers, Notify(n) PROVE IInv'
  BY <1>16 DEF Notify
<1>17. ASSUME NEW n \in Notifiers, Changed(n) PROVE IInv'
  BY <1>17 DEF Changed
<1>18. QED
  BY <1>1, <1>2, <1>3, <1>4, <1>5, <1>6, <1>7, <1>8, <1>9, <1>10, <1>11,
     <1>12, <1>13, <1>14, <1>15, <1>16, <1>17 DEF Next, Register, Unregister

\* The inductive invariant holds in every behaviour of the notifications.
THEOREM Invariance == Spec => []IInv
BY InitInv, StepInv, PTL DEF Spec

-----------------------------------------------------------------------------
\* Every reachable state is well typed.
THEOREM TypeCorrect == Spec => []TypeOK
<1>1. IInv => TypeOK
  BY DEF IInv
<1>2. QED
  BY <1>1, Invariance, PTL

\* After Unregister returned nil the callback is neither running nor started.
THEOREM UnregisteredIsQuiet == Spec => []NoCallAfterUnregister
<1>1. IInv => NoCallAfterUnregister
  BY DEF IInv, NoCallAfterUnregister, TypeOK, TableInv, WaitInv
<1>2. QED
  BY <1>1, Invariance, PTL

\* Between operations the handle, the subscription and the table agree.
THEOREM HandleIsRight == Spec => []HandleMatches
<1>1. IInv => HandleMatches
  BY ChangeAssumption
     DEF IInv, HandleMatches, TypeOK, MutexInv, TableInv, HandleInv,
         Registering, Unregistering
<1>2. QED
  BY <1>1, Invariance, PTL

\* Unregister never waits with a mutex that what it waits for needs.
THEOREM UnregisterIsNotBlocked == Spec => []WaitsCanEnd
<1>1. IInv => WaitsCanEnd
  <2> SUFFICES ASSUME IInv, NEW c \in Callbacks
               PROVE  /\ pc[c] \in Unregistering => addRemoveMutex = c /\ mutex = None
                      /\ pc[c] = "cancelling" => ~subscribed
    BY DEF WaitsCanEnd
  <2>1. ASSUME pc[c] \in Unregistering, mutex # None PROVE FALSE
    <3>1. mutex \in Callbacks /\ pc[mutex] \in {"subscribe", "return"}
      BY <2>1 DEF IInv, TypeOK, MutexInv
    <3>2. addRemoveMutex = c /\ addRemoveMutex = mutex
      BY <2>1, <3>1 DEF IInv, MutexInv, Registering
    <3>3. QED
      BY <2>1, <3>1, <3>2 DEF Unregistering
  <2>2. QED
    BY <2>1 DEF IInv, MutexInv, HandleInv
<1>2. QED
  BY <1>1, Invariance, PTL

\* No call of a callback starts once Unregister waits for its calls to end.
THEOREM WaitGroupRule == Spec => NoLateStart
<1> DEFINE Late == \A c \in Callbacks :
              wait'[c] > wait[c] =>
                pc[c] \notin {"wait", "removed", "cancelling", "unregistered"}
<1>1. IInv /\ [Next]_vars => [Late]_vars
  BY DEF IInv, TypeOK, TableInv, Next, vars, Register, Unregister,
         RegisterLock, RegisterAdd, Subscribe, SubscribeFails, RegisterReturn,
         UnregisterLock, UnregisterRemove, UnregisterWait, UnregisterKeep,
         Cancel, CancelReturns, CancelFails, Reallocate, Done, Notify, Changed
<1>2. QED
  BY <1>1, Invariance, PTL DEF Spec, NoLateStart
-----------------------------------------------------------------------------
(* The refinement.                                                         *)

\* Each step of Register, Unregister or routeChanged is a step of the barrier
\* or leaves what the owners see unchanged.
LEMMA BarrierStep == IInv /\ [Next]_vars => [CB!Next]_CB!vars
<1> SUFFICES ASSUME IInv, [Next]_vars PROVE [CB!Next]_CB!vars
  OBVIOUS
<1> USE ChangeAssumption
    DEF IInv, TypeOK, MutexInv, TableInv, WaitInv, PC, Registering,
        Unregistering, Goto, Status, CB!vars
<1>1. CASE UNCHANGED vars
  BY <1>1 DEF vars
<1>2. ASSUME NEW c \in Callbacks, RegisterAdd(c) PROVE CB!Enter(c)
  BY <1>2 DEF RegisterAdd, CB!Enter
<1>3. ASSUME NEW c \in Callbacks, SubscribeFails(c) PROVE CB!Refuse(c)
  BY <1>3 DEF SubscribeFails, CB!Refuse
<1>4. ASSUME NEW c \in Callbacks, UnregisterRemove(c) PROVE CB!Leave(c)
  BY <1>4 DEF UnregisterRemove, CB!Leave
<1>5. ASSUME NEW c \in Callbacks, UnregisterWait(c) PROVE CB!Left(c)
  BY <1>5 DEF UnregisterWait, CB!Left
<1>6. ASSUME NEW c \in Callbacks, Done(c) PROVE CB!End(c)
  BY <1>6 DEF Done, CB!End
<1>7. ASSUME NEW n \in Notifiers, Changed(n) PROVE CB!Start
  BY <1>7 DEF Changed, CB!Start
<1>8. ASSUME NEW c \in Callbacks,
             \/ RegisterLock(c) \/ Subscribe(c) \/ RegisterReturn(c)
             \/ UnregisterLock(c) \/ UnregisterKeep(c)
             \/ Cancel(c) \/ CancelReturns(c) \/ CancelFails(c)
      PROVE  UNCHANGED CB!vars
  BY <1>8 DEF RegisterLock, Subscribe, RegisterReturn, UnregisterLock,
              UnregisterKeep, Cancel, CancelReturns, CancelFails
<1>9. ASSUME NEW c \in Callbacks, Reallocate(c) PROVE UNCHANGED CB!vars
  BY <1>9 DEF Reallocate
<1>10. ASSUME NEW n \in Notifiers, Notify(n) PROVE UNCHANGED CB!vars
  BY <1>10 DEF Notify
<1>11. QED
  BY <1>1, <1>2, <1>3, <1>4, <1>5, <1>6, <1>7, <1>8, <1>9, <1>10
     DEF Next, Register, Unregister, CB!Next

\* The notifications implement the barrier, for any number of callbacks and of
\* system threads.
THEOREM Barrier == Spec => ImplementsBarrier
<1>1. Init => CB!Init
  BY DEF Init, CB!Init, Status
<1>2. QED
  BY <1>1, BarrierStep, Invariance, PTL DEF Spec, ImplementsBarrier, CB!Spec
=============================================================================
