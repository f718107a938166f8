-------------------------- MODULE DllLoaderProofs --------------------------
(***************************************************************************)
(* Safety of the loader for any number of loads, slots and libraries.  The  *)
(* inductive invariant accounts for what each load holds: its memory is     *)
(* exactly codeBase and blockedMemory, its references exactly modules and   *)
(* the library being resolved, an attached DLL is in a loaded module; and   *)
(* it says how far the range and the hook are at each step.                 *)
(***************************************************************************)
EXTENDS DllLoader, TLAPS

Unmapped == {"idle", "headers", "reserve"}
Running == {"tls", "throw", "attach", "exports", "loaded"}
Hooking == {"hook", "inHook", "result"} \cup Running
Placed == {"copy", "sections", "relocate", "import", "resolve", "finalize",
           "ranges", "append"} \cup Hooking

Memory ==
    \A l \in Loads :
        /\ \A s \in Slots : memory[s] = l <=> s = codeBase[l] \/ s \in blocked[l]
        /\ codeBase[l] \notin blocked[l]
        /\ pc[l] \in Unmapped \cup {"done"} => codeBase[l] = None /\ blocked[l] = {}
        /\ pc[l] = "boundaries" => codeBase[l] \in Slots
        /\ pc[l] \in Placed => codeBase[l] \in Slots \ Crossing
        /\ pc[l] = "freeBlocked" => codeBase[l] = None

Libraries ==
    \A l \in Loads :
        /\ pc[l] # "resolve" => import[l] = None /\ refs[l] = modules[l]
        /\ pc[l] = "resolve" => /\ import[l] \in Libs \ modules[l]
                                /\ refs[l] = modules[l] \cup {import[l]}
        /\ pc[l] \in Unmapped \cup {"boundaries", "copy", "sections", "relocate",
                                    "freeImage", "freeBlocked", "done"} => modules[l] = {}

Attachment ==
    \A l \in Loads : /\ l \in attached => initialized[l]
                     /\ initialized[l] => pc[l] \in {"exports", "loaded"}

Hooked ==
    /\ once = "done" /\ hookResult = "ok" => hooked
    /\ \A l \in Loads :
        /\ pc[l] \in Hooking => codeBase[l] \in ranges
        /\ pc[l] = "inHook" => once = "running"
        /\ pc[l] \in {"result"} \cup Running => once = "done"
        /\ pc[l] \in Running => hookResult = "ok"
        /\ \A k \in Loads : pc[l] = "inHook" /\ pc[k] = "inHook" => l = k

IInv == TypeOK /\ Memory /\ Libraries /\ Attachment /\ Hooked

-----------------------------------------------------------------------------
\* A load holds nothing before it begins.
LEMMA InitInv == Init => IInv
<1> SUFFICES ASSUME Init PROVE IInv  OBVIOUS
<1>1. TypeOK
  BY DEF Init, TypeOK, Steps
<1>2. Memory
  BY LoaderAssumption DEF Init, Memory, Unmapped, Placed, Hooking, Running
<1>3. Libraries /\ Attachment
  BY DEF Init, Libraries, Attachment
<1>4. Hooked
  BY DEF Init, Hooked, Hooking, Running
<1> QED  BY <1>1, <1>2, <1>3, <1>4 DEF IInv

\* The steps that only move on, and where they may lead.
Moves == {<<"idle", "headers">>, <<"headers", "reserve">>, <<"headers", "done">>,
          <<"copy", "sections">>, <<"copy", "freeLibs">>,
          <<"sections", "relocate">>, <<"sections", "freeLibs">>,
          <<"relocate", "import">>, <<"relocate", "freeLibs">>,
          <<"finalize", "ranges">>, <<"finalize", "freeLibs">>,
          <<"ranges", "append">>, <<"result", "freeLibs">>,
          <<"tls", "attach">>, <<"tls", "throw">>, <<"throw", "attach">>,
          <<"attach", "exports">>, <<"attach", "freeLibs">>,
          <<"exports", "loaded">>}
Quiet(l, next) ==
    \/ <<pc[l], next>> \in Moves
    \/ pc[l] = "hook" /\ next = "result" /\ once = "done"
    \/ pc[l] = "result" /\ next = "tls" /\ hookResult = "ok"

\* Moving on keeps the invariant.
LEMMA QuietInv ==
    ASSUME IInv, NEW l \in Loads, NEW next, Quiet(l, next), Goto(l, next),
           UNCHANGED <<module, system, ranges, hook>>,
           writer' \in Loads \cup {None}, waiting' \subseteq Loads,
           reading' \subseteq Readers
    PROVE  IInv'
<1>1. next \in Steps
  BY DEF Quiet, Moves, Steps
<1>2. TypeOK'
  BY <1>1 DEF IInv, TypeOK, Goto, module, system, hook
<1>3. Memory'
  BY DEF IInv, TypeOK, Memory, Goto, Quiet, Moves, Unmapped, Placed, Hooking,
         Running, module, system
<1>4. Libraries'
  BY DEF IInv, TypeOK, Libraries, Goto, Quiet, Moves, Unmapped, module, system
<1>5. Attachment'
  BY DEF IInv, TypeOK, Attachment, Goto, Quiet, Moves, module, system
<1>6. Hooked'
  BY DEF IInv, TypeOK, Hooked, Goto, Quiet, Moves, Hooking, Running, module, hook
<1> QED  BY <1>2, <1>3, <1>4, <1>5, <1>6 DEF IInv

-----------------------------------------------------------------------------
\* Memory is reserved for one load, and blocked memory stays its own.
LEMMA ReserveInv ==
    ASSUME IInv, NEW l \in Loads, Reserve(l) \/ CheckBoundaries(l) PROVE IInv'
<1> USE LoaderAssumption
<1>1. /\ pc[l] \in {"reserve", "boundaries"}
      /\ pc' = [pc EXCEPT ![l] = pc'[l]]
      /\ pc'[l] \in {"boundaries", "copy", "freeLibs"}
      /\ codeBase' = [codeBase EXCEPT ![l] = codeBase'[l]]
      /\ codeBase'[l] \in Slots \cup {None}
      /\ UNCHANGED <<modules, import, initialized, refs, attached, ranges, mu, hook>>
  BY DEF IInv, TypeOK, Reserve, CheckBoundaries, Allocate, Goto, Fail, Unreserved
<1>2. /\ memory' \in [Slots -> Loads \cup {None}]
      /\ blocked' \in [Loads -> SUBSET Slots]
  BY DEF IInv, TypeOK, Memory, Reserve, CheckBoundaries, Allocate, Unreserved
<1>3. TypeOK'
  <2>1. pc' \in [Loads -> Steps] /\ codeBase' \in [Loads -> Slots \cup {None}]
    BY <1>1 DEF IInv, TypeOK, Steps
  <2> QED  BY <1>1, <1>2, <2>1 DEF IInv, TypeOK, mu, hook
<1>4. Memory'
  <2>1. CASE Reserve(l)
    <3>1. CASE \E s \in Unreserved : Allocate(l, s) /\ Goto(l, "boundaries")
      BY <2>1, <3>1 DEF IInv, TypeOK, Memory, Reserve, Allocate, Goto, Unreserved,
                        Unmapped, Placed, Hooking, Running
    <3>2. CASE Fail(l) /\ UNCHANGED <<memory, codeBase>>
      BY <2>1, <3>2 DEF IInv, TypeOK, Memory, Reserve, Goto, Fail,
                        Unmapped, Placed, Hooking, Running
    <3> QED  BY <2>1, <3>1, <3>2 DEF Reserve
  <2>2. CASE CheckBoundaries(l)
    <3>1. ASSUME codeBase[l] \in Crossing, NEW s \in Unreserved, Allocate(l, s),
                 UNCHANGED pc
          PROVE  Memory'
      BY <2>2, <3>1 DEF IInv, TypeOK, Memory, CheckBoundaries, Allocate,
                        Unreserved, Unmapped, Placed, Hooking, Running
    <3>2. CASE codeBase[l] \in Crossing /\ UNCHANGED memory /\ Fail(l)
      BY <2>2, <3>2 DEF IInv, TypeOK, Memory, CheckBoundaries, Goto, Fail, Allocate,
                        Unreserved, Unmapped, Placed, Hooking, Running
    <3>3. CASE codeBase[l] \notin Crossing
      BY <2>2, <3>3 DEF IInv, TypeOK, Memory, CheckBoundaries, Goto,
                        Unmapped, Placed, Hooking, Running
    <3> QED  BY <2>2, <3>1, <3>2, <3>3 DEF CheckBoundaries
  <2> QED  BY <2>1, <2>2
<1>5. Libraries' /\ Attachment'
  BY <1>1 DEF IInv, TypeOK, Libraries, Attachment, Unmapped
<1>6. Hooked'
  BY <1>1 DEF IInv, TypeOK, Hooked, Hooking, Running, hook
<1> QED  BY <1>3, <1>4, <1>5, <1>6 DEF IInv

\* References are taken for the library being resolved or for modules.
LEMMA ImportInv ==
    ASSUME IInv, NEW l \in Loads, LoadImport(l) \/ ResolveImport(l) PROVE IInv'
<1> USE LoaderAssumption
<1>1. /\ pc[l] \in {"import", "resolve"}
      /\ pc' = [pc EXCEPT ![l] = pc'[l]]
      /\ pc'[l] \in {"import", "resolve", "finalize", "freeLibs"}
      /\ UNCHANGED <<codeBase, blocked, initialized, memory, attached, ranges, mu,
                     hook>>
  BY DEF IInv, TypeOK, LoadImport, ResolveImport, Goto, Fail
<1>2. Libraries'
  <2>1. CASE LoadImport(l)
    BY <2>1 DEF IInv, TypeOK, LoadImport, Goto, Fail, Libraries, Unmapped
  <2>2. CASE ResolveImport(l)
    <3>1. import[l] \in Libs \ modules[l] /\ refs[l] = modules[l] \cup {import[l]}
      BY <2>2 DEF IInv, Libraries, ResolveImport
    <3>2. /\ import' = [import EXCEPT ![l] = None]
          /\ pc'[l] \in {"import", "freeLibs"}
      BY <2>2 DEF IInv, TypeOK, ResolveImport, Goto, Fail
    <3>3. ASSUME NEW k \in Loads, k # l
          PROVE  /\ pc'[k] = pc[k] /\ import'[k] = import[k]
                 /\ refs'[k] = refs[k] /\ modules'[k] = modules[k]
      BY <2>2, <3>3 DEF IInv, TypeOK, ResolveImport, Goto, Fail
    <3>4. import'[l] = None
      BY <3>2 DEF IInv, TypeOK
    <3>5. CASE UNCHANGED refs /\ modules' = [modules EXCEPT ![l] = @ \cup {import[l]}]
      <4>1. refs'[l] = modules'[l]
        BY <3>1, <3>5 DEF IInv, TypeOK
      <4> QED  BY <4>1, <3>2, <3>3, <3>4 DEF IInv, Libraries, Unmapped
    <3>6. CASE UNCHANGED modules /\ refs' = [refs EXCEPT ![l] = @ \ {import[l]}]
      <4>1. refs'[l] = modules'[l]
        BY <3>1, <3>6 DEF IInv, TypeOK
      <4> QED  BY <4>1, <3>2, <3>3, <3>4 DEF IInv, Libraries, Unmapped
    <3> QED  BY <2>2, <3>5, <3>6 DEF ResolveImport
  <2> QED  BY <2>1, <2>2
<1>3. TypeOK'
  BY <1>1 DEF IInv, TypeOK, LoadImport, ResolveImport, Steps, Libraries, mu, hook
<1>4. Memory'
  BY <1>1 DEF IInv, TypeOK, Memory, Unmapped, Placed, Hooking, Running
<1>5. Attachment' /\ Hooked'
  BY <1>1 DEF IInv, TypeOK, Attachment, Hooked, Hooking, Running, hook
<1> QED  BY <1>2, <1>3, <1>4, <1>5 DEF IInv

-----------------------------------------------------------------------------
\* The range is there before the hook, and the hook before the result.
LEMMA HookInv ==
    ASSUME IInv, NEW l \in Loads,
           AppendRange(l) \/ (Once(l) /\ once = "idle") \/ Hook(l)
    PROVE  IInv'
<1>1. /\ pc[l] \in {"append", "hook", "inHook"}
      /\ pc' = [pc EXCEPT ![l] = pc'[l]]
      /\ pc'[l] \in {"hook", "inHook", "result"}
      /\ UNCHANGED <<module, system>>
  BY DEF IInv, TypeOK, AppendRange, Once, Hook, Goto
<1>2. TypeOK'
  <2>1. pc' \in [Loads -> Steps]
    BY <1>1 DEF IInv, TypeOK, Steps
  <2>2. /\ ranges' \subseteq Slots /\ writer' \in Loads \cup {None}
        /\ waiting' \subseteq Loads /\ reading' \subseteq Readers
    BY DEF IInv, TypeOK, Memory, Placed, AppendRange, Once, Hook, mu
  <2>3. /\ once' \in {"idle", "running", "done"} /\ hooked' \in BOOLEAN
        /\ hookResult' \in {"ok", "error"}
    BY DEF IInv, TypeOK, AppendRange, Once, Hook, hook
  <2> QED  BY <1>1, <2>1, <2>2, <2>3 DEF IInv, TypeOK, module, system
<1>3. Memory'
  BY <1>1 DEF IInv, TypeOK, Memory, Unmapped, Placed, Hooking, Running, module, system
<1>4. Libraries' /\ Attachment'
  BY <1>1 DEF IInv, TypeOK, Libraries, Attachment, Unmapped, module, system
<1>5. Hooked'
  <2>1. CASE AppendRange(l)
    BY <2>1 DEF IInv, TypeOK, Hooked, AppendRange, Goto, Hooking, Running, module, hook
  <2>2. CASE Once(l) /\ once = "idle"
    BY <2>2 DEF IInv, TypeOK, Hooked, Once, Goto, Hooking, Running, module
  <2>3. CASE Hook(l)
    BY <2>3 DEF IInv, TypeOK, Hooked, Hook, Goto, Hooking, Running, module
  <2> QED  BY <2>1, <2>2, <2>3
<1> QED  BY <1>2, <1>3, <1>4, <1>5 DEF IInv

\* A DLL is attached in a loaded module, and detached by Free.
LEMMA AttachInv ==
    ASSUME IInv, NEW l \in Loads, Free(l) \/ (Attach(l) /\ ~UNCHANGED attached)
    PROVE  IInv'
<1>1. /\ pc[l] \in {"attach", "loaded"}
      /\ pc' = [pc EXCEPT ![l] = pc'[l]]
      /\ pc'[l] \in {"exports", "freeLibs"}
      /\ pc'[l] = "exports" => pc[l] = "attach"
      /\ initialized' = [initialized EXCEPT ![l] = (pc'[l] = "exports")]
      /\ UNCHANGED <<codeBase, blocked, modules, import, memory, refs, ranges, mu,
                     hook>>
  BY DEF IInv, TypeOK, Free, Attach, Goto
<1>2. TypeOK'
  BY <1>1 DEF IInv, TypeOK, Free, Attach, Goto, Steps, mu, hook
<1>3. Memory' /\ Libraries'
  BY <1>1 DEF IInv, TypeOK, Memory, Libraries, Unmapped, Placed, Hooking, Running
<1>4. Hooked'
  BY <1>1 DEF IInv, TypeOK, Hooked, Hooking, Running, hook
<1>5. Attachment'
  BY DEF IInv, TypeOK, Attachment, Free, Attach, Goto, Fail
<1> QED  BY <1>2, <1>3, <1>4, <1>5 DEF IInv

\* Free gives everything back, and nothing of another load.
LEMMA FreeInv ==
    ASSUME IInv, NEW l \in Loads,
           FreeLibraries(l) \/ FreeImage(l) \/ FreeBlocked(l)
    PROVE  IInv'
<1> USE LoaderAssumption
<1>1. /\ pc[l] \in {"freeLibs", "freeImage", "freeBlocked"}
      /\ pc' = [pc EXCEPT ![l] = pc'[l]]
      /\ pc'[l] \in {"freeImage", "freeBlocked", "done"}
      /\ UNCHANGED <<import, initialized, attached, ranges, mu, hook>>
  BY DEF IInv, TypeOK, FreeLibraries, FreeImage, FreeBlocked, Goto
<1>2. TypeOK'
  <2>1. pc' \in [Loads -> Steps]
    BY <1>1 DEF IInv, TypeOK, Steps
  <2>2. /\ codeBase' \in [Loads -> Slots \cup {None}]
        /\ blocked' \in [Loads -> SUBSET Slots]
        /\ modules' \in [Loads -> SUBSET Libs]
        /\ memory' \in [Slots -> Loads \cup {None}]
        /\ refs' \in [Loads -> SUBSET Libs]
    BY DEF IInv, TypeOK, FreeLibraries, FreeImage, FreeBlocked, Release
  <2> QED  BY <1>1, <2>1, <2>2 DEF IInv, TypeOK, mu, hook
<1>3. Memory'
  <2>1. CASE FreeLibraries(l)
    BY <2>1 DEF IInv, TypeOK, Memory, FreeLibraries, Goto, Unmapped, Placed,
                Hooking, Running
  <2>2. CASE FreeImage(l)
    BY <2>2 DEF IInv, TypeOK, Memory, FreeImage, Release, Goto, Unmapped, Placed,
                Hooking, Running
  <2>3. CASE FreeBlocked(l)
    BY <2>3 DEF IInv, TypeOK, Memory, FreeBlocked, Release, Goto, Unmapped, Placed,
                Hooking, Running
  <2> QED  BY <2>1, <2>2, <2>3
<1>4. Libraries'
  <2>1. CASE FreeLibraries(l)
    <3>1. refs'[l] = {} /\ modules'[l] = {} /\ import'[l] = None
      BY <2>1 DEF IInv, TypeOK, Libraries, FreeLibraries
    <3>2. ASSUME NEW k \in Loads, k # l
          PROVE  /\ pc'[k] = pc[k] /\ import'[k] = import[k]
                 /\ refs'[k] = refs[k] /\ modules'[k] = modules[k]
      BY <2>1, <3>2 DEF IInv, TypeOK, FreeLibraries, Goto
    <3> QED  BY <1>1, <3>1, <3>2 DEF IInv, Libraries
  <2>2. CASE FreeImage(l) \/ FreeBlocked(l)
    BY <2>2 DEF IInv, TypeOK, Libraries, FreeImage, FreeBlocked, Goto, Unmapped
  <2> QED  BY <2>1, <2>2
<1>5. Attachment'
  BY <1>1 DEF IInv, TypeOK, Attachment
<1>6. Hooked'
  BY <1>1 DEF IInv, TypeOK, Hooked, FreeLibraries, FreeImage, FreeBlocked, Hooking,
              Running, hook
<1> QED  BY <1>2, <1>3, <1>4, <1>5, <1>6 DEF IInv

\* Readers only touch the mutex.
LEMMA ReadersInv ==
    ASSUME IInv, NEW r \in Readers, ReadRanges(r) \/ ReadDone(r) PROVE IInv'
<1>1. /\ UNCHANGED <<pc, module, system, ranges, writer, waiting, hook>>
      /\ reading' \subseteq Readers
  BY DEF IInv, TypeOK, ReadRanges, ReadDone
<1> QED
  BY <1>1 DEF IInv, TypeOK, Memory, Libraries, Attachment, Hooked, module, system, hook

-----------------------------------------------------------------------------
\* Each step of a load is one of the kinds above.
LEMMA LoadInv ==
    ASSUME IInv, NEW l \in Loads, Call(l) \/ Load(l) \/ Free(l) PROVE IInv'
<1>1. CASE Call(l)
  BY <1>1, QuietInv DEF Call, Quiet, Moves, mu, IInv, TypeOK
<1>2. CASE CheckHeaders(l)
  BY <1>2, QuietInv DEF CheckHeaders, Quiet, Moves, mu, IInv, TypeOK
<1>3. CASE CopyHeaders(l) \/ CopySections(l) \/ Relocate(l)
  BY <1>3, QuietInv DEF CopyHeaders, CopySections, Relocate, Fail, Quiet, Moves, mu, IInv, TypeOK
<1>4. CASE FinalizeSections(l)
  <2>1. /\ waiting' \subseteq Loads /\ UNCHANGED <<writer, reading>>
        /\ Goto(l, "ranges") \/ Goto(l, "freeLibs")
    BY <1>4 DEF FinalizeSections, Fail, IInv, TypeOK
  <2> QED
    BY <1>4, <2>1, QuietInv DEF FinalizeSections, Quiet, Moves, IInv, TypeOK
<1>5. CASE LockRanges(l)
  BY <1>5, QuietInv DEF LockRanges, Quiet, Moves, IInv, TypeOK
<1>6. CASE HookResult(l)
  <2>1. CASE hookResult = "ok"
    BY <1>6, <2>1, QuietInv DEF HookResult, Quiet, mu, IInv, TypeOK
  <2>2. CASE hookResult # "ok"
    BY <1>6, <2>2, QuietInv DEF HookResult, Fail, Quiet, Moves, mu, IInv, TypeOK
  <2> QED  BY <2>1, <2>2
<1>7. CASE ExecuteTLS(l) \/ Throw(l) \/ BuildNameExports(l)
  BY <1>7, QuietInv
  DEF ExecuteTLS, Throw, BuildNameExports, Quiet, Moves, mu, IInv, TypeOK
<1>8. CASE Once(l)
  <2>1. CASE once = "done"
    BY <1>8, <2>1, QuietInv DEF Once, Quiet, mu, hook, IInv, TypeOK
  <2>2. CASE once # "done"
    BY <1>8, <2>2, HookInv DEF Once
  <2> QED  BY <2>1, <2>2
<1>9. CASE Attach(l)
  <2>1. CASE UNCHANGED attached
    <3>1. CASE UNCHANGED initialized
      BY <1>9, <2>1, <3>1, QuietInv
      DEF Attach, Fail, Goto, Quiet, Moves, mu, module, system, IInv, TypeOK
    <3>2. CASE ~UNCHANGED initialized
      <4>1. l \in attached /\ pc[l] = "attach"
        BY <1>9, <2>1, <3>2 DEF Attach
      <4> QED  BY <4>1 DEF IInv, Attachment
    <3> QED  BY <3>1, <3>2
  <2>2. CASE ~UNCHANGED attached
    BY <1>9, <2>2, AttachInv
  <2> QED  BY <2>1, <2>2
<1> QED
  BY <1>1, <1>2, <1>3, <1>4, <1>5, <1>6, <1>7, <1>8, <1>9, ReserveInv, ImportInv,
     HookInv, AttachInv, FreeInv
  DEF Load

\* The invariant holds throughout.
LEMMA Inductive == Spec => []IInv
<1>1. IInv /\ [Next]_vars => IInv'
  <2> SUFFICES ASSUME IInv, [Next]_vars PROVE IInv'  OBVIOUS
  <2>1. CASE UNCHANGED vars
    BY <2>1 DEF vars, module, system, mu, hook, IInv, TypeOK, Memory, Libraries,
                Attachment, Hooked
  <2>2. CASE Next
    BY <2>2, LoadInv, ReadersInv DEF Next
  <2> QED  BY <2>1, <2>2
<1> QED  BY InitInv, <1>1, PTL DEF Spec

\* Every variable keeps its type: no nil base becomes a range.
THEOREM TypeCorrect == Spec => []TypeOK
<1>1. IInv => TypeOK  BY DEF IInv
<1> QED  BY <1>1, Inductive, PTL

\* A LoadLibrary that failed and a module that was freed hold nothing.
THEOREM FailureLeavesNothing == Spec => []NothingLeft
<1>1. IInv => NothingLeft
  BY LoaderAssumption
  DEF IInv, Memory, Libraries, Attachment, NothingLeft
<1> QED  BY <1>1, Inductive, PTL

\* The DLL's code runs from its own memory, with range and hook in place.
THEOREM CodeIsHooked == Spec => []CodeRunsHooked
<1>1. IInv => CodeRunsHooked
  BY DEF IInv, Memory, Hooked, Placed, Hooking, Running, CodeRunsHooked
<1> QED  BY <1>1, Inductive, PTL

-----------------------------------------------------------------------------
(* The mutex and the Once.                                                 *)

LockInv ==
    /\ HoldersMove
    /\ \A l \in Loads : pc[l] = "append" => writer = l
    /\ once = "idle" => \A l \in Loads : pc[l] # "inHook"

\* A step of a load that is not at the mutex, nor comes to it, nor is the one
\* that hooks.
LEMMA LockKept ==
    ASSUME TypeOK, LockInv, NEW l \in Loads, NEW next, Goto(l, next),
           pc[l] \notin {"ranges", "append", "inHook"},
           next \notin {"ranges", "append", "inHook"}, UNCHANGED <<mu, once>>
    PROVE  LockInv'
<1>1. \A k \in Loads : pc'[k] = IF k = l THEN next ELSE pc[k]
  BY DEF Goto, TypeOK
<1>2. writer' = writer /\ waiting' = waiting /\ reading' = reading
  BY DEF mu
<1>3. writer # None => writer # l /\ writer \in Loads
  BY DEF TypeOK, LockInv, HoldersMove
<1>4. writer' # None => pc'[writer'] = "append" /\ reading' = {}
  BY <1>1, <1>2, <1>3 DEF LockInv, HoldersMove
<1>5. waiting' = {k \in Loads : pc'[k] = "ranges"}
  BY <1>1, <1>2 DEF LockInv, HoldersMove
<1>6. once' = "running" => \E k \in Loads : pc'[k] = "inHook"
  BY <1>1 DEF LockInv, HoldersMove
<1>7. \A k \in Loads : pc'[k] = "append" => writer' = k
  BY <1>1, <1>2 DEF LockInv
<1>8. once' = "idle" => \A k \in Loads : pc'[k] # "inHook"
  BY <1>1 DEF LockInv
<1> QED  BY <1>4, <1>5, <1>6, <1>7, <1>8 DEF LockInv, HoldersMove

\* The steps that take or give back the mutex or the Once.
LEMMA LockMoves ==
    ASSUME IInv, LockInv, NEW l \in Loads,
           \/ FinalizeSections(l) \/ LockRanges(l) \/ AppendRange(l)
           \/ Once(l) \/ Hook(l)
    PROVE  LockInv'
<1> USE LoaderAssumption DEF Goto, Fail
<1>1. CASE FinalizeSections(l)
  BY <1>1 DEF FinalizeSections, LockInv, HoldersMove, IInv, TypeOK, hook
<1>2. CASE LockRanges(l)
  BY <1>2 DEF LockRanges, LockInv, HoldersMove, IInv, TypeOK, hook
<1>3. CASE AppendRange(l)
  BY <1>3 DEF AppendRange, LockInv, HoldersMove, IInv, TypeOK, hook
<1>4. CASE Once(l)
  BY <1>4 DEF Once, LockInv, HoldersMove, IInv, TypeOK, mu
<1>5. CASE Hook(l)
  BY <1>5 DEF Hook, LockInv, HoldersMove, IInv, TypeOK, mu
<1> QED  BY <1>1, <1>2, <1>3, <1>4, <1>5

LEMMA LockStep == IInv /\ LockInv /\ [Next]_vars => LockInv'
<1> SUFFICES ASSUME IInv, LockInv, [Next]_vars PROVE LockInv'  OBVIOUS
<1>1. TypeOK  BY DEF IInv
<1>2. ASSUME NEW l \in Loads,
             \/ Call(l) \/ CheckHeaders(l) \/ Reserve(l) \/ CopyHeaders(l)
             \/ CopySections(l) \/ Relocate(l) \/ LoadImport(l)
             \/ ResolveImport(l)
      PROVE  LockInv'
  BY <1>1, <1>2, LockKept
  DEF Call, CheckHeaders, Reserve, CopyHeaders, CopySections, Relocate,
      LoadImport, ResolveImport, Fail, hook
<1>3. ASSUME NEW l \in Loads, CheckBoundaries(l) PROVE LockInv'
  <2>1. CASE UNCHANGED pc
    BY <1>3, <2>1 DEF CheckBoundaries, LockInv, HoldersMove, mu, hook
  <2>2. CASE Goto(l, "copy") \/ Goto(l, "freeLibs")
    BY <1>1, <1>3, <2>2, LockKept DEF CheckBoundaries, hook
  <2> QED  BY <1>3, <2>1, <2>2 DEF CheckBoundaries, Fail
<1>4. ASSUME NEW l \in Loads,
             \/ HookResult(l) \/ ExecuteTLS(l) \/ Throw(l) \/ Attach(l)
             \/ BuildNameExports(l) \/ Free(l) \/ FreeLibraries(l)
             \/ FreeImage(l) \/ FreeBlocked(l)
      PROVE  LockInv'
  BY <1>1, <1>4, LockKept
  DEF HookResult, ExecuteTLS, Throw, Attach, BuildNameExports, Free,
      FreeLibraries, FreeImage, FreeBlocked, Fail, hook
<1>5. ASSUME NEW r \in Readers, ReadRanges(r) \/ ReadDone(r) PROVE LockInv'
  BY <1>5 DEF ReadRanges, ReadDone, CanRead, LockInv, HoldersMove, hook
<1>6. CASE UNCHANGED vars
  BY <1>6 DEF vars, mu, hook, LockInv, HoldersMove
<1> QED  BY <1>2, <1>3, <1>4, <1>5, <1>6, LockMoves DEF Next, Load

\* No load and no reader waits for a lock whose holder has left: the mutex is
\* released on the one path that takes it, and Once.Do ends with the hook.
THEOREM NobodyHoldsAndLeaves == Spec => []HoldersMove
<1>1. Init => LockInv
  BY DEF Init, LockInv, HoldersMove
<1>2. LockInv => HoldersMove
  BY DEF LockInv
<1> QED  BY <1>1, <1>2, LockStep, Inductive, PTL DEF Spec

-----------------------------------------------------------------------------
(* The loads implement ImageStore.                                         *)

St == [l \in Loads |-> Status(l)]
Im == [l \in Loads |-> IF Status(l) = "loaded" THEN codeBase[l] ELSE None]

Loading == Steps \ {"idle", "done", "exports", "loaded", "freeLibs", "freeImage",
                    "freeBlocked"}

LEMMA StatusIs ==
    ASSUME TypeOK, NEW l \in Loads
    PROVE  /\ pc[l] \in {"idle", "done"} => Status(l) = pc[l]
           /\ pc[l] \in {"exports", "loaded"} => Status(l) = "loaded"
           /\ pc[l] \in {"freeLibs", "freeImage", "freeBlocked"}
                  => Status(l) = "freeing"
           /\ pc[l] \in Loading => Status(l) = "loading"
<1> USE DEF Status, TypeOK, Steps, Loading
<1>1. pc[l] \in {"idle", "done"} => Status(l) = pc[l]  OBVIOUS
<1>2. pc[l] \in {"exports", "loaded"} => Status(l) = "loaded"  OBVIOUS
<1>3. pc[l] \in {"freeLibs", "freeImage", "freeBlocked"} => Status(l) = "freeing"
  OBVIOUS
<1>4. pc[l] \in Loading => Status(l) = "loading"  OBVIOUS
<1> QED  BY <1>1, <1>2, <1>3, <1>4

\* One load moves: the status and the image of the others stay.
LEMMA StatusStep ==
    ASSUME TypeOK, TypeOK', NEW l \in Loads,
           \A k \in Loads \ {l} : pc'[k] = pc[k] /\ codeBase'[k] = codeBase[k]
    PROVE  /\ St' = [St EXCEPT ![l] = Status(l)']
           /\ Im' = [Im EXCEPT ![l] = IF Status(l)' = "loaded" THEN codeBase'[l]
                                      ELSE None]
<1>1. \A k \in Loads \ {l} : Status(k)' = Status(k)
  BY DEF Status
<1> QED  BY <1>1 DEF St, Im

\* Moving on within a status, or before there is a Module at all.
LEMMA QuietStore ==
    ASSUME IInv, IInv', NEW l \in Loads, NEW next, Quiet(l, next), Goto(l, next),
           <<pc[l], next>> # <<"attach", "exports">>,
           UNCHANGED <<module, system>>
    PROVE  Store!Next \/ UNCHANGED Store!vars
<1>1. TypeOK /\ TypeOK'  BY DEF IInv
<1>2. pc'[l] = next /\ \A k \in Loads \ {l} : pc'[k] = pc[k]
  BY <1>1 DEF Goto, TypeOK
<1>3. /\ St' = [St EXCEPT ![l] = Status(l)']
      /\ Im' = [Im EXCEPT ![l] = IF Status(l)' = "loaded" THEN codeBase'[l] ELSE None]
  BY <1>1, <1>2, StatusStep DEF module
<1>4. UNCHANGED <<memory, refs, attached, codeBase>>  BY DEF module, system
<1>5. Status(l) \in {"idle", "loading", "loaded"} /\ (pc[l] = "exports" <=> Status(l) = "loaded")
  BY <1>1, StatusIs DEF Quiet, Moves, Loading, Steps
<1>6. CASE Status(l)' = Status(l)
  <2>1. St' = St /\ Im' = Im  BY <1>3, <1>4, <1>6 DEF St, Im
  <2> QED  BY <1>4, <2>1 DEF Store!vars, St, Im
<1>7. CASE Status(l) = "idle" /\ Status(l)' = "loading"
  <2>1. Im' = Im  BY <1>3, <1>7 DEF Im
  <2>2. Store!Begin(l)
    BY <1>3, <1>4, <1>7, <2>1 DEF Store!Begin, Store!Becomes, St, Im
  <2> QED  BY <2>2 DEF Store!Next
<1>8. CASE pc[l] = "headers" /\ Status(l)' = "done"
  <2>1. /\ Status(l) = "loading" /\ refs[l] = {}
        /\ \A s \in Slots : memory[s] # l
    BY <1>1, <1>8, StatusIs, LoaderAssumption
    DEF Loading, Steps, IInv, Memory, Libraries, Unmapped, TypeOK
  <2>2. Im' = Im  BY <1>3, <1>8, <2>1 DEF Im
  <2>3. refs' = [refs EXCEPT ![l] = {}]  BY <1>1, <1>4, <2>1 DEF TypeOK
  <2>4. memory' = [s \in Slots |-> IF memory[s] = l THEN None ELSE memory[s]]
    BY <1>1, <1>4, <2>1 DEF TypeOK
  <2>5. Store!End(l)
    BY <1>3, <1>4, <1>8, <2>1, <2>2, <2>3, <2>4
    DEF Store!End, Store!Becomes, St, Im
  <2> QED  BY <2>5 DEF Store!Next
<1>9. CASE Status(l) = "loading" /\ Status(l)' = "freeing"
  <2>1. Im' = Im  BY <1>3, <1>9 DEF Im
  <2>2. refs' = [refs EXCEPT ![l] = refs[l]]  BY <1>1, <1>4 DEF TypeOK
  <2>3. Store!GiveUp(l)
    BY <1>3, <1>4, <1>9, <2>1, <2>2 DEF Store!GiveUp, Store!Becomes, St, Im
  <2> QED  BY <2>3 DEF Store!Next
<1>10. \/ Status(l)' = Status(l)
       \/ Status(l) = "idle" /\ Status(l)' = "loading"
       \/ pc[l] = "headers" /\ Status(l)' = "done"
       \/ Status(l) = "loading" /\ Status(l)' = "freeing"
  <2>1. /\ pc'[l] = "done" => Status(l)' = "done"
        /\ pc'[l] \in {"exports", "loaded"} => Status(l)' = "loaded"
        /\ pc'[l] = "freeLibs" => Status(l)' = "freeing"
        /\ pc'[l] \in Loading => Status(l)' = "loading"
    BY <1>1 DEF Status, TypeOK, Steps, Loading
  <2> QED  BY <1>1, <1>2, <2>1, StatusIs DEF Quiet, Moves, Loading, Steps
<1> QED  BY <1>6, <1>7, <1>8, <1>9, <1>10

\* Memory: VirtualAlloc takes a slot nobody has, or the load fails.
LEMMA ReserveStore ==
    ASSUME IInv, IInv', NEW l \in Loads, Reserve(l) \/ CheckBoundaries(l)
    PROVE  Store!Next \/ UNCHANGED Store!vars
<1>1. TypeOK /\ TypeOK'  BY DEF IInv
<1>2. /\ \A k \in Loads \ {l} : pc'[k] = pc[k] /\ codeBase'[k] = codeBase[k]
      /\ UNCHANGED <<refs, attached>>
      /\ pc[l] \in {"reserve", "boundaries"}
      /\ pc'[l] \in {"boundaries", "copy", "freeLibs"}
  BY <1>1 DEF Reserve, CheckBoundaries, Allocate, Goto, Fail, TypeOK
<1>3. Status(l) = "loading"
  BY <1>1, <1>2, StatusIs DEF Loading, Steps
<1>4. /\ pc'[l] = "freeLibs" => Status(l)' = "freeing"
      /\ pc'[l] # "freeLibs" => Status(l)' = "loading"
  BY <1>2 DEF Status
<1>5. /\ St' = [St EXCEPT ![l] = Status(l)']
      /\ Im' = Im
  BY <1>1, <1>2, <1>3, <1>4, StatusStep DEF Im
<1>6. CASE \E s \in Unreserved : Allocate(l, s) /\ pc'[l] = "boundaries"
  <2>1. PICK s \in Unreserved : memory' = [memory EXCEPT ![s] = l]
    BY <1>6 DEF Allocate
  <2>2. St' = St  BY <1>3, <1>4, <1>5, <1>6 DEF St
  <2>3. Store!TakeSlot(l)
    BY <1>2, <1>3, <1>5, <2>1, <2>2 DEF Store!TakeSlot, St, Im, Unreserved
  <2> QED  BY <2>3 DEF Store!Next
<1>7. CASE pc'[l] = "freeLibs" /\ UNCHANGED memory
  <2>1. refs' = [refs EXCEPT ![l] = refs[l]]  BY <1>1, <1>2 DEF TypeOK
  <2>2. Store!GiveUp(l)
    BY <1>2, <1>3, <1>4, <1>5, <1>7, <2>1
    DEF Store!GiveUp, Store!Becomes, St, Im
  <2> QED  BY <2>2 DEF Store!Next
<1>8. CASE pc'[l] = "copy" /\ UNCHANGED memory
  <2>1. St' = St  BY <1>3, <1>4, <1>5, <1>8 DEF St
  <2> QED  BY <1>2, <1>5, <1>8, <2>1 DEF Store!vars, St, Im
<1>9. \/ \E s \in Unreserved : Allocate(l, s) /\ pc'[l] = "boundaries"
      \/ pc'[l] \in {"freeLibs", "copy"} /\ UNCHANGED memory
  BY <1>1 DEF Reserve, CheckBoundaries, Goto, Fail, TypeOK
<1> QED  BY <1>6, <1>7, <1>8, <1>9

\* Libraries: LoadLibrary of the system takes a reference the load has not, and
\* FreeLibrary gives back one of its own.
LEMMA ImportStore ==
    ASSUME IInv, IInv', NEW l \in Loads, LoadImport(l) \/ ResolveImport(l)
    PROVE  Store!Next \/ UNCHANGED Store!vars
<1>1. TypeOK /\ TypeOK'  BY DEF IInv
<1>2. /\ \A k \in Loads \ {l} : pc'[k] = pc[k] /\ codeBase'[k] = codeBase[k]
      /\ UNCHANGED <<memory, attached>>
      /\ pc[l] \in {"import", "resolve"}
      /\ pc'[l] \in {"import", "resolve", "finalize", "freeLibs"}
  BY <1>1 DEF LoadImport, ResolveImport, Goto, Fail, TypeOK
<1>3. Status(l) = "loading"
  BY <1>1, <1>2, StatusIs DEF Loading, Steps
<1>4. /\ pc'[l] = "freeLibs" => Status(l)' = "freeing"
      /\ pc'[l] # "freeLibs" => Status(l)' = "loading"
  BY <1>2 DEF Status
<1>5. /\ St' = [St EXCEPT ![l] = Status(l)']
      /\ Im' = Im
  BY <1>1, <1>2, <1>3, <1>4, StatusStep DEF Im
<1>6. CASE pc'[l] # "freeLibs" /\ UNCHANGED refs
  <2>1. St' = St  BY <1>3, <1>4, <1>5, <1>6 DEF St
  <2> QED  BY <1>2, <1>5, <1>6, <2>1 DEF Store!vars, St, Im
<1>7. ASSUME NEW k \in Libs \ refs[l], refs' = [refs EXCEPT ![l] = @ \cup {k}],
             pc'[l] # "freeLibs"
      PROVE  Store!Next
  <2>1. St' = St  BY <1>3, <1>4, <1>5, <1>7 DEF St
  <2>2. Store!TakeLibrary(l)
    BY <1>2, <1>3, <1>5, <1>7, <2>1 DEF Store!TakeLibrary, St, Im
  <2> QED  BY <2>2 DEF Store!Next
<1>8. ASSUME NEW kept \in SUBSET refs[l], refs' = [refs EXCEPT ![l] = kept],
             pc'[l] = "freeLibs"
      PROVE  Store!Next
  <2>1. Store!GiveUp(l)
    BY <1>2, <1>3, <1>4, <1>5, <1>8 DEF Store!GiveUp, Store!Becomes, St, Im
  <2> QED  BY <2>1 DEF Store!Next
<1>9. CASE LoadImport(l)
  <2>1. CASE Goto(l, "finalize") /\ UNCHANGED <<import, refs>>
    BY <1>1, <1>6, <2>1 DEF Goto, TypeOK
  <2>2. ASSUME NEW k \in Libs \ modules[l], refs' = [refs EXCEPT ![l] = @ \cup {k}],
               Goto(l, "resolve"), pc[l] = "import"
        PROVE  Store!Next
    <3>1. refs[l] = modules[l]  BY <2>2 DEF IInv, Libraries
    <3> QED  BY <1>1, <1>7, <2>2, <3>1 DEF Goto, TypeOK
  <2>3. CASE Fail(l) /\ UNCHANGED <<import, refs>>
    <3>1. refs' = [refs EXCEPT ![l] = refs[l]] /\ pc'[l] = "freeLibs"
      BY <1>1, <2>3 DEF TypeOK, Fail, Goto
    <3> QED  BY <1>8, <3>1
  <2> QED  BY <1>9, <2>1, <2>2, <2>3 DEF LoadImport
<1>10. CASE ResolveImport(l)
  <2>1. CASE Goto(l, "import") /\ UNCHANGED refs
    BY <1>1, <1>6, <2>1 DEF Goto, TypeOK
  <2>2. CASE refs' = [refs EXCEPT ![l] = @ \ {import[l]}] /\ Fail(l)
    <3>1. pc'[l] = "freeLibs" /\ refs[l] \ {import[l]} \in SUBSET refs[l]
      BY <1>1, <2>2 DEF TypeOK, Fail, Goto
    <3> QED  BY <1>8, <2>2, <3>1
  <2> QED  BY <1>10, <2>1, <2>2 DEF ResolveImport
<1> QED  BY <1>9, <1>10

\* A load succeeds with an image of its own off the boundaries; Free detaches
\* the DLL.
LEMMA AttachStore ==
    ASSUME IInv, IInv', NEW l \in Loads,
           (Attach(l) /\ Goto(l, "exports")) \/ Free(l)
    PROVE  Store!Next \/ UNCHANGED Store!vars
<1>1. TypeOK /\ TypeOK'  BY DEF IInv
<1>2. /\ \A k \in Loads \ {l} : pc'[k] = pc[k] /\ codeBase'[k] = codeBase[k]
      /\ UNCHANGED <<memory, refs, codeBase>>
  BY <1>1 DEF Attach, Free, Goto, TypeOK
<1>3. /\ St' = [St EXCEPT ![l] = Status(l)']
      /\ Im' = [Im EXCEPT ![l] = IF Status(l)' = "loaded" THEN codeBase'[l] ELSE None]
  BY <1>1, <1>2, StatusStep
<1>4. CASE Attach(l) /\ Goto(l, "exports")
  <2>1. pc[l] = "attach" /\ pc'[l] = "exports" /\ attached' \in {attached, attached \cup {l}}
    BY <1>1, <1>4 DEF Attach, Goto, TypeOK
  <2>2. Status(l) = "loading" /\ Status(l)' = "loaded"
    BY <2>1 DEF Status
  <2>3. codeBase[l] \in Slots \ Crossing /\ memory[codeBase[l]] = l
    BY <2>1 DEF IInv, Memory, Placed, Hooking, Running
  <2>4. Store!Succeed(l)
    BY <1>2, <1>3, <2>1, <2>2, <2>3 DEF Store!Succeed, Store!Becomes, St, Im
  <2> QED  BY <2>4 DEF Store!Next
<1>5. CASE Free(l)
  <2>1. pc[l] = "loaded" /\ pc'[l] = "freeLibs"
    BY <1>1, <1>5 DEF Free, Goto, TypeOK
  <2>2. Status(l) = "loaded" /\ Status(l)' = "freeing"
    BY <2>1 DEF Status
  <2>3. attached' = attached \ {l}
    BY <1>5 DEF Free, IInv, Attachment
  <2>4. Store!Unload(l)
    BY <1>2, <1>3, <2>2, <2>3 DEF Store!Unload, Store!Becomes, St, Im
  <2> QED  BY <2>4 DEF Store!Next
<1> QED  BY <1>4, <1>5

\* Free: what is given back is the load's own, and at the end all of it.
LEMMA FreeStore ==
    ASSUME IInv, IInv', NEW l \in Loads,
           FreeLibraries(l) \/ FreeImage(l) \/ FreeBlocked(l)
    PROVE  Store!Next \/ UNCHANGED Store!vars
<1>1. TypeOK /\ TypeOK'  BY DEF IInv
<1>2. /\ \A k \in Loads \ {l} : pc'[k] = pc[k] /\ codeBase'[k] = codeBase[k]
      /\ UNCHANGED attached
      /\ pc[l] \in {"freeLibs", "freeImage", "freeBlocked"}
  BY <1>1 DEF FreeLibraries, FreeImage, FreeBlocked, Goto, TypeOK
<1>3. Status(l) = "freeing"  BY <1>1, <1>2, StatusIs
<1>4. CASE FreeLibraries(l)
  <2>1. pc'[l] = "freeImage"  BY <1>1, <1>4 DEF FreeLibraries, Goto, TypeOK
  <2>2. Status(l)' = "freeing"  BY <2>1 DEF Status
  <2>3. St' = St /\ Im' = Im  BY <1>1, <1>2, <1>3, <2>2, StatusStep DEF St, Im
  <2>4. refs' = [refs EXCEPT ![l] = refs[l] \ modules[l]] /\ UNCHANGED memory
    BY <1>4 DEF FreeLibraries
  <2>5. memory' = [s \in Slots |-> IF s \in {} THEN None ELSE memory[s]]
    BY <1>1, <2>4 DEF TypeOK
  <2>6. /\ \E kept \in SUBSET refs[l] : refs' = [refs EXCEPT ![l] = kept]
        /\ \E slots \in SUBSET {s \in Slots : memory[s] = l} :
              memory' = [s \in Slots |-> IF s \in slots THEN None ELSE memory[s]]
    <3>1. \E kept \in SUBSET refs[l] : refs' = [refs EXCEPT ![l] = kept]
      BY <2>4
    <3>2. \E slots \in SUBSET {s \in Slots : memory[s] = l} :
              memory' = [s \in Slots |-> IF s \in slots THEN None ELSE memory[s]]
      <4>1. {} \in SUBSET {s \in Slots : memory[s] = l}  OBVIOUS
      <4> WITNESS {} \in SUBSET {s \in Slots : memory[s] = l}
      <4> QED  BY <2>5
    <3> QED  BY <3>1, <3>2
  <2>7. Store!GiveBack(l)
    BY <1>2, <1>3, <2>3, <2>6 DEF Store!GiveBack, St, Im
  <2> QED  BY <2>7 DEF Store!Next
<1>5. CASE FreeImage(l)
  <2>1. pc'[l] = "freeBlocked"  BY <1>1, <1>5 DEF FreeImage, Goto, TypeOK
  <2>2. Status(l)' = "freeing"  BY <2>1 DEF Status
  <2>3. St' = St /\ Im' = Im  BY <1>1, <1>2, <1>3, <2>2, StatusStep DEF St, Im
  <2> DEFINE own == {codeBase[l]} \cap Slots
  <2>4. own \in SUBSET {s \in Slots : memory[s] = l}
    BY DEF IInv, Memory
  <2>5. memory' = [s \in Slots |-> IF s \in own THEN None ELSE memory[s]]
    BY <1>5 DEF FreeImage, Release
  <2>6. refs' = [refs EXCEPT ![l] = refs[l]]
    BY <1>1, <1>5 DEF FreeImage, TypeOK
  <2> HIDE DEF own
  <2>7. Store!GiveBack(l)
    BY <1>2, <1>3, <2>3, <2>4, <2>5, <2>6 DEF Store!GiveBack, St, Im
  <2> QED  BY <2>7 DEF Store!Next
<1>6. CASE FreeBlocked(l)
  <2>1. pc[l] = "freeBlocked" /\ pc'[l] = "done"
    BY <1>1, <1>6 DEF FreeBlocked, Goto, TypeOK
  <2>2. Status(l)' = "done"  BY <2>1 DEF Status
  <2>3. St' = [St EXCEPT ![l] = "done"] /\ Im' = Im
    BY <1>1, <1>2, <1>3, <2>2, StatusStep DEF Im
  <2>4. refs' = [refs EXCEPT ![l] = {}]
    <3>1. refs[l] = {} /\ refs' = refs
      BY <1>6, <2>1 DEF FreeBlocked, IInv, Libraries
    <3> QED  BY <1>1, <3>1 DEF TypeOK
  <2>5. \A s \in Slots : memory[s] = l <=> s \in blocked[l]
    BY <2>1, LoaderAssumption DEF IInv, Memory
  <2>6. memory' = [s \in Slots |-> IF memory[s] = l THEN None ELSE memory[s]]
    BY <1>6, <2>5 DEF FreeBlocked, Release
  <2>7. Store!End(l)
    BY <1>2, <1>3, <2>3, <2>4, <2>6 DEF Store!End, Store!Becomes, St, Im
  <2> QED  BY <2>7 DEF Store!Next
<1> QED  BY <1>4, <1>5, <1>6

\* The steps at the lock and the hook change nothing a caller sees.
LEMMA HookStore ==
    ASSUME IInv, IInv', NEW l \in Loads,
           AppendRange(l) \/ (Once(l) /\ once = "idle") \/ Hook(l)
    PROVE  Store!Next \/ UNCHANGED Store!vars
<1>1. TypeOK /\ TypeOK'  BY DEF IInv
<1>2. /\ \A k \in Loads \ {l} : pc'[k] = pc[k] /\ codeBase'[k] = codeBase[k]
      /\ UNCHANGED <<memory, refs, attached, codeBase>>
      /\ pc[l] \in {"append", "hook", "inHook"}
      /\ pc'[l] \in {"hook", "inHook", "result"}
  BY <1>1 DEF AppendRange, Once, Hook, Goto, TypeOK, module, system
<1>3. Status(l) = "loading" /\ Status(l)' = "loading"
  BY <1>2 DEF Status
<1>4. St' = St /\ Im' = Im  BY <1>1, <1>2, <1>3, StatusStep DEF St, Im
<1> QED  BY <1>2, <1>4 DEF Store!vars, St, Im

\* Each step of a load is a step of the store or changes none of it.
LEMMA LoadStore ==
    ASSUME IInv, IInv', NEW l \in Loads, Call(l) \/ Load(l) \/ Free(l)
    PROVE  Store!Next \/ UNCHANGED Store!vars
<1>1. CASE Call(l) \/ CheckHeaders(l)
  BY <1>1, QuietStore DEF Call, CheckHeaders, Quiet, Moves
<1>2. CASE CopyHeaders(l) \/ CopySections(l) \/ Relocate(l)
  BY <1>2, QuietStore DEF CopyHeaders, CopySections, Relocate, Fail, Quiet, Moves
<1>3. CASE FinalizeSections(l) \/ LockRanges(l)
  BY <1>3, QuietStore DEF FinalizeSections, LockRanges, Fail, Quiet, Moves
<1>4. CASE HookResult(l)
  BY <1>4, QuietStore DEF HookResult, Fail, Quiet, Moves
<1>5. CASE ExecuteTLS(l) \/ Throw(l) \/ BuildNameExports(l)
  BY <1>5, QuietStore DEF ExecuteTLS, Throw, BuildNameExports, Quiet, Moves
<1>6. CASE Once(l)
  <2>1. CASE once = "done"
    BY <1>6, <2>1, QuietStore DEF Once, Quiet
  <2>2. CASE once # "done"
    BY <1>6, <2>2, HookStore DEF Once
  <2> QED  BY <2>1, <2>2
<1>7. CASE Attach(l)
  <2>1. CASE Goto(l, "exports")  BY <1>7, <2>1, AttachStore
  <2>2. CASE Fail(l) /\ UNCHANGED <<initialized, attached>>
    <3>1. UNCHANGED <<module, system>> /\ Goto(l, "freeLibs") /\ pc[l] = "attach"
      BY <1>7, <2>2 DEF Attach, Fail, module, system
    <3> QED  BY <3>1, QuietStore DEF Quiet, Moves
  <2> QED  BY <1>7, <2>1, <2>2 DEF Attach
<1> QED
  BY <1>1, <1>2, <1>3, <1>4, <1>5, <1>6, <1>7, ReserveStore, ImportStore,
     HookStore, AttachStore, FreeStore
  DEF Load

\* LoadLibrary and Free keep the promise of ImageStore for any number of loads:
\* memory and libraries are taken when free, given back once and by their owner.
THEOREM LoaderIsStore == Spec => ImplementsStore
<1>1. Init => Store!Init
  <2> SUFFICES ASSUME Init PROVE Store!Init  OBVIOUS
  <2>1. \A l \in Loads : Status(l) = "idle"  BY DEF Init, Status
  <2> QED  BY <2>1 DEF Init, Store!Init
<1>2. IInv /\ IInv' /\ [Next]_vars => [Store!Next]_Store!vars
  <2> SUFFICES ASSUME IInv, IInv', [Next]_vars
               PROVE  Store!Next \/ UNCHANGED Store!vars
    OBVIOUS
  <2>1. CASE \E l \in Loads : Call(l) \/ Load(l) \/ Free(l)
    BY <2>1, LoadStore
  <2>2. CASE UNCHANGED <<pc, module, system>>
    BY <2>2 DEF Store!vars, Status, module, system
  <2> QED
    BY <2>1, <2>2 DEF Next, ReadRanges, ReadDone, vars
<1> QED  BY <1>1, <1>2, Inductive, PTL DEF Spec, ImplementsStore, Store!Spec

=============================================================================
