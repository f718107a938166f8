------------------------------ MODULE DllLoader ------------------------------
(***************************************************************************)
(* The loader of DLLs from memory, bin/memmod: LoadLibrary, Free and the    *)
(* hook of RtlPcToFileHeader.  One member of Loads is a call of LoadLibrary *)
(* with the Module it returns.  Addresses are slots of the size of one      *)
(* image; some of them cross a boundary of 4 GB, where images must not lie. *)
(* What the code reads from the image is input: every check may fail.       *)
(***************************************************************************)
EXTENDS FiniteSets

CONSTANTS
    Loads,      \* calls of LoadLibrary
    Slots,      \* places for an image
    Crossing,   \* those over a 4 GB boundary (none on 32 bits)
    Preferred,  \* the place the images were linked for
    Libs,       \* libraries an image may import
    Readers,    \* threads that may call RtlPcToFileHeader
    None

ASSUME LoaderAssumption ==
    /\ Crossing \subseteq Slots /\ Preferred \in Slots
    /\ None \notin Loads \cup Slots \cup Libs

VARIABLES
    pc,          \* where a load is
    codeBase,    \* module.codeBase
    blocked,     \* module.blockedMemory
    modules,     \* module.modules
    import,      \* the library being resolved
    initialized, \* module.initialized
    memory,      \* memory: who has reserved a slot
    refs,        \* libraries: references taken for a load and not given back
    attached,    \* loads whose DLL was attached and not detached
    ranges,      \* loadedAddressRanges
    writer,      \* loadedAddressRangesMu: the load that has it,
    waiting,     \* the loads that wait for it,
    reading,     \* and the threads that read
    once,        \* haveHookedRtlPcToFileHeader: idle, the load in it, done
    hooked,      \* is the thunk of kernelbase.dll replaced
    hookResult   \* hookRtlPcToFileHeaderResult: ok or error

module == <<codeBase, blocked, modules, import, initialized>>
system == <<memory, refs, attached>>
mu == <<writer, waiting, reading>>
hook == <<once, hooked, hookResult>>
vars == <<pc, module, system, ranges, mu, hook>>

Steps == {"idle", "headers", "reserve", "boundaries", "copy", "sections",
          "relocate", "import", "resolve", "finalize", "ranges", "append",
          "hook", "inHook", "result", "tls", "throw", "attach", "exports",
          "loaded", "freeLibs", "freeImage", "freeBlocked", "done"}

Goto(l, step) == pc' = [pc EXCEPT ![l] = step]

\* An error after the Module exists: the deferred Free, which has no DLL to
\* detach as the DLL was never attached.
Fail(l) == Goto(l, "freeLibs")

Init ==
    /\ pc = [l \in Loads |-> "idle"]
    /\ codeBase = [l \in Loads |-> None]
    /\ blocked = [l \in Loads |-> {}]
    /\ modules = [l \in Loads |-> {}]
    /\ import = [l \in Loads |-> None]
    /\ initialized = [l \in Loads |-> FALSE]
    /\ memory = [s \in Slots |-> None]
    /\ refs = [l \in Loads |-> {}]
    /\ attached = {}
    /\ ranges = {}
    /\ writer = None
    /\ waiting = {}
    /\ reading = {}
    /\ once = "idle"
    /\ hooked = FALSE
    /\ hookResult = "ok"

-----------------------------------------------------------------------------
(* LoadLibrary: the image.                                                 *)

Call(l) ==
    /\ pc[l] = "idle"
    /\ Goto(l, "headers")
    /\ UNCHANGED <<module, system, ranges, mu, hook>>

\* Headers, platform, alignment and size of the sections are checked before
\* there is a Module: an error returns at once.
CheckHeaders(l) ==
    /\ pc[l] = "headers"
    /\ Goto(l, "reserve") \/ Goto(l, "done")
    /\ UNCHANGED <<module, system, ranges, mu, hook>>

Unreserved == {s \in Slots : memory[s] = None}

\* VirtualAlloc of an image: at slot s, which becomes the base.
Allocate(l, s) ==
    /\ memory' = [memory EXCEPT ![s] = l]
    /\ codeBase' = [codeBase EXCEPT ![l] = s]

\* VirtualAlloc where the image wants to be or, if that fails, anywhere.
Reserve(l) ==
    /\ pc[l] = "reserve"
    /\ \/ \E s \in Unreserved : Allocate(l, s) /\ Goto(l, "boundaries")
       \/ Fail(l) /\ UNCHANGED <<memory, codeBase>>
    /\ UNCHANGED <<blocked, modules, import, initialized, refs, attached,
                   ranges, mu, hook>>

\* Mutant: the error of the second allocation is dropped.
CheckBoundariesDropsError(l) ==
    /\ pc[l] = "boundaries"
    /\ IF codeBase[l] \in Crossing
       THEN /\ blocked' = [blocked EXCEPT ![l] = @ \cup {codeBase[l]}]
            /\ \/ \E s \in Unreserved : Allocate(l, s) /\ UNCHANGED pc
               \/ /\ Goto(l, "copy")
                  /\ codeBase' = [codeBase EXCEPT ![l] = None]
                  /\ UNCHANGED memory
       ELSE Goto(l, "copy") /\ UNCHANGED <<memory, codeBase, blocked>>
    /\ UNCHANGED <<modules, import, initialized, refs, attached, ranges, mu,
                   hook>>

\* check4GBBoundaries: memory over a boundary is kept aside, so that it is not
\* given again, and other memory is asked for.
CheckBoundaries(l) ==
    /\ pc[l] = "boundaries"
    /\ IF codeBase[l] \in Crossing
       THEN /\ blocked' = [blocked EXCEPT ![l] = @ \cup {codeBase[l]}]
            /\ \/ \E s \in Unreserved : Allocate(l, s) /\ UNCHANGED pc
               \/ Fail(l) /\ codeBase' = [codeBase EXCEPT ![l] = None]
                          /\ UNCHANGED memory
       ELSE Goto(l, "copy") /\ UNCHANGED <<memory, codeBase, blocked>>
    /\ UNCHANGED <<modules, import, initialized, refs, attached, ranges, mu,
                   hook>>

\* The headers are copied from the file, if it has them all, ...
CopyHeaders(l) ==
    /\ pc[l] = "copy"
    /\ Goto(l, "sections") \/ Fail(l)
    /\ UNCHANGED <<module, system, ranges, mu, hook>>

\* ... and then its sections.
CopySections(l) ==
    /\ pc[l] = "sections"
    /\ Goto(l, "relocate") \/ Fail(l)
    /\ UNCHANGED <<module, system, ranges, mu, hook>>

\* performBaseRelocation, if the image is not where it wants to be.  An image
\* without relocations goes on as it is.
Relocate(l) ==
    /\ pc[l] = "relocate"
    /\ Goto(l, "import") \/ (codeBase[l] # Preferred /\ Fail(l))
    /\ UNCHANGED <<module, system, ranges, mu, hook>>

-----------------------------------------------------------------------------
(* LoadLibrary: buildImportTable.                                          *)

\* The table ends, or the next library is loaded or not found.
LoadImport(l) ==
    /\ pc[l] = "import"
    /\ \/ Goto(l, "finalize") /\ UNCHANGED <<import, refs>>
       \/ \E k \in Libs \ modules[l] :
            /\ import' = [import EXCEPT ![l] = k]
            /\ refs' = [refs EXCEPT ![l] = @ \cup {k}]
            /\ Goto(l, "resolve")
       \/ Fail(l) /\ UNCHANGED <<import, refs>>
    /\ UNCHANGED <<codeBase, blocked, modules, initialized, memory, attached,
                   ranges, mu, hook>>

\* Mutant: a function that is not found leaves its library loaded.
ResolveImportLeaks(l) ==
    /\ pc[l] = "resolve"
    /\ \/ /\ modules' = [modules EXCEPT ![l] = @ \cup {import[l]}]
          /\ Goto(l, "import")
       \/ Fail(l) /\ UNCHANGED modules
    /\ import' = [import EXCEPT ![l] = None]
    /\ UNCHANGED <<codeBase, blocked, initialized, memory, refs, attached,
                   ranges, mu, hook>>

\* Its functions are found, and it is appended to modules; or one is not, and
\* it is released here, as Free does not know it.
ResolveImport(l) ==
    /\ pc[l] = "resolve"
    /\ \/ /\ modules' = [modules EXCEPT ![l] = @ \cup {import[l]}]
          /\ Goto(l, "import")
          /\ UNCHANGED refs
       \/ /\ refs' = [refs EXCEPT ![l] = @ \ {import[l]}]
          /\ Fail(l)
          /\ UNCHANGED modules
    /\ import' = [import EXCEPT ![l] = None]
    /\ UNCHANGED <<codeBase, blocked, initialized, memory, attached, ranges, mu,
                   hook>>

\* finalizeSections protects the pages, registerExceptionHandlers adds the
\* function table, if there is one.
FinalizeSections(l) ==
    /\ pc[l] = "finalize"
    /\ \/ Goto(l, "ranges") /\ waiting' = waiting \cup {l}
       \/ Fail(l) /\ UNCHANGED waiting
    /\ UNCHANGED <<module, system, ranges, writer, reading, hook>>

-----------------------------------------------------------------------------
(* LoadLibrary: loadedAddressRanges and the hook.                          *)

\* loadedAddressRangesMu.Lock(), which waits for the readers.
LockRanges(l) ==
    /\ pc[l] = "ranges"
    /\ writer = None /\ reading = {}
    /\ writer' = l
    /\ waiting' = waiting \ {l}
    /\ Goto(l, "append")
    /\ UNCHANGED <<module, system, ranges, reading, hook>>

\* Mutant: the mutex is not released.
AppendRangeKeepsLock(l) ==
    /\ pc[l] = "append"
    /\ ranges' = ranges \cup {codeBase[l]}
    /\ Goto(l, "hook")
    /\ UNCHANGED <<module, system, mu, hook>>

\* The range of the image is appended and the mutex released.
AppendRange(l) ==
    /\ pc[l] = "append"
    /\ ranges' = ranges \cup {codeBase[l]}
    /\ writer' = None
    /\ Goto(l, "hook")
    /\ UNCHANGED <<module, system, waiting, reading, hook>>

\* RLock: new readers wait behind a writer that waits.
CanRead == writer = None /\ waiting = {}

\* The replacement of RtlPcToFileHeader reads the ranges.
ReadRanges(r) ==
    /\ hooked /\ r \notin reading
    /\ CanRead
    /\ reading' = reading \cup {r}
    /\ UNCHANGED <<pc, module, system, ranges, writer, waiting, hook>>

\* RUnlock.
ReadDone(r) ==
    /\ r \in reading
    /\ reading' = reading \ {r}
    /\ UNCHANGED <<pc, module, system, ranges, writer, waiting, hook>>

\* Once.Do: the first load hooks, others wait until it has done so.
Once(l) ==
    /\ pc[l] = "hook"
    /\ \/ once = "idle" /\ once' = "running" /\ Goto(l, "inHook")
       \/ once = "done" /\ UNCHANGED once /\ Goto(l, "result")
    /\ UNCHANGED <<module, system, ranges, mu, hooked, hookResult>>

\* hookRtlPcToFileHeader: the import is not found or cannot be made writable;
\* or it is replaced, and its protection restored or not.
Hook(l) ==
    /\ pc[l] = "inHook"
    /\ hooked' \in BOOLEAN
    /\ hookResult' \in IF hooked' THEN {"ok", "error"} ELSE {"error"}
    /\ once' = "done"
    /\ Goto(l, "result")
    /\ UNCHANGED <<module, system, ranges, mu>>

\* Mutant: only the load that hooks looks at the result.
HookResultIgnored(l) ==
    /\ pc[l] = "result"
    /\ Goto(l, "tls")
    /\ UNCHANGED <<module, system, ranges, mu, hook>>

\* Every load takes the result of the one attempt.
HookResult(l) ==
    /\ pc[l] = "result"
    /\ IF hookResult = "ok" THEN Goto(l, "tls") ELSE Fail(l)
    /\ UNCHANGED <<module, system, ranges, mu, hook>>

-----------------------------------------------------------------------------
(* LoadLibrary: the code of the DLL; Free.                                 *)

\* executeTLS.  What runs may raise an exception, for which the system asks
\* RtlPcToFileHeader.
ExecuteTLS(l) ==
    /\ pc[l] = "tls"
    /\ Goto(l, "attach") \/ Goto(l, "throw")
    /\ UNCHANGED <<module, system, ranges, mu, hook>>

\* The hook takes the mutex for reading and gives it back.
Throw(l) ==
    /\ pc[l] = "throw"
    /\ CanRead
    /\ Goto(l, "attach")
    /\ UNCHANGED <<module, system, ranges, mu, hook>>

\* DllMain(DLL_PROCESS_ATTACH) of a DLL with an entry point may refuse.
Attach(l) ==
    /\ pc[l] = "attach"
    /\ \/ /\ Goto(l, "exports")
          /\ initialized' = [initialized EXCEPT ![l] = TRUE]
          /\ attached' = attached \cup {l}
       \/ /\ Goto(l, "exports") \/ Fail(l)
          /\ UNCHANGED <<initialized, attached>>
    /\ UNCHANGED <<codeBase, blocked, modules, import, memory, refs, ranges, mu,
                   hook>>

\* buildNameExports, whose error nobody looks at: the load has succeeded.
BuildNameExports(l) ==
    /\ pc[l] = "exports"
    /\ Goto(l, "loaded")
    /\ UNCHANGED <<module, system, ranges, mu, hook>>

\* The owner frees the module: DllMain(DLL_PROCESS_DETACH).
Free(l) ==
    /\ pc[l] = "loaded"
    /\ attached' = IF initialized[l] THEN attached \ {l} ELSE attached
    /\ initialized' = [initialized EXCEPT ![l] = FALSE]
    /\ Goto(l, "freeLibs")
    /\ UNCHANGED <<codeBase, blocked, modules, import, memory, refs, ranges, mu,
                   hook>>

FreeLibraries(l) ==
    /\ pc[l] = "freeLibs"
    /\ refs' = [refs EXCEPT ![l] = @ \ modules[l]]
    /\ modules' = [modules EXCEPT ![l] = {}]
    /\ Goto(l, "freeImage")
    /\ UNCHANGED <<codeBase, blocked, import, initialized, memory, attached,
                   ranges, mu, hook>>

Release(slots) ==
    memory' = [s \in Slots |-> IF s \in slots THEN None ELSE memory[s]]

FreeImage(l) ==
    /\ pc[l] = "freeImage"
    /\ Release({codeBase[l]})
    /\ codeBase' = [codeBase EXCEPT ![l] = None]
    /\ Goto(l, "freeBlocked")
    /\ UNCHANGED <<blocked, modules, import, initialized, refs, attached, ranges,
                   mu, hook>>

\* addressList.free.
FreeBlocked(l) ==
    /\ pc[l] = "freeBlocked"
    /\ Release(blocked[l])
    /\ blocked' = [blocked EXCEPT ![l] = {}]
    /\ Goto(l, "done")
    /\ UNCHANGED <<codeBase, modules, import, initialized, refs, attached,
                   ranges, mu, hook>>

Load(l) ==
    \/ CheckHeaders(l) \/ Reserve(l) \/ CheckBoundaries(l)
    \/ CopyHeaders(l) \/ CopySections(l) \/ Relocate(l) \/ LoadImport(l) \/ ResolveImport(l) \/ FinalizeSections(l)
    \/ LockRanges(l) \/ AppendRange(l) \/ Once(l) \/ Hook(l) \/ HookResult(l)
    \/ ExecuteTLS(l) \/ Throw(l) \/ Attach(l) \/ BuildNameExports(l)
    \/ FreeLibraries(l) \/ FreeImage(l) \/ FreeBlocked(l)

Next ==
    \/ \E l \in Loads : Call(l) \/ Load(l) \/ Free(l)
    \/ \E r \in Readers : ReadRanges(r) \/ ReadDone(r)

\* Goroutines and threads that can move do, a writer is not passed over for
\* ever, and readers leave; nobody has to call or free.
Fairness ==
    /\ \A l \in Loads : WF_vars(Load(l))
    /\ \A r \in Readers : WF_vars(ReadDone(r))

Spec == Init /\ [][Next]_vars /\ Fairness

-----------------------------------------------------------------------------
TypeOK ==
    /\ pc \in [Loads -> Steps]
    /\ codeBase \in [Loads -> Slots \cup {None}]
    /\ blocked \in [Loads -> SUBSET Slots]
    /\ modules \in [Loads -> SUBSET Libs]
    /\ import \in [Loads -> Libs \cup {None}]
    /\ initialized \in [Loads -> BOOLEAN]
    /\ memory \in [Slots -> Loads \cup {None}]
    /\ refs \in [Loads -> SUBSET Libs]
    /\ attached \subseteq Loads
    /\ ranges \subseteq Slots
    /\ writer \in Loads \cup {None}
    /\ waiting \subseteq Loads
    /\ reading \subseteq Readers
    /\ once \in {"idle", "running", "done"}
    /\ hooked \in BOOLEAN
    /\ hookResult \in {"ok", "error"}

\* A load that failed, at whatever step, and a module that was freed hold no
\* memory and no library and are not attached.
NothingLeft ==
    \A l \in Loads : pc[l] = "done" =>
        /\ \A s \in Slots : memory[s] # l
        /\ refs[l] = {} /\ l \notin attached

\* Loads on any number of threads take only what is free, give back only what
\* is their own, at most once, and hold nothing when they have failed or been
\* freed; the image of a loaded module stays reserved, off the boundaries.
Status(l) ==
    CASE pc[l] \in {"idle", "done"} -> pc[l]
      [] pc[l] \in {"exports", "loaded"} -> "loaded"
      [] pc[l] \in {"freeLibs", "freeImage", "freeBlocked"} -> "freeing"
      [] OTHER -> "loading"

Store == INSTANCE ImageStore WITH
    status <- [l \in Loads |-> Status(l)],
    image <- [l \in Loads |-> IF Status(l) = "loaded" THEN codeBase[l] ELSE None]

ImplementsStore == Store!Spec

\* Whoever is waited for is on its way: the mutex is held for writing only by a
\* load that appends its range and never beside a reader, a load waits for it
\* only to append, and a Once that others wait for has its load in the hook.
HoldersMove ==
    /\ writer # None => pc[writer] = "append" /\ reading = {}
    /\ waiting = {l \in Loads : pc[l] = "ranges"}
    /\ once = "running" => \E l \in Loads : pc[l] = "inHook"

\* The code of a DLL runs only from its own memory, off the boundaries, with
\* its range known to the hook and the hook in place, whoever installed it.
CodeRunsHooked ==
    \A l \in Loads : pc[l] \in {"tls", "throw", "attach", "exports",
                                "loaded"} =>
        /\ codeBase[l] \in ranges \ Crossing /\ memory[codeBase[l]] = l
        /\ hooked /\ hookResult = "ok"

\* LoadLibrary returns, and so does Free: nobody is left waiting for the mutex
\* or for the load that hooks.
LoadReturns ==
    \A l \in Loads : pc[l] \notin {"idle", "loaded", "done"} ~>
                     pc[l] \in {"loaded", "done"}

=============================================================================
