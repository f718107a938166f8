----------------------------- MODULE ImageStore -----------------------------
(***************************************************************************)
(* What the loader of DLLs promises (bin/memmod): a load takes memory and  *)
(* libraries that are free, gives back only its own, and in the end either *)
(* has one image off the boundaries, kept until it is freed, or nothing.   *)
(***************************************************************************)
CONSTANTS Loads, Slots, Crossing, Libs, None

VARIABLES
    status,    \* of each load: idle, loading, loaded, freeing or done
    memory,    \* who has reserved a slot
    refs,      \* the libraries each load has a reference to
    image,     \* the image of a loaded module
    attached   \* the loads whose DLL is attached

vars == <<status, memory, refs, image, attached>>

Init ==
    /\ status = [l \in Loads |-> "idle"]
    /\ memory = [s \in Slots |-> None]
    /\ refs = [l \in Loads |-> {}]
    /\ image = [l \in Loads |-> None]
    /\ attached = {}

Becomes(l, from, to) ==
    /\ status[l] \in from
    /\ status' = [status EXCEPT ![l] = to]

Begin(l) ==
    /\ Becomes(l, {"idle"}, "loading")
    /\ UNCHANGED <<memory, refs, image, attached>>

\* A slot nobody has.
TakeSlot(l) ==
    /\ status[l] = "loading"
    /\ \E s \in Slots : /\ memory[s] = None
                        /\ memory' = [memory EXCEPT ![s] = l]
    /\ UNCHANGED <<status, refs, image, attached>>

TakeLibrary(l) ==
    /\ status[l] = "loading"
    /\ \E k \in Libs \ refs[l] : refs' = [refs EXCEPT ![l] = @ \cup {k}]
    /\ UNCHANGED <<status, memory, image, attached>>

\* The load has succeeded with one of its slots; its DLL may refuse to attach.
Succeed(l) ==
    /\ Becomes(l, {"loading"}, "loaded")
    /\ \E s \in Slots \ Crossing : /\ memory[s] = l
                                   /\ image' = [image EXCEPT ![l] = s]
    /\ attached' \in {attached, attached \cup {l}}
    /\ UNCHANGED <<memory, refs>>

\* The owner frees a module, ...
Unload(l) ==
    /\ Becomes(l, {"loaded"}, "freeing")
    /\ image' = [image EXCEPT ![l] = None]
    /\ attached' = attached \ {l}
    /\ UNCHANGED <<memory, refs>>

\* ... or a load fails, and may give a library back at once.
GiveUp(l) ==
    /\ Becomes(l, {"loading"}, "freeing")
    /\ \E kept \in SUBSET refs[l] : refs' = [refs EXCEPT ![l] = kept]
    /\ UNCHANGED <<memory, image, attached>>

\* Libraries, or memory, of its own and of nobody else.
GiveBack(l) ==
    /\ status[l] = "freeing"
    /\ \E kept \in SUBSET refs[l] : refs' = [refs EXCEPT ![l] = kept]
    /\ \E slots \in SUBSET {s \in Slots : memory[s] = l} :
          memory' = [s \in Slots |-> IF s \in slots THEN None ELSE memory[s]]
    /\ UNCHANGED <<status, image, attached>>

\* What is left is given back with the last step.
End(l) ==
    /\ Becomes(l, {"loading", "freeing"}, "done")
    /\ refs' = [refs EXCEPT ![l] = {}]
    /\ memory' = [s \in Slots |-> IF memory[s] = l THEN None ELSE memory[s]]
    /\ UNCHANGED <<image, attached>>

Next ==
    \E l \in Loads :
        \/ Begin(l) \/ TakeSlot(l) \/ TakeLibrary(l) \/ Succeed(l)
        \/ Unload(l) \/ GiveUp(l) \/ GiveBack(l) \/ End(l)

Spec == Init /\ [][Next]_vars

=============================================================================
