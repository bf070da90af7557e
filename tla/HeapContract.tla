---------------------------- MODULE HeapContract ----------------------------
(***************************************************************************)
(* What the collector of src/src/vm/gc.c promises the rest of the VM, with *)
(* no colours, no gray stack and no marking steps: a collection is one     *)
(* step.  SaurusGC implements it.                                          *)
(*                                                                         *)
(* The heap is generational in one respect: an object allocated since the  *)
(* last collection is young (GC_FLAG_TRANS).  A collection keeps every     *)
(* young object and never looks inside one, so an old object survives only *)
(* when a chain of OLD objects leads to it from a root.                    *)
(***************************************************************************)

CONSTANTS Obj          \* addresses an object can have

VARIABLES live,        \* the objects of the gc_root list
          young,       \* those allocated since the last collection
          mutable,     \* those of type SU_LOCAL, the only ones ever assigned to
          refs,        \* what scan() would follow out of each object
          roots        \* the objects on the stack, the globals, the strings

vars == <<live, young, mutable, refs, roots>>

Old == live \ young

\* A set of old objects that holds the old roots and all their old referents.
Closed(S) == /\ roots \cap Old \subseteq S
             /\ \A o \in S : refs[o] \cap Old \subseteq S

\* The old objects that a collection has to keep: the least closed set.
Marked == {o \in Old : \A S \in SUBSET Old : Closed(S) => o \in S}

Init == /\ live \subseteq Obj
        /\ young = live
        /\ mutable \subseteq live
        /\ refs \in [Obj -> SUBSET Obj]
        /\ \A o \in live : refs[o] \subseteq live
        /\ roots \subseteq live

(***************************************************************************)
(* The program allocates, moves references between the stack and the       *)
(* globals and assigns to LOCALs.  It frees nothing, changes no other      *)
(* object, and every object it allocates is young.                         *)
(***************************************************************************)
Mutate == /\ live \subseteq live' /\ live' \subseteq Obj
          /\ young' = young \cup (live' \ live)
          /\ mutable' \cap live = mutable
          /\ refs' \in [Obj -> SUBSET Obj]
          /\ \A o \in live \ mutable : refs'[o] = refs[o]
          /\ \A o \in live' \ live : refs'[o] \subseteq live'
          /\ roots' \subseteq live'

\* A collection, at once.
Collect == /\ live' = young \cup Marked
           /\ young' = {}
           /\ mutable' = mutable \cap live'
           /\ refs' = [o \in Obj |-> IF o \in live' THEN refs[o] ELSE {}]
           /\ roots' = roots

Next == Mutate \/ Collect

Spec == Init /\ [][Next]_vars
=============================================================================
