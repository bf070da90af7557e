----------------------------- MODULE MCSaurusGC -----------------------------
(***************************************************************************)
(* SaurusGC on a few addresses.  The mutator is cut in three: a program    *)
(* that builds data and assigns to LOCALs, one that defines globals, and   *)
(* one that loads code and makes closures.                                 *)
(***************************************************************************)
EXTENDS SaurusGC

CONSTANTS MaxNames,   \* bound: interned strings
          Programs    \* the mutators of a run
VARIABLE program      \* which of them it is

MCInit == Boot(1, 2, 3, 4, 5, 6) /\ program \in Programs

\* The data program reads no globals and no constants.
DataMutator ==
  \/ \E n \in 0 .. Len(stack), o \in Free, r \in SUBSET Held : NewObject(n, o, r)
  \/ \E n \in 0 .. Len(stack), x \in Held \cup Kids(Held) : Fetch(n, x)
  \/ \E n \in 1 .. Len(stack) : Pop(n)
  \/ \E o \in Free, r \in {{}} \cup {{x} : x \in Held} : RefLocal(o, r)
  \/ \E l \in Held, r \in Top : SetLocal(l, r)
  \/ \E x \in Roots : TouchFreed(x)

\* A program that interns names and defines globals.
GlobalsMutator ==
  \/ \E n \in 1 .. Len(stack) : Pop(n)
  \/ Cardinality(Interned) < MaxNames /\ \E st, sm \in Free : InternString(st, sm)
  \/ \E k \in Interned, v \in Top, gone \in SUBSET Bound, m1, l, m2 \in Free :
       SetGlobal(k, v, gone, m1, l, m2)
  \/ \E x \in Roots : TouchFreed(x)

\* A program that loads code and creates closures.
CodeMutator ==
  \/ \E n \in 1 .. Len(stack) : Pop(n)
  \/ \E n \in 1 .. Len(stack), x \in Held \cup Kids(Held) : Fetch(n, x)
  \/ \E p, f \in Free, r \in SUBSET Interned : Load(p, f, r)
  \/ \E g \in Held, f \in Free, r \in SUBSET Held : Lambda(g, f, r)
  \/ \E x \in Roots : TouchFreed(x)

MCMutator == \/ program = "data" /\ DataMutator
             \/ program = "globals" /\ GlobalsMutator
             \/ program = "code" /\ CodeMutator
MCSpec == /\ MCInit
          /\ [][(MCMutator \/ Collector \/ Close) /\ UNCHANGED program]_<<vars, program>>
          /\ Fairness

(***************************************************************************)
(* Addresses that nothing refers to are interchangeable: of those, the     *)
(* lowest ones are allocated.  An address that something dangling refers   *)
(* to may be allocated at any time.                                        *)
(***************************************************************************)
Dangling == {x \in Free : \E o \in Allocated : x \in heap[o].refs \/ x = heap[o].code}
LowestFirst == \A o \in Allocated' \cap Free :
                 \/ o \in Dangling
                 \/ \A x \in Free' \ Dangling : o < x

\* Marking visits the objects of one step in one order only.
OneOrder == \A i, j \in 1 .. Len(gray') :
              i < j /\ flag[gray'[i]] = "white" /\ flag[gray'[j]] = "white" => gray'[i] < gray'[j]
=============================================================================
