------------------------------ MODULE SaurusGC ------------------------------
(***************************************************************************)
(* The heap of a Saurus state and its tri-colour collector: gc.c, the      *)
(* allocation side of core.c (su_allocate, gc_insert_object) and the       *)
(* operations of the VM that create objects or move references.            *)
(*                                                                         *)
(* An object is an address; what it holds is reduced to the references     *)
(* scan() follows.  A map, a vector or a sequence stands with the nodes    *)
(* that were allocated with it; what it shares with older ones are         *)
(* references.  Numbers, booleans and nil are no objects: they are left    *)
(* out of the stack and out of "refs".                                     *)
(***************************************************************************)
EXTENDS Integers, Sequences, FiniteSets, Functions

CONSTANTS Obj,           \* addresses the allocator can return
          Nil,           \* no object
          AliveObjects,  \* ALIVE_OBJECTS (gc.h)
          StackSize,     \* STACK_SIZE (intern.h), in objects
          GraySize,      \* GC_GRAY_SIZE (intern.h)
          MaxRefs        \* bound: references an operation stores in a new object

ASSUME ObjAssumption  == IsFiniteSet(Obj) /\ Nil \notin Obj
ASSUME SizeAssumption == /\ AliveObjects \in Nat /\ StackSize \in Nat
                         /\ GraySize \in Nat /\ MaxRefs \in Nat

VARIABLES flag,        \* gc.flags of each object; "free": the address is not allocated
          heap,        \* kind, traced references and prototype of each object
          numObjects,  \* s->num_objects
          stack,       \* the objects of s->stack[0 .. stack_top-1]
          globals,     \* s->globals, Nil once su_close has cleared it
          strings,     \* s->strings, likewise
          gray,        \* s->gc_gray[0 .. gc_gray_size-1]
          phase,       \* where control is, see Phases
          interupt     \* the IGC bit of s->interupt

vars == <<flag, heap, numObjects, stack, globals, strings, gray, phase, interupt>>

Flags == {"free", "trans", "white", "gray", "black"}
\* "gref" is the SU_LOCAL that update_global_ref makes; both kinds of LOCAL can be assigned.
Locals == {"local", "gref"}
Kinds == {"none", "data", "function", "prototype"} \cup Locals
(***************************************************************************)
(* run: a mutator runs.  mark: inside scan(), then end().  closed: after   *)
(* su_close.  The other two end a run: overrun is a store past gc_gray,    *)
(* useAfterFree the read of a freed object.                                *)
(***************************************************************************)
Phases == {"run", "mark", "closed", "overrun", "useAfterFree"}

Record == [kind : Kinds, refs : SUBSET Obj, code : Obj \cup {Nil}]
Object(k, r) == [kind |-> k, refs |-> r, code |-> Nil]
Blank == Object("none", {})

Free      == {o \in Obj : flag[o] = "free"}
Allocated == Obj \ Free
Young     == {o \in Obj : flag[o] = "trans"}
White     == {o \in Obj : flag[o] = "white"}
Mutable   == {o \in Obj : heap[o].kind \in Locals}
Refs      == [o \in Obj |-> heap[o].refs]

Held      == Range(stack)
Roots     == (Held \cup {globals, strings}) \ {Nil}
Kids(S)   == UNION {heap[x].refs : x \in S}
\* What the two maps of the state refer to; su_close leaves neither.
Bound     == Kids({globals} \ {Nil})
Interned  == Kids({strings} \ {Nil})
\* The objects an operation can get at without following two references.
Values    == (Held \cup Kids(Roots)) \cap Allocated
\* The top of the stack, as the set of objects in it: empty when it is a number, say.
Top       == {{}} \cup {{stack[i]} : i \in {Len(stack)} \ {0}}
-----------------------------------------------------------------------------
(***************************************************************************)
(* su_init: the empty strings map es, replaced by sm when "_G" (the string *)
(* sg) is interned; the empty globals map em, which the LOCAL gr refers to *)
(* for good; and the globals map gm with _G bound to gr.                   *)
(***************************************************************************)
Boot(es, sg, sm, em, gr, gm) ==
  /\ Cardinality({es, sg, sm, em, gr, gm}) = 6
  /\ flag = [o \in Obj |-> IF o \in {es, sg, sm, em, gr, gm} THEN "trans" ELSE "free"]
  /\ heap = [o \in Obj |-> CASE o \in {es, sg, em} -> Object("data", {})
                             [] o = sm -> Object("data", {sg})
                             [] o = gr -> Object("gref", {em})
                             [] o = gm -> Object("data", {sg, gr})
                             [] OTHER -> Blank]
  /\ numObjects = 6
  /\ globals = gm
  /\ strings = sm
  /\ stack = <<>>
  /\ gray = <<>>
  /\ phase = "run"
  /\ interupt = TRUE

Init == \E es, sg, sm, em, gr, gm \in Obj : Boot(es, sg, sm, em, gr, gm)

\* Mutant: a new object takes part in the next collection.
Insert_White(new) ==
  /\ DOMAIN new \subseteq Free
  /\ flag' = [o \in Obj |-> IF o \in DOMAIN new THEN "white" ELSE flag[o]]
  /\ heap' = [o \in Obj |-> IF o \in DOMAIN new THEN new[o] ELSE heap[o]]
  /\ numObjects' = numObjects + Cardinality(DOMAIN new)
  /\ interupt' = TRUE

(***************************************************************************)
(* su_allocate and gc_insert_object for the objects of DOMAIN new: they    *)
(* are young, they count, and the next instruction looks at the heap.      *)
(***************************************************************************)
Insert(new) ==
  /\ DOMAIN new \subseteq Free
  /\ flag' = [o \in Obj |-> IF o \in DOMAIN new THEN "trans" ELSE flag[o]]
  /\ heap' = [o \in Obj |-> IF o \in DOMAIN new THEN new[o] ELSE heap[o]]
  /\ numObjects' = numObjects + Cardinality(DOMAIN new)
  /\ interupt' = TRUE

\* The operation consumes n entries of the stack and leaves o there.
Replace(n, o) ==
  /\ n <= Len(stack)
  /\ Len(stack) - n < StackSize
  /\ stack' = Append(SubSeq(stack, 1, Len(stack) - n), o)

HeapSame == UNCHANGED <<flag, heap, numObjects, interupt>>

\* A vector, map, cell, sequence or string built from what the program can get at.
NewObject(n, o, r) ==
  /\ phase = "run"
  /\ r \subseteq Values /\ Cardinality(r) <= MaxRefs
  /\ Insert([x \in {o} |-> Object("data", r)])
  /\ Replace(n, o)
  /\ UNCHANGED <<globals, strings, gray, phase>>

\* OP_COPY, OP_LOAD, OP_GETGLOBAL, su_unref_local, indexing a vector or a map.
Fetch(n, x) ==
  /\ phase = "run"
  /\ x \in Values
  /\ Replace(n, x)
  /\ HeapSame /\ UNCHANGED <<globals, strings, gray, phase>>

\* OP_POP, OP_RETURN and the errors that cut the stack.
Pop(n) ==
  /\ phase = "run"
  /\ n \in 1 .. Len(stack)
  /\ stack' = SubSeq(stack, 1, Len(stack) - n)
  /\ HeapSame /\ UNCHANGED <<globals, strings, gray, phase>>

\* su_ref_local: a LOCAL holding a copy of a stack entry.
RefLocal(o, r) ==
  /\ phase = "run"
  /\ r \subseteq Held /\ Cardinality(r) <= 1
  /\ Insert([x \in {o} |-> Object("local", r)])
  /\ Replace(0, o)
  /\ UNCHANGED <<globals, strings, gray, phase>>

\* Mutant: nil is stored as if it were an object.
SetLocal_Nil(l, r) ==
  /\ phase = "run"
  /\ l \in Held \cap Mutable
  /\ heap' = [heap EXCEPT ![l].refs = {Nil}]
  /\ UNCHANGED <<flag, numObjects, stack, interupt, globals, strings, gray, phase>>

\* su_set_local: the top entry goes into the LOCAL and off the stack.
SetLocal(l, r) ==
  /\ phase = "run"
  /\ l \in Held \cap Mutable
  /\ r \in Top
  /\ heap' = [heap EXCEPT ![l].refs = r]
  /\ stack' = SubSeq(stack, 1, Len(stack) - Cardinality(r))
  /\ UNCHANGED <<flag, numObjects, interupt, globals, strings, gray, phase>>

\* string_from_db for a string not seen before: the string, and the map that holds it.
InternString(st, sm) ==
  /\ phase = "run"
  /\ st # sm
  /\ Interned \subseteq Allocated
  /\ Insert([x \in {st, sm} |-> IF x = st THEN Object("data", {})
                                ELSE Object("data", Interned \cup {st})])
  /\ strings' = sm
  /\ Replace(0, st)
  /\ UNCHANGED <<globals, gray, phase>>

(***************************************************************************)
(* OP_SETGLOBAL: the map m1 with the interned name k bound to the top of   *)
(* the stack, then update_global_ref: the LOCAL l refers to m1 and the map *)
(* m2 binds _G to it.  The LOCAL that _G was bound to leaves the map,      *)
(* unless a program bound it to another name too.  A name that is in the   *)
(* map already is "Redefinition of global variable".                       *)
(***************************************************************************)
SetGlobal(k, v, gone, m1, l, m2) ==
  /\ phase = "run"
  /\ k \in Interned \ Bound
  /\ v \in Top
  /\ gone \in {{}} \cup {{g} : g \in {x \in Bound : heap[x].kind = "gref"}}
  /\ Cardinality({m1, l, m2}) = 3
  /\ {k} \cup Bound \subseteq Allocated
  /\ LET bound == Bound \cup {k} \cup v IN
       Insert([x \in {m1, l, m2} |->
                 CASE x = m1 -> Object("data", bound)
                   [] x = l  -> Object("gref", {m1})
                   [] x = m2 -> Object("data", (bound \ gone) \cup {l})])
  /\ globals' = m2
  /\ UNCHANGED <<stack, strings, gray, phase>>

\* su_load: a prototype p and the function f of its outermost code, with constants r.
Load(p, f, r) ==
  /\ phase = "run"
  /\ p # f
  /\ r \subseteq Interned \cap Allocated /\ Cardinality(r) <= MaxRefs
  /\ Insert([x \in {p, f} |-> IF x = p THEN Object("prototype", {})
                              ELSE [kind |-> "function", refs |-> r \cup {p}, code |-> p]])
  /\ Replace(0, f)
  /\ UNCHANGED <<globals, strings, gray, phase>>

(***************************************************************************)
(* OP_LAMBDA in a running function g: the new function's prototype is      *)
(* nested in that of g, so it lies in the same allocation, but its type is *)
(* SU_INV and gray_function will not follow it.  Constants and upvalues    *)
(* are r.                                                                  *)
(***************************************************************************)
Lambda(g, f, r) ==
  /\ phase = "run"
  /\ g \in Held /\ heap[g].kind = "function" /\ heap[g].code \in Allocated
  /\ r \subseteq Values /\ Cardinality(r) <= MaxRefs
  /\ Insert([x \in {f} |-> [kind |-> "function", refs |-> r, code |-> heap[g].code]])
  /\ Replace(0, f)
  /\ UNCHANGED <<globals, strings, gray, phase>>

\* The program follows a reference, or runs code, that a collection has freed.
TouchFreed(x) ==
  /\ phase = "run"
  /\ x \in Roots
  /\ ~ (heap[x].refs \cup ({heap[x].code} \ {Nil}) \subseteq Allocated)
  /\ phase' = "useAfterFree"
  /\ HeapSame /\ UNCHANGED <<stack, globals, strings, gray>>

Mutator ==
  \/ \E n \in 0 .. Len(stack), o \in Free, r \in SUBSET Values : NewObject(n, o, r)
  \/ \E n \in 0 .. Len(stack), x \in Values : Fetch(n, x)
  \/ \E n \in 1 .. Len(stack) : Pop(n)
  \/ \E o \in Free, r \in {{}} \cup {{x} : x \in Held} : RefLocal(o, r)
  \/ \E l \in Held, r \in Top : SetLocal(l, r)
  \/ \E st, sm \in Free : InternString(st, sm)
  \/ \E k \in Obj, v \in Top, gone \in SUBSET Bound, m1, l, m2 \in Free :
       SetGlobal(k, v, gone, m1, l, m2)
  \/ \E p, f \in Free, r \in SUBSET Values : Load(p, f, r)
  \/ \E g \in Held, f \in Free, r \in SUBSET Values : Lambda(g, f, r)
  \/ \E x \in Roots : TouchFreed(x)
-----------------------------------------------------------------------------
\* The orders in which add_to_gray can meet the objects of S.
Orders(S) == {q \in [1 .. Cardinality(S) -> S] :
                /\ \A i, j \in DOMAIN q : q[i] = q[j] => i = j
                /\ S = Range(q)}

(***************************************************************************)
(* add_to_gray for each of the white objects q in turn, on top of what is  *)
(* gray.  The assertion lets gc_gray_size be GC_GRAY_SIZE, one too many: a *)
(* push at that size writes behind the array.                              *)
(***************************************************************************)
AddToGray(old, q) ==
  IF Len(old) + Len(q) <= GraySize
  THEN /\ gray' = old \o q
       /\ phase' = "mark"
  ELSE /\ gray' = old
       /\ phase' = "overrun"

\* Mutants: begin forgets the strings, or grays every white object.
Begin_NoStrings ==
  \E q \in Orders((Roots \ {strings}) \cap White) :
    /\ AddToGray(<<>>, q)
    /\ flag' = IF phase' = "mark"
               THEN [o \in Obj |-> IF o \in Range(q) THEN "gray" ELSE flag[o]] ELSE flag
    /\ UNCHANGED <<heap, numObjects, stack, globals, strings>>

Begin_AllLocals ==
  \E q \in Orders((Roots \cup Mutable) \cap White) :
    /\ AddToGray(<<>>, q)
    /\ flag' = IF phase' = "mark"
               THEN [o \in Obj |-> IF o \in Range(q) THEN "gray" ELSE flag[o]] ELSE flag
    /\ UNCHANGED <<heap, numObjects, stack, globals, strings>>

\* begin: the roots, in an order that marking does not depend on.
Begin ==
  \E q \in Orders(Roots \cap White) :
    /\ AddToGray(<<>>, q)
    /\ flag' = IF phase' = "mark"
               THEN [o \in Obj |-> IF o \in Range(q) THEN "gray" ELSE flag[o]] ELSE flag
    /\ UNCHANGED <<heap, numObjects, stack, globals, strings>>

\* gc_trace with too few objects: the interupt is over.
SkipTrace ==
  /\ phase = "run" /\ interupt
  /\ numObjects <= AliveObjects
  /\ interupt' = FALSE
  /\ UNCHANGED <<flag, heap, numObjects, stack, globals, strings, gray, phase>>

\* gc_trace between two instructions; vm_loop clears the interupt afterwards.
StartTrace ==
  /\ phase = "run" /\ interupt
  /\ numObjects > AliveObjects
  /\ Begin
  /\ interupt' = FALSE

\* su_gc, called by the host or by the function gc.
StartGc ==
  /\ phase = "run"
  /\ Begin
  /\ UNCHANGED interupt

\* Mutants: the object stays on the gray stack; a function's referents are not marked.
ScanStep_NoPop ==
  /\ phase = "mark" /\ gray # <<>>
  /\ LET o    == gray[Len(gray)]
         rest == gray
         kids == IF flag[o] = "black" THEN {} ELSE heap[o].refs IN
       IF kids \subseteq Allocated
       THEN \E q \in Orders(kids \cap (White \ {o})) :
              /\ AddToGray(rest, q)
              /\ flag' = [x \in Obj |-> IF x = o THEN "black"
                                        ELSE IF phase' = "mark" /\ x \in Range(q) THEN "gray"
                                        ELSE flag[x]]
       ELSE /\ phase' = "useAfterFree"
            /\ UNCHANGED <<flag, gray>>
  /\ UNCHANGED <<heap, numObjects, stack, globals, strings, interupt>>

ScanStep_NoFunction ==
  /\ phase = "mark" /\ gray # <<>>
  /\ LET o    == gray[Len(gray)]
         rest == SubSeq(gray, 1, Len(gray) - 1)
         kids == IF heap[o].kind = "function" THEN {} ELSE heap[o].refs IN
       IF kids \subseteq Allocated
       THEN \E q \in Orders(kids \cap (White \ {o})) :
              /\ AddToGray(rest, q)
              /\ flag' = [x \in Obj |-> IF x = o THEN "black"
                                        ELSE IF phase' = "mark" /\ x \in Range(q) THEN "gray"
                                        ELSE flag[x]]
       ELSE /\ phase' = "useAfterFree"
            /\ UNCHANGED <<flag, gray>>
  /\ UNCHANGED <<heap, numObjects, stack, globals, strings, interupt>>

\* One turn of the loop of scan: the last gray object turns black, its white referents gray.
ScanStep ==
  /\ phase = "mark" /\ gray # <<>>
  /\ LET o    == gray[Len(gray)]
         rest == SubSeq(gray, 1, Len(gray) - 1)
         kids == IF flag[o] = "black" THEN {} ELSE heap[o].refs IN
       IF kids \subseteq Allocated
       THEN \E q \in Orders(kids \cap (White \ {o})) :
              /\ AddToGray(rest, q)
              /\ flag' = [x \in Obj |-> IF x = o THEN "black"
                                        ELSE IF phase' = "mark" /\ x \in Range(q) THEN "gray"
                                        ELSE flag[x]]
       ELSE /\ phase' = "useAfterFree"
            /\ UNCHANGED <<flag, gray>>
  /\ UNCHANGED <<heap, numObjects, stack, globals, strings, interupt>>

\* Mutants: young objects are freed too; num_objects is not lowered; black stays black.
Sweep_All ==
  /\ phase = "mark" /\ gray = <<>>
  /\ flag' = [o \in Obj |-> IF flag[o] # "black" THEN "free" ELSE "white"]
  /\ heap' = [o \in Obj |-> IF flag[o] # "black" THEN Blank ELSE heap[o]]
  /\ numObjects' = numObjects - Cardinality(White \cup Young)
  /\ phase' = IF globals = Nil THEN "closed" ELSE "run"
  /\ UNCHANGED <<stack, globals, strings, gray, interupt>>

Sweep_StayBlack ==
  /\ phase = "mark" /\ gray = <<>>
  /\ flag' = [o \in Obj |-> IF o \in Free \cup White THEN "free"
                           ELSE IF flag[o] = "black" THEN "black" ELSE "white"]
  /\ heap' = [o \in Obj |-> IF o \in White THEN Blank ELSE heap[o]]
  /\ numObjects' = numObjects - Cardinality(White)
  /\ phase' = IF globals = Nil THEN "closed" ELSE "run"
  /\ UNCHANGED <<stack, globals, strings, gray, interupt>>

\* end: white objects are freed, all others are white.
Sweep ==
  /\ phase = "mark" /\ gray = <<>>
  /\ flag' = [o \in Obj |-> IF o \in Free \cup White THEN "free" ELSE "white"]
  /\ heap' = [o \in Obj |-> IF o \in White THEN Blank ELSE heap[o]]
  /\ numObjects' = numObjects - Cardinality(White)
  /\ phase' = IF globals = Nil THEN "closed" ELSE "run"
  /\ UNCHANGED <<stack, globals, strings, gray, interupt>>

\* su_close: no roots are left, and su_gc begins.
Close ==
  /\ phase = "run"
  /\ stack' = <<>>
  /\ globals' = Nil
  /\ strings' = Nil
  /\ phase' = "mark"
  /\ HeapSame /\ UNCHANGED gray

Collector == SkipTrace \/ StartTrace \/ StartGc \/ ScanStep \/ Sweep

Next == Mutator \/ Collector \/ Close

Fairness == WF_vars(ScanStep) /\ WF_vars(Sweep)

Spec == Init /\ [][Next]_vars /\ Fairness
-----------------------------------------------------------------------------
Contract == INSTANCE HeapContract WITH live <- Allocated, young <- Young,
              mutable <- Mutable, refs <- Refs, roots <- Roots

TypeOK == /\ flag \in [Obj -> Flags]
          /\ heap \in [Obj -> Record]
          /\ numObjects \in Int
          /\ stack \in Seq(Obj)
          /\ globals \in Obj \cup {Nil}
          /\ strings \in Obj \cup {Nil}
          /\ gray \in Seq(Obj)
          /\ phase \in Phases
          /\ interupt \in BOOLEAN

(***************************************************************************)
(* num_objects is the length of the gc_root list: gc_insert_object and end *)
(* are the only places that keep the two together.                         *)
(***************************************************************************)
ObjectCount == numObjects = Cardinality(Allocated)

(***************************************************************************)
(* No root dangles: what the stack, the globals and the interned strings   *)
(* refer to is allocated, although a collection looks at old roots only.   *)
(***************************************************************************)
RootsAllocated == Roots \subseteq Allocated

(***************************************************************************)
(* gc_gray holds each gray object once, and no gray or black object is     *)
(* left when the program runs: so end() ran to the end of the list, and    *)
(* the test for GC_FLAG_BLACK in scan never fires.                         *)
(***************************************************************************)
GrayExact ==
  /\ phase = "mark" =>
       /\ Range(gray) = {o \in Obj : flag[o] = "gray"}
       /\ \A i, j \in DOMAIN gray : gray[i] = gray[j] => i = j
  /\ phase \in {"run", "closed"} =>
       /\ gray = <<>>
       /\ \A o \in Obj : flag[o] \notin {"gray", "black"}

(***************************************************************************)
(* The tri-colour invariant, with a fourth colour: while scan runs no root *)
(* is white and nothing black refers to a white or to a freed object.      *)
(***************************************************************************)
TriColour ==
  phase = "mark" =>
    /\ Roots \cap White = {}
    /\ \A o \in Obj : flag[o] = "black" => heap[o].refs \cap (White \cup Free) = {}

\* Marking is exact: what is gray or black has to be kept (HeapContract!Marked).
MarkExact ==
  phase = "mark" =>
    {o \in Obj : flag[o] \in {"gray", "black"}} \subseteq Contract!Marked

(***************************************************************************)
(* An object that a collection found by marking keeps everything it refers *)
(* to across end(); only an object that was young then can lose referents. *)
(***************************************************************************)
MarkedKeepReferents ==
  [][\A o \in Obj : flag[o] = "black" /\ flag'[o] # "black" =>
       /\ heap'[o] = heap[o]
       /\ heap[o].refs \subseteq Allocated']_vars

(***************************************************************************)
(* su_close frees every old object, those in cycles of LOCALs too, and     *)
(* leaks exactly the young ones.                                           *)
(***************************************************************************)
CloseLeaksYoung ==
  [][phase' = "closed" /\ phase # "closed" => Allocated' = Young]_vars

\* What free_object releases is gone: an address that is not allocated holds nothing.
FreeBlank == \A o \in Free : heap[o] = Blank

\* The inductive invariant of SaurusGCProofs.
IInv == /\ TypeOK
        /\ FreeBlank
        /\ ObjectCount
        /\ RootsAllocated
        /\ GrayExact
        /\ TriColour
        /\ MarkExact

\* The heap behaves as the contract says, each collection being one step.
Implements == Contract!Spec

\* scan and end finish: a collection that starts is over at some time.
CollectionEnds == phase = "mark" ~> phase # "mark"

\* The assertion of add_to_gray (gc.c:37): the store into gc_gray is inside the array.
GrayInBounds == phase # "overrun"

=============================================================================
