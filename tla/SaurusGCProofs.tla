--------------------------- MODULE SaurusGCProofs ---------------------------
(***************************************************************************)
(* The collector keeps its invariants, and implements HeapContract, for    *)
(* any number of addresses and any sizes of the stack and of gc_gray.      *)
(***************************************************************************)
EXTENDS SaurusGC, FiniteSetTheorems, SequenceTheorems, TLAPS

USE ObjAssumption, SizeAssumption
-----------------------------------------------------------------------------
(***************************************************************************)
(* What the pieces of the actions do.                                      *)
(***************************************************************************)

\* The prefixes of the stack that su_pop leaves hold nothing new.
LEMMA CutStack ==
  ASSUME NEW s \in Seq(Obj), NEW k \in 0 .. Len(s)
  PROVE  /\ SubSeq(s, 1, k) \in Seq(Obj)
         /\ Len(SubSeq(s, 1, k)) = k
         /\ \A i \in 1 .. k : SubSeq(s, 1, k)[i] = s[i]
         /\ Range(SubSeq(s, 1, k)) \subseteq Range(s)
  <1>1. \A i \in 1 .. k : s[i] \in Obj
    OBVIOUS
  <1>2. /\ SubSeq(s, 1, k) \in Seq(Obj)
        /\ Len(SubSeq(s, 1, k)) = k
        /\ \A i \in 1 .. k : SubSeq(s, 1, k)[i] = s[i]
    BY <1>1, SubSeqProperties
  <1>3. DOMAIN SubSeq(s, 1, k) = 1 .. k /\ 1 .. k \subseteq DOMAIN s
    BY <1>2
  <1> QED
    BY <1>2, <1>3 DEF Range

\* push_value after a cut: the stack gains one object at most.
LEMMA ReplaceStack ==
  ASSUME stack \in Seq(Obj), NEW n \in 0 .. Len(stack), NEW o \in Obj, Replace(n, o)
  PROVE  stack' \in Seq(Obj) /\ Range(stack') \subseteq Range(stack) \cup {o}
  <1> DEFINE c == SubSeq(stack, 1, Len(stack) - n)
  <1>1. c \in Seq(Obj) /\ Range(c) \subseteq Range(stack)
    BY CutStack
  <1>2. stack' = Append(c, o)
    BY DEF Replace
  <1> HIDE DEF c
  <1>3. /\ stack' \in Seq(Obj)
        /\ Len(stack') = Len(c) + 1
        /\ \A i \in 1 .. Len(c) : stack'[i] = c[i]
        /\ stack'[Len(c) + 1] = o
    BY <1>1, <1>2, AppendProperties
  <1>4. Range(stack') \subseteq Range(c) \cup {o}
    BY <1>1, <1>3 DEF Range
  <1> QED
    BY <1>1, <1>3, <1>4

\* gc_insert_object: the new objects are all that changes, and they are counted.
LEMMA InsertHeap ==
  ASSUME TypeOK, FreeBlank, ObjectCount, NEW STATE new,
         \A x \in DOMAIN new : new[x] \in Record,
         Insert(new)
  PROVE  /\ flag' \in [Obj -> Flags]
         /\ heap' \in [Obj -> Record]
         /\ numObjects' \in Int
         /\ interupt' \in BOOLEAN
         /\ Allocated' = Allocated \cup DOMAIN new
         /\ FreeBlank'
         /\ ObjectCount'
         /\ \A o \in Obj : flag'[o] \in {flag[o], "trans"}
         /\ DOMAIN new \cap Allocated = {}
  <1>1. /\ flag' \in [Obj -> Flags]
        /\ heap' \in [Obj -> Record]
        /\ interupt' \in BOOLEAN
        /\ \A o \in Obj : flag'[o] \in {flag[o], "trans"}
    BY DEF TypeOK, Insert, Flags
  <1>2. /\ DOMAIN new \subseteq Obj
        /\ DOMAIN new \cap Allocated = {}
        /\ Allocated' = Allocated \cup DOMAIN new
    BY DEF TypeOK, Insert, Free, Allocated
  <1>3. /\ IsFiniteSet(Allocated) /\ IsFiniteSet(DOMAIN new)
        /\ Cardinality(DOMAIN new) \in Nat
    BY <1>2, FS_Subset, FS_CardinalityType DEF Allocated
  <1>4. Cardinality(Allocated \cap DOMAIN new) = 0
    BY <1>2, FS_EmptySet
  <1>5. Cardinality(Allocated') = Cardinality(Allocated) + Cardinality(DOMAIN new)
    <2>1. Cardinality(Allocated \cup DOMAIN new)
            = Cardinality(Allocated) + Cardinality(DOMAIN new) - Cardinality(Allocated \cap DOMAIN new)
      BY <1>3, FS_Union
    <2>2. Cardinality(Allocated) \in Nat
      BY <1>3, FS_CardinalityType
    <2> QED
      BY <1>2, <1>3, <1>4, <2>1, <2>2
  <1>6. numObjects' \in Int /\ ObjectCount'
    BY <1>3, <1>5 DEF ObjectCount, Insert, TypeOK
  <1>7. FreeBlank'
    BY DEF FreeBlank, Insert, Free, TypeOK
  <1> QED
    BY <1>1, <1>2, <1>6, <1>7

\* While the program runs nothing is gray or black and the marking invariants are idle.
LEMMA RunStep ==
  ASSUME IInv, phase = "run", phase' = "run", gray' = gray,
         TypeOK', FreeBlank', ObjectCount', Roots' \subseteq Allocated',
         \A o \in Obj : flag'[o] \in {flag[o], "trans"}
  PROVE  IInv'
  <1>1. GrayExact'
    BY DEF IInv, GrayExact, Flags
  <1>2. TriColour' /\ MarkExact'
    BY DEF TriColour, MarkExact
  <1> QED
    BY <1>1, <1>2 DEF IInv, RootsAllocated

\* What is held is allocated, and so is what the program can get at.
LEMMA RootsHeld ==
  ASSUME IInv
  PROVE  /\ Held \subseteq Allocated
         /\ \A i \in DOMAIN stack : stack[i] \in Allocated
         /\ Len(stack) # 0 => Len(stack) \in DOMAIN stack
  <1>1. Held \subseteq Obj
    BY DEF Held, Range, IInv, TypeOK
  <1>2. Held \subseteq Allocated
    BY <1>1 DEF IInv, RootsAllocated, Roots
  <1> QED
    BY <1>2 DEF Held, Range, IInv, TypeOK

\* Allocating is a step of the program that the contract allows.
LEMMA InsertMutates ==
  ASSUME IInv, IInv', NEW STATE new,
         \A x \in DOMAIN new : new[x] \in Record,
         \A x \in DOMAIN new : new[x].refs \subseteq Allocated \cup DOMAIN new,
         Insert(new)
  PROVE  Contract!Mutate
  <1>1. /\ DOMAIN new \subseteq Obj
        /\ DOMAIN new \cap Allocated = {}
        /\ Allocated' = Allocated \cup DOMAIN new
        /\ Allocated' \subseteq Obj
    BY DEF IInv, TypeOK, Insert, Free, Allocated
  <1>2. Young' = Young \cup (Allocated' \ Allocated)
    BY <1>1 DEF IInv, TypeOK, Insert, Young
  <1>3. Mutable \subseteq Allocated
    BY DEF IInv, FreeBlank, Mutable, Blank, Object, Locals, Allocated
  <1>4. \A x \in Allocated : heap'[x] = heap[x]
    BY <1>1 DEF Insert, Allocated
  <1>5. Mutable' \cap Allocated = Mutable
    BY <1>3, <1>4 DEF Mutable, Allocated
  <1>6. Refs' \in [Obj -> SUBSET Obj]
    BY DEF IInv, TypeOK, Record, Refs
  <1>7. \A x \in Allocated \ Mutable : Refs'[x] = Refs[x]
    BY <1>4 DEF Refs, Allocated
  <1>8. \A x \in Allocated' \ Allocated : Refs'[x] \subseteq Allocated'
    BY <1>1 DEF Refs, Insert
  <1>9. Roots' \subseteq Allocated'
    BY DEF IInv, RootsAllocated
  <1> QED
    BY <1>1, <1>2, <1>5, <1>6, <1>7, <1>8, <1>9 DEF Contract!Mutate

\* So is moving references and assigning to LOCALs.
LEMMA SameHeapMutates ==
  ASSUME IInv, IInv', flag' = flag, Mutable' = Mutable,
         \A x \in Obj \ Mutable : heap'[x] = heap[x]
  PROVE  Contract!Mutate
  <1>1. Allocated' = Allocated /\ Young' = Young /\ Allocated \subseteq Obj
    BY DEF Allocated, Free, Young
  <1>2. Mutable \subseteq Allocated
    BY DEF IInv, FreeBlank, Mutable, Blank, Object, Locals, Allocated
  <1>3. Refs' \in [Obj -> SUBSET Obj]
    BY DEF IInv, TypeOK, Record, Refs
  <1>4. \A x \in Allocated \ Mutable : Refs'[x] = Refs[x]
    BY DEF Refs, Allocated
  <1>5. Roots' \subseteq Allocated'
    BY DEF IInv, RootsAllocated
  <1> QED
    BY <1>1, <1>2, <1>3, <1>4, <1>5 DEF Contract!Mutate
-----------------------------------------------------------------------------
(***************************************************************************)
(* The operations of the program.                                          *)
(***************************************************************************)

\* An object built from what the program can get at.
LEMMA NewObjectStep ==
  ASSUME IInv, NEW n \in 0 .. Len(stack), NEW o \in Free, NEW r \in SUBSET Values,
         NewObject(n, o, r)
  PROVE  IInv' /\ Contract!Mutate
  <1> DEFINE new == [x \in {o} |-> Object("data", r)]
  <1>1. DOMAIN new = {o} /\ \A x \in DOMAIN new : new[x] \in Record
    BY DEF Object, Record, Kinds, Locals, Values, Allocated, Free
  <1>2. \A x \in DOMAIN new : new[x].refs \subseteq Allocated \cup DOMAIN new
    BY DEF Object, Values
  <1>3. Insert(new)
    BY DEF NewObject
  <1> HIDE DEF new
  <1>4. /\ flag' \in [Obj -> Flags] /\ heap' \in [Obj -> Record]
        /\ numObjects' \in Int /\ interupt' \in BOOLEAN
        /\ Allocated' = Allocated \cup DOMAIN new
        /\ FreeBlank' /\ ObjectCount'
        /\ \A x \in Obj : flag'[x] \in {flag[x], "trans"}
    BY <1>1, <1>3, InsertHeap DEF IInv
  <1>5. stack' \in Seq(Obj) /\ Range(stack') \subseteq Range(stack) \cup {o}
    BY ReplaceStack DEF IInv, TypeOK, NewObject, Free
  <1>6. Roots' \subseteq Allocated'
    BY <1>1, <1>4, <1>5 DEF IInv, RootsAllocated, Roots, Held, NewObject
  <1>7. TypeOK'
    BY <1>4, <1>5 DEF IInv, TypeOK, NewObject, Free
  <1>8. IInv'
    BY <1>4, <1>6, <1>7, RunStep DEF NewObject
  <1> QED
    BY <1>1, <1>2, <1>3, <1>8, InsertMutates

\* A LOCAL.
LEMMA RefLocalStep ==
  ASSUME IInv, NEW o \in Free, NEW r \in SUBSET Held,
         RefLocal(o, r)
  PROVE  IInv' /\ Contract!Mutate
  <1> DEFINE new == [x \in {o} |-> Object("local", r)]
  <1>1. DOMAIN new = {o} /\ \A x \in DOMAIN new : new[x] \in Record
    BY RootsHeld DEF Object, Record, Kinds, Locals, Allocated, Free
  <1>2. \A x \in DOMAIN new : new[x].refs \subseteq Allocated \cup DOMAIN new
    BY RootsHeld DEF Object
  <1>3. Insert(new)
    BY DEF RefLocal
  <1> HIDE DEF new
  <1>4. /\ flag' \in [Obj -> Flags] /\ heap' \in [Obj -> Record]
        /\ numObjects' \in Int /\ interupt' \in BOOLEAN
        /\ Allocated' = Allocated \cup DOMAIN new
        /\ FreeBlank' /\ ObjectCount'
        /\ \A x \in Obj : flag'[x] \in {flag[x], "trans"}
    BY <1>1, <1>3, InsertHeap DEF IInv
  <1>5. stack' \in Seq(Obj) /\ Range(stack') \subseteq Range(stack) \cup {o}
    BY ReplaceStack DEF IInv, TypeOK, RefLocal, Free
  <1>6. Roots' \subseteq Allocated'
    BY <1>1, <1>4, <1>5 DEF IInv, RootsAllocated, Roots, Held, RefLocal
  <1>7. TypeOK'
    BY <1>4, <1>5 DEF IInv, TypeOK, RefLocal, Free
  <1>8. IInv'
    BY <1>4, <1>6, <1>7, RunStep DEF RefLocal
  <1> QED
    BY <1>1, <1>2, <1>3, <1>8, InsertMutates

\* A string and the map that holds it.
LEMMA InternStringStep ==
  ASSUME IInv, NEW st \in Free, NEW sm \in Free,
         InternString(st, sm)
  PROVE  IInv' /\ Contract!Mutate
  <1> DEFINE new == [x \in {st, sm} |-> IF x = st THEN Object("data", {})
                                  ELSE Object("data", Interned \cup {st})]
  <1>1. DOMAIN new = {st, sm} /\ \A x \in DOMAIN new : new[x] \in Record
    BY DEF InternString, Object, Record, Kinds, Locals, Allocated, Free
  <1>2. \A x \in DOMAIN new : new[x].refs \subseteq Allocated \cup DOMAIN new
    BY DEF InternString, Object
  <1>3. Insert(new)
    BY DEF InternString
  <1> HIDE DEF new
  <1>4. /\ flag' \in [Obj -> Flags] /\ heap' \in [Obj -> Record]
        /\ numObjects' \in Int /\ interupt' \in BOOLEAN
        /\ Allocated' = Allocated \cup DOMAIN new
        /\ FreeBlank' /\ ObjectCount'
        /\ \A x \in Obj : flag'[x] \in {flag[x], "trans"}
    BY <1>1, <1>3, InsertHeap DEF IInv
  <1>5. stack' \in Seq(Obj) /\ Range(stack') \subseteq Range(stack) \cup {st}
    BY ReplaceStack DEF IInv, TypeOK, InternString, Free
  <1>6. Roots' \subseteq Allocated'
    BY <1>1, <1>4, <1>5 DEF IInv, RootsAllocated, Roots, Held, InternString
  <1>7. TypeOK'
    BY <1>4, <1>5 DEF IInv, TypeOK, InternString, Free
  <1>8. IInv'
    BY <1>4, <1>6, <1>7, RunStep DEF InternString
  <1> QED
    BY <1>1, <1>2, <1>3, <1>8, InsertMutates

\* A prototype and its function.
LEMMA LoadStep ==
  ASSUME IInv, NEW p \in Free, NEW f \in Free, NEW r \in SUBSET Values,
         Load(p, f, r)
  PROVE  IInv' /\ Contract!Mutate
  <1> DEFINE new == [x \in {p, f} |-> IF x = p THEN Object("prototype", {})
                   ELSE [kind |-> "function", refs |-> r \cup {p}, code |-> p]]
  <1>1. DOMAIN new = {p, f} /\ \A x \in DOMAIN new : new[x] \in Record
    BY DEF Object, Record, Kinds, Locals, Values, Allocated, Free
  <1>2. \A x \in DOMAIN new : new[x].refs \subseteq Allocated \cup DOMAIN new
    BY DEF Object, Values
  <1>3. Insert(new)
    BY DEF Load
  <1> HIDE DEF new
  <1>4. /\ flag' \in [Obj -> Flags] /\ heap' \in [Obj -> Record]
        /\ numObjects' \in Int /\ interupt' \in BOOLEAN
        /\ Allocated' = Allocated \cup DOMAIN new
        /\ FreeBlank' /\ ObjectCount'
        /\ \A x \in Obj : flag'[x] \in {flag[x], "trans"}
    BY <1>1, <1>3, InsertHeap DEF IInv
  <1>5. stack' \in Seq(Obj) /\ Range(stack') \subseteq Range(stack) \cup {f}
    BY ReplaceStack DEF IInv, TypeOK, Load, Free
  <1>6. Roots' \subseteq Allocated'
    BY <1>1, <1>4, <1>5 DEF IInv, RootsAllocated, Roots, Held, Load
  <1>7. TypeOK'
    BY <1>4, <1>5 DEF IInv, TypeOK, Load, Free
  <1>8. IInv'
    BY <1>4, <1>6, <1>7, RunStep DEF Load
  <1> QED
    BY <1>1, <1>2, <1>3, <1>8, InsertMutates

\* A closure over the code of a function that runs.
LEMMA LambdaStep ==
  ASSUME IInv, NEW g \in Held, NEW f \in Free, NEW r \in SUBSET Values,
         Lambda(g, f, r)
  PROVE  IInv' /\ Contract!Mutate
  <1> DEFINE new == [x \in {f} |-> [kind |-> "function", refs |-> r, code |-> heap[g].code]]
  <1>1. DOMAIN new = {f} /\ \A x \in DOMAIN new : new[x] \in Record
    BY DEF Lambda, Record, Kinds, Values, Allocated, Free
  <1>2. \A x \in DOMAIN new : new[x].refs \subseteq Allocated \cup DOMAIN new
    BY DEF Values
  <1>3. Insert(new)
    BY DEF Lambda
  <1> HIDE DEF new
  <1>4. /\ flag' \in [Obj -> Flags] /\ heap' \in [Obj -> Record]
        /\ numObjects' \in Int /\ interupt' \in BOOLEAN
        /\ Allocated' = Allocated \cup DOMAIN new
        /\ FreeBlank' /\ ObjectCount'
        /\ \A x \in Obj : flag'[x] \in {flag[x], "trans"}
    BY <1>1, <1>3, InsertHeap DEF IInv
  <1>5. stack' \in Seq(Obj) /\ Range(stack') \subseteq Range(stack) \cup {f}
    BY ReplaceStack DEF IInv, TypeOK, Lambda, Free
  <1>6. Roots' \subseteq Allocated'
    BY <1>1, <1>4, <1>5 DEF IInv, RootsAllocated, Roots, Held, Lambda
  <1>7. TypeOK'
    BY <1>4, <1>5 DEF IInv, TypeOK, Lambda, Free
  <1>8. IInv'
    BY <1>4, <1>6, <1>7, RunStep DEF Lambda
  <1> QED
    BY <1>1, <1>2, <1>3, <1>8, InsertMutates

\* A define: two maps and the LOCAL between them.
LEMMA SetGlobalStep ==
  ASSUME IInv, NEW k \in Obj, NEW v \in Top, NEW gone \in SUBSET Bound,
         NEW m1 \in Free, NEW l \in Free, NEW m2 \in Free,
         SetGlobal(k, v, gone, m1, l, m2)
  PROVE  IInv' /\ Contract!Mutate
  <1> DEFINE new == [x \in {m1, l, m2} |->
                 CASE x = m1 -> Object("data", Bound \cup {k} \cup v)
                   [] x = l  -> Object("gref", {m1})
                   [] x = m2 -> Object("data", ((Bound \cup {k} \cup v) \ gone) \cup {l})]
  <1>1. DOMAIN new = {m1, l, m2} /\ \A x \in DOMAIN new : new[x] \in Record
    BY RootsHeld DEF SetGlobal, Object, Record, Kinds, Locals, Top, Allocated, Free
  <1>2. \A x \in DOMAIN new : new[x].refs \subseteq Allocated \cup DOMAIN new
    BY RootsHeld DEF SetGlobal, Object, Top
  <1>3. Insert(new)
    BY DEF SetGlobal
  <1> HIDE DEF new
  <1>4. /\ flag' \in [Obj -> Flags] /\ heap' \in [Obj -> Record]
        /\ numObjects' \in Int /\ interupt' \in BOOLEAN
        /\ Allocated' = Allocated \cup DOMAIN new
        /\ FreeBlank' /\ ObjectCount'
        /\ \A x \in Obj : flag'[x] \in {flag[x], "trans"}
    BY <1>1, <1>3, InsertHeap DEF IInv
  <1>5. stack' \in Seq(Obj) /\ Range(stack') = Range(stack)
    BY DEF IInv, TypeOK, SetGlobal
  <1>6. Roots' \subseteq Allocated'
    BY <1>1, <1>4, <1>5 DEF IInv, RootsAllocated, Roots, Held, SetGlobal
  <1>7. TypeOK'
    BY <1>4, <1>5 DEF IInv, TypeOK, SetGlobal, Free
  <1>8. IInv'
    BY <1>4, <1>6, <1>7, RunStep DEF SetGlobal
  <1> QED
    BY <1>1, <1>2, <1>3, <1>8, InsertMutates

\* Pushing an object that is reachable already.
LEMMA FetchStep ==
  ASSUME IInv, NEW n \in 0 .. Len(stack), NEW v \in Values, Fetch(n, v)
  PROVE  IInv' /\ Contract!Mutate
  <1>1. stack' \in Seq(Obj) /\ Range(stack') \subseteq Range(stack) \cup {v}
    BY ReplaceStack DEF IInv, TypeOK, Fetch, Values, Allocated
  <1>2. v \in Allocated /\ UNCHANGED <<flag, heap, numObjects, interupt, globals, strings, gray, phase>>
    BY DEF Fetch, Values, HeapSame
  <1>3. TypeOK' /\ Roots' \subseteq Allocated'
    BY <1>1, <1>2 DEF IInv, TypeOK, RootsAllocated, Roots, Held, Allocated, Free
  <1>4. FreeBlank' /\ ObjectCount'
    BY <1>2 DEF IInv, FreeBlank, ObjectCount, Allocated, Free
  <1>5. IInv'
    BY <1>2, <1>3, <1>4, RunStep DEF Fetch
  <1>6. /\ Mutable' = Mutable
        /\ \A x \in Obj \ Mutable : heap'[x] = heap[x]
    BY <1>2 DEF Mutable
  <1> QED
    BY <1>2, <1>5, <1>6, SameHeapMutates

\* Popping.
LEMMA PopStep ==
  ASSUME IInv, NEW n \in 1 .. Len(stack), Pop(n)
  PROVE  IInv' /\ Contract!Mutate
  <1>1. stack' \in Seq(Obj) /\ Range(stack') \subseteq Range(stack)
    BY CutStack DEF IInv, TypeOK, Pop
  <1>2. UNCHANGED <<flag, heap, numObjects, interupt, globals, strings, gray, phase>>
    BY DEF Pop, HeapSame
  <1>3. TypeOK' /\ Roots' \subseteq Allocated'
    BY <1>1, <1>2 DEF IInv, TypeOK, RootsAllocated, Roots, Held, Allocated, Free
  <1>4. FreeBlank' /\ ObjectCount'
    BY <1>2 DEF IInv, FreeBlank, ObjectCount, Allocated, Free
  <1>5. IInv'
    BY <1>2, <1>3, <1>4, RunStep DEF Pop
  <1>6. /\ Mutable' = Mutable
        /\ \A x \in Obj \ Mutable : heap'[x] = heap[x]
    BY <1>2 DEF Mutable
  <1> QED
    BY <1>2, <1>5, <1>6, SameHeapMutates

\* Assigning to a LOCAL, the one change of an object.
LEMMA SetLocalStep ==
  ASSUME IInv, NEW l \in Held, NEW r \in Top, SetLocal(l, r)
  PROVE  IInv' /\ Contract!Mutate
  <1>1. r \subseteq Held /\ Cardinality(r) \in 0 .. Len(stack)
    <2>1. CASE r = {}
      BY <2>1, FS_EmptySet DEF IInv, TypeOK
    <2>2. CASE Len(stack) # 0 /\ r = {stack[Len(stack)]}
      <3>1. Len(stack) \in DOMAIN stack /\ Len(stack) \in Nat
        BY <2>2 DEF IInv, TypeOK
      <3>2. Cardinality(r) = 1
        BY <2>2, FS_Singleton
      <3> QED
        BY <2>2, <3>1, <3>2 DEF Held, Range
    <2> QED
      BY <2>1, <2>2 DEF Top, IInv, TypeOK
  <1>2. stack' \in Seq(Obj) /\ Range(stack') \subseteq Range(stack)
    <2> DEFINE c == Len(stack) - Cardinality(r)
    <2>1. c \in 0 .. Len(stack)
      BY <1>1 DEF IInv, TypeOK
    <2>2. stack' = SubSeq(stack, 1, c)
      BY DEF SetLocal
    <2> HIDE DEF c
    <2> QED
      BY <2>1, <2>2, CutStack DEF IInv, TypeOK
  <1>3. l \in Obj /\ l \in Allocated
    BY DEF IInv, TypeOK, RootsAllocated, Roots, Held, Range
  <1>4. /\ heap' = [heap EXCEPT ![l].refs = r]
        /\ UNCHANGED <<flag, numObjects, interupt, globals, strings, gray, phase>>
    BY DEF SetLocal
  <1>5. heap' \in [Obj -> Record]
    <2>1. r \in SUBSET Obj
      BY <1>1 DEF IInv, TypeOK, Held, Range
    <2>2. [heap[l] EXCEPT !.refs = r] \in Record
      BY <1>3, <2>1 DEF IInv, TypeOK, Record
    <2> QED
      BY <1>3, <1>4, <2>2 DEF IInv, TypeOK
  <1>6. TypeOK' /\ Roots' \subseteq Allocated'
    BY <1>2, <1>4, <1>5 DEF IInv, TypeOK, RootsAllocated, Roots, Held, Allocated, Free
  <1>7. FreeBlank' /\ ObjectCount'
    BY <1>3, <1>4 DEF IInv, TypeOK, FreeBlank, ObjectCount, Allocated, Free
  <1>8. IInv'
    BY <1>4, <1>6, <1>7, RunStep DEF SetLocal
  <1>9. /\ Mutable' = Mutable
        /\ \A x \in Obj \ Mutable : heap'[x] = heap[x]
    BY <1>3, <1>4, <1>5 DEF IInv, TypeOK, Record, Mutable, SetLocal
  <1> QED
    BY <1>4, <1>8, <1>9, SameHeapMutates

\* Reading something freed ends the run.
LEMMA TouchFreedStep ==
  ASSUME IInv, NEW x \in Roots, TouchFreed(x)
  PROVE  IInv'
  <1>1. /\ phase' = "useAfterFree"
        /\ UNCHANGED <<flag, heap, numObjects, interupt, stack, globals, strings, gray>>
    BY DEF TouchFreed, HeapSame
  <1>2. TypeOK'
    BY <1>1 DEF IInv, TypeOK, Phases
  <1>3. FreeBlank' /\ ObjectCount' /\ RootsAllocated'
    BY <1>1 DEF IInv, FreeBlank, ObjectCount, RootsAllocated, Roots, Held, Allocated, Free
  <1>4. GrayExact' /\ TriColour' /\ MarkExact'
    BY <1>1 DEF GrayExact, TriColour, MarkExact
  <1> QED
    BY <1>2, <1>3, <1>4 DEF IInv
-----------------------------------------------------------------------------
(***************************************************************************)
(* Marking.                                                                *)
(***************************************************************************)

\* An order of S is a sequence of its elements, each once.
LEMMA OrdersAreSequences ==
  ASSUME NEW S \in SUBSET Obj, NEW q \in Orders(S)
  PROVE  /\ q \in Seq(Obj)
         /\ Range(q) = S
         /\ \A i, j \in DOMAIN q : q[i] = q[j] => i = j
  <1>1. Cardinality(S) \in Nat
    BY FS_Subset, FS_CardinalityType
  <1>2. q \in [1 .. Cardinality(S) -> S]
    BY DEF Orders
  <1>3. q \in [1 .. Cardinality(S) -> Obj]
    BY <1>2
  <1>4. q \in Seq(Obj)
    BY <1>1, <1>3
  <1> QED
    BY <1>4 DEF Orders

\* Pushing objects that were not gray keeps gc_gray free of duplicates.
LEMMA PushOrder ==
  ASSUME NEW S \in SUBSET Obj, NEW q \in Orders(S), NEW old \in Seq(Obj),
         \A i, j \in DOMAIN old : old[i] = old[j] => i = j,
         Range(old) \cap S = {}
  PROVE  /\ old \o q \in Seq(Obj)
         /\ Range(old \o q) = Range(old) \cup S
         /\ \A i, j \in DOMAIN (old \o q) : (old \o q)[i] = (old \o q)[j] => i = j
  <1> DEFINE t == old \o q
  <1>1. /\ q \in Seq(Obj) /\ Range(q) = S
        /\ \A i, j \in DOMAIN q : q[i] = q[j] => i = j
    BY OrdersAreSequences
  <1>2. /\ t \in Seq(Obj)
        /\ Len(t) = Len(old) + Len(q)
        /\ \A i \in 1 .. Len(old) + Len(q) : t[i] = IF i <= Len(old) THEN old[i] ELSE q[i - Len(old)]
    BY <1>1, ConcatProperties
  <1> HIDE DEF t
  <1>3. \A i \in DOMAIN old : i \in DOMAIN t /\ t[i] = old[i]
    BY <1>1, <1>2
  <1>4. \A i \in DOMAIN q : i + Len(old) \in DOMAIN t /\ t[i + Len(old)] = q[i]
    BY <1>1, <1>2
  <1>5. \A i \in DOMAIN t : \/ i \in DOMAIN old /\ t[i] = old[i]
                            \/ /\ i - Len(old) \in DOMAIN q /\ t[i] = q[i - Len(old)]
                               /\ i \in Nat
    BY <1>1, <1>2
  <1>6. Range(t) = Range(old) \cup S
    BY <1>1, <1>3, <1>4, <1>5 DEF Range
  <1>7. \A i, j \in DOMAIN t : t[i] = t[j] => i = j
    <2> SUFFICES ASSUME NEW i \in DOMAIN t, NEW j \in DOMAIN t, t[i] = t[j]
                 PROVE  i = j
      OBVIOUS
    <2>1. CASE i \in DOMAIN old /\ t[i] = old[i] /\ j \in DOMAIN old /\ t[j] = old[j]
      BY <2>1
    <2>2. CASE /\ i - Len(old) \in DOMAIN q /\ t[i] = q[i - Len(old)] /\ i \in Nat
               /\ j - Len(old) \in DOMAIN q /\ t[j] = q[j - Len(old)] /\ j \in Nat
      <3>1. i - Len(old) = j - Len(old)
        BY <1>1, <2>2
      <3> QED
        BY <2>2, <3>1
    <2>3. CASE \/ /\ i \in DOMAIN old /\ t[i] = old[i]
                  /\ j - Len(old) \in DOMAIN q /\ t[j] = q[j - Len(old)]
               \/ /\ j \in DOMAIN old /\ t[j] = old[j]
                  /\ i - Len(old) \in DOMAIN q /\ t[i] = q[i - Len(old)]
      BY <1>1, <2>3 DEF Range
    <2> QED
      BY <1>5, <2>1, <2>2, <2>3
  <1> QED
    BY <1>2, <1>6, <1>7 DEF t

\* What has to be kept: the old roots, and the old referents of what has to be kept.
LEMMA MarkedRoots == Roots \cap (Allocated \ Young) \subseteq Contract!Marked
  BY DEF Contract!Marked, Contract!Closed, Contract!Old

LEMMA MarkedKids ==
  ASSUME TypeOK, NEW x \in Contract!Marked
  PROVE  heap[x].refs \cap (Allocated \ Young) \subseteq Contract!Marked
  <1>1. x \in Obj
    BY DEF Contract!Marked, Contract!Old, Allocated
  <1> QED
    BY <1>1 DEF Contract!Marked, Contract!Closed, Contract!Old, Refs

\* It depends on the graph and on which objects are young, not on the colours.
LEMMA MarkedSame ==
  ASSUME Allocated' = Allocated, Young' = Young, heap' = heap, Roots' = Roots
  PROVE  Contract!Marked' = Contract!Marked
  <1>1. Refs' = Refs
    BY DEF Refs
  <1>2. \A S : Contract!Closed(S)' <=> Contract!Closed(S)
    BY <1>1 DEF Contract!Closed, Contract!Old
  <1> QED
    BY <1>2 DEF Contract!Marked, Contract!Old

\* Marking changes colours only, so the rest of the invariant stays.
LEMMA ColoursOnly ==
  ASSUME IInv, UNCHANGED <<heap, numObjects, stack, globals, strings>>,
         flag' \in [Obj -> Flags], gray' \in Seq(Obj), phase' \in Phases, interupt' \in BOOLEAN,
         Free' = Free
  PROVE  TypeOK' /\ FreeBlank' /\ ObjectCount' /\ RootsAllocated' /\ Allocated' = Allocated /\ Roots' = Roots
  <1>1. TypeOK'
    BY DEF IInv, TypeOK
  <1>2. Allocated' = Allocated /\ Roots' = Roots
    BY DEF Allocated, Roots, Held
  <1>3. FreeBlank'
    BY DEF IInv, FreeBlank
  <1> QED
    BY <1>1, <1>2, <1>3 DEF IInv, ObjectCount, RootsAllocated

\* A collection starts with the old roots gray and nothing black.
LEMMA BeginStep ==
  ASSUME IInv, phase = "run", Begin, interupt' \in BOOLEAN
  PROVE  IInv' /\ Free' = Free /\ Young' = Young
  <1> DEFINE S == Roots \cap White
  <1>1. PICK q \in Orders(S) :
          /\ AddToGray(<<>>, q)
          /\ flag' = IF phase' = "mark"
                     THEN [o \in Obj |-> IF o \in Range(q) THEN "gray" ELSE flag[o]] ELSE flag
    BY DEF Begin
  <1>2. UNCHANGED <<heap, numObjects, stack, globals, strings>>
    BY DEF Begin
  <1>3. S \in SUBSET Obj
    BY DEF White
  <1>4. /\ q \in Seq(Obj) /\ Range(q) = S
        /\ \A i, j \in DOMAIN q : q[i] = q[j] => i = j
    BY <1>3, OrdersAreSequences
  <1>5. \A o \in Obj : flag[o] \notin {"gray", "black"}
    BY DEF IInv, GrayExact
  <1>6. CASE phase' = "mark"
    <2>1. gray' = q
      BY <1>1, <1>4, <1>6, ConcatEmptySeq DEF AddToGray
    <2>2. flag' = [o \in Obj |-> IF o \in S THEN "gray" ELSE flag[o]]
      BY <1>1, <1>4, <1>6
    <2>3. flag' \in [Obj -> Flags] /\ Free' = Free /\ Young' = Young
      BY <2>2 DEF IInv, TypeOK, Flags, Free, Young, White
    <2>4. /\ TypeOK' /\ FreeBlank' /\ ObjectCount' /\ RootsAllocated'
          /\ Allocated' = Allocated /\ Roots' = Roots
      BY <1>2, <1>4, <1>6, <2>1, <2>3, ColoursOnly DEF Phases
    <2>5. GrayExact'
      BY <1>4, <1>5, <1>6, <2>1, <2>2, <1>3 DEF GrayExact, IInv, TypeOK
    <2>6. TriColour'
      <3>1. White' = White \ S
        BY <2>2 DEF White, IInv, TypeOK
      <3>2. \A o \in Obj : flag'[o] # "black"
        BY <1>5, <2>2
      <3> QED
        BY <2>4, <3>1, <3>2 DEF TriColour
    <2>7. MarkExact'
      <3>1. {o \in Obj : flag'[o] \in {"gray", "black"}} = S
        BY <1>5, <2>2, <1>3
      <3>2. S \subseteq Contract!Marked
        BY MarkedRoots DEF White, Allocated, Young, Free
      <3>3. Contract!Marked' = Contract!Marked
        BY <1>2, <2>3, <2>4, MarkedSame
      <3> QED
        BY <3>1, <3>2, <3>3 DEF MarkExact
    <2> QED
      BY <2>3, <2>4, <2>5, <2>6, <2>7 DEF IInv
  <1>7. CASE phase' = "overrun"
    <2>1. gray' = <<>> /\ flag' = flag
      BY <1>1, <1>7 DEF AddToGray
    <2>2. /\ TypeOK' /\ FreeBlank' /\ ObjectCount' /\ RootsAllocated'
      BY <1>2, <1>7, <2>1, ColoursOnly DEF Phases, IInv, TypeOK, Free
    <2>3. GrayExact' /\ TriColour' /\ MarkExact'
      BY <1>7 DEF GrayExact, TriColour, MarkExact
    <2> QED
      BY <2>1, <2>2, <2>3 DEF IInv, Free, Young
  <1> QED
    BY <1>1, <1>6, <1>7 DEF AddToGray

\* One turn of scan.
LEMMA ScanStepStep ==
  ASSUME IInv, ScanStep
  PROVE  IInv' /\ Free' = Free /\ Young' = Young
  <1> DEFINE o    == gray[Len(gray)]
             rest == SubSeq(gray, 1, Len(gray) - 1)
             kids == IF flag[o] = "black" THEN {} ELSE heap[o].refs
             S    == kids \cap (White \ {o})
  <1>1. /\ phase = "mark" /\ gray # <<>> /\ gray \in Seq(Obj)
        /\ UNCHANGED <<heap, numObjects, stack, globals, strings, interupt>>
    BY DEF ScanStep, IInv, TypeOK
  <1>2. Len(gray) \in DOMAIN gray /\ Len(gray) - 1 \in 0 .. Len(gray)
    BY <1>1
  <1>3. o \in Obj /\ flag[o] = "gray"
    BY <1>1, <1>2 DEF IInv, GrayExact, Range
  <1>4. kids = heap[o].refs /\ kids \subseteq Obj
    BY <1>3 DEF IInv, TypeOK, Record
  <1>5. /\ rest \in Seq(Obj)
        /\ Len(rest) = Len(gray) - 1
        /\ \A i \in 1 .. Len(gray) - 1 : rest[i] = gray[i]
    BY <1>1, <1>2, CutStack
  <1>6. /\ Range(rest) = Range(gray) \ {o}
        /\ \A i, j \in DOMAIN rest : rest[i] = rest[j] => i = j
    <2>1. \A i, j \in DOMAIN gray : gray[i] = gray[j] => i = j
      BY <1>1 DEF IInv, GrayExact
    <2>2. DOMAIN rest = 1 .. Len(gray) - 1 /\ DOMAIN gray = 1 .. Len(gray)
      BY <1>1, <1>5
    <2> HIDE DEF rest
    <2>3. Range(rest) = Range(gray) \ {o}
      BY <1>1, <1>2, <1>5, <2>1, <2>2 DEF Range
    <2> QED
      BY <1>1, <1>5, <2>1, <2>2, <2>3
  <1>7. Range(gray) = {x \in Obj : flag[x] = "gray"}
    BY <1>1 DEF IInv, GrayExact
  <1>8. ASSUME ~(kids \subseteq Allocated)
        PROVE  IInv' /\ Free' = Free /\ Young' = Young
    <2>1. phase' = "useAfterFree" /\ UNCHANGED <<flag, gray>>
      BY <1>8 DEF ScanStep
    <2>2. /\ TypeOK' /\ FreeBlank' /\ ObjectCount' /\ RootsAllocated'
      BY <1>1, <2>1, ColoursOnly DEF Phases, IInv, TypeOK, Free
    <2>3. GrayExact' /\ TriColour' /\ MarkExact'
      BY <2>1 DEF GrayExact, TriColour, MarkExact
    <2> QED
      BY <2>1, <2>2, <2>3 DEF IInv, Free, Young
  <1>9. ASSUME kids \subseteq Allocated
        PROVE  IInv' /\ Free' = Free /\ Young' = Young
    <2>1. PICK q \in Orders(S) :
            /\ AddToGray(rest, q)
            /\ flag' = [x \in Obj |-> IF x = o THEN "black"
                                      ELSE IF phase' = "mark" /\ x \in Range(q) THEN "gray"
                                      ELSE flag[x]]
      BY <1>9 DEF ScanStep
    <2>2. S \in SUBSET Obj /\ S \subseteq White /\ o \notin S
      BY DEF White
    <2> HIDE DEF o, rest, kids, S
    <2>3. /\ q \in Seq(Obj) /\ Range(q) = S
          /\ \A i, j \in DOMAIN q : q[i] = q[j] => i = j
      BY <2>2, OrdersAreSequences
    <2>4. /\ flag' \in [Obj -> Flags] /\ Free' = Free /\ Young' = Young
      BY <1>3, <2>1, <2>2, <2>3 DEF IInv, TypeOK, Flags, Free, Young, White
    <2>5. Range(rest) \cap S = {}
      BY <1>6, <1>7, <2>2 DEF White
    <2>6. CASE phase' = "mark"
      <3>1. /\ gray' = rest \o q
            /\ flag' = [x \in Obj |-> IF x = o THEN "black" ELSE IF x \in S THEN "gray" ELSE flag[x]]
        BY <2>1, <2>3, <2>6 DEF AddToGray
      <3>2. /\ gray' \in Seq(Obj)
            /\ Range(gray') = Range(rest) \cup S
            /\ \A i, j \in DOMAIN gray' : gray'[i] = gray'[j] => i = j
        BY <1>5, <1>6, <2>2, <2>5, <3>1, PushOrder
      <3>3. /\ TypeOK' /\ FreeBlank' /\ ObjectCount' /\ RootsAllocated'
            /\ Allocated' = Allocated /\ Roots' = Roots
        BY <1>1, <2>4, <2>6, <3>2, ColoursOnly DEF Phases, IInv, TypeOK
      <3>4. GrayExact'
        <4>1. Range(gray') = {x \in Obj : flag'[x] = "gray"}
          BY <1>3, <1>6, <1>7, <2>2, <3>1, <3>2
        <4> QED
          BY <2>6, <3>2, <4>1 DEF GrayExact
      <3>5. White' = White \ S
        BY <1>3, <2>2, <3>1 DEF White
      <3>6. TriColour'
        <4>1. Roots' \cap White' = {}
          BY <1>1, <3>3, <3>5 DEF IInv, TriColour
        <4>2. heap'[o].refs \cap (White' \cup Free') = {}
          <5>1. kids \cap Free = {}
            BY <1>9 DEF Allocated
          <5>2. kids \cap White \subseteq S
            BY <1>3 DEF S, White
          <5> QED
            BY <1>1, <1>4, <2>4, <3>5, <5>1, <5>2
        <4>3. \A x \in Obj : x # o /\ flag'[x] = "black" => heap'[x].refs \cap (White' \cup Free') = {}
          BY <1>1, <2>4, <3>1, <3>5 DEF IInv, TriColour
        <4> QED
          BY <4>1, <4>2, <4>3 DEF TriColour
      <3>7. MarkExact'
        <4>1. Contract!Marked' = Contract!Marked
          BY <1>1, <2>4, <3>3, MarkedSame
        <4>2. o \in Contract!Marked /\ {x \in Obj : flag[x] \in {"gray", "black"}} \subseteq Contract!Marked
          BY <1>1, <1>3 DEF IInv, MarkExact
        <4>3. S \subseteq Contract!Marked
          <5>1. S \subseteq heap[o].refs \cap (Allocated \ Young)
            BY <1>4, <2>2 DEF S, White, Allocated, Young, Free
          <5> QED
            BY <4>2, <5>1, MarkedKids DEF IInv
        <4> QED
          BY <3>1, <4>1, <4>2, <4>3 DEF MarkExact
      <3> QED
        BY <2>4, <3>3, <3>4, <3>6, <3>7 DEF IInv
    <2>7. CASE phase' = "overrun"
      <3>1. gray' = rest
        BY <2>1, <2>7 DEF AddToGray
      <3>2. /\ TypeOK' /\ FreeBlank' /\ ObjectCount' /\ RootsAllocated'
        BY <1>1, <1>5, <2>4, <2>7, <3>1, ColoursOnly DEF Phases, IInv, TypeOK
      <3>3. GrayExact' /\ TriColour' /\ MarkExact'
        BY <2>7 DEF GrayExact, TriColour, MarkExact
      <3> QED
        BY <2>4, <3>2, <3>3 DEF IInv
    <2> QED
      BY <2>1, <2>6, <2>7 DEF AddToGray
  <1> QED
    BY <1>8, <1>9

\* When nothing is gray, the black objects are those the contract keeps.
LEMMA BlackIsMarked ==
  ASSUME IInv, phase = "mark", gray = <<>>
  PROVE  /\ Contract!Marked = {o \in Obj : flag[o] = "black"}
         /\ \A o \in Obj : flag[o] \in {"free", "trans", "white", "black"}
         /\ \A o \in Obj : flag[o] = "black" => heap[o].refs \subseteq Allocated
         /\ Roots \cap White = {}
  <1> DEFINE B == {o \in Obj : flag[o] = "black"}
  <1>1. \A o \in Obj : flag[o] # "gray"
    BY DEF IInv, GrayExact, Range
  <1>2. \A o \in Obj : flag[o] \in {"free", "trans", "white", "black"}
    BY <1>1 DEF IInv, TypeOK, Flags
  <1>3. Roots \cap White = {} /\ \A o \in B : heap[o].refs \cap (White \cup Free) = {}
    BY DEF IInv, TriColour
  <1>4. \A o \in Obj : heap[o].refs \subseteq Obj
    BY DEF IInv, TypeOK, Record
  <1>5. Contract!Old = {o \in Obj : flag[o] \in {"white", "black"}}
    BY <1>2 DEF Contract!Old, Allocated, Free, Young
  <1>6. Contract!Closed(B)
    BY <1>3, <1>4, <1>5 DEF Contract!Closed, White, Refs
  <1>7. B \in SUBSET Contract!Old
    BY <1>5
  <1>8. Contract!Marked \subseteq B
    BY <1>6, <1>7 DEF Contract!Marked
  <1>9. B \subseteq Contract!Marked
    BY DEF IInv, MarkExact
  <1>10. \A o \in B : heap[o].refs \subseteq Allocated
    BY <1>3, <1>4 DEF Allocated
  <1> QED
    BY <1>2, <1>3, <1>8, <1>9, <1>10

\* end: what is white goes, and the count goes down with it.
LEMMA SweepStep ==
  ASSUME IInv, Sweep
  PROVE  IInv'
  <1>1. /\ phase = "mark" /\ gray = <<>> /\ gray' = <<>>
        /\ flag' = [o \in Obj |-> IF o \in Free \cup White THEN "free" ELSE "white"]
        /\ heap' = [o \in Obj |-> IF o \in White THEN Blank ELSE heap[o]]
        /\ numObjects' = numObjects - Cardinality(White)
        /\ phase' \in {"run", "closed"}
        /\ UNCHANGED <<stack, globals, strings, interupt>>
    BY DEF Sweep
  <1>2. Blank \in Record
    BY DEF Blank, Object, Record, Kinds, Locals
  <1>3. IsFiniteSet(Allocated) /\ IsFiniteSet(White) /\ White \subseteq Allocated
    BY FS_Subset DEF Allocated, White, Free
  <1>4. Allocated' = Allocated \ White
    BY <1>1 DEF Allocated, Free
  <1>5. Cardinality(White) \in Nat /\ Cardinality(Allocated) \in Nat
    BY <1>3, FS_CardinalityType
  <1>6. Cardinality(Allocated') = Cardinality(Allocated) - Cardinality(White)
    <2>1. Allocated \cap White = White
      BY <1>3
    <2> QED
      BY <1>3, <1>4, <2>1, FS_Difference
  <1>7. TypeOK'
    BY <1>1, <1>2, <1>5 DEF IInv, TypeOK, Flags, Phases
  <1>8. ObjectCount'
    BY <1>1, <1>6 DEF IInv, ObjectCount
  <1>9. FreeBlank'
    BY <1>1 DEF IInv, FreeBlank, Free
  <1>10. RootsAllocated'
    BY <1>1, <1>4, BlackIsMarked DEF IInv, RootsAllocated, Roots, Held
  <1>11. GrayExact'
    BY <1>1 DEF GrayExact
  <1>12. TriColour' /\ MarkExact'
    BY <1>1 DEF TriColour, MarkExact
  <1> QED
    BY <1>7, <1>8, <1>9, <1>10, <1>11, <1>12 DEF IInv

\* su_close leaves no roots, so nothing has to be marked.
LEMMA CloseStep ==
  ASSUME IInv, Close
  PROVE  IInv'
  <1>1. /\ phase = "run" /\ phase' = "mark"
        /\ stack' = <<>> /\ globals' = Nil /\ strings' = Nil
        /\ UNCHANGED <<flag, heap, numObjects, interupt, gray>>
    BY DEF Close, HeapSame
  <1>2. Roots' = {}
    BY <1>1 DEF Roots, Held, Range
  <1>3. gray = <<>> /\ \A o \in Obj : flag[o] \notin {"gray", "black"}
    BY <1>1 DEF IInv, GrayExact
  <1>4. TypeOK'
    BY <1>1 DEF IInv, TypeOK, Phases
  <1>5. FreeBlank' /\ ObjectCount' /\ RootsAllocated'
    BY <1>1, <1>2 DEF IInv, FreeBlank, ObjectCount, RootsAllocated, Allocated, Free
  <1>6. GrayExact'
    BY <1>1, <1>3 DEF GrayExact, Range
  <1>7. TriColour' /\ MarkExact'
    BY <1>1, <1>2, <1>3 DEF TriColour, MarkExact
  <1> QED
    BY <1>4, <1>5, <1>6, <1>7 DEF IInv
-----------------------------------------------------------------------------
(***************************************************************************)
(* The invariant, and what follows from it.                                *)
(***************************************************************************)

\* su_init makes six different objects.
LEMMA InitIInv == Init => IInv
  <1> SUFFICES ASSUME Init PROVE IInv
    OBVIOUS
  <1>1. PICK es \in Obj, sg \in Obj, sm \in Obj, em \in Obj, gr \in Obj, gm \in Obj :
               Boot(es, sg, sm, em, gr, gm)
    BY DEF Init
  <1> DEFINE B == {es, sg, sm, em, gr, gm}
  <1>2. /\ Cardinality(B) = 6
        /\ flag = [o \in Obj |-> IF o \in B THEN "trans" ELSE "free"]
        /\ heap \in [Obj -> Record]
        /\ \A o \in Obj \ B : heap[o] = Blank
        /\ globals = gm /\ strings = sm
        /\ numObjects = 6 /\ stack = <<>> /\ gray = <<>>
        /\ phase = "run" /\ interupt = TRUE
    BY <1>1 DEF Boot, Record, Object, Blank, Kinds, Locals
  <1>3. B \subseteq Obj
    OBVIOUS
  <1> HIDE DEF B
  <1>4. Allocated = B
    BY <1>2, <1>3 DEF Allocated, Free
  <1>5. TypeOK
    BY <1>2 DEF TypeOK, Flags, Phases
  <1>6. FreeBlank /\ ObjectCount
    BY <1>2, <1>4 DEF FreeBlank, ObjectCount, Free
  <1>7. RootsAllocated
    <2>1. Range(stack) = {}
      BY <1>2 DEF Range
    <2> QED
      BY <1>2, <1>4, <2>1 DEF RootsAllocated, Roots, Held, B
  <1>8. GrayExact /\ TriColour /\ MarkExact
    BY <1>2 DEF GrayExact, TriColour, MarkExact
  <1> QED
    BY <1>5, <1>6, <1>7, <1>8 DEF IInv

LEMMA NextIInv == IInv /\ [Next]_vars => IInv'
  <1> SUFFICES ASSUME IInv, [Next]_vars PROVE IInv'
    OBVIOUS
  <1>1. ASSUME Mutator PROVE IInv'
    <2>1. \A n \in 0 .. Len(stack), o \in Free, r \in SUBSET Values : NewObject(n, o, r) => IInv'
      BY NewObjectStep
    <2>2. \A n \in 0 .. Len(stack), x \in Values : Fetch(n, x) => IInv'
      BY FetchStep
    <2>3. \A n \in 1 .. Len(stack) : Pop(n) => IInv'
      BY PopStep
    <2>4. \A o \in Free, r \in {{}} \cup {{x} : x \in Held} : RefLocal(o, r) => IInv'
      BY RefLocalStep
    <2>5. \A l \in Held, r \in Top : SetLocal(l, r) => IInv'
      BY SetLocalStep
    <2>6. \A st, sm \in Free : InternString(st, sm) => IInv'
      BY InternStringStep
    <2>7. \A k \in Obj, v \in Top, gone \in SUBSET Bound, m1, l, m2 \in Free :
            SetGlobal(k, v, gone, m1, l, m2) => IInv'
      BY SetGlobalStep
    <2>8. \A p, f \in Free, r \in SUBSET Values : Load(p, f, r) => IInv'
      BY LoadStep
    <2>9. \A g \in Held, f \in Free, r \in SUBSET Values : Lambda(g, f, r) => IInv'
      BY LambdaStep
    <2>10. \A x \in Roots : TouchFreed(x) => IInv'
      BY TouchFreedStep
    <2> QED
      BY <1>1, <2>1, <2>2, <2>3, <2>4, <2>5, <2>6, <2>7, <2>8, <2>9, <2>10 DEF Mutator
  <1>2. CASE SkipTrace
    <2>1. /\ phase = "run" /\ interupt' = FALSE
          /\ UNCHANGED <<flag, heap, numObjects, stack, globals, strings, gray, phase>>
      BY <1>2 DEF SkipTrace
    <2>2. TypeOK' /\ FreeBlank' /\ ObjectCount' /\ RootsAllocated'
      BY <2>1, ColoursOnly DEF IInv, TypeOK, Free
    <2> QED
      BY <2>1, <2>2, RunStep DEF RootsAllocated
  <1>3. CASE StartTrace
    BY <1>3, BeginStep DEF StartTrace
  <1>4. CASE StartGc
    BY <1>4, BeginStep DEF StartGc, IInv, TypeOK
  <1>5. CASE ScanStep
    BY <1>5, ScanStepStep
  <1>6. CASE Sweep
    BY <1>6, SweepStep
  <1>7. CASE Close
    BY <1>7, CloseStep
  <1>8. CASE UNCHANGED vars
    <2>1. /\ TypeOK' /\ FreeBlank' /\ ObjectCount' /\ RootsAllocated'
          /\ Allocated' = Allocated /\ Roots' = Roots
      BY <1>8, ColoursOnly DEF vars, IInv, TypeOK, Free
    <2>2. GrayExact'
      BY <1>8 DEF vars, IInv, GrayExact
    <2>3. TriColour'
      BY <1>8, <2>1 DEF vars, IInv, TriColour, White, Free
    <2>4. MarkExact'
      <3>1. Contract!Marked' = Contract!Marked
        BY <1>8, <2>1, MarkedSame DEF vars, Young
      <3> QED
        BY <1>8, <3>1 DEF vars, IInv, MarkExact
    <2> QED
      BY <2>1, <2>2, <2>3, <2>4 DEF IInv
  <1> QED
    BY <1>1, <1>2, <1>3, <1>4, <1>5, <1>6, <1>7, <1>8 DEF Next, Collector

-----------------------------------------------------------------------------
(***************************************************************************)
(* The collector implements its contract.                                  *)
(***************************************************************************)

\* The start of a collection and its marking steps are invisible.
LEMMA MarkingStutters ==
  ASSUME Free' = Free, Young' = Young, UNCHANGED <<heap, stack, globals, strings>>
  PROVE  UNCHANGED Contract!vars
  BY DEF Contract!vars, Allocated, Mutable, Refs, Roots, Held

\* end is the collection.
LEMMA SweepCollects ==
  ASSUME IInv, Sweep
  PROVE  Contract!Collect
  <1>1. /\ phase = "mark" /\ gray = <<>>
        /\ flag' = [o \in Obj |-> IF o \in Free \cup White THEN "free" ELSE "white"]
        /\ heap' = [o \in Obj |-> IF o \in White THEN Blank ELSE heap[o]]
        /\ UNCHANGED <<stack, globals, strings>>
    BY DEF Sweep
  <1>2. /\ Contract!Marked = {o \in Obj : flag[o] = "black"}
        /\ \A o \in Obj : flag[o] \in {"free", "trans", "white", "black"}
    BY <1>1, BlackIsMarked
  <1>3. Allocated' = {o \in Obj : flag[o] \in {"trans", "black"}}
    BY <1>1, <1>2 DEF Allocated, Free, White
  <1>4. Allocated' = Young \cup Contract!Marked
    BY <1>2, <1>3 DEF Young
  <1>5. Young' = {}
    BY <1>1 DEF Young
  <1>6. Refs' = [o \in Obj |-> IF o \in Allocated' THEN Refs[o] ELSE {}]
    <2>1. ASSUME NEW o \in Obj
          PROVE  heap'[o].refs = IF o \in Allocated' THEN heap[o].refs ELSE {}
      <3>1. CASE flag[o] = "free"
        BY <1>1, <1>3, <3>1 DEF White, Free, IInv, FreeBlank, Blank, Object
      <3>2. CASE flag[o] = "white"
        BY <1>1, <1>3, <3>2 DEF White, Blank, Object
      <3>3. CASE flag[o] \in {"trans", "black"}
        BY <1>1, <1>3, <3>3 DEF White
      <3> QED
        BY <1>2, <3>1, <3>2, <3>3
    <2> QED
      BY <2>1 DEF Refs
  <1>7. Mutable' = Mutable \cap Allocated'
    <2>1. ASSUME NEW o \in Obj
          PROVE  heap'[o].kind \in Locals <=> heap[o].kind \in Locals /\ o \in Allocated'
      BY <1>1, <1>2, <1>3 DEF White, Free, IInv, FreeBlank, Blank, Object, Locals
    <2> QED
      BY <2>1 DEF Mutable
  <1>8. Roots' = Roots
    BY <1>1 DEF Roots, Held
  <1> QED
    BY <1>4, <1>5, <1>6, <1>7, <1>8 DEF Contract!Collect

\* A new state has only young objects, and nothing dangles.
LEMMA InitContract == Init => Contract!Init
  <1> SUFFICES ASSUME Init PROVE Contract!Init
    OBVIOUS
  <1>1. IInv
    BY InitIInv
  <1>2. PICK es \in Obj, sg \in Obj, sm \in Obj, em \in Obj, gr \in Obj, gm \in Obj :
               Boot(es, sg, sm, em, gr, gm)
    BY DEF Init
  <1>3. Allocated = {es, sg, sm, em, gr, gm} /\ Young = Allocated
    BY <1>2 DEF Boot, Allocated, Free, Young
  <1>4. Mutable \subseteq Allocated
    BY <1>1 DEF IInv, FreeBlank, Mutable, Blank, Object, Locals, Allocated
  <1>5. Refs \in [Obj -> SUBSET Obj]
    BY <1>1 DEF IInv, TypeOK, Record, Refs
  <1>6. \A o \in Allocated : Refs[o] \subseteq Allocated
    BY <1>2, <1>3 DEF Boot, Refs, Object
  <1>7. Roots \subseteq Allocated /\ Allocated \subseteq Obj
    BY <1>1 DEF IInv, RootsAllocated, Allocated
  <1> QED
    BY <1>3, <1>4, <1>5, <1>6, <1>7 DEF Contract!Init

\* Every step of the detailed heap is one of the contract, or none.
LEMMA NextContract == IInv /\ IInv' /\ [Next]_vars => [Contract!Next]_Contract!vars
  <1> SUFFICES ASSUME IInv, IInv', [Next]_vars
               PROVE  Contract!Mutate \/ Contract!Collect \/ UNCHANGED Contract!vars
    BY DEF Contract!Next
  <1>1. ASSUME Mutator PROVE Contract!Mutate \/ UNCHANGED Contract!vars
    <2>1. \A n \in 0 .. Len(stack), o \in Free, r \in SUBSET Values :
            NewObject(n, o, r) => Contract!Mutate
      BY NewObjectStep
    <2>2. \A n \in 0 .. Len(stack), x \in Values : Fetch(n, x) => Contract!Mutate
      BY FetchStep
    <2>3. \A n \in 1 .. Len(stack) : Pop(n) => Contract!Mutate
      BY PopStep
    <2>4. \A o \in Free, r \in {{}} \cup {{x} : x \in Held} : RefLocal(o, r) => Contract!Mutate
      BY RefLocalStep
    <2>5. \A l \in Held, r \in Top : SetLocal(l, r) => Contract!Mutate
      BY SetLocalStep
    <2>6. \A st, sm \in Free : InternString(st, sm) => Contract!Mutate
      BY InternStringStep
    <2>7. \A k \in Obj, v \in Top, gone \in SUBSET Bound, m1, l, m2 \in Free :
            SetGlobal(k, v, gone, m1, l, m2) => Contract!Mutate
      BY SetGlobalStep
    <2>8. \A p, f \in Free, r \in SUBSET Values : Load(p, f, r) => Contract!Mutate
      BY LoadStep
    <2>9. \A g \in Held, f \in Free, r \in SUBSET Values : Lambda(g, f, r) => Contract!Mutate
      BY LambdaStep
    <2>10. \A x \in Roots : TouchFreed(x) => UNCHANGED Contract!vars
      BY MarkingStutters DEF TouchFreed, HeapSame, Free, Young
    <2> QED
      BY <1>1, <2>1, <2>2, <2>3, <2>4, <2>5, <2>6, <2>7, <2>8, <2>9, <2>10 DEF Mutator
  <1>2. CASE SkipTrace \/ UNCHANGED vars
    BY <1>2, MarkingStutters DEF SkipTrace, vars, Free, Young
  <1>3. CASE StartTrace \/ StartGc
    BY <1>3, BeginStep, MarkingStutters DEF StartTrace, StartGc, Begin, IInv, TypeOK
  <1>4. CASE ScanStep
    BY <1>4, ScanStepStep, MarkingStutters DEF ScanStep
  <1>5. CASE Sweep
    BY <1>5, SweepCollects
  <1>6. CASE Close
    BY <1>6, SameHeapMutates DEF Close, HeapSame, Mutable
  <1> QED
    BY <1>1, <1>2, <1>3, <1>4, <1>5, <1>6 DEF Next, Collector

\* Every invariant of SaurusGC holds in every state of every run.
THEOREM Safety == Spec => []IInv
  <1>1. Init => IInv
    BY InitIInv
  <1>2. IInv /\ [Next]_vars => IInv'
    BY NextIInv
  <1> QED
    BY <1>1, <1>2, PTL DEF Spec

\* The variables stay in their types.
THEOREM TypeCorrect == Spec => []TypeOK
  <1>1. IInv => TypeOK
    BY DEF IInv
  <1> QED
    BY <1>1, Safety, PTL

\* num_objects counts the allocated objects, through any number of collections.
THEOREM CountCorrect == Spec => []ObjectCount
  <1>1. IInv => ObjectCount
    BY DEF IInv
  <1> QED
    BY <1>1, Safety, PTL

\* No collection frees an object on the stack, or the globals or the strings map.
THEOREM RootsCorrect == Spec => []RootsAllocated
  <1>1. IInv => RootsAllocated
    BY DEF IInv
  <1> QED
    BY <1>1, Safety, PTL

\* The gray stack mirrors the colours, and a run of the program sees none.
THEOREM GrayCorrect == Spec => []GrayExact
  <1>1. IInv => GrayExact
    BY DEF IInv
  <1> QED
    BY <1>1, Safety, PTL

\* The tri-colour invariant.
THEOREM TriColourCorrect == Spec => []TriColour
  <1>1. IInv => TriColour
    BY DEF IInv
  <1> QED
    BY <1>1, Safety, PTL

\* Marking keeps nothing that the contract does not keep.
THEOREM MarkCorrect == Spec => []MarkExact
  <1>1. IInv => MarkExact
    BY DEF IInv
  <1> QED
    BY <1>1, Safety, PTL

\* A run of the heap, seen without colours, is a run of the contract.
THEOREM ImplementsContract == Spec => Implements
  <1>1. Init => Contract!Init
    BY InitContract
  <1>2. IInv /\ IInv' /\ [Next]_vars => [Contract!Next]_Contract!vars
    BY NextContract
  <1> QED
    BY <1>1, <1>2, Safety, PTL DEF Spec, Implements, Contract!Spec

(***************************************************************************)
(* Only end turns a black object into another colour, and then all that    *)
(* the object refers to is still there.                                    *)
(***************************************************************************)
THEOREM MarkedObjectsKeepReferents == Spec => MarkedKeepReferents
  <1>1. IInv /\ [Next]_vars =>
          [\A o \in Obj : flag[o] = "black" /\ flag'[o] # "black" =>
             /\ heap'[o] = heap[o]
             /\ heap[o].refs \subseteq Allocated']_vars
    <2> SUFFICES ASSUME IInv, [Next]_vars, NEW o \in Obj,
                        flag[o] = "black", flag'[o] # "black"
                 PROVE  heap'[o] = heap[o] /\ heap[o].refs \subseteq Allocated'
      OBVIOUS
    <2>1. phase # "run"
      BY DEF IInv, GrayExact
    <2>2. ~ UNCHANGED vars
      BY DEF vars
    <2>3. ASSUME ScanStep PROVE flag'[o] = "black"
      <3> DEFINE last == gray[Len(gray)]
                 kids == IF flag[last] = "black" THEN {} ELSE heap[last].refs
      <3>1. CASE kids \subseteq Allocated
        <4>1. PICK q \in Orders(kids \cap (White \ {last})) :
                flag' = [x \in Obj |-> IF x = last THEN "black"
                                       ELSE IF phase' = "mark" /\ x \in Range(q) THEN "gray"
                                       ELSE flag[x]]
          BY <2>3, <3>1 DEF ScanStep
        <4>2. Range(q) \subseteq White
          BY DEF Orders
        <4> QED
          BY <4>1, <4>2 DEF White
      <3>2. CASE ~(kids \subseteq Allocated)
        BY <2>3, <3>2 DEF ScanStep
      <3> QED
        BY <3>1, <3>2
    <2>4. Sweep
      BY ZenonT(60), <2>1, <2>2, <2>3 DEF Next, Mutator, Collector, NewObject, Fetch, Pop, RefLocal, SetLocal,
         InternString, SetGlobal, Load, Lambda, TouchFreed, SkipTrace, StartTrace, StartGc, Close
    <2>5. Allocated' = Allocated \ White
      BY <2>4 DEF Sweep, Allocated, Free, White
    <2>6. heap[o].refs \subseteq Allocated /\ heap[o].refs \cap White = {}
      BY <2>4, BlackIsMarked DEF IInv, TriColour, Sweep
    <2> QED
      BY <2>4, <2>5, <2>6 DEF Sweep, White
  <1> QED
    BY <1>1, Safety, PTL DEF Spec, MarkedKeepReferents

\* Once su_close has cleared the globals there are no roots, and no program runs.
Closing == globals = Nil => strings = Nil /\ stack = <<>> /\ phase # "run"

LEMMA ClosingHolds == Spec => []Closing
  <1>1. Init => Closing
    BY DEF Init, Boot, Closing
  <1>2. TypeOK /\ Closing /\ [Next]_vars => Closing'
    <2> SUFFICES ASSUME TypeOK, Closing, [Next]_vars PROVE Closing'
      OBVIOUS
    <2>1. CASE globals # Nil /\ globals' # Nil
      BY <2>1 DEF Closing
    <2>2. CASE globals = Nil
      <3>1. \/ UNCHANGED <<globals, strings, stack, phase>>
            \/ ScanStep \/ Sweep
        BY ZenonT(60), <2>2 DEF Closing, vars, Next, Mutator, Collector, NewObject, Fetch, Pop, RefLocal, SetLocal,
           InternString, SetGlobal, Load, Lambda, TouchFreed, SkipTrace, StartTrace, StartGc, Close
      <3>2. CASE UNCHANGED <<globals, strings, stack, phase>>
        BY <3>2 DEF Closing
      <3>3. CASE ScanStep
        BY <3>3 DEF Closing, ScanStep, AddToGray
      <3>4. CASE Sweep
        BY <2>2, <3>4 DEF Closing, Sweep
      <3> QED
        BY <3>1, <3>2, <3>3, <3>4
    <2>3. CASE globals # Nil /\ globals' = Nil
      <3>1. ~ Mutator
        <4>1. ~ \E k \in Obj, v \in Top, gone \in SUBSET Bound, m1, l, m2 \in Free :
                  SetGlobal(k, v, gone, m1, l, m2)
          <5>1. Nil \notin Free
            BY DEF Free
          <5>2. ASSUME NEW k, NEW v, NEW gone, NEW m1, NEW l, NEW m2 \in Free,
                       SetGlobal(k, v, gone, m1, l, m2)
                PROVE  FALSE
            <6>1. globals' = m2
              BY <5>2 DEF SetGlobal
            <6> QED
              BY <2>3, <5>1, <6>1
          <5> QED
            BY <5>2
        <4> QED
          BY <2>3, <4>1 DEF Mutator, NewObject, Fetch, Pop, RefLocal, SetLocal,
             InternString, Load, Lambda, TouchFreed
      <3>2. ~ Collector /\ ~ UNCHANGED vars
        BY <2>3 DEF vars, Collector, SkipTrace, StartTrace, StartGc, Begin, ScanStep, Sweep
      <3>3. Close
        BY <3>1, <3>2 DEF Next
      <3> QED
        BY <3>3 DEF Close, Closing
    <2> QED
      BY <2>1, <2>2, <2>3
  <1> QED
    BY <1>1, <1>2, TypeCorrect, PTL DEF Spec

(***************************************************************************)
(* The collection of su_close finds no roots: what it keeps, and so leaks, *)
(* are the young objects.                                                  *)
(***************************************************************************)
THEOREM CloseLeaksTheYoung == Spec => CloseLeaksYoung
  <1>1. IInv /\ Closing /\ [Next]_vars =>
          [phase' = "closed" /\ phase # "closed" => Allocated' = Young]_vars
    <2> SUFFICES ASSUME IInv, Closing, [Next]_vars, phase' = "closed", phase # "closed"
                 PROVE  Allocated' = Young
      OBVIOUS
    <2>1. Sweep
      BY ZenonT(60) DEF vars, Next, Mutator, Collector, NewObject, Fetch, Pop, RefLocal, SetLocal,
         InternString, SetGlobal, Load, Lambda, TouchFreed, SkipTrace, StartTrace, StartGc, Begin,
         ScanStep, AddToGray, Close
    <2>2. globals = Nil
      BY <2>1 DEF Sweep
    <2>3. Roots = {}
      BY <2>2 DEF Closing, Roots, Held, Range
    <2>4. Contract!Closed({})
      BY <2>3 DEF Contract!Closed
    <2>5. Contract!Marked = {}
      BY <2>4 DEF Contract!Marked
    <2>6. Allocated' = Young \cup Contract!Marked
      BY <2>1, SweepCollects DEF Contract!Collect
    <2> QED
      BY <2>5, <2>6
  <1> QED
    BY <1>1, ClosingHolds, Safety, PTL DEF Spec, CloseLeaksYoung
=============================================================================
