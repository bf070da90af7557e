-------------------------- MODULE PersistentVector --------------------------
(***************************************************************************)
(* The vector of src/src/vm/seq.c: a tree whose nodes have up to Width     *)
(* children and whose leaves hold the elements, with the last elements in  *)
(* a node of their own, the tail.  Operations copy the nodes on one path   *)
(* and share the rest, so a store to a node that is not new would change   *)
(* other vectors: nodes have addresses here, and stores go to them.        *)
(*                                                                         *)
(* A shift is counted in levels: 1 is the code's 5.  The collector is left *)
(* to SaurusGC: no node is freed.                                          *)
(***************************************************************************)
EXTENDS Integers, Sequences, SequencesExt

CONSTANTS Width,         \* 32 in the code
          Items,         \* the values of which a vector is made: a sequence
          Pushed,        \* sequences of values to push
          Value,         \* a value to store
          MaxOperations  \* bound: operations done

ASSUME VectorAssumption ==
  /\ Width \in Nat /\ Width >= 2 /\ MaxOperations \in Nat
  /\ Items \in Seq(Range(Items)) /\ \A s \in Pushed : s \in Seq(Range(s))

VARIABLES nodes,         \* the data of the node at each address
          vectors,       \* the vectors made so far: cnt, shift, root, tail
          outcome,       \* of the last operation: a vector, a value, an error
          operations     \* how many there were

vars == <<nodes, vectors, outcome, operations>>

NULL     == 0
Error    == <<"error">>
Made     == <<"made">>
Found(v) == <<"found", v>>

\* The heap h with a new node, and its address.
New(h, d) == [h |-> Append(h, d), n |-> Len(h) + 1]

\* node_create_only() of one element more, or less, and the copy of the others.
Longer(h, a, x) == New(h, Append(h[a], x))
Shorter(h, a)   == New(h, Front(h[a]))

\* A mistake: the store goes to the shared node.
CloneWith_Shared(h, a, k, x) == [h |-> [h EXCEPT ![a][k] = x], n |-> a]

\* node_clone() and a store to the clone.
CloneWith(h, a, k, x) == New(h, [h[a] EXCEPT ![k] = x])

\* Width to the power of n, as a function.
Power[n \in Nat] == IF n = 0 THEN 1 ELSE Width * Power[n - 1]

\* The digit of index i that selects a child at a level.
Digit(i, level) == ((i \div Power[level]) % Width) + 1

tailoff(h, v)     == v.cnt - Len(h[v.tail])
InBounds(v, i)    == i >= 0 /\ i < v.cnt

\* The nodes from the root, at v.shift, to the leaf of index i, at 0; and to the last
\* leaf.
Path(h, v, i) ==
  LET p[l \in 0 .. v.shift] == IF l = v.shift THEN v.root ELSE h[p[l + 1]][Digit(i, l + 1)]
  IN p
Spine(h, v) ==
  LET p[l \in 0 .. v.shift] == IF l = v.shift THEN v.root ELSE Last(h[p[l + 1]])
  IN p

\* vector_index(), in bounds.
At(h, v, i) == IF i >= tailoff(h, v) THEN h[v.tail][Digit(i, 0)]
               ELSE h[Path(h, v, i)[0]][Digit(i, 0)]

(***************************************************************************)
(* Push.                                                                   *)
(***************************************************************************)

\* The lowest level at which the last node has room for a child, or one above the root.
Room(h, v) ==
  Min({l \in 1 .. v.shift + 1 : l = v.shift + 1 \/ Len(h[Spine(h, v)[l]]) # Width})

\* push_tail(): the nodes it makes, from the lowest up, and the new root.  Where the
\* last node is full it gets a right sibling (the expansion), where there is room it
\* gets a child more, and above that it is copied with the child that is new.
NewSpine(h, v) ==
  LET room     == Room(h, v)
      last(l)  == h[Spine(h, v)[l]]
      child(l) == IF l = 1 THEN v.tail ELSE Len(h) + l - 1
  IN [l \in 1 .. Max({room, v.shift}) |->
        CASE l < room                  -> <<child(l)>>
          [] l = room /\ l > v.shift   -> <<v.root, child(l)>>
          [] l = room /\ l <= v.shift  -> Append(last(l), child(l))
          [] l > room                  -> [last(l) EXCEPT ![Len(last(l))] = child(l)]]

\* vector_push(), as the new heap and the new vector.
PushOne(m, x) ==
  LET v    == m.v
      t    == Longer(m.h, v.tail, x)
      made == NewSpine(m.h, v)
      end  == New(m.h \o made, <<x>>)
  IN IF Len(m.h[v.tail]) < Width
     THEN [h |-> t.h, v |-> [v EXCEPT !.cnt = @ + 1, !.tail = t.n]]
     ELSE [h |-> end.h,
           v |-> [cnt |-> v.cnt + 1, tail |-> end.n,
                  shift |-> Len(made), root |-> Len(m.h) + Len(made)]]

\* The loops of su_vector() and su_vector_push().
PushAll(m, s) ==
  LET f[j \in 0 .. Len(s)] == IF j = 0 THEN m ELSE PushOne(f[j - 1], s[j]) IN f[Len(s)]

\* vector_create_empty()
Empty(h) == [h |-> h \o <<<<>>, <<>>>>,
             v |-> [cnt |-> 0, shift |-> 1, root |-> Len(h) + 1, tail |-> Len(h) + 2]]

(***************************************************************************)
(* Set and pop.                                                            *)
(***************************************************************************)

\* insert(): copies of the nodes on the way to index i, the root's first, each but the
\* last with the next one for its child.
Insert(h, v, i, x) ==
  [k \in 1 .. v.shift + 1 |->
     LET l == v.shift + 1 - k
     IN [h[Path(h, v, i)[l]] EXCEPT ![Digit(i, l)] = IF l = 0 THEN x ELSE Len(h) + k + 1]]

\* vector_set(), in bounds.
Store(h, v, i, x) ==
  LET t == CloneWith(h, v.tail, Digit(i, 0), x)
  IN IF i >= tailoff(h, v)
     THEN [h |-> t.h, v |-> [v EXCEPT !.tail = t.n]]
     ELSE [h |-> h \o Insert(h, v, i, x), v |-> [v EXCEPT !.root = Len(h) + 1]]

\* The lowest level at which the last node has another child, or one above the root.
Others(h, v) ==
  Min({l \in 1 .. v.shift + 1 : l = v.shift + 1 \/ Len(h[Spine(h, v)[l]]) # 1})

\* pop_tail() and what vector_pop() does when it gives no node: the nodes they make,
\* the new root last.  The nodes whose only child goes are left out, the one above
\* loses its last child, and further up they are copied.
CutSpine(h, v) ==
  LET others  == Others(h, v)
      last(l) == h[Spine(h, v)[l]]
  IN IF others > v.shift THEN <<<<>>>>
     ELSE [k \in 1 .. v.shift - others + 1 |->
             LET l == others + k - 1
             IN IF k = 1 THEN Front(last(l))
                         ELSE [last(l) EXCEPT ![Len(last(l))] = Len(h) + k - 1]]

\* A mistake: the tree never gets lower.
Lowers_Never(v, root) == FALSE

\* A root with one child is left out.
Lowers(v, root) == v.shift > 1 /\ Len(root) = 1

\* vector_pop() of a vector that is not empty.
PopOne(m) ==
  LET v     == m.v
      t     == Shorter(m.h, v.tail)
      made  == CutSpine(m.h, v)
      lower == Lowers(v, Last(made))
  IN IF v.cnt = 1 THEN Empty(m.h)
     ELSE IF Len(m.h[v.tail]) > 1
     THEN [h |-> t.h, v |-> [v EXCEPT !.cnt = @ - 1, !.tail = t.n]]
     ELSE [h |-> m.h \o made,
           v |-> [cnt   |-> v.cnt - 1,
                  shift |-> IF lower THEN v.shift - 1 ELSE v.shift,
                  root  |-> IF lower THEN Last(made)[1] ELSE Len(m.h) + Len(made),
                  tail  |-> Spine(m.h, v)[0]]]

\* The loop of su_vector_pop().
PopMany(m, n) ==
  LET f[j \in 0 .. n] == IF j = 0 THEN m ELSE PopOne(f[j - 1]) IN f[n]

(***************************************************************************)
(* The operations of a program.                                            *)
(***************************************************************************)
Gives(m) == /\ nodes' = m.h
            /\ vectors' = Append(vectors, m.v)
            /\ outcome' = Made
Fails    == outcome' = Error /\ UNCHANGED <<nodes, vectors>>
Held(k)  == [h |-> nodes, v |-> vectors[k]]

\* su_vector()
Create(s) == Gives(PushAll(Empty(nodes), s))

\* su_vector_push()
Push(k, s) == Gives(PushAll(Held(k), s))

\* su_vector_pop(): the error comes when nothing is left, and leaves only garbage.
Pop(k, n) == IF n <= vectors[k].cnt THEN Gives(PopMany(Held(k), n)) ELSE Fails

\* su_vector_set()
Set(k, i) == IF InBounds(vectors[k], i) THEN Gives(Store(nodes, vectors[k], i, Value)) ELSE Fails

\* su_vector_index()
Index(k, i) == /\ outcome' = IF InBounds(vectors[k], i) THEN Found(At(nodes, vectors[k], i)) ELSE Error
               /\ UNCHANGED <<nodes, vectors>>

Init == nodes = <<>> /\ vectors = <<>> /\ outcome = Made /\ operations = 0

Next == /\ operations < MaxOperations
        /\ operations' = operations + 1
        /\ \/ \E n \in 0 .. Len(Items) : Create(SubSeq(Items, 1, n))
           \/ \E k \in 1 .. Len(vectors) :
                \/ \E s \in Pushed : Push(k, s)
                \/ \E n \in 0 .. vectors[k].cnt + 1 : Pop(k, n)
                \/ \E i \in -1 .. vectors[k].cnt : Set(k, i) \/ Index(k, i)

Spec == Init /\ [][Next]_vars

(***************************************************************************)
(* Properties.                                                             *)
(***************************************************************************)

\* The nodes of a tree level by level, from the root at v.shift to the leaves at 0.
Children(h, s) == Width * (Len(s) - 1) + Len(h[Last(s)])
Child(h, s, j) == h[s[((j - 1) \div Width) + 1]][((j - 1) % Width) + 1]
Levels(h, v) ==
  LET a[l \in 0 .. v.shift] ==
        IF l = v.shift THEN <<v.root>>
        ELSE [j \in 1 .. Children(h, a[l + 1]) |-> Child(h, a[l + 1], j)]
  IN a

\* The nodes of level s have as many children as there is room for, but for the last.
Dense(h, s) == \A b \in DOMAIN s : IF b < Len(s) THEN Len(h[s[b]]) = Width
                                                 ELSE Len(h[s[b]]) \in 1 .. Width

\* The tree of v has the shape that its length gives it.
HasShape(h, v) ==
  LET leaves == Levels(h, v)[0]
  IN /\ v.shift >= 1
     /\ Len(h[v.tail]) \in (IF v.cnt = 0 THEN {0} ELSE 1 .. Width)
     /\ v.cnt = Width * Len(leaves) + Len(h[v.tail])
     /\ \A b \in DOMAIN leaves : Len(h[leaves[b]]) = Width
     /\ IF leaves = <<>> THEN h[v.root] = <<>> /\ v.shift = 1
        ELSE \A l \in 1 .. v.shift : Dense(h, Levels(h, v)[l])
     /\ v.shift > 1 => Len(h[v.root]) > 1

\* Every vector that was ever made is still a tree in the one shape its length
\* has: the tail is empty only in the empty vector, all leaves are full and
\* equally deep, only the right spine is not full, and the root is no higher
\* than it needs to be.  vector_index() finds elements by digits of the index
\* and so depends on it; vector_pop() and vector_push() have to restore it.
Shape == \A k \in 1 .. Len(vectors) : HasShape(nodes, vectors[k])

\* The vectors, read element by element.
Elements(v) == [i \in 1 .. v.cnt |-> At(nodes, v, i - 1)]

Contract == INSTANCE VectorContract WITH vecs <- [k \in 1 .. Len(vectors) |-> Elements(vectors[k])]

\* vector_push(), vector_pop() and vector_set() behave as the operations on
\* sequences: each makes the right new vector, and leaves every vector made
\* before as it was although they share nodes; an index out of bounds is
\* refused by vector_index() and vector_set().
Implements == Contract!Spec
=============================================================================
