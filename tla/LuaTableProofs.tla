--------------------------- MODULE LuaTableProofs ---------------------------
(***************************************************************************)
(* That a table behaves as a function from keys to values which a          *)
(* traversal comes to once, for any keys, hashes and sequences of stores,  *)
(* that its chains stay in order, and that its length is a boundary.       *)
(***************************************************************************)
EXTENDS LuaTable, SequenceTheorems, FunctionTheorems, FiniteSetTheorems, WellFoundedInduction, TLAPS

-----------------------------------------------------------------------------
(* Numbers *)

LEMMA Remainder ==
  ASSUME NEW n \in Nat, NEW w \in Nat \ {0}
  PROVE  n % w \in 0 .. w - 1
  BY Z3

\* Induction over numbers, with a set for the property.
LEMMA Induction ==
  ASSUME NEW S, 0 \in S, \A n \in Nat : n \in S => n + 1 \in S
  PROVE  Nat \subseteq S
<1> DEFINE B == {n \in Nat : n \notin S}
<1>1. CASE B = {}
  BY <1>1
<1>2. CASE B # {}
  <2>1. PICK x \in B : \A y \in B : <<y, x>> \notin OpToRel(<, Nat)
    BY <1>2, WFMin, NatLessThanWellFounded
  <2>2. x \in Nat /\ x \notin S
    OBVIOUS
  <2>3. x # 0 /\ x - 1 \in Nat /\ x - 1 < x /\ (x - 1) + 1 = x
    BY <2>2
  <2>4. ASSUME x - 1 \notin S PROVE FALSE
    <3>1. <<x - 1, x>> \notin OpToRel(<, Nat)
      BY <2>1, <2>3, <2>4
    <3> QED BY <2>2, <2>3, <3>1 DEF OpToRel
  <2>5. (x - 1) + 1 \in S
    BY <2>3, <2>4
  <2> QED BY <2>2, <2>3, <2>5
<1> QED BY <1>1, <1>2

LEMMA MinIs ==
  ASSUME NEW S \in SUBSET Nat, S # {}
  PROVE  Min(S) \in S /\ \A y \in S : Min(S) <= y
<1>1. PICK x \in S : \A y \in S : <<y, x>> \notin OpToRel(<, Nat)
  BY WFMin, NatLessThanWellFounded
<1>2. ASSUME NEW y \in S PROVE x <= y
  <2>1. x \in Nat /\ y \in Nat /\ ~(y < x)
    BY <1>1, <1>2 DEF OpToRel
  <2> QED BY <2>1
<1>3. \E z \in S : \A y \in S : z =< y
  BY <1>2
<1> QED BY <1>3, Zenon DEF Min

LEMMA MaxIs ==
  ASSUME NEW n \in Nat, NEW S \in SUBSET (0 .. n), S # {}
  PROVE  Max(S) \in S /\ \A y \in S : Max(S) >= y
<1> DEFINE D == {n - y : y \in S}
<1>1. D \in SUBSET Nat /\ D # {}
  <2>1. \A y \in S : n - y \in Nat
    OBVIOUS
  <2>2. PICK y \in S : TRUE
    OBVIOUS
  <2>3. n - y \in D
    BY <2>2
  <2>4. \A d \in D : d \in Nat
    BY <2>1
  <2> HIDE DEF D
  <2> QED BY <2>3, <2>4
<1> HIDE DEF D
<1>2. Min(D) \in D /\ \A d \in D : Min(D) <= d
  BY <1>1, MinIs
<1> USE DEF D
<1>3. PICK x \in S : Min(D) = n - x
  BY <1>2
<1>4. ASSUME NEW y \in S PROVE x >= y
  <2>1. n - y \in D
    BY <1>4
  <2>2. n - x <= n - y
    BY <1>2, <1>3, <2>1
  <2>3. x \in Nat /\ y \in Nat
    BY <1>4
  <2> HIDE DEF D
  <2> QED BY <2>2, <2>3
<1>5. \E z \in S : \A y \in S : z >= y
  BY <1>4
<1> QED BY <1>5, Zenon DEF Max

\* What is done again and again is a function.
Iterated(f, S, a, G, m) == f \in [0 .. m -> S] /\ f = [i \in 0 .. m |-> IF i = 0 THEN a ELSE G[f[i - 1]]]

LEMMA Iterates ==
  ASSUME NEW S, NEW a \in S, NEW G \in [S -> S], NEW m \in Nat
  PROVE  \E f : Iterated(f, S, a, G, m)
<1> DEFINE Is(f, n) == Iterated(f, S, a, G, n)
           T == {n \in Nat : \E f : Is(f, n)}
<1>1. 0 \in T
  <2> DEFINE g == [i \in 0 .. 0 |-> a]
  <2>1. \A i \in 0 .. 0 : i = 0
    OBVIOUS
  <2>2. Is(g, 0)
    BY <2>1 DEF Iterated
  <2> HIDE DEF g, Is
  <2> QED BY <2>2
<1>2. ASSUME NEW n \in Nat, n \in T PROVE n + 1 \in T
  <2>1. PICK f : Is(f, n)
    BY <1>2
  <2>a. f \in [0 .. n -> S] /\ f = [i \in 0 .. n |-> IF i = 0 THEN a ELSE G[f[i - 1]]]
    BY <2>1 DEF Iterated
  <2> DEFINE e == n + 1
             g == [i \in 0 .. e |-> IF i = e THEN G[f[n]] ELSE f[i]]
  <2>2. f[n] \in S
    BY <2>a
  <2>3. ASSUME NEW i \in 0 .. e PROVE g[i] \in S /\ g[i] = IF i = 0 THEN a ELSE G[g[i - 1]]
    <3>1. CASE i = e
      <4>1. i # 0 /\ i - 1 = n /\ n \in 0 .. e /\ n # e
        BY <3>1
      <4>2. g[i] = G[f[n]] /\ g[n] = f[n]
        BY <3>1, <4>1
      <4> HIDE DEF g, Is
      <4> QED BY <2>2, <4>1, <4>2
    <3>2. CASE i # e
      <4>1. i \in 0 .. n /\ (i # 0 => i - 1 \in 0 .. e /\ i - 1 # e)
        BY <3>2
      <4>2. g[i] = f[i] /\ (i # 0 => g[i - 1] = f[i - 1])
        BY <3>2, <4>1
      <4>3. f[i] \in S /\ f[i] = IF i = 0 THEN a ELSE G[f[i - 1]]
        BY <2>a, <4>1
      <4> HIDE DEF g, Is
      <4> QED BY <4>1, <4>2, <4>3
    <3> QED BY <3>1, <3>2
  <2>4. g = [i \in 0 .. e |-> g[i]]
    OBVIOUS
  <2> HIDE DEF g
  <2>5. g \in [0 .. e -> S]
    BY <2>3, <2>4
  <2>6. g = [i \in 0 .. e |-> IF i = 0 THEN a ELSE G[g[i - 1]]]
    BY <2>3, <2>4
  <2>7. Is(g, e)
    BY <2>5, <2>6 DEF Iterated
  <2> HIDE DEF Is
  <2> QED BY <2>7
<1>3. m \in T
  <2> HIDE DEF T
  <2> QED BY <1>1, <1>2, Induction
<1>4. PICK f : Is(f, m)
  BY <1>3
<1> QED BY <1>4

\* twoto is what its definition says, and grows beyond every number.
LEMMA Powers ==
  /\ twoto[0] = 1
  /\ \A n \in Nat : twoto[n + 1] = 2 * twoto[n]
  /\ \A n \in Nat : twoto[n] \in Nat /\ twoto[n] > n
<1> DEFINE Is(f) == f[0] = 1 /\ \A n \in Nat : f[n + 1] = 2 * f[n]
<1>1. \E f : f = [i \in Nat |-> IF i = 0 THEN 1 ELSE 2 * f[i - 1]]
  <2> DEFINE UpTo(f, m) == f \in [0 .. m -> Nat] /\ f[0] = 1 /\ \A n \in 1 .. m : f[n] = 2 * f[n - 1]
             S == {m \in Nat : \E f : UpTo(f, m)}
  <2>1. 0 \in S
    <3> DEFINE g == [i \in 0 .. 0 |-> 1]
    <3>1. UpTo(g, 0)
      OBVIOUS
    <3> HIDE DEF g, UpTo
    <3> QED BY <3>1
  <2>2. ASSUME NEW m \in Nat, m \in S PROVE m + 1 \in S
    <3>1. PICK f : UpTo(f, m)
      BY <2>2
    <3> DEFINE g == [i \in 0 .. m + 1 |-> IF i = m + 1 THEN 2 * f[m] ELSE f[i]]
    <3>2. g \in [0 .. m + 1 -> Nat] /\ g[0] = 1
      BY <3>1
    <3>3. ASSUME NEW n \in 1 .. m + 1 PROVE g[n] = 2 * g[n - 1]
      <4>1. CASE n = m + 1
        BY <3>1, <4>1
      <4>2. CASE n # m + 1
        <5>1. n \in 1 .. m /\ n - 1 \in 0 .. m + 1 /\ n - 1 # m + 1 /\ n \in 0 .. m + 1
          BY <4>2
        <5> QED BY <3>1, <4>2, <5>1
      <4> QED BY <4>1, <4>2
    <3>4. UpTo(g, m + 1)
      BY <3>2, <3>3
    <3> HIDE DEF g, UpTo
    <3> QED BY <3>4
  <2>3. Nat \subseteq S
    <3> HIDE DEF S
    <3> QED BY <2>1, <2>2, Induction
  <2> DEFINE F == [m \in Nat |-> CHOOSE f : UpTo(f, m)]
             P == [m \in Nat |-> F[m][m]]
  <2>4. \A m \in Nat : UpTo(F[m], m)
    <3> HIDE DEF UpTo
    <3> QED BY <2>3
  <2> HIDE DEF F
  <2>5. ASSUME NEW m \in Nat PROVE F[m + 1][m] = F[m][m]
    <3> DEFINE T == {i \in Nat : i <= m => F[m + 1][i] = F[m][i]}
    <3>1. UpTo(F[m + 1], m + 1) /\ UpTo(F[m], m)
      <4>1. m + 1 \in Nat
        OBVIOUS
      <4> HIDE DEF UpTo
      <4> QED BY <2>4, <4>1
    <3>2. 0 \in T
      BY <3>1
    <3>3. ASSUME NEW i \in Nat, i \in T PROVE i + 1 \in T
      <4>1. CASE i + 1 <= m
        <5>1. i + 1 \in 1 .. m /\ i + 1 \in 1 .. m + 1 /\ (i + 1) - 1 = i
          BY <4>1
        <5>2. F[m + 1][i + 1] = 2 * F[m + 1][i] /\ F[m][i + 1] = 2 * F[m][i]
          BY <3>1, <5>1
        <5> QED BY <3>3, <4>1, <5>2
      <4> QED BY <4>1
    <3>4. Nat \subseteq T
      <4> HIDE DEF T
      <4> QED BY <3>2, <3>3, Induction
    <3> QED BY <3>4
  <2>6. P[0] = 1
    BY <2>4
  <2>7. ASSUME NEW i \in Nat, i # 0 PROVE P[i] = 2 * P[i - 1]
    <3>1. i - 1 \in Nat /\ (i - 1) + 1 = i /\ i \in 1 .. i
      BY <2>7
    <3>2. F[i][i] = 2 * F[i][i - 1]
      BY <2>4, <3>1
    <3>3. F[i][i - 1] = F[i - 1][i - 1]
      BY <2>5, <3>1
    <3> QED BY <3>1, <3>2, <3>3
  <2>8. P = [i \in Nat |-> P[i]]
    OBVIOUS
  <2> HIDE DEF P
  <2>9. P = [i \in Nat |-> IF i = 0 THEN 1 ELSE 2 * P[i - 1]]
    BY <2>6, <2>7, <2>8
  <2> QED BY <2>9
<1>2. twoto = [i \in Nat |-> IF i = 0 THEN 1 ELSE 2 * twoto[i - 1]]
  BY <1>1, Zenon DEF twoto
<1>3. twoto[0] = 1
  BY <1>2
<1>4. \A n \in Nat : twoto[n + 1] = 2 * twoto[n]
  <2> TAKE n \in Nat
  <2>1. n + 1 \in Nat /\ n + 1 # 0 /\ (n + 1) - 1 = n
    OBVIOUS
  <2> QED BY <1>2, <2>1
<1>5. \A n \in Nat : twoto[n] \in Nat /\ twoto[n] > n
  <2> DEFINE S == {n \in Nat : twoto[n] \in Nat /\ twoto[n] > n}
  <2>1. 0 \in S
    BY <1>3
  <2>2. \A n \in Nat : n \in S => n + 1 \in S
    BY <1>4
  <2>3. Nat \subseteq S
    <3> HIDE DEF S
    <3> QED BY <2>1, <2>2, Induction
  <2> QED BY <2>3
<1> QED BY <1>3, <1>4, <1>5

LEMMA CeilLog ==
  ASSUME NEW n \in Nat
  PROVE  ceillog2(n) \in Nat /\ twoto[ceillog2(n)] \in Nat /\ twoto[ceillog2(n)] >= n /\ twoto[ceillog2(n)] >= 1
<1> DEFINE S == {i \in 0 .. n : twoto[i] >= n}
<1>1. twoto[n] >= n /\ n \in 0 .. n
  BY Powers
<1>2. n \in S /\ S \in SUBSET Nat
  BY <1>1
<1> HIDE DEF S
<1>3. Min(S) \in S
  BY <1>2, MinIs
<1> USE DEF S
<1>4. ceillog2(n) = Min(S)
  BY DEF ceillog2
<1>5. ceillog2(n) \in Nat /\ twoto[ceillog2(n)] >= n
  BY <1>3, <1>4
<1>6. twoto[ceillog2(n)] \in Nat /\ twoto[ceillog2(n)] > ceillog2(n)
  BY <1>5, Powers
<1> QED BY <1>5, <1>6

-----------------------------------------------------------------------------
(* Tables *)

Places(h) == 0 .. sizenode(h) - 1

\* What the parts of a table are.
Typed(h) ==
  /\ h = [array |-> h.array, node |-> h.node, lastfree |-> h.lastfree, dummy |-> h.dummy]
  /\ sizearray(h) \in Nat /\ h.array = [i \in 1 .. sizearray(h) |-> h.array[i]]
  /\ sizenode(h) \in Nat \ {0} /\ h.node = [i \in Places(h) |-> h.node[i]]
  /\ \A i \in Places(h) : /\ h.node[i] = Node(h.node[i].key, h.node[i].val, h.node[i].next)
                          /\ h.node[i].key \in TableKeys \union {0}
                          /\ h.node[i].next \in Places(h) \union {Nowhere}
  /\ h.lastfree \in 0 .. sizenode(h) /\ h.dummy \in BOOLEAN

\* Where keys are.
Stored(h) ==
  /\ \A i \in 1 .. sizearray(h) : h.array[i] # 0 => i \in TableKeys
  /\ h.dummy => sizenode(h) = 1 /\ h.node[0] = FreeNode
  /\ ~h.dummy => \A i \in Places(h) : i >= h.lastfree => h.node[i].key # 0
  /\ \A i \in Places(h) : h.node[i].key = 0 => h.node[i] = FreeNode
  /\ \A i \in Places(h) : ~InArray(h, h.node[i].key)
  /\ \A i, j \in Places(h) : h.node[i].key # 0 /\ h.node[i].key = h.node[j].key => i = j

\* A set of nodes that has what its nodes lead to; and the nodes a node leads to.
Onward(h, S) == \A y \in S : h.node[y].next # Nowhere => h.node[y].next \in S
Reaches(h, p, x) == \A S \in SUBSET Places(h) : p \in S /\ Onward(h, S) => x \in S

\* A node goes before the next in some order, so that chains end.
Ordered(h, f) ==
  /\ f \in [Places(h) -> Nat]
  /\ \A i \in Places(h) : h.node[i].next # Nowhere => f[h.node[i].next] < f[i]

\* How nodes hang together: a node has one before it, a free one none; where a key would
\* be there is one that should be there, and the key's own node is on from that.
Linked(h) ==
  /\ \A i, j \in Places(h) : h.node[i].next # Nowhere /\ h.node[i].next = h.node[j].next => i = j
  /\ \A i \in Places(h) : h.node[i].next # Nowhere => h.node[h.node[i].next].key # 0
  /\ \E f : Ordered(h, f)
  /\ \A i \in Places(h) : h.node[i].key # 0 =>
        LET p == mainposition(h, h.node[i].key)
        IN  /\ h.node[p].key # 0 /\ mainposition(h, h.node[p].key) = p
            /\ Reaches(h, p, i)

Sound(h) == Typed(h) /\ Stored(h) /\ Linked(h)

LEMMA SizeIs ==
  ASSUME NEW n \in Nat \ {0}, NEW h, DOMAIN h.node = 0 .. n - 1
  PROVE  sizenode(h) = n
<1>1. Cardinality(0 .. n - 1) = n
  BY FS_Interval
<1> QED BY <1>1 DEF sizenode

LEMMA Listed ==
  ASSUME NEW n \in Nat, NEW s, s = [i \in 1 .. n |-> s[i]]
  PROVE  Len(s) = n
<1> DEFINE R == {s[i] : i \in 1 .. n}
<1>1. s \in [1 .. n -> R]
  OBVIOUS
<1> HIDE DEF R
<1>2. s \in Seq(R)
  BY <1>1, SeqDef
<1>3. DOMAIN s = 1 .. n
  BY <1>1
<1> QED BY <1>2, <1>3, LenProperties

\* A main position is a place, and depends on the number of nodes only.
LEMMA HomeIs ==
  ASSUME NEW h, sizenode(h) \in Nat \ {0}, NEW k \in TableKeys
  PROVE  mainposition(h, k) \in Places(h)
<1> DEFINE n == sizenode(h)  d == IF n % 2 = 0 THEN n - 1 ELSE n
<1>1. TableHash[k] \in Nat
  BY TableAssumption
<1>2. d \in Nat \ {0} /\ d <= n
  <2>1. CASE n % 2 = 0
    <3>1. n # 1
      BY <2>1, Z3
    <3> QED BY <2>1, <3>1
  <2>2. CASE n % 2 # 0
    BY <2>2
  <2> QED BY <2>1, <2>2
<1>3. TableHash[k] % n \in 0 .. n - 1
  BY <1>1, Remainder
<1>4. TableHash[k] % d \in 0 .. d - 1
  <2> HIDE DEF d
  <2> QED BY <1>1, <1>2, Remainder
<1>5. mainposition(h, k) = IF k > 0 THEN TableHash[k] % d ELSE TableHash[k] % n
  BY DEF mainposition, hashmod, hashpow2
<1> HIDE DEF d
<1> QED BY <1>2, <1>3, <1>4, <1>5 DEF Places

LEMMA SameHome ==
  ASSUME NEW h, NEW g, sizenode(g) = sizenode(h), NEW k
  PROVE  mainposition(g, k) = mainposition(h, k)
  BY DEF mainposition, hashmod, hashpow2

-----------------------------------------------------------------------------
(* Chains *)

\* at is the way from p on, up to one of G.
Way(at, h, p, G) ==
  /\ at \in [0 .. sizenode(h) -> Places(h) \union {Nowhere}] /\ at[0] = p
  /\ \A i \in 1 .. sizenode(h) :
        at[i] = IF at[i - 1] = Nowhere \/ at[i - 1] \in G THEN at[i - 1] ELSE h.node[at[i - 1]].next

LEMMA WalkIs ==
  ASSUME NEW h, Typed(h), NEW p \in Places(h), NEW G
  PROVE  \E at : Way(at, h, p, G) /\ Walk(h, p, G) = at[sizenode(h)]
<1> DEFINE n == sizenode(h)  S == Places(h) \union {Nowhere}
           step == [m \in DOMAIN h.node \union {Nowhere} |-> IF m = Nowhere \/ m \in G THEN m ELSE h.node[m].next]
           Is(f) == f = [i \in 0 .. n |-> IF i = 0 THEN p ELSE step[f[i - 1]]]
<1>1. n \in Nat /\ p \in S /\ (\A x \in S : x # Nowhere => h.node[x].next \in S) /\ DOMAIN h.node \union {Nowhere} = S
  BY DEF Typed
<1>2. step \in [S -> S] /\ \A x \in S : step[x] = IF x = Nowhere \/ x \in G THEN x ELSE h.node[x].next
  BY <1>1
<1> DEFINE at == CHOOSE f : Is(f)
<1>3. Walk(h, p, G) = at[n]
  BY Zenon DEF Walk
<1> HIDE DEF step, S, n, at
<1>4. \E f : Iterated(f, S, p, step, n)
  <2> HIDE DEF Is
  <2> QED BY <1>1, <1>2, Iterates
<1>5. Is(at)
  <2>1. \E f : Is(f)
    BY <1>4 DEF Iterated
  <2> QED BY <2>1, Zenon DEF at
<1>6. at \in [0 .. n -> S]
  <2> DEFINE T == {i \in Nat : i <= n => at[i] \in S}
  <2>2. 0 \in T
    BY <1>1, <1>5
  <2>3. ASSUME NEW i \in Nat, i \in T PROVE i + 1 \in T
    <3>1. CASE i + 1 <= n
      <4>1. i + 1 \in 0 .. n /\ i + 1 # 0 /\ (i + 1) - 1 = i /\ at[i] \in S
        BY <1>1, <2>3, <3>1
      <4>2. at[i + 1] = step[at[i]]
        BY <1>5, <4>1
      <4>3. at[i + 1] \in S
        BY <1>2, <4>1, <4>2
      <4> QED BY <4>3
    <3>2. CASE ~(i + 1 <= n)
      BY <3>2
    <3> QED BY <3>1, <3>2
  <2>4. Nat \subseteq T
    <3> HIDE DEF T
    <3> QED BY <2>2, <2>3, Induction
  <2>5. \A i \in 0 .. n : at[i] \in S
    BY <2>4
  <2>6. at = [i \in 0 .. n |-> at[i]]
    BY <1>5
  <2> QED BY <2>5, <2>6
<1>7. at[0] = p
  BY <1>1, <1>5
<1>8. ASSUME NEW i \in 1 .. n
      PROVE  at[i] = IF at[i - 1] = Nowhere \/ at[i - 1] \in G THEN at[i - 1] ELSE h.node[at[i - 1]].next
  <2>1. i \in 0 .. n /\ i # 0 /\ i - 1 \in 0 .. n
    BY <1>1
  <2>2. at[i] = step[at[i - 1]] /\ at[i - 1] \in S
    BY <1>5, <1>6, <2>1
  <2> QED BY <1>2, <2>2
<1>9. Way(at, h, p, G)
  BY <1>6, <1>7, <1>8 DEF Way, n, S
<1> QED BY <1>3, <1>9 DEF n

\* The way ends, for there are not as many nodes.
LEMMA WayEnds ==
  ASSUME NEW h, Typed(h), NEW f, Ordered(h, f), NEW p \in Places(h), NEW G, NEW at, Way(at, h, p, G),
         at[sizenode(h)] # Nowhere
  PROVE  at[sizenode(h)] \in G
<1> DEFINE n == sizenode(h)
<1>1. n \in Nat \ {0} /\ Places(h) = 0 .. n - 1
  BY DEF Typed, Places
<1> HIDE DEF n
<1> SUFFICES ASSUME at[n] \notin G PROVE FALSE
  BY DEF n
<1>4. /\ at \in [0 .. n -> Places(h) \union {Nowhere}]
      /\ \A i \in 1 .. n : at[i] = IF at[i - 1] = Nowhere \/ at[i - 1] \in G THEN at[i - 1] ELSE h.node[at[i - 1]].next
      /\ at[n] # Nowhere
  BY DEF Way, n
<1>5. \A i \in 0 .. n : at[i] \in Places(h) /\ at[i] # Nowhere /\ at[i] \notin G
  <2> DEFINE T == {j \in Nat : j <= n => at[n - j] # Nowhere /\ at[n - j] \notin G}
  <2>1. 0 \in T
    BY <1>1, <1>4
  <2>2. ASSUME NEW j \in Nat, j \in T PROVE j + 1 \in T
    <3>1. CASE j + 1 <= n
      <4>1. n - j \in 1 .. n /\ (n - j) - 1 = n - (j + 1) /\ at[n - j] # Nowhere /\ at[n - j] \notin G
        BY <1>1, <2>2, <3>1
      <4>2. at[n - (j + 1)] # Nowhere /\ at[n - (j + 1)] \notin G
        BY <1>4, <4>1
      <4> QED BY <4>2
    <3>2. CASE ~(j + 1 <= n)
      BY <3>2
    <3> QED BY <3>1, <3>2
  <2>3. Nat \subseteq T
    <3> HIDE DEF T
    <3> QED BY <2>1, <2>2, Induction
  <2> TAKE i \in 0 .. n
  <2>4. n - i \in Nat /\ n - i <= n /\ n - (n - i) = i
    BY <1>1
  <2>5. n - i \in T
    BY <2>3, <2>4
  <2>6. at[i] # Nowhere /\ at[i] \notin G
    BY <2>4, <2>5
  <2> QED BY <1>4, <2>6
<1>6. \A i \in 1 .. n : f[at[i]] < f[at[i - 1]] /\ f[at[i]] \in Nat /\ f[at[i - 1]] \in Nat
  <2> TAKE i \in 1 .. n
  <2>1. i \in 0 .. n /\ i - 1 \in 0 .. n
    BY <1>1
  <2>2. at[i] \in Places(h) /\ at[i - 1] \in Places(h) /\ at[i] = h.node[at[i - 1]].next /\ at[i] # Nowhere
    BY <1>4, <1>5, <2>1
  <2> QED BY <2>2 DEF Ordered
<1>7. ASSUME NEW i \in 0 .. n, NEW j \in 0 .. n, i < j PROVE at[i] # at[j]
  <2> DEFINE T == {d \in Nat : i + 1 + d <= n => f[at[i + 1 + d]] < f[at[i]]}
  <2>1. 0 \in T
    <3>1. CASE i + 1 + 0 <= n
      <4>1. i + 1 + 0 \in 1 .. n /\ (i + 1 + 0) - 1 = i
        BY <3>1
      <4> HIDE DEF T
      <4>2. f[at[i + 1 + 0]] < f[at[i]]
        BY <1>6, <4>1
      <4> QED BY <4>2 DEF T
    <3>2. CASE ~(i + 1 + 0 <= n)
      BY <3>2
    <3> QED BY <3>1, <3>2
  <2>2. ASSUME NEW d \in Nat, d \in T PROVE d + 1 \in T
    <3>1. CASE i + 1 + (d + 1) <= n
      <4>1. i + 1 + (d + 1) \in 1 .. n /\ (i + 1 + (d + 1)) - 1 = i + 1 + d /\ i + 1 + d <= n /\ i + 1 \in 1 .. n
        BY <1>1, <3>1
      <4>2. f[at[i + 1 + d]] < f[at[i]]
        BY <2>2, <4>1
      <4>3. f[at[i + 1 + (d + 1)]] < f[at[i + 1 + d]] /\ f[at[i + 1 + (d + 1)]] \in Nat /\ f[at[i + 1 + d]] \in Nat
        BY <1>6, <4>1
      <4>4. f[at[i]] \in Nat
        BY <1>5 DEF Ordered
      <4>5. f[at[i + 1 + (d + 1)]] < f[at[i]]
        BY <4>2, <4>3, <4>4
      <4> QED BY <4>5
    <3>2. CASE ~(i + 1 + (d + 1) <= n)
      BY <3>2
    <3> QED BY <3>1, <3>2
  <2>3. Nat \subseteq T
    <3> HIDE DEF T
    <3> QED BY <2>1, <2>2, Induction
  <2>4. j - (i + 1) \in Nat /\ i + 1 + (j - (i + 1)) = j /\ j <= n
    BY <1>7
  <2>5. j - (i + 1) \in T
    BY <2>3, <2>4
  <2>6. f[at[j]] < f[at[i]]
    BY <2>4, <2>5
  <2>7. f[at[i]] \in Nat
    BY <1>5 DEF Ordered
  <2> QED BY <2>6, <2>7
<1>8. IsFiniteSet(0 .. n) /\ Cardinality(0 .. n) = n + 1 /\ IsFiniteSet(0 .. n - 1) /\ Cardinality(0 .. n - 1) = n
  BY <1>1, FS_Interval
<1>9. at \in [0 .. n -> 0 .. n - 1]
  BY <1>1, <1>4, <1>5
<1>10. Cardinality(0 .. n - 1) < Cardinality(0 .. n)
  BY <1>1, <1>8
<1>11. \E x, y \in 0 .. n : x # y /\ at[x] = at[y]
  BY <1>8, <1>9, <1>10, FS_PigeonHole
<1>12. PICK x, y \in 0 .. n : x # y /\ at[x] = at[y]
  BY <1>11
<1>13. x < y \/ y < x
  BY <1>12
<1> QED BY <1>7, <1>12, <1>13

\* Where a walk ends.
LEMMA WalkEnds ==
  ASSUME NEW h, Typed(h), \E f : Ordered(h, f), NEW p \in Places(h), NEW G
  PROVE  \/ Walk(h, p, G) \in G \cap Places(h) /\ Walk(h, p, G) # Nowhere
         \/ Walk(h, p, G) = Nowhere /\ \E S \in SUBSET Places(h) : p \in S /\ Onward(h, S) /\ S \cap G = {}
<1> DEFINE n == sizenode(h)
<1>1. n \in Nat \ {0} /\ Places(h) = 0 .. n - 1
  BY DEF Typed, Places
<1>2. PICK at : Way(at, h, p, G) /\ Walk(h, p, G) = at[n]
  BY WalkIs
<1>3. at \in [0 .. n -> Places(h) \union {Nowhere}] /\ at[0] = p
  BY <1>2 DEF Way
<1>4. \A i \in 1 .. n : at[i] = IF at[i - 1] = Nowhere \/ at[i - 1] \in G THEN at[i - 1] ELSE h.node[at[i - 1]].next
  BY <1>2 DEF Way
<1>5. CASE at[n] # Nowhere
  <2>1. at[n] \in G
    BY <1>2, <1>5, WayEnds
  <2>2. at[n] \in Places(h)
    BY <1>1, <1>3, <1>5
  <2> QED BY <1>2, <1>5, <2>1, <2>2
<1>6. CASE at[n] = Nowhere
  <2> DEFINE S == {at[i] : i \in 0 .. n} \ {Nowhere}
  <2>1. S \in SUBSET Places(h)
    BY <1>3
  <2>2. p \in S
    BY <1>1, <1>3 DEF Nowhere
  <2>3. ASSUME NEW i \in 0 .. n, at[i] \in G, at[i] # Nowhere PROVE FALSE
    <3> DEFINE T == {j \in Nat : i + j <= n => at[i + j] = at[i]}
    <3>1. 0 \in T
      OBVIOUS
    <3>2. ASSUME NEW j \in Nat, j \in T PROVE j + 1 \in T
      <4>1. CASE i + (j + 1) <= n
        <5>1. i + (j + 1) \in 1 .. n /\ (i + (j + 1)) - 1 = i + j /\ at[i + j] = at[i]
          BY <1>1, <3>2, <4>1
        <5>2. at[i + (j + 1)] = at[i]
          BY <1>4, <2>3, <5>1
        <5> QED BY <5>2
      <4>2. CASE ~(i + (j + 1) <= n)
        BY <4>2
      <4> QED BY <4>1, <4>2
    <3>3. Nat \subseteq T
      <4> HIDE DEF T
      <4> QED BY <3>1, <3>2, Induction
    <3>4. n - i \in Nat /\ i + (n - i) = n
      BY <1>1
    <3>5. n - i \in T
      BY <3>3, <3>4
    <3>6. at[n] = at[i]
      BY <3>4, <3>5, <1>1
    <3> QED BY <1>6, <2>3, <3>6
  <2>4. S \cap G = {}
    BY <2>3
  <2>5. ASSUME NEW y \in S, h.node[y].next # Nowhere PROVE h.node[y].next \in S
    <3>1. PICK i \in 0 .. n : y = at[i] /\ y # Nowhere
      OBVIOUS
    <3>2. i # n
      BY <1>6, <3>1
    <3>3. i + 1 \in 1 .. n /\ i + 1 \in 0 .. n /\ (i + 1) - 1 = i
      BY <1>1, <3>2
    <3>4. y \notin G
      BY <2>4
    <3>5. at[i + 1] = h.node[y].next
      BY <1>4, <3>1, <3>3, <3>4
    <3> QED BY <2>5, <3>3, <3>5
  <2>6. Onward(h, S)
    BY <2>5 DEF Onward
  <2> HIDE DEF S
  <2> QED BY <1>2, <1>6, <2>1, <2>2, <2>4, <2>6
<1> QED BY <1>5, <1>6

LEMMA NodeIs ==
  ASSUME NEW h, Sound(h), NEW k \in TableKeys
  PROVE  \/ NodeOf(h, k) = Nowhere /\ \A i \in Places(h) : h.node[i].key # k
         \/ NodeOf(h, k) \in Places(h) /\ NodeOf(h, k) # Nowhere /\ h.node[NodeOf(h, k)].key = k
<1> DEFINE p == mainposition(h, k)  G == {i \in Places(h) : h.node[i].key = k}
<1>1. p \in Places(h) /\ Typed(h) /\ k # 0 /\ \E f : Ordered(h, f)
  BY HomeIs, TableAssumption DEF Sound, Typed, Linked
<1>2. Places(h) = DOMAIN h.node
  BY <1>1 DEF Typed
<1>3. NodeOf(h, k) = Walk(h, p, G)
  BY <1>2 DEF NodeOf
<1>4. ASSUME NEW i \in Places(h), h.node[i].key = k PROVE Reaches(h, p, i)
  BY <1>1, <1>4 DEF Sound, Linked
<1> HIDE DEF p, G
<1>5. \/ Walk(h, p, G) \in G \cap Places(h) /\ Walk(h, p, G) # Nowhere
      \/ Walk(h, p, G) = Nowhere /\ \E S \in SUBSET Places(h) : p \in S /\ Onward(h, S) /\ S \cap G = {}
  BY <1>1, WalkEnds
<1>6. CASE Walk(h, p, G) \in G \cap Places(h) /\ Walk(h, p, G) # Nowhere
  BY <1>3, <1>6 DEF G
<1>7. CASE Walk(h, p, G) = Nowhere /\ \E S \in SUBSET Places(h) : p \in S /\ Onward(h, S) /\ S \cap G = {}
  <2>1. PICK S \in SUBSET Places(h) : p \in S /\ Onward(h, S) /\ S \cap G = {}
    BY <1>7
  <2>2. ASSUME NEW i \in Places(h), h.node[i].key = k PROVE FALSE
    <3>1. i \in S
      BY <1>4, <2>1, <2>2 DEF Reaches
    <3>2. i \in G
      BY <2>2 DEF G
    <3> QED BY <2>1, <3>1, <3>2
  <2> QED BY <1>3, <1>7, <2>2
<1> QED BY <1>5, <1>6, <1>7

-----------------------------------------------------------------------------
(* What a table has for a key *)

LEMMA GetIs ==
  ASSUME NEW h, Sound(h), NEW k \in TableKeys
  PROVE  /\ InArray(h, k) => luaH_get(h, k) = h.array[k]
         /\ \A i \in Places(h) : h.node[i].key = k => luaH_get(h, k) = h.node[i].val /\ NodeOf(h, k) = i
         /\ ~InArray(h, k) /\ (\A i \in Places(h) : h.node[i].key # k) => luaH_get(h, k) = 0
<1>1. k # 0 /\ Typed(h) /\ Stored(h)
  BY TableAssumption DEF Sound
<1>2. \/ NodeOf(h, k) = Nowhere /\ \A i \in Places(h) : h.node[i].key # k
      \/ NodeOf(h, k) \in Places(h) /\ NodeOf(h, k) # Nowhere /\ h.node[NodeOf(h, k)].key = k
  BY NodeIs
<1>3. luaH_get(h, k) = IF InArray(h, k) THEN h.array[k]
                       ELSE IF NodeOf(h, k) = Nowhere THEN 0 ELSE h.node[NodeOf(h, k)].val
  BY DEF luaH_get
<1>4. ASSUME NEW i \in Places(h), h.node[i].key = k PROVE NodeOf(h, k) = i /\ ~InArray(h, k) /\ NodeOf(h, k) # Nowhere
  <2>1. ~InArray(h, k)
    BY <1>1, <1>4 DEF Stored
  <2>2. NodeOf(h, k) = i
    BY <1>1, <1>2, <1>4 DEF Stored
  <2> QED BY <1>2, <1>4, <2>1, <2>2
<1> QED BY <1>2, <1>3, <1>4

\* The place before a node that is not in its own.
LEMMA PreviousIs ==
  ASSUME NEW h, Sound(h), NEW mp \in Places(h), h.node[mp].key # 0, mainposition(h, h.node[mp].key) # mp
  PROVE  LET prev == Previous(h, mainposition(h, h.node[mp].key), mp)
         IN  prev \in Places(h) /\ h.node[prev].next = mp
<1> DEFINE p == mainposition(h, h.node[mp].key)  G == {m \in Places(h) : h.node[m].next = mp}
<1>1. Typed(h) /\ h.node[mp].key \in TableKeys /\ \E f : Ordered(h, f)
  BY DEF Sound, Typed, Linked
<1>2. p \in Places(h) /\ Places(h) = DOMAIN h.node
  BY <1>1, HomeIs DEF Typed
<1>3. Previous(h, p, mp) = Walk(h, p, G)
  BY <1>2 DEF Previous
<1>4. Reaches(h, p, mp) /\ p # mp
  BY DEF Sound, Linked
<1> HIDE DEF p, G
<1>5. \/ Walk(h, p, G) \in G \cap Places(h) /\ Walk(h, p, G) # Nowhere
      \/ Walk(h, p, G) = Nowhere /\ \E S \in SUBSET Places(h) : p \in S /\ Onward(h, S) /\ S \cap G = {}
  BY <1>1, <1>2, WalkEnds
<1>6. ASSUME NEW S \in SUBSET Places(h), p \in S, Onward(h, S), S \cap G = {} PROVE FALSE
  <2> DEFINE R == S \ {mp}
  <2>1. R \in SUBSET Places(h) /\ p \in R
    BY <1>4, <1>6
  <2>2. \A y \in R : y \notin G /\ y \in Places(h)
    BY <1>6
  <2>3. Onward(h, R)
    BY <1>6, <2>2 DEF Onward, G
  <2>4. mp \in R
    <3> HIDE DEF R
    <3> QED BY <1>4, <2>1, <2>3 DEF Reaches
  <2> QED BY <2>4
<1>7. Walk(h, p, G) \in G
  BY <1>5, <1>6
<1> QED BY <1>3, <1>7 DEF G, p

\* A free place.
LEMMA FreeIs ==
  ASSUME NEW h, Sound(h)
  PROVE  LET n == getfreepos(h)
         IN  \/ n = Nowhere /\ (h.dummy \/ \A i \in Places(h) : h.node[i].key # 0)
             \/ /\ n # Nowhere /\ ~h.dummy /\ n \in Places(h) /\ h.node[n] = FreeNode
                /\ \A i \in Places(h) : i > n => h.node[i].key # 0
<1> DEFINE l == h.lastfree  free == {m \in 0 .. l - 1 : h.node[m].key = 0}
<1>1. Typed(h) /\ Stored(h)
  BY DEF Sound
<1>2. sizenode(h) \in Nat \ {0} /\ l \in 0 .. sizenode(h) /\ Places(h) = 0 .. sizenode(h) - 1
  BY <1>1 DEF Typed, Places
<1>3. getfreepos(h) = IF h.dummy \/ free = {} THEN Nowhere ELSE Max(free)
  BY DEF getfreepos
<1>4. ASSUME ~h.dummy, NEW i \in Places(h), h.node[i].key = 0 PROVE i \in free
  <2>1. ~(i >= l)
    BY <1>1, <1>4 DEF Stored
  <2> QED BY <1>2, <1>4, <2>1
<1>5. CASE h.dummy \/ free = {}
  BY <1>3, <1>4, <1>5
<1>6. CASE ~h.dummy /\ free # {}
  <2>1. free \in SUBSET (0 .. sizenode(h))
    BY <1>2
  <2>2. Max(free) \in free /\ \A y \in free : Max(free) >= y
    <3> HIDE DEF free
    <3> QED BY <1>2, <1>6, <2>1, MaxIs
  <2>3. Max(free) \in Places(h) /\ h.node[Max(free)].key = 0
    BY <1>2, <2>2
  <2>4. h.node[Max(free)] = FreeNode
    BY <1>1, <2>3 DEF Stored
  <2>5. \A i \in Places(h) : i > Max(free) => h.node[i].key # 0
    <3> HIDE DEF free
    <3> QED BY <1>2, <1>4, <1>6, <2>2, <2>3
  <2>6. Max(free) # Nowhere
    BY <1>2, <2>3 DEF Nowhere
  <2> HIDE DEF free
  <2> QED BY <1>3, <1>6, <2>3, <2>4, <2>5, <2>6
<1> QED BY <1>5, <1>6

-----------------------------------------------------------------------------
(* A key is stored *)

\* Another vector of as many nodes for the same array.
Rewritten(h, g) ==
  /\ g = [array |-> h.array, node |-> g.node, lastfree |-> g.lastfree, dummy |-> h.dummy]
  /\ g.node = [i \in Places(h) |-> g.node[i]] /\ g.lastfree \in 0 .. sizenode(h)
  /\ \A i \in Places(h) : /\ g.node[i] = Node(g.node[i].key, g.node[i].val, g.node[i].next)
                          /\ g.node[i].key \in TableKeys \union {0}
                          /\ g.node[i].next \in Places(h) \union {Nowhere}

LEMMA RewrittenIs ==
  ASSUME NEW h, Typed(h), NEW g, Rewritten(h, g)
  PROVE  /\ Typed(g) /\ sizenode(g) = sizenode(h) /\ sizearray(g) = sizearray(h) /\ Places(g) = Places(h)
         /\ g.array = h.array /\ g.dummy = h.dummy
         /\ \A k : mainposition(g, k) = mainposition(h, k) /\ (InArray(g, k) <=> InArray(h, k))
<1>1. g.array = h.array /\ g.dummy = h.dummy
  BY DEF Rewritten
<1>2. sizearray(g) = sizearray(h)
  BY <1>1 DEF sizearray
<1>3. sizenode(h) \in Nat \ {0} /\ DOMAIN g.node = 0 .. sizenode(h) - 1
  BY DEF Typed, Rewritten, Places
<1>4. sizenode(g) = sizenode(h)
  BY <1>3, SizeIs
<1>5. Places(g) = Places(h)
  BY <1>4 DEF Places
<1>6. \A k : mainposition(g, k) = mainposition(h, k)
  BY <1>4, SameHome
<1>7. \A k : InArray(g, k) <=> InArray(h, k)
  BY <1>2 DEF InArray
<1>8. Typed(g)
  BY <1>1, <1>2, <1>4, <1>5 DEF Typed, Rewritten
<1> QED BY <1>1, <1>2, <1>4, <1>5, <1>6, <1>7, <1>8

\* What a store does to a table.
SameKeys(h, g) == \A i \in Places(h) : g.node[i].key = h.node[i].key
Stores(h, g, k, v) ==
  /\ Sound(g) /\ sizearray(g) = sizearray(h) /\ sizenode(g) = sizenode(h) /\ g.dummy = h.dummy
  /\ \A j \in TableKeys : luaH_get(g, j) = IF j = k THEN v ELSE luaH_get(h, j)
  /\ \A i \in Places(h) : g.node[i].key # 0 => g.node[i].key = k \/ \E m \in Places(h) : h.node[m].key = g.node[i].key

\* The values of the nodes are those they were, but for k's.
Kept(h, g, k, v) ==
  /\ \E i \in Places(h) : g.node[i].key = k /\ g.node[i].val = v
  /\ \A i \in Places(h) : g.node[i].key # k /\ g.node[i].key # 0 =>
        \E m \in Places(h) : h.node[m].key = g.node[i].key /\ h.node[m].val = g.node[i].val
  /\ \A i \in Places(h) : h.node[i].key # k /\ h.node[i].val # 0 =>
        \E m \in Places(h) : g.node[m].key = h.node[i].key /\ g.node[m].val = h.node[i].val

LEMMA KeptIs ==
  ASSUME NEW h, Sound(h), NEW g, Rewritten(h, g), Stored(g), Linked(g),
         NEW k \in TableKeys, NEW v, Kept(h, g, k, v)
  PROVE  Stores(h, g, k, v)
<1>1. Typed(h)
  BY DEF Sound
<1>2. /\ Typed(g) /\ sizenode(g) = sizenode(h) /\ sizearray(g) = sizearray(h) /\ Places(g) = Places(h)
      /\ g.array = h.array /\ g.dummy = h.dummy
      /\ \A j : InArray(g, j) <=> InArray(h, j)
  BY <1>1, RewrittenIs
<1>3. Sound(g)
  BY <1>2 DEF Sound
<1>4. ASSUME NEW j \in TableKeys PROVE luaH_get(g, j) = IF j = k THEN v ELSE luaH_get(h, j)
  <2>0. j # 0
    BY TableAssumption
  <2>1. /\ InArray(h, j) => luaH_get(h, j) = h.array[j]
        /\ \A i \in Places(h) : h.node[i].key = j => luaH_get(h, j) = h.node[i].val
        /\ ~InArray(h, j) /\ (\A i \in Places(h) : h.node[i].key # j) => luaH_get(h, j) = 0
    BY GetIs
  <2>2. /\ InArray(h, j) => luaH_get(g, j) = h.array[j]
        /\ \A i \in Places(h) : g.node[i].key = j => luaH_get(g, j) = g.node[i].val
        /\ ~InArray(h, j) /\ (\A i \in Places(h) : g.node[i].key # j) => luaH_get(g, j) = 0
    BY <1>2, <1>3, GetIs
  <2>3. CASE j = k
    BY <2>2, <2>3 DEF Kept
  <2>4. CASE j # k /\ InArray(h, j)
    BY <2>1, <2>2, <2>4
  <2>5. CASE j # k /\ ~InArray(h, j) /\ \E i \in Places(h) : g.node[i].key = j
    <3>1. PICK i \in Places(h) : g.node[i].key = j
      BY <2>5
    <3>2. PICK m \in Places(h) : h.node[m].key = j /\ h.node[m].val = g.node[i].val
      BY <2>0, <2>5, <3>1 DEF Kept
    <3> QED BY <2>1, <2>2, <2>5, <3>1, <3>2
  <2>6. CASE j # k /\ ~InArray(h, j) /\ \A i \in Places(h) : g.node[i].key # j
    <3>1. luaH_get(g, j) = 0
      BY <2>2, <2>6
    <3>2. ASSUME NEW i \in Places(h), h.node[i].key = j PROVE h.node[i].val = 0
      BY <2>6, <3>2 DEF Kept
    <3>3. luaH_get(h, j) = 0
      BY <2>1, <2>6, <3>2
    <3> QED BY <2>6, <3>1, <3>3
  <2> QED BY <2>3, <2>4, <2>5, <2>6
<1>5. \A i \in Places(h) : g.node[i].key # 0 => g.node[i].key = k \/ \E m \in Places(h) : h.node[m].key = g.node[i].key
  BY DEF Kept
<1> QED BY <1>2, <1>3, <1>4, <1>5 DEF Stores

\* Where nodes lead depends on nothing else.
LEMMA SameWay ==
  ASSUME NEW h, NEW g, Places(g) = Places(h), \A i \in Places(h) : g.node[i].next = h.node[i].next
  PROVE  /\ \A f : Ordered(h, f) => Ordered(g, f)
         /\ \A p, x : Reaches(h, p, x) => Reaches(g, p, x)
<1>1. \A f : Ordered(h, f) => Ordered(g, f)
  BY DEF Ordered
<1>2. \A S \in SUBSET Places(h) : Onward(g, S) => Onward(h, S)
  BY DEF Onward
<1>3. \A p, x : Reaches(h, p, x) => Reaches(g, p, x)
  BY <1>2 DEF Reaches
<1> QED BY <1>1, <1>3

\* The key has a node.
LEMMA StoreNode ==
  ASSUME NEW h, Sound(h), NEW k \in TableKeys, NEW v, ~InArray(h, k), NodeOf(h, k) # Nowhere
  PROVE  Stores(h, Placed(h, k, v), k, v) /\ SameKeys(h, Placed(h, k, v))
<1> DEFINE n == NodeOf(h, k)  g == Placed(h, k, v)
<1>1. Typed(h) /\ Stored(h) /\ Linked(h) /\ k # 0
  BY TableAssumption DEF Sound
<1>2. n \in Places(h) /\ h.node[n].key = k
  BY NodeIs
<1>3. g = [h EXCEPT !.node[n].val = v]
  BY DEF Placed
<1> HIDE DEF n, g
<1>4. /\ g = [array |-> h.array, node |-> g.node, lastfree |-> h.lastfree, dummy |-> h.dummy]
      /\ g.node = [h.node EXCEPT ![n].val = v]
  BY <1>1, <1>3 DEF Typed
<1>5. \A i \in Places(h) : g.node[i] = IF i = n THEN Node(k, v, h.node[n].next) ELSE h.node[i]
  BY <1>1, <1>2, <1>4 DEF Typed, Node
<1>6. g.node = [i \in Places(h) |-> g.node[i]]
  BY <1>1, <1>2, <1>4 DEF Typed
<1>7. \A i \in Places(h) : g.node[i].key = h.node[i].key /\ g.node[i].next = h.node[i].next
  BY <1>1, <1>2, <1>5 DEF Node
<1>8. \A i \in Places(h) : g.node[i].val = IF i = n THEN v ELSE h.node[i].val
  BY <1>1, <1>2, <1>5 DEF Node
<1>9. Rewritten(h, g)
  <2>1. g.lastfree \in 0 .. sizenode(h)
    BY <1>1, <1>4 DEF Typed
  <2>2. \A i \in Places(h) : /\ g.node[i].key \in TableKeys \union {0}
                             /\ g.node[i].next \in Places(h) \union {Nowhere}
    BY <1>1, <1>7 DEF Typed
  <2>3. \A i \in Places(h) : g.node[i] = Node(g.node[i].key, g.node[i].val, g.node[i].next)
    BY <1>1, <1>5, <1>7, <1>8 DEF Typed, Node
  <2> QED BY <1>4, <1>6, <2>1, <2>2, <2>3 DEF Rewritten
<1>10. /\ sizenode(g) = sizenode(h) /\ sizearray(g) = sizearray(h) /\ Places(g) = Places(h)
       /\ g.array = h.array /\ g.dummy = h.dummy /\ g.lastfree = h.lastfree
       /\ \A j : mainposition(g, j) = mainposition(h, j) /\ (InArray(g, j) <=> InArray(h, j))
  BY <1>1, <1>4, <1>9, RewrittenIs
<1>11. Stored(g)
  <2>1. h.dummy => g.node[0] = FreeNode
    BY <1>1, <1>2, <1>5 DEF Stored, FreeNode, Node, Places
  <2>2. \A i \in Places(h) : g.node[i].key = 0 => g.node[i] = FreeNode
    BY <1>1, <1>2, <1>5, <1>7 DEF Stored
  <2>3. \A i \in Places(h) : ~InArray(g, g.node[i].key)
    BY <1>1, <1>7, <1>10 DEF Stored
  <2>4. \A i, j \in Places(h) : g.node[i].key # 0 /\ g.node[i].key = g.node[j].key => i = j
    BY <1>1, <1>7 DEF Stored
  <2>5. ~h.dummy => \A i \in Places(h) : i >= h.lastfree => g.node[i].key # 0
    BY <1>1, <1>7 DEF Stored
  <2> QED BY <1>1, <1>10, <2>1, <2>2, <2>3, <2>4, <2>5 DEF Stored
<1>12. Linked(g)
  <2>1. (\E f : Ordered(g, f)) /\ \A p, x : Reaches(h, p, x) => Reaches(g, p, x)
    BY <1>1, <1>7, <1>10, SameWay DEF Linked
  <2>2. \A i, j \in Places(h) : g.node[i].next # Nowhere /\ g.node[i].next = g.node[j].next => i = j
    BY <1>1, <1>7 DEF Linked
  <2>3. \A i \in Places(h) : g.node[i].next # Nowhere => g.node[g.node[i].next].key # 0
    BY <1>1, <1>7, ZenonT(60) DEF Linked, Typed
  <2>4. ASSUME NEW i \in Places(h), g.node[i].key # 0
        PROVE  LET p == mainposition(g, g.node[i].key)
               IN  g.node[p].key # 0 /\ mainposition(g, g.node[p].key) = p /\ Reaches(g, p, i)
    <3> DEFINE p == mainposition(h, h.node[i].key)
    <3>1. h.node[p].key # 0 /\ mainposition(h, h.node[p].key) = p /\ Reaches(h, p, i)
      BY <1>1, <1>7, <2>4 DEF Linked
    <3>2. p \in Places(h)
      BY <1>1, <1>7, <2>4, HomeIs DEF Typed
    <3>3. mainposition(g, g.node[i].key) = p
      BY <1>7, <1>10
    <3> HIDE DEF p
    <3> QED BY <1>7, <1>10, <2>1, <3>1, <3>2, <3>3
  <2> QED BY <1>10, <2>1, <2>2, <2>3, <2>4 DEF Linked
<1>13. Kept(h, g, k, v)
  BY <1>1, <1>2, <1>7, <1>8 DEF Kept, Stored
<1>14. SameKeys(h, g)
  BY <1>7 DEF SameKeys
<1>15. Stores(h, g, k, v)
  BY <1>9, <1>11, <1>12, <1>13, KeptIs
<1> QED BY <1>14, <1>15 DEF g

\* The key's main position has no value.
LEMMA StoreThere ==
  ASSUME NEW h, Sound(h), NEW k \in TableKeys, NEW v, ~InArray(h, k), NodeOf(h, k) = Nowhere, Usable(h, k)
  PROVE  Stores(h, Placed(h, k, v), k, v)
<1> DEFINE n == mainposition(h, k)  g == Placed(h, k, v)
<1>1. Typed(h) /\ Stored(h) /\ Linked(h) /\ k # 0
  BY TableAssumption DEF Sound
<1>2. n \in Places(h) /\ h.node[n].val = 0 /\ ~h.dummy
  BY <1>1, HomeIs DEF Usable, Typed
<1>a. \A i \in Places(h) : h.node[i].key # k
  BY NodeIs
<1>3. g = [h EXCEPT !.node[n] = Node(k, v, @.next)]
  BY DEF Placed, newkey
<1>b. mainposition(h, k) = n
  OBVIOUS
<1> HIDE DEF n, g
<1>4. /\ g = [array |-> h.array, node |-> g.node, lastfree |-> h.lastfree, dummy |-> h.dummy]
      /\ g.node = [h.node EXCEPT ![n] = Node(k, v, @.next)]
  BY <1>1, <1>3 DEF Typed
<1>5. \A i \in Places(h) : g.node[i] = IF i = n THEN Node(k, v, h.node[n].next) ELSE h.node[i]
  BY <1>1, <1>2, <1>4 DEF Typed
<1>6. g.node = [i \in Places(h) |-> g.node[i]]
  BY <1>1, <1>2, <1>4 DEF Typed
<1>7. \A i \in Places(h) : g.node[i].key = (IF i = n THEN k ELSE h.node[i].key) /\ g.node[i].next = h.node[i].next
  BY <1>1, <1>2, <1>5 DEF Node
<1>8. \A i \in Places(h) : g.node[i].val = IF i = n THEN v ELSE h.node[i].val
  BY <1>1, <1>2, <1>5 DEF Node
<1>9. Rewritten(h, g)
  <2>1. g.lastfree \in 0 .. sizenode(h)
    BY <1>1, <1>4 DEF Typed
  <2>2. \A i \in Places(h) : /\ g.node[i].key \in TableKeys \union {0}
                             /\ g.node[i].next \in Places(h) \union {Nowhere}
    BY <1>1, <1>7 DEF Typed
  <2>3. \A i \in Places(h) : g.node[i] = Node(g.node[i].key, g.node[i].val, g.node[i].next)
    BY <1>1, <1>5, <1>7, <1>8, ZenonT(60) DEF Typed, Node
  <2> QED BY <1>4, <1>6, <2>1, <2>2, <2>3 DEF Rewritten
<1>10. /\ sizenode(g) = sizenode(h) /\ sizearray(g) = sizearray(h) /\ Places(g) = Places(h)
       /\ g.array = h.array /\ g.dummy = h.dummy /\ g.lastfree = h.lastfree
       /\ \A j : mainposition(g, j) = mainposition(h, j) /\ (InArray(g, j) <=> InArray(h, j))
  BY <1>1, <1>4, <1>9, RewrittenIs
<1>11. Stored(g)
  <2>2. \A i \in Places(h) : g.node[i].key = 0 => g.node[i] = FreeNode
    BY <1>1, <1>2, <1>5, <1>7 DEF Stored
  <2>3. \A i \in Places(h) : ~InArray(g, g.node[i].key)
    BY <1>1, <1>7, <1>10 DEF Stored
  <2>4. \A i, j \in Places(h) : g.node[i].key # 0 /\ g.node[i].key = g.node[j].key => i = j
    BY <1>1, <1>7, <1>a DEF Stored
  <2>5. \A i \in Places(h) : i >= h.lastfree => g.node[i].key # 0
    BY <1>1, <1>2, <1>7 DEF Stored
  <2> QED BY <1>1, <1>2, <1>10, <2>2, <2>3, <2>4, <2>5 DEF Stored
<1>12. Linked(g)
  <2>1. (\E f : Ordered(g, f)) /\ \A p, x : Reaches(h, p, x) => Reaches(g, p, x)
    BY <1>1, <1>7, <1>10, SameWay DEF Linked
  <2>2. \A i, j \in Places(h) : g.node[i].next # Nowhere /\ g.node[i].next = g.node[j].next => i = j
    BY <1>1, <1>7 DEF Linked
  <2>3. \A i \in Places(h) : g.node[i].next # Nowhere => g.node[g.node[i].next].key # 0
    BY <1>1, <1>7, ZenonT(60) DEF Linked, Typed
  <2>4. ASSUME NEW i \in Places(h), g.node[i].key # 0
        PROVE  LET p == mainposition(g, g.node[i].key)
               IN  g.node[p].key # 0 /\ mainposition(g, g.node[p].key) = p /\ Reaches(g, p, i)
    <3>1. CASE i = n
      <4>1. mainposition(g, g.node[i].key) = n /\ g.node[n].key = k
        BY <1>2, <1>7, <1>10, <1>b, <3>1
      <4>2. Reaches(g, n, i)
        BY <3>1 DEF Reaches
      <4> QED BY <1>1, <3>1, <4>1, <4>2
    <3>2. CASE i # n
      <4> DEFINE p == mainposition(h, h.node[i].key)
      <4>0. h.node[i].key # 0
        BY <1>7, <2>4, <3>2
      <4>1. h.node[p].key # 0 /\ mainposition(h, h.node[p].key) = p /\ Reaches(h, p, i)
        BY <1>1, <4>0 DEF Linked
      <4>2. p \in Places(h)
        BY <1>1, <4>0, HomeIs DEF Typed
      <4>3. mainposition(g, g.node[i].key) = p
        BY <1>7, <1>10, <3>2
      <4> HIDE DEF p
      <4>4. g.node[p].key # 0 /\ mainposition(h, g.node[p].key) = p
        BY <1>1, <1>7, <1>b, <4>1, <4>2
      <4> QED BY <1>10, <2>1, <4>1, <4>2, <4>3, <4>4
    <3> QED BY <3>1, <3>2
  <2> QED BY <1>10, <2>1, <2>2, <2>3, <2>4 DEF Linked
<1>13. Kept(h, g, k, v)
  BY <1>2, <1>7, <1>8 DEF Kept
<1>15. Stores(h, g, k, v)
  BY <1>9, <1>11, <1>12, <1>13, KeptIs
<1> QED BY <1>15 DEF g

\* The key's main position is that of the key there.
LEMMA StoreBehind ==
  ASSUME NEW h, Sound(h), NEW k \in TableKeys, NEW v, ~InArray(h, k), NodeOf(h, k) = Nowhere, ~Usable(h, k),
         getfreepos(h) # Nowhere, mainposition(h, h.node[mainposition(h, k)].key) = mainposition(h, k)
  PROVE  Stores(h, Placed(h, k, v), k, v)
<1> DEFINE mp == mainposition(h, k)  n == getfreepos(h)  g == Placed(h, k, v)
<1>1. Typed(h) /\ Stored(h) /\ Linked(h) /\ k # 0
  BY TableAssumption DEF Sound
<1>2. /\ n # Nowhere /\ ~h.dummy /\ n \in Places(h) /\ h.node[n] = FreeNode
      /\ \A i \in Places(h) : i > n => h.node[i].key # 0
  BY FreeIs
<1>a. \A i \in Places(h) : h.node[i].key # k
  BY NodeIs
<1>b. mp \in Places(h) /\ h.node[mp].val # 0
  BY <1>1, <1>2, HomeIs DEF Usable, Typed
<1>c. h.node[mp].key # 0 /\ mp # n /\ h.node[n].key = 0 /\ h.node[n].next = Nowhere
  BY <1>1, <1>2, <1>b DEF Stored, FreeNode, Node
<1>d. mainposition(h, k) = mp /\ mainposition(h, h.node[mp].key) = mp
  OBVIOUS
<1>3. g = [h EXCEPT !.node = [@ EXCEPT ![n] = Node(k, v, h.node[mp].next), ![mp].next = n], !.lastfree = n]
  BY DEF Placed, newkey, Collide
<1> HIDE DEF n, g, mp
<1>4. /\ g = [array |-> h.array, node |-> g.node, lastfree |-> n, dummy |-> h.dummy]
      /\ g.node = [h.node EXCEPT ![n] = Node(k, v, h.node[mp].next), ![mp].next = n]
  BY <1>1, <1>3 DEF Typed
<1>5. \A i \in Places(h) : g.node[i] = IF i = n THEN Node(k, v, h.node[mp].next)
                                       ELSE IF i = mp THEN Node(h.node[mp].key, h.node[mp].val, n)
                                       ELSE h.node[i]
  BY <1>1, <1>2, <1>4, <1>b, <1>c DEF Typed, Node
<1>6. g.node = [i \in Places(h) |-> g.node[i]]
  BY <1>1, <1>2, <1>4 DEF Typed
<1>7. \A i \in Places(h) : /\ g.node[i].key = IF i = n THEN k ELSE h.node[i].key
                           /\ g.node[i].val = IF i = n THEN v ELSE h.node[i].val
                           /\ g.node[i].next = IF i = n THEN h.node[mp].next ELSE IF i = mp THEN n ELSE h.node[i].next
  BY <1>1, <1>2, <1>5, SMTT(60) DEF Node
<1>9. Rewritten(h, g)
  <2>1. n \in 0 .. sizenode(h)
    BY <1>1, <1>2 DEF Typed, Places
  <2>2. \A i \in Places(h) : /\ g.node[i].key \in TableKeys \union {0}
                             /\ g.node[i].next \in Places(h) \union {Nowhere}
    BY <1>1, <1>2, <1>7, <1>b DEF Typed
  <2>3. \A i \in Places(h) : g.node[i] = Node(g.node[i].key, g.node[i].val, g.node[i].next)
    <3> TAKE i \in Places(h)
    <3>1. CASE i = n
      BY <1>5, <1>7, <3>1
    <3>2. CASE i = mp /\ i # n
      BY <1>5, <1>7, <3>2
    <3>3. CASE i # mp /\ i # n
      <4>1. g.node[i] = h.node[i]
        BY <1>5, <3>3
      <4> QED BY <1>1, <4>1 DEF Typed
    <3> QED BY <3>1, <3>2, <3>3
  <2> QED BY <1>4, <1>6, <2>1, <2>2, <2>3 DEF Rewritten
<1>10. /\ sizenode(g) = sizenode(h) /\ sizearray(g) = sizearray(h) /\ Places(g) = Places(h)
       /\ g.array = h.array /\ g.dummy = h.dummy /\ g.lastfree = n
       /\ \A j : mainposition(g, j) = mainposition(h, j) /\ (InArray(g, j) <=> InArray(h, j))
  BY <1>1, <1>4, <1>9, RewrittenIs
<1>11. Stored(g)
  <2>2. \A i \in Places(h) : g.node[i].key = 0 => g.node[i] = FreeNode
    BY <1>1, <1>2, <1>5, <1>7, <1>c DEF Stored
  <2>3. \A i \in Places(h) : ~InArray(g, g.node[i].key)
    BY <1>1, <1>7, <1>10 DEF Stored
  <2>4. \A i, j \in Places(h) : g.node[i].key # 0 /\ g.node[i].key = g.node[j].key => i = j
    BY <1>1, <1>7, <1>a DEF Stored
  <2>5. \A i \in Places(h) : i >= n => g.node[i].key # 0
    BY <1>1, <1>2, <1>7, SMTT(60) DEF Places, Typed
  <2> QED BY <1>1, <1>2, <1>10, <2>2, <2>3, <2>4, <2>5 DEF Stored
<1>e. \A i \in Places(h) : h.node[i].next # n
  BY <1>1, <1>2, <1>c DEF Linked
<1>12. ASSUME NEW p, NEW x, Reaches(h, p, x) PROVE Reaches(g, p, x)
  <2>1. ASSUME NEW S \in SUBSET Places(h), Onward(g, S) PROVE Onward(h, S)
    <3>1. ASSUME NEW y \in S, h.node[y].next # Nowhere PROVE h.node[y].next \in S
      <4>1. y \in Places(h) /\ y # n
        BY <1>c, <3>1
      <4>2. CASE y = mp
        <5>1. g.node[mp].next = n
          BY <1>7, <1>c, <4>1, <4>2
        <5>2. n \in S
          BY <1>2, <2>1, <4>2, <5>1 DEF Onward
        <5>3. g.node[n].next = h.node[mp].next
          BY <1>2, <1>7
        <5> QED BY <2>1, <3>1, <4>2, <5>2, <5>3 DEF Onward
      <4>3. CASE y # mp
        BY <1>7, <2>1, <3>1, <4>1, <4>3 DEF Onward
      <4> QED BY <4>2, <4>3
    <3> QED BY <3>1 DEF Onward
  <2> QED BY <1>10, <1>12, <2>1 DEF Reaches
<1>13. Reaches(g, mp, n)
  <2>1. g.node[mp].next = n
    BY <1>7, <1>b, <1>c
  <2> QED BY <1>2, <2>1 DEF Reaches, Onward
<1>14. \E f : Ordered(g, f)
  <2>1. PICK f : Ordered(h, f)
    BY <1>1 DEF Linked
  <2> DEFINE e == [i \in Places(h) |-> IF i = n THEN 2 * f[mp] ELSE 2 * f[i] + 1]
  <2>2. \A i \in Places(h) : f[i] \in Nat
    BY <2>1 DEF Ordered
  <2>3. e \in [Places(h) -> Nat]
    BY <1>b, <2>2
  <2>4. ASSUME NEW i \in Places(h), g.node[i].next # Nowhere PROVE e[g.node[i].next] < e[i]
    <3>1. g.node[i].next \in Places(h)
      BY <1>9, <2>4 DEF Rewritten
    <3>2. CASE i = n
      <4> DEFINE z == h.node[mp].next
      <4>1. g.node[i].next = z /\ z # Nowhere /\ z # n /\ z \in Places(h)
        BY <1>7, <1>b, <1>e, <2>4, <3>1, <3>2
      <4>2. f[z] < f[mp]
        BY <1>b, <2>1, <4>1 DEF Ordered
      <4>3. e[z] = 2 * f[z] + 1 /\ e[i] = 2 * f[mp]
        BY <1>2, <3>2, <4>1
      <4>4. f[z] \in Nat /\ f[mp] \in Nat
        BY <1>b, <2>2, <4>1
      <4> HIDE DEF z, e
      <4> QED BY <4>1, <4>2, <4>3, <4>4
    <3>3. CASE i = mp
      <4>1. g.node[i].next = n
        BY <1>7, <1>c, <3>3
      <4>2. e[n] = 2 * f[mp] /\ e[i] = 2 * f[mp] + 1
        BY <1>2, <1>b, <1>c, <3>3
      <4>3. f[mp] \in Nat
        BY <1>b, <2>2
      <4> HIDE DEF e
      <4> QED BY <4>1, <4>2, <4>3
    <3>4. CASE i # n /\ i # mp
      <4> DEFINE z == h.node[i].next
      <4>1. g.node[i].next = z /\ z # Nowhere /\ z # n /\ z \in Places(h)
        BY <1>7, <1>e, <2>4, <3>1, <3>4
      <4>2. f[z] < f[i]
        BY <2>1, <4>1 DEF Ordered
      <4>3. e[z] = 2 * f[z] + 1 /\ e[i] = 2 * f[i] + 1
        BY <3>4, <4>1
      <4>4. f[z] \in Nat /\ f[i] \in Nat
        BY <2>2, <4>1
      <4> HIDE DEF z, e
      <4> QED BY <4>1, <4>2, <4>3, <4>4
    <3> QED BY <3>2, <3>3, <3>4
  <2> HIDE DEF e
  <2>5. Ordered(g, e)
    BY <1>10, <2>3, <2>4 DEF Ordered
  <2> QED BY <2>5
<1>15. Linked(g)
  <2>2. \A i, j \in Places(h) : g.node[i].next # Nowhere /\ g.node[i].next = g.node[j].next => i = j
    BY <1>1, <1>7, <1>b, <1>c, <1>e DEF Linked
  <2>3. \A i \in Places(h) : g.node[i].next # Nowhere => g.node[g.node[i].next].key # 0
    <3> TAKE i \in Places(h)
    <3>1. CASE i = mp
      BY <1>1, <1>2, <1>7, <1>c, <3>1
    <3>2. CASE i # mp
      <4>1. PICK m \in Places(h) : g.node[i].next = h.node[m].next
        BY <1>7, <1>b, <3>2
      <4>2. h.node[m].next # Nowhere => h.node[m].next \in Places(h) /\ h.node[h.node[m].next].key # 0
        BY <1>1 DEF Linked, Typed
      <4>3. ASSUME NEW z \in Places(h), h.node[z].key # 0 PROVE g.node[z].key # 0
        BY <1>1, <1>7, <4>3
      <4> QED BY <4>1, <4>2, <4>3
    <3> QED BY <3>1, <3>2
  <2>4. ASSUME NEW i \in Places(h), g.node[i].key # 0
        PROVE  LET p == mainposition(g, g.node[i].key)
               IN  g.node[p].key # 0 /\ mainposition(g, g.node[p].key) = p /\ Reaches(g, p, i)
    <3>1. CASE i = n
      <4>1. mainposition(g, g.node[i].key) = mp /\ g.node[mp].key = h.node[mp].key
        BY <1>2, <1>7, <1>10, <1>b, <1>c, <1>d, <3>1
      <4> QED BY <1>10, <1>13, <1>c, <1>d, <3>1, <4>1
    <3>2. CASE i # n
      <4> DEFINE p == mainposition(h, h.node[i].key)
      <4>0. h.node[i].key # 0
        BY <1>7, <2>4, <3>2
      <4>1. h.node[p].key # 0 /\ mainposition(h, h.node[p].key) = p /\ Reaches(h, p, i)
        BY <1>1, <4>0 DEF Linked
      <4>2. p \in Places(h)
        BY <1>1, <4>0, HomeIs DEF Typed
      <4>3. mainposition(g, g.node[i].key) = p
        BY <1>7, <1>10, <3>2
      <4> HIDE DEF p
      <4>4. g.node[p].key # 0 /\ mainposition(h, g.node[p].key) = p
        BY <1>7, <1>c, <4>1, <4>2
      <4> QED BY <1>10, <1>12, <4>1, <4>2, <4>3, <4>4
    <3> QED BY <3>1, <3>2
  <2> QED BY <1>10, <1>14, <2>2, <2>3, <2>4 DEF Linked
<1>16. Kept(h, g, k, v)
  <2>1. g.node[n].key = k /\ g.node[n].val = v
    BY <1>2, <1>7
  <2>2. ASSUME NEW i \in Places(h), g.node[i].key # k
        PROVE  h.node[i].key = g.node[i].key /\ h.node[i].val = g.node[i].val
    BY <1>7, <2>2
  <2>3. h.node[n].val = 0
    BY <1>2 DEF FreeNode, Node
  <2>4. ASSUME NEW i \in Places(h), h.node[i].val # 0
        PROVE  g.node[i].key = h.node[i].key /\ g.node[i].val = h.node[i].val
    BY <1>7, <2>3, <2>4
  <2> QED BY <1>2, <2>1, <2>2, <2>4 DEF Kept
<1>17. Stores(h, g, k, v)
  BY <1>9, <1>11, <1>15, <1>16, KeptIs
<1> QED BY <1>17 DEF g

\* The key's main position is taken by a key that is not in its own, which moves.
LEMMA StoreInstead ==
  ASSUME NEW h, Sound(h), NEW k \in TableKeys, NEW v, ~InArray(h, k), NodeOf(h, k) = Nowhere, ~Usable(h, k),
         getfreepos(h) # Nowhere, mainposition(h, h.node[mainposition(h, k)].key) # mainposition(h, k)
  PROVE  Stores(h, Placed(h, k, v), k, v)
<1> DEFINE mp == mainposition(h, k)  n == getfreepos(h)  g == Placed(h, k, v)
           other == mainposition(h, h.node[mp].key)  prev == Previous(h, other, mp)
<1>1. Typed(h) /\ Stored(h) /\ Linked(h) /\ k # 0
  BY TableAssumption DEF Sound
<1>2. /\ n # Nowhere /\ ~h.dummy /\ n \in Places(h) /\ h.node[n] = FreeNode
      /\ \A i \in Places(h) : i > n => h.node[i].key # 0
  BY FreeIs
<1>a. \A i \in Places(h) : h.node[i].key # k
  BY NodeIs
<1>b. mp \in Places(h) /\ h.node[mp].val # 0
  BY <1>1, <1>2, HomeIs DEF Usable, Typed
<1>c. h.node[mp].key # 0 /\ mp # n /\ h.node[n].key = 0 /\ h.node[n].next = Nowhere
  BY <1>1, <1>2, <1>b DEF Stored, FreeNode, Node
<1>d. mainposition(h, k) = mp /\ mainposition(h, h.node[mp].key) # mp
  OBVIOUS
<1>f. prev \in Places(h) /\ h.node[prev].next = mp
  BY <1>b, <1>c, <1>d, PreviousIs
<1>3. g = [h EXCEPT !.node = [@ EXCEPT ![prev].next = n, ![n] = h.node[mp], ![mp] = Node(k, v, Nowhere)],
                    !.lastfree = n]
  BY DEF Placed, newkey, Collide
<1> HIDE DEF n, g, mp, prev, other
<1>g. prev # n /\ mp # Nowhere
  BY <1>b, <1>c, <1>f DEF Nowhere, Places
<1>h. prev # mp /\ h.node[mp].next # mp
  <2>1. PICK f : Ordered(h, f)
    BY <1>1 DEF Linked
  <2>2. f[mp] < f[prev] /\ f[mp] \in Nat
    BY <1>b, <1>f, <1>g, <2>1 DEF Ordered
  <2>3. h.node[mp].next # Nowhere => f[h.node[mp].next] < f[mp]
    BY <1>b, <2>1 DEF Ordered
  <2> QED BY <1>g, <2>2, <2>3
<1>4. /\ g = [array |-> h.array, node |-> g.node, lastfree |-> n, dummy |-> h.dummy]
      /\ g.node = [h.node EXCEPT ![prev].next = n, ![n] = h.node[mp], ![mp] = Node(k, v, Nowhere)]
  BY <1>1, <1>3 DEF Typed
<1>5. \A i \in Places(h) : g.node[i] = IF i = mp THEN Node(k, v, Nowhere)
                                       ELSE IF i = n THEN h.node[mp]
                                       ELSE IF i = prev THEN Node(h.node[prev].key, h.node[prev].val, n)
                                       ELSE h.node[i]
  BY <1>1, <1>2, <1>4, <1>b, <1>c, <1>f, <1>g, <1>h, ZenonT(60) DEF Typed, Node
<1>6. g.node = [i \in Places(h) |-> g.node[i]]
  BY <1>1, <1>2, <1>4 DEF Typed
<1>7. \A i \in Places(h) : /\ g.node[i].key = IF i = mp THEN k ELSE IF i = n THEN h.node[mp].key ELSE h.node[i].key
                           /\ g.node[i].val = IF i = mp THEN v ELSE IF i = n THEN h.node[mp].val ELSE h.node[i].val
                           /\ g.node[i].next = IF i = mp THEN Nowhere ELSE IF i = n THEN h.node[mp].next
                                               ELSE IF i = prev THEN n ELSE h.node[i].next
  BY <1>1, <1>2, <1>5, <1>c, <1>g DEF Node
<1>9. Rewritten(h, g)
  <2>1. n \in 0 .. sizenode(h)
    BY <1>1, <1>2 DEF Typed, Places
  <2>2. \A i \in Places(h) : /\ g.node[i].key \in TableKeys \union {0}
                             /\ g.node[i].next \in Places(h) \union {Nowhere}
    BY <1>1, <1>2, <1>7, <1>b DEF Typed
  <2>3. \A i \in Places(h) : g.node[i] = Node(g.node[i].key, g.node[i].val, g.node[i].next)
    <3> TAKE i \in Places(h)
    <3>1. CASE i = mp
      BY <1>5, <1>7, <3>1
    <3>2. CASE i = n
      <4>1. g.node[i] = h.node[mp]
        BY <1>5, <1>c, <3>2
      <4> QED BY <1>1, <1>b, <4>1 DEF Typed
    <3>3. CASE i = prev
      BY <1>5, <1>7, <1>g, <1>h, <3>3
    <3>4. CASE i # mp /\ i # n /\ i # prev
      <4>1. g.node[i] = h.node[i]
        BY <1>5, <3>4
      <4> QED BY <1>1, <4>1 DEF Typed
    <3> QED BY <3>1, <3>2, <3>3, <3>4
  <2> QED BY <1>4, <1>6, <2>1, <2>2, <2>3 DEF Rewritten
<1>10. /\ sizenode(g) = sizenode(h) /\ sizearray(g) = sizearray(h) /\ Places(g) = Places(h)
       /\ g.array = h.array /\ g.dummy = h.dummy /\ g.lastfree = n
       /\ \A j : mainposition(g, j) = mainposition(h, j) /\ (InArray(g, j) <=> InArray(h, j))
  BY <1>1, <1>4, <1>9, RewrittenIs
<1>11. Stored(g)
  <2>2. \A i \in Places(h) : g.node[i].key = 0 => g.node[i] = FreeNode
    BY <1>1, <1>2, <1>5, <1>7, <1>c, <1>g, <1>f DEF Stored, Linked, FreeNode, Node
  <2>3. \A i \in Places(h) : ~InArray(g, g.node[i].key)
    BY <1>1, <1>7, <1>10, <1>b DEF Stored
  <2>4. \A i, j \in Places(h) : g.node[i].key # 0 /\ g.node[i].key = g.node[j].key => i = j
    BY <1>1, <1>7, <1>a, <1>b DEF Stored
  <2>5. \A i \in Places(h) : i >= n => g.node[i].key # 0
    BY <1>1, <1>2, <1>7, <1>c, SMTT(60) DEF Places, Typed
  <2> QED BY <1>1, <1>2, <1>10, <2>2, <2>3, <2>4, <2>5 DEF Stored
<1>e. \A i \in Places(h) : h.node[i].next # n /\ (h.node[i].next = mp => i = prev)
  BY <1>1, <1>2, <1>c, <1>f, <1>g DEF Linked
\* Who was reached is reached where it is now.
<1>12. ASSUME NEW p, p # mp, NEW x \in Places(h), Reaches(h, p, x)
       PROVE  Reaches(g, p, IF x = mp THEN n ELSE x)
  <2>1. ASSUME NEW S \in SUBSET Places(h), Onward(g, S), p \in S PROVE (IF x = mp THEN n ELSE x) \in S
    <3> DEFINE R == (S \ {mp}) \union (IF n \in S THEN {mp} ELSE {})
    <3>1. R \in SUBSET Places(h) /\ p \in R
      BY <1>12, <1>b, <2>1
    <3>2. ASSUME NEW y \in R, h.node[y].next # Nowhere PROVE h.node[y].next \in R
      <4> DEFINE z == h.node[y].next
      <4>1. y \in Places(h) /\ y # n /\ z \in Places(h) /\ z # n
        BY <1>1, <1>c, <1>e, <3>1, <3>2 DEF Typed
      <4>2. CASE y = mp
        <5>1. n \in S
          BY <3>2, <4>2
        <5>2. g.node[n].next = z
          BY <1>2, <1>7, <1>c, <4>2
        <5>3. z \in S /\ z # mp
          BY <1>h, <2>1, <3>2, <4>2, <5>1, <5>2 DEF Onward
        <5> QED BY <5>3
      <4>3. CASE y = prev
        <5>1. y \in S /\ z = mp
          BY <1>f, <1>h, <3>2, <4>3
        <5>2. g.node[y].next = n
          BY <1>7, <1>f, <1>g, <1>h, <4>3
        <5>3. n \in S
          BY <1>2, <2>1, <5>1, <5>2 DEF Onward
        <5> QED BY <5>1, <5>3
      <4>4. CASE y # mp /\ y # prev
        <5>1. y \in S /\ z # mp
          BY <1>e, <3>2, <4>1, <4>4
        <5>2. g.node[y].next = z
          BY <1>7, <4>1, <4>4
        <5>3. z \in S
          BY <2>1, <3>2, <5>1, <5>2 DEF Onward
        <5> QED BY <5>1, <5>3
      <4> QED BY <4>2, <4>3, <4>4
    <3>3. Onward(h, R)
      BY <3>2 DEF Onward
    <3>4. x \in R
      <4> HIDE DEF R
      <4> QED BY <1>12, <3>1, <3>3 DEF Reaches
    <3> QED BY <3>4
  <2> QED BY <1>10, <2>1 DEF Reaches
<1>14. \E f : Ordered(g, f)
  <2>1. PICK f : Ordered(h, f)
    BY <1>1 DEF Linked
  <2> DEFINE e == [i \in Places(h) |-> IF i = n THEN f[mp] ELSE f[i]]
  <2>2. \A i \in Places(h) : f[i] \in Nat
    BY <2>1 DEF Ordered
  <2>3. e \in [Places(h) -> Nat]
    BY <1>b, <2>2
  <2>4. ASSUME NEW i \in Places(h), g.node[i].next # Nowhere PROVE e[g.node[i].next] < e[i]
    <3>0. i # mp
      BY <1>7, <2>4
    <3>1. g.node[i].next \in Places(h)
      BY <1>9, <2>4 DEF Rewritten
    <3>2. CASE i = n
      <4> DEFINE z == h.node[mp].next
      <4>1. g.node[i].next = z /\ z # Nowhere /\ z # n /\ z \in Places(h)
        BY <1>7, <1>b, <1>c, <1>e, <2>4, <3>1, <3>2
      <4>2. f[z] < f[mp]
        BY <1>b, <2>1, <4>1 DEF Ordered
      <4>3. e[z] = f[z] /\ e[i] = f[mp]
        BY <1>2, <3>2, <4>1
      <4> HIDE DEF z, e
      <4> QED BY <4>1, <4>2, <4>3
    <3>3. CASE i = prev
      <4>1. g.node[i].next = n
        BY <1>7, <1>g, <1>h, <3>3
      <4>2. e[n] = f[mp] /\ e[i] = f[prev]
        BY <1>2, <1>f, <1>g, <3>3
      <4>3. f[mp] < f[prev]
        BY <1>f, <1>g, <2>1 DEF Ordered
      <4> HIDE DEF e
      <4> QED BY <4>1, <4>2, <4>3
    <3>4. CASE i # n /\ i # prev
      <4> DEFINE z == h.node[i].next
      <4>1. g.node[i].next = z /\ z # Nowhere /\ z # n /\ z \in Places(h)
        BY <1>7, <1>e, <2>4, <3>0, <3>1, <3>4
      <4>2. f[z] < f[i]
        BY <2>1, <4>1 DEF Ordered
      <4>3. e[z] = f[z] /\ e[i] = f[i]
        BY <3>4, <4>1
      <4> HIDE DEF z, e
      <4> QED BY <4>1, <4>2, <4>3
    <3> QED BY <3>2, <3>3, <3>4
  <2> HIDE DEF e
  <2>5. Ordered(g, e)
    BY <1>10, <2>3, <2>4 DEF Ordered
  <2> QED BY <2>5
<1>15. Linked(g)
  <2>2. \A i, j \in Places(h) : g.node[i].next # Nowhere /\ g.node[i].next = g.node[j].next => i = j
    BY <1>1, <1>7, <1>b, <1>c, <1>e, <1>f, <1>h DEF Linked
  <2>3. \A i \in Places(h) : g.node[i].next # Nowhere => g.node[g.node[i].next].key # 0
    <3> TAKE i \in Places(h)
    <3>1. CASE i = prev
      BY <1>1, <1>2, <1>7, <1>c, <1>g, <1>h, <3>1
    <3>2. CASE i # prev /\ i # mp
      <4>1. PICK m \in Places(h) : g.node[i].next = h.node[m].next
        BY <1>7, <1>b, <3>2
      <4>2. h.node[m].next # Nowhere => h.node[m].next \in Places(h) /\ h.node[h.node[m].next].key # 0
        BY <1>1 DEF Linked, Typed
      <4>3. ASSUME NEW z \in Places(h), h.node[z].key # 0 PROVE g.node[z].key # 0
        BY <1>1, <1>7, <1>c, <4>3
      <4> QED BY <4>1, <4>2, <4>3
    <3>3. CASE i = mp
      BY <1>7, <3>3
    <3> QED BY <3>1, <3>2, <3>3
  <2>5. \A i \in Places(h) : h.node[i].key # 0 => mainposition(h, h.node[i].key) # mp
    BY <1>1, <1>d DEF Linked
  <2>6. ASSUME NEW m \in Places(h), h.node[m].key # 0
        PROVE  LET p == mainposition(h, h.node[m].key)
               IN  /\ g.node[p].key # 0 /\ mainposition(h, g.node[p].key) = p
                   /\ Reaches(g, p, IF m = mp THEN n ELSE m)
    <3> DEFINE p == mainposition(h, h.node[m].key)
    <3>1. h.node[p].key # 0 /\ mainposition(h, h.node[p].key) = p /\ Reaches(h, p, m)
      BY <1>1, <2>6 DEF Linked
    <3>2. p \in Places(h) /\ p # mp
      BY <1>1, <2>5, <2>6, HomeIs DEF Typed
    <3> HIDE DEF p
    <3>3. p # n
      BY <1>c, <3>1
    <3>4. g.node[p].key = h.node[p].key
      BY <1>7, <3>2, <3>3
    <3>5. Reaches(g, p, IF m = mp THEN n ELSE m)
      BY <1>12, <3>1, <3>2
    <3> QED BY <3>1, <3>4, <3>5 DEF p
  <2>4. ASSUME NEW i \in Places(h), g.node[i].key # 0
        PROVE  LET p == mainposition(g, g.node[i].key)
               IN  g.node[p].key # 0 /\ mainposition(g, g.node[p].key) = p /\ Reaches(g, p, i)
    <3>1. CASE i = mp
      <4>1. g.node[mp].key = k
        BY <1>7, <1>b
      <4>2. Reaches(g, mp, mp)
        BY DEF Reaches
      <4> QED BY <1>1, <1>10, <1>d, <3>1, <4>1, <4>2
    <3>2. CASE i # mp
      <4>1. PICK m \in Places(h) : g.node[i].key = h.node[m].key /\ i = (IF m = mp THEN n ELSE m)
        BY <1>7, <1>b, <1>c, <3>2
      <4>2. h.node[m].key # 0
        BY <2>4, <4>1
      <4>3. mainposition(g, g.node[i].key) = mainposition(h, h.node[m].key)
        BY <1>10, <4>1
      <4> DEFINE p == mainposition(h, h.node[m].key)
      <4>4. g.node[p].key # 0 /\ mainposition(h, g.node[p].key) = p /\ Reaches(g, p, i)
        BY <2>6, <4>1, <4>2
      <4> HIDE DEF p
      <4> QED BY <1>10, <4>3, <4>4 DEF p
    <3> QED BY <3>1, <3>2
  <2> QED BY <1>10, <1>14, <2>2, <2>3, <2>4 DEF Linked
<1>16. Kept(h, g, k, v)
  <2>1. g.node[mp].key = k /\ g.node[mp].val = v /\ g.node[n].key = h.node[mp].key /\ g.node[n].val = h.node[mp].val
    BY <1>2, <1>7, <1>b, <1>c
  <2>2. ASSUME NEW i \in Places(h), g.node[i].key # k
        PROVE  \E m \in Places(h) : h.node[m].key = g.node[i].key /\ h.node[m].val = g.node[i].val
    <3>1. CASE i = n
      BY <1>b, <2>1, <3>1
    <3>2. CASE i # n
      BY <1>7, <2>2, <3>2
    <3> QED BY <3>1, <3>2
  <2>3. h.node[n].val = 0
    BY <1>2 DEF FreeNode, Node
  <2>4. ASSUME NEW i \in Places(h), h.node[i].val # 0
        PROVE  \E m \in Places(h) : g.node[m].key = h.node[i].key /\ g.node[m].val = h.node[i].val
    <3>1. CASE i = mp
      BY <1>2, <2>1, <3>1
    <3>2. CASE i # mp
      BY <1>7, <2>3, <2>4, <3>2
    <3> QED BY <3>1, <3>2
  <2> QED BY <1>b, <2>1, <2>2, <2>4 DEF Kept
<1>17. Stores(h, g, k, v)
  BY <1>9, <1>11, <1>15, <1>16, KeptIs
<1> QED BY <1>17 DEF g

\* The key is one of the array's.
LEMMA StoreArray ==
  ASSUME NEW h, Sound(h), NEW k \in TableKeys, NEW v, InArray(h, k)
  PROVE  Stores(h, Placed(h, k, v), k, v) /\ SameKeys(h, Placed(h, k, v))
<1> DEFINE g == Placed(h, k, v)  a == sizearray(h)
<1>1. Typed(h) /\ Stored(h) /\ Linked(h) /\ k # 0
  BY TableAssumption DEF Sound
<1>2. a \in Nat /\ h.array = [i \in 1 .. a |-> h.array[i]] /\ k \in 1 .. a
  BY <1>1, TableAssumption DEF Typed, InArray
<1>3. g = [h EXCEPT !.array[k] = v]
  BY DEF Placed
<1> HIDE DEF g, a
<1>4. /\ g = [array |-> g.array, node |-> h.node, lastfree |-> h.lastfree, dummy |-> h.dummy]
      /\ g.array = [h.array EXCEPT ![k] = v]
  BY <1>1, <1>3 DEF Typed
<1>5. g.array = [i \in 1 .. a |-> g.array[i]] /\ \A i \in 1 .. a : g.array[i] = IF i = k THEN v ELSE h.array[i]
  BY <1>2, <1>4
<1>6. sizearray(g) = a
  BY <1>2, <1>5, Listed DEF sizearray
<1>7. g.node = h.node /\ g.lastfree = h.lastfree /\ g.dummy = h.dummy
  BY <1>4
<1>8. sizenode(g) = sizenode(h) /\ Places(g) = Places(h)
  BY <1>7 DEF sizenode, Places
<1>9. \A j : mainposition(g, j) = mainposition(h, j) /\ (InArray(g, j) <=> InArray(h, j))
  BY <1>6, <1>8, SameHome DEF InArray, a
<1>10. Typed(g)
  BY <1>1, <1>2, <1>4, <1>5, <1>6, <1>7, <1>8 DEF Typed
<1>11. Stored(g)
  <2>1. \A i \in 1 .. a : g.array[i] # 0 => i \in TableKeys
    BY <1>1, <1>2, <1>5 DEF Stored, a
  <2> QED BY <1>1, <1>6, <1>7, <1>8, <1>9, <2>1 DEF Stored
<1>12. Linked(g)
  <2>1. (\E f : Ordered(g, f)) /\ \A p, x : Reaches(h, p, x) => Reaches(g, p, x)
    BY <1>1, <1>7, <1>8, SameWay DEF Linked
  <2> QED BY <1>1, <1>7, <1>8, <1>9, <2>1 DEF Linked
<1>13. Sound(g)
  BY <1>10, <1>11, <1>12 DEF Sound
<1>14. ASSUME NEW j \in TableKeys PROVE luaH_get(g, j) = IF j = k THEN v ELSE luaH_get(h, j)
  <2>1. /\ InArray(h, j) => luaH_get(h, j) = h.array[j]
        /\ \A i \in Places(h) : h.node[i].key = j => luaH_get(h, j) = h.node[i].val
        /\ ~InArray(h, j) /\ (\A i \in Places(h) : h.node[i].key # j) => luaH_get(h, j) = 0
    BY GetIs
  <2>2. /\ InArray(h, j) => luaH_get(g, j) = g.array[j]
        /\ \A i \in Places(h) : h.node[i].key = j => luaH_get(g, j) = h.node[i].val
        /\ ~InArray(h, j) /\ (\A i \in Places(h) : h.node[i].key # j) => luaH_get(g, j) = 0
    BY <1>7, <1>8, <1>9, <1>13, GetIs
  <2>3. CASE InArray(h, j)
    <3>1. j \in 1 .. a
      BY <1>2, <2>3, TableAssumption DEF InArray, a
    <3> QED BY <1>5, <2>1, <2>2, <2>3, <3>1
  <2>4. CASE ~InArray(h, j)
    <3>1. j # k
      BY <2>4
    <3>2. luaH_get(g, j) = luaH_get(h, j)
      BY <2>1, <2>2, <2>4
    <3> QED BY <3>1, <3>2
  <2> QED BY <2>3, <2>4
<1>15. Stores(h, g, k, v)
  BY <1>6, <1>7, <1>8, <1>13, <1>14 DEF Stores, a
<1>16. SameKeys(h, g)
  BY <1>7 DEF SameKeys
<1> QED BY <1>15, <1>16 DEF g

\* A key for which there is room is stored, and nothing else changes.
LEMMA PlacedIs ==
  ASSUME NEW h, Sound(h), NEW k \in TableKeys, NEW v, HasRoom(h, k)
  PROVE  /\ Stores(h, Placed(h, k, v), k, v)
         /\ InArray(h, k) \/ NodeOf(h, k) # Nowhere => SameKeys(h, Placed(h, k, v))
<1>1. CASE InArray(h, k)
  BY <1>1, StoreArray
<1>2. CASE ~InArray(h, k) /\ NodeOf(h, k) # Nowhere
  BY <1>2, StoreNode
<1>3. CASE ~InArray(h, k) /\ NodeOf(h, k) = Nowhere /\ Usable(h, k)
  BY <1>3, StoreThere
<1>4. CASE ~InArray(h, k) /\ NodeOf(h, k) = Nowhere /\ ~Usable(h, k)
  <2>1. getfreepos(h) # Nowhere
    BY <1>4 DEF HasRoom
  <2> QED BY <1>4, <2>1, StoreBehind, StoreInstead
<1> QED BY <1>1, <1>2, <1>3, <1>4

-----------------------------------------------------------------------------
(* Room *)

\* There is room for a key if there are as many nodes as keys they may be of.
LEMMA Room ==
  ASSUME NEW h, Sound(h), NEW k \in TableKeys, ~h.dummy, NEW T, IsFiniteSet(T), k \in T,
         Cardinality(T) <= sizenode(h), \A i \in Places(h) : h.node[i].key # 0 => h.node[i].key \in T
  PROVE  HasRoom(h, k)
<1> DEFINE n == sizenode(h)  D == T \ {k}
<1>1. n \in Nat \ {0} /\ Places(h) = 0 .. n - 1
  BY DEF Sound, Typed, Places
<1> SUFFICES ASSUME NodeOf(h, k) = Nowhere, getfreepos(h) = Nowhere PROVE FALSE
  BY DEF HasRoom
<1>2. \A i \in Places(h) : h.node[i].key # 0
  BY FreeIs
<1>3. \A i \in Places(h) : h.node[i].key # k
  BY NodeIs
<1>4. IsFiniteSet(D) /\ Cardinality(D) = Cardinality(T) - 1 /\ Cardinality(T) \in Nat
  BY FS_RemoveElement, FS_CardinalityType
<1>5. IsFiniteSet(0 .. n - 1) /\ Cardinality(0 .. n - 1) = n
  BY <1>1, FS_Interval
<1> DEFINE of == [i \in 0 .. n - 1 |-> h.node[i].key]
<1>6. of \in [0 .. n - 1 -> D]
  BY <1>1, <1>2, <1>3
<1>7. Cardinality(D) < Cardinality(0 .. n - 1)
  <2> HIDE DEF D, n
  <2> QED BY <1>1, <1>4, <1>5 DEF n
<1>8. \E i, j \in 0 .. n - 1 : i # j /\ of[i] = of[j]
  <2> HIDE DEF of, D, n
  <2> QED BY <1>4, <1>5, <1>6, <1>7, FS_PigeonHole
<1>9. PICK i, j \in Places(h) : i # j /\ h.node[i].key = h.node[j].key
  BY <1>1, <1>8
<1> QED BY <1>2, <1>9 DEF Sound, Stored

\* A table with the array's part of what another has, and nodes nobody has.
LEMMA FreshIs ==
  ASSUME NEW h, h = [array |-> h.array, node |-> h.node, lastfree |-> h.lastfree, dummy |-> h.dummy],
         sizearray(h) \in Nat, \A i \in 1 .. sizearray(h) : h.array[i] # 0 => i \in TableKeys,
         NEW a \in Nat, NEW s \in Nat
  PROVE  LET g == setnodevector(setarrayvector(h, a), s)
         IN  /\ Sound(g) /\ sizearray(g) = a /\ g.dummy = (s = 0) /\ (s # 0 => sizenode(g) >= s)
             /\ \A i \in Places(g) : g.node[i].key = 0
             /\ \A j \in TableKeys :
                  luaH_get(g, j) = IF 0 < j /\ j <= a /\ j <= sizearray(h) THEN h.array[j] ELSE 0
<1> DEFINE f == setarrayvector(h, a)  g == setnodevector(f, s)  n == IF s = 0 THEN 1 ELSE twoto[ceillog2(s)]
<1>1. n \in Nat \ {0} /\ (s # 0 => n >= s)
  BY CeilLog
<1>2. /\ f = [array |-> f.array, node |-> f.node, lastfree |-> f.lastfree, dummy |-> f.dummy]
      /\ f.array = [i \in 1 .. a |-> IF i <= sizearray(h) THEN h.array[i] ELSE 0]
  BY DEF setarrayvector
<1> HIDE DEF f
<1>3. g = [f EXCEPT !.node = [i \in 0 .. n - 1 |-> FreeNode], !.dummy = (s = 0), !.lastfree = IF s = 0 THEN 0 ELSE n]
  BY DEF setnodevector
<1> HIDE DEF g, n
<1>4. /\ g = [array |-> g.array, node |-> g.node, lastfree |-> g.lastfree, dummy |-> g.dummy]
      /\ g.array = f.array /\ g.node = [i \in 0 .. n - 1 |-> FreeNode] /\ g.dummy = (s = 0)
      /\ g.lastfree = IF s = 0 THEN 0 ELSE n
  BY <1>2, <1>3
<1>5. /\ g.array = [i \in 1 .. a |-> g.array[i]]
      /\ \A i \in 1 .. a : g.array[i] = IF i <= sizearray(h) THEN h.array[i] ELSE 0
  BY <1>2, <1>4
<1>6. sizearray(g) = a
  BY <1>5, Listed DEF sizearray
<1>7. sizenode(g) = n /\ Places(g) = 0 .. n - 1
  <2>1. sizenode(g) = n
    BY <1>1, <1>4, SizeIs
  <2> QED BY <2>1 DEF Places
<1>8. \A i \in Places(g) : g.node[i] = FreeNode
  BY <1>4, <1>7
<1>9. \A i \in Places(g) : g.node[i].key = 0 /\ g.node[i].val = 0 /\ g.node[i].next = Nowhere
  BY <1>8 DEF FreeNode, Node
<1>10. Typed(g)
  <2>1. g.node = [i \in Places(g) |-> g.node[i]]
    BY <1>4, <1>7
  <2>2. \A i \in Places(g) : g.node[i] = Node(g.node[i].key, g.node[i].val, g.node[i].next)
    BY <1>8 DEF FreeNode, Node
  <2>3. g.lastfree \in 0 .. sizenode(g) /\ g.dummy \in BOOLEAN
    BY <1>1, <1>4, <1>7
  <2> QED BY <1>1, <1>4, <1>5, <1>6, <1>7, <1>9, <2>1, <2>2, <2>3 DEF Typed
<1>11. Stored(g)
  <2>1. \A i \in 1 .. a : g.array[i] # 0 => i \in TableKeys
    BY <1>5
  <2>2. g.dummy => sizenode(g) = 1 /\ g.node[0] = FreeNode
    <3> SUFFICES ASSUME s = 0 PROVE sizenode(g) = 1 /\ g.node[0] = FreeNode
      BY <1>4
    <3>1. n = 1
      BY DEF n
    <3> QED BY <1>7, <1>8, <3>1
  <2>4. \A i \in Places(g) : ~InArray(g, g.node[i].key)
    BY <1>9 DEF InArray
  <2>3. ASSUME s # 0 PROVE \A i \in Places(g) : ~(i >= g.lastfree)
    <3>1. g.lastfree = n /\ Places(g) = 0 .. n - 1
      BY <1>4, <1>7, <2>3
    <3> QED BY <1>1, <3>1
  <2>5. ~g.dummy => \A i \in Places(g) : ~(i >= g.lastfree)
    <3>1. ~g.dummy => s # 0
      BY <1>4
    <3> QED BY <2>3, <3>1
  <2> QED BY <1>6, <1>8, <1>9, <2>1, <2>2, <2>4, <2>5 DEF Stored
<1>12. Linked(g)
  <2> DEFINE e == [i \in Places(g) |-> 0]
  <2>1. Ordered(g, e)
    BY <1>9 DEF Ordered
  <2> HIDE DEF e
  <2> QED BY <1>9, <2>1 DEF Linked
<1>13. Sound(g)
  BY <1>10, <1>11, <1>12 DEF Sound
<1>14. ASSUME NEW j \in TableKeys
       PROVE  luaH_get(g, j) = IF 0 < j /\ j <= a /\ j <= sizearray(h) THEN h.array[j] ELSE 0
  <2>1. j \in Int /\ j # 0
    BY TableAssumption
  <2>2. /\ InArray(g, j) => luaH_get(g, j) = g.array[j]
        /\ ~InArray(g, j) /\ (\A i \in Places(g) : g.node[i].key # j) => luaH_get(g, j) = 0
    BY <1>13, GetIs
  <2>3. InArray(g, j) <=> 0 < j /\ j <= a
    BY <1>6 DEF InArray
  <2>4. CASE 0 < j /\ j <= a
    <3>1. j \in 1 .. a
      BY <2>1, <2>4
    <3> QED BY <1>5, <2>2, <2>3, <2>4, <3>1
  <2>5. CASE ~(0 < j /\ j <= a)
    <3>1. luaH_get(g, j) = 0
      BY <1>9, <2>1, <2>2, <2>3, <2>5
    <3> QED BY <2>5, <3>1
  <2> QED BY <2>4, <2>5
<1> QED BY <1>1, <1>4, <1>6, <1>7, <1>9, <1>13, <1>14 DEF g, f

-----------------------------------------------------------------------------
(* A table is filled *)

\* The keys of nodes are of T, and there are as many nodes.
Fits(h, T) ==
  /\ IsFiniteSet(T) /\ (T # {} => ~h.dummy /\ Cardinality(T) <= sizenode(h))
  /\ \A i \in Places(h) : h.node[i].key # 0 => h.node[i].key \in T

\* Entries for the array or of T, of which no two have one key.
Puts(es, h, T) ==
  /\ \A i \in 1 .. Len(es) : es[i].val # 0 => es[i].key \in TableKeys /\ (InArray(h, es[i].key) \/ es[i].key \in T)
  /\ \A i, j \in 1 .. Len(es) : es[i].val # 0 /\ es[j].val # 0 /\ es[i].key = es[j].key => i = j

\* h with the first m of the entries.
With(g, h, T, es, m) ==
  /\ Sound(g) /\ sizearray(g) = sizearray(h) /\ Fits(g, T)
  /\ \A i \in 1 .. m : es[i].val # 0 => luaH_get(g, es[i].key) = es[i].val
  /\ \A j \in TableKeys : (\A i \in 1 .. m : es[i].val # 0 => es[i].key # j) => luaH_get(g, j) = luaH_get(h, j)

LEMMA OneMore ==
  ASSUME NEW h, Sound(h), NEW T, NEW es, Len(es) \in Nat, Puts(es, h, T),
         NEW m \in Nat, m < Len(es), NEW g, With(g, h, T, es, m), es[m + 1].val # 0
  PROVE  With(Placed(g, es[m + 1].key, es[m + 1].val), h, T, es, m + 1)
<1> DEFINE k == es[m + 1].key  v == es[m + 1].val  f == Placed(g, k, v)
<1>1. m + 1 \in 1 .. Len(es)
  OBVIOUS
<1>2. k \in TableKeys /\ (InArray(h, k) \/ k \in T)
  BY <1>1 DEF Puts
<1>3. Sound(g) /\ sizearray(g) = sizearray(h) /\ Fits(g, T)
  BY DEF With
<1>4. InArray(g, k) <=> InArray(h, k)
  BY <1>3 DEF InArray
<1>5. \A i \in 1 .. m : es[i].val # 0 => es[i].key # k
  <2> TAKE i \in 1 .. m
  <2>1. i \in 1 .. Len(es) /\ i # m + 1
    OBVIOUS
  <2> QED BY <1>1, <2>1 DEF Puts
<1>v. v # 0
  OBVIOUS
<1> HIDE DEF k, v, f
<1>6. HasRoom(g, k)
  <2>1. CASE InArray(h, k)
    BY <1>4, <2>1 DEF HasRoom
  <2>2. CASE k \in T
    <3>1. /\ IsFiniteSet(T) /\ ~g.dummy /\ Cardinality(T) <= sizenode(g)
          /\ \A i \in Places(g) : g.node[i].key # 0 => g.node[i].key \in T
      BY <1>3, <2>2 DEF Fits
    <3> QED BY <1>2, <1>3, <2>2, <3>1, Room
  <2> QED BY <1>2, <2>1, <2>2
<1>7. Stores(g, f, k, v) /\ (InArray(g, k) \/ NodeOf(g, k) # Nowhere => SameKeys(g, f))
  BY <1>2, <1>3, <1>6, PlacedIs DEF f
<1>8. Sound(f) /\ sizearray(f) = sizearray(h) /\ sizenode(f) = sizenode(g) /\ f.dummy = g.dummy /\ Places(f) = Places(g)
  BY <1>3, <1>7 DEF Stores, Places
<1>9. ASSUME NEW i \in Places(f), f.node[i].key # 0 PROVE f.node[i].key \in T
  <2>1. CASE SameKeys(g, f)
    BY <1>3, <1>8, <1>9, <2>1 DEF SameKeys, Fits
  <2>2. CASE ~SameKeys(g, f)
    <3>1. k \in T
      BY <1>2, <1>4, <1>7, <2>2
    <3> QED BY <1>3, <1>7, <1>8, <1>9, <3>1 DEF Stores, Fits
  <2> QED BY <2>1, <2>2
<1>10. Fits(f, T)
  BY <1>3, <1>8, <1>9 DEF Fits
<1>11. \A j \in TableKeys : luaH_get(f, j) = IF j = k THEN v ELSE luaH_get(g, j)
  BY <1>7 DEF Stores
<1>12. ASSUME NEW i \in 1 .. m + 1, es[i].val # 0 PROVE luaH_get(f, es[i].key) = es[i].val
  <2>1. CASE i = m + 1
    BY <1>2, <1>11, <2>1 DEF k, v
  <2>2. CASE i # m + 1
    <3>1. i \in 1 .. m /\ i \in 1 .. Len(es)
      BY <2>2
    <3>2. es[i].key \in TableKeys /\ es[i].key # k
      BY <1>5, <1>12, <3>1 DEF Puts
    <3>3. luaH_get(g, es[i].key) = es[i].val
      BY <1>12, <3>1 DEF With
    <3> QED BY <1>11, <3>2, <3>3
  <2> QED BY <2>1, <2>2
<1>13. ASSUME NEW j \in TableKeys, \A i \in 1 .. m + 1 : es[i].val # 0 => es[i].key # j
       PROVE  luaH_get(f, j) = luaH_get(h, j)
  <2>1. j # k
    BY <1>13, <1>v DEF k, v
  <2>2. \A i \in 1 .. m : es[i].val # 0 => es[i].key # j
    BY <1>13
  <2>3. luaH_get(g, j) = luaH_get(h, j)
    BY <2>2 DEF With
  <2> QED BY <1>11, <2>1, <2>3
<1> QED BY <1>8, <1>10, <1>12, <1>13 DEF With, f, k, v

LEMMA FilledIs ==
  ASSUME NEW h, Sound(h), NEW T, Fits(h, T), NEW es, Len(es) \in Nat, Puts(es, h, T)
  PROVE  With(Filled(h, es), h, T, es, Len(es))
<1> DEFINE n == Len(es)
           Step(x, i) == IF es[i].val = 0 THEN x ELSE Placed(x, es[i].key, es[i].val)
           Is(f, m) == f = [i \in 0 .. m |-> IF i = 0 THEN h ELSE Step(f[i - 1], i)]
           S == {m \in Nat : \E f : Is(f, m)}
           with == CHOOSE f : Is(f, n)
<1>1. Filled(h, es) = with[n]
  BY Zenon DEF Filled
<1> HIDE DEF Step
<1>2. 0 \in S
  <2> DEFINE g == [i \in 0 .. 0 |-> h]
  <2>1. \A i \in 0 .. 0 : i = 0
    OBVIOUS
  <2>2. Is(g, 0)
    BY <2>1
  <2> HIDE DEF g, Is
  <2> QED BY <2>2
<1>3. ASSUME NEW m \in Nat, m \in S PROVE m + 1 \in S
  <2>1. PICK f : Is(f, m)
    BY <1>3
  <2> DEFINE e == m + 1
             g == [i \in 0 .. e |-> IF i = e THEN Step(f[m], e) ELSE f[i]]
  <2>2. ASSUME NEW i \in 0 .. e PROVE g[i] = IF i = 0 THEN h ELSE Step(g[i - 1], i)
    <3>1. CASE i = e
      <4>1. i # 0 /\ i - 1 = m /\ m \in 0 .. e /\ m # e
        BY <3>1
      <4>2. g[i] = Step(f[m], e) /\ g[m] = f[m]
        BY <3>1, <4>1
      <4> HIDE DEF g, Is
      <4> QED BY <3>1, <4>1, <4>2
    <3>2. CASE i # e
      <4>1. i \in 0 .. m /\ (i # 0 => i - 1 \in 0 .. e /\ i - 1 # e)
        BY <3>2
      <4>2. g[i] = f[i] /\ (i # 0 => g[i - 1] = f[i - 1])
        BY <3>2, <4>1
      <4>3. f[i] = IF i = 0 THEN h ELSE Step(f[i - 1], i)
        BY <2>1, <4>1
      <4> HIDE DEF g, Is
      <4> QED BY <4>1, <4>2, <4>3
    <3> QED BY <3>1, <3>2
  <2>3. g = [i \in 0 .. e |-> g[i]]
    OBVIOUS
  <2> HIDE DEF g
  <2>4. Is(g, e)
    BY <2>2, <2>3
  <2> HIDE DEF Is
  <2> QED BY <2>4
<1>4. n \in S
  <2> HIDE DEF S
  <2> QED BY <1>2, <1>3, Induction
<1>5. Is(with, n)
  <2>1. \E f : Is(f, n)
    BY <1>4
  <2> HIDE DEF Is
  <2> QED BY <2>1, Zenon DEF with
<1> HIDE DEF with
<1>6. with[0] = h /\ \A i \in 1 .. n : with[i] = Step(with[i - 1], i)
  <2>1. \A i \in 1 .. n : i \in 0 .. n /\ i # 0
    OBVIOUS
  <2> QED BY <1>5, <2>1
<1> HIDE DEF Is, S
<1> DEFINE R == {m \in Nat : m <= n => With(with[m], h, T, es, m)}
<1>7. 0 \in R
  <2>1. With(h, h, T, es, 0)
    BY DEF With
  <2> QED BY <1>6, <2>1
<1>8. ASSUME NEW m \in Nat, m \in R PROVE m + 1 \in R
  <2> SUFFICES ASSUME m + 1 <= n PROVE With(with[m + 1], h, T, es, m + 1)
    OBVIOUS
  <2>1. With(with[m], h, T, es, m)
    BY <1>8
  <2>2. m + 1 \in 1 .. n /\ (m + 1) - 1 = m /\ m < n
    OBVIOUS
  <2>3. with[m + 1] = Step(with[m], m + 1)
    BY <1>6, <2>2
  <2> HIDE DEF R, n
  <2>4. CASE es[m + 1].val = 0
    <3>1. with[m + 1] = with[m]
      BY <2>3, <2>4 DEF Step
    <3>2. \A i \in 1 .. m + 1 : i \in 1 .. m \/ i = m + 1
      OBVIOUS
    <3>3. \A i \in 1 .. m : i \in 1 .. m + 1
      OBVIOUS
    <3>4. With(with[m], h, T, es, m + 1)
      BY <2>1, <2>4, <3>2, <3>3 DEF With
    <3> QED BY <3>1, <3>4
  <2>5. CASE es[m + 1].val # 0
    <3>1. with[m + 1] = Placed(with[m], es[m + 1].key, es[m + 1].val)
      BY <2>3, <2>5 DEF Step
    <3>2. With(Placed(with[m], es[m + 1].key, es[m + 1].val), h, T, es, m + 1)
      BY <2>1, <2>2, <2>5, OneMore DEF n
    <3> QED BY <3>1, <3>2
  <2> QED BY <2>4, <2>5
<1>9. Nat \subseteq R
  <2> HIDE DEF R
  <2> QED BY <1>7, <1>8, Induction
<1>10. With(with[n], h, T, es, n)
  BY <1>9
<1> QED BY <1>1, <1>10

-----------------------------------------------------------------------------
(* A table is made anew *)

Entry(k, v) == [key |-> k, val |-> v]

LEMMA EntryIs ==
  ASSUME NEW k, NEW v
  PROVE  Entry(k, v).key = k /\ Entry(k, v).val = v
  BY DEF Entry

\* The entries that are put in again.
LEMMA MovedIs ==
  ASSUME NEW h, Typed(h), NEW a \in Nat
  PROVE  LET l  == IF sizearray(h) <= a THEN 0 ELSE sizearray(h) - a
             es == Moved(h, a)
         IN  /\ Len(es) = l + sizenode(h)
             /\ \A i \in 1 .. l : es[i] = Entry(a + i, h.array[a + i])
             /\ \A i \in 1 .. sizenode(h) :
                  es[l + i] = Entry(h.node[sizenode(h) - i].key, h.node[sizenode(h) - i].val)
<1> DEFINE n == sizenode(h)  m == sizearray(h)
           l == IF m <= a THEN 0 ELSE m - a
           lost == IF m <= a THEN <<>> ELSE [i \in 1 .. m - a |-> Entry(a + i, h.array[a + i])]
           nodes == [i \in 1 .. n |-> Entry(h.node[n - i].key, h.node[n - i].val)]
           R == {Entry(a + i, h.array[a + i]) : i \in 1 .. l} \union {Entry(h.node[n - i].key, h.node[n - i].val) : i \in 1 .. n}
<1>1. n \in Nat \ {0} /\ m \in Nat /\ l \in Nat
  BY DEF Typed
<1>2. Moved(h, a) = lost \o nodes
  BY DEF Moved, Entry
<1>3. nodes \in Seq(R) /\ Len(nodes) = n
  <2>1. nodes \in [1 .. n -> R]
    OBVIOUS
  <2> HIDE DEF R, n
  <2>2. nodes \in Seq(R)
    BY <1>1, <2>1, SeqDef
  <2>3. DOMAIN nodes = 1 .. n
    OBVIOUS
  <2> HIDE DEF nodes
  <2> QED BY <1>1, <2>2, <2>3, LenProperties
<1>4. lost \in Seq(R) /\ Len(lost) = l /\ \A i \in 1 .. l : lost[i] = Entry(a + i, h.array[a + i])
  <2>1. CASE m <= a
    <3>1. lost = <<>> /\ l = 0
      BY <2>1
    <3> HIDE DEF R
    <3> QED BY <3>1
  <2>2. CASE ~(m <= a)
    <3>1. l = m - a
      BY <2>2
    <3> DEFINE s == [i \in 1 .. l |-> Entry(a + i, h.array[a + i])]
    <3>2. lost = s
      BY <2>2, <3>1
    <3> HIDE DEF lost, l
    <3>3. s \in [1 .. l -> R]
      OBVIOUS
    <3> HIDE DEF R
    <3>4. s \in Seq(R)
      BY <1>1, <3>3, SeqDef
    <3>5. DOMAIN s = 1 .. l
      OBVIOUS
    <3>6. \A i \in 1 .. l : s[i] = Entry(a + i, h.array[a + i])
      OBVIOUS
    <3> HIDE DEF s
    <3> QED BY <1>1, <3>2, <3>4, <3>5, <3>6, LenProperties
  <2> QED BY <2>1, <2>2
<1>5. \A i \in 1 .. n : nodes[i] = Entry(h.node[n - i].key, h.node[n - i].val)
  OBVIOUS
<1> HIDE DEF nodes, lost, R
<1>6. /\ Len(lost \o nodes) = l + n
      /\ \A i \in 1 .. l + n : (lost \o nodes)[i] = IF i <= l THEN lost[i] ELSE nodes[i - l]
  <2> HIDE DEF l, n
  <2> QED BY <1>3, <1>4, ConcatProperties
<1> HIDE DEF l, n, m
<1>7. \A i \in 1 .. l : (lost \o nodes)[i] = lost[i]
  <2> TAKE i \in 1 .. l
  <2>1. i \in 1 .. l + n /\ i <= l
    BY <1>1
  <2> QED BY <1>6, <2>1
<1>8. \A i \in 1 .. n : (lost \o nodes)[l + i] = nodes[i]
  <2> TAKE i \in 1 .. n
  <2>1. l + i \in 1 .. l + n /\ ~(l + i <= l) /\ (l + i) - l = i
    BY <1>1
  <2> QED BY <1>6, <2>1
<1>9. /\ Len(Moved(h, a)) = l + n
      /\ \A i \in 1 .. l : Moved(h, a)[i] = Entry(a + i, h.array[a + i])
      /\ \A i \in 1 .. n : Moved(h, a)[l + i] = Entry(h.node[n - i].key, h.node[n - i].val)
  BY <1>2, <1>4, <1>5, <1>6, <1>7, <1>8
<1> QED BY <1>9 DEF l, n, m

\* Each is a key the table has, and all are there that the array does not keep.
Contents(es, h, a) ==
  /\ Len(es) \in Nat
  /\ \A i \in 1 .. Len(es) : es[i].val # 0 =>
        /\ es[i].key \in TableKeys /\ luaH_get(h, es[i].key) = es[i].val
        /\ InArray(h, es[i].key) => es[i].key > a
  /\ \A i, j \in 1 .. Len(es) : es[i].val # 0 /\ es[j].val # 0 /\ es[i].key = es[j].key => i = j
  /\ \A j \in TableKeys : luaH_get(h, j) # 0 /\ ~(InArray(h, j) /\ j <= a) =>
        \E i \in 1 .. Len(es) : es[i].val # 0 /\ es[i].key = j

LEMMA MovedContents ==
  ASSUME NEW h, Sound(h), NEW a \in Nat
  PROVE  Contents(Moved(h, a), h, a)
<1> DEFINE n == sizenode(h)  m == sizearray(h)  es == Moved(h, a)
           l == IF m <= a THEN 0 ELSE m - a
<1>1. Typed(h) /\ Stored(h)
  BY DEF Sound
<1>2. n \in Nat \ {0} /\ m \in Nat /\ l \in Nat /\ Places(h) = 0 .. n - 1
  BY <1>1 DEF Typed, Places
<1>3. /\ Len(es) = l + n
      /\ \A i \in 1 .. l : es[i] = Entry(a + i, h.array[a + i])
      /\ \A i \in 1 .. n : es[l + i] = Entry(h.node[n - i].key, h.node[n - i].val)
  BY <1>1, MovedIs
<1> HIDE DEF es
<1>4. ASSUME NEW i \in 1 .. l, es[i].val # 0
      PROVE  /\ es[i].key = a + i /\ es[i].key \in TableKeys /\ luaH_get(h, es[i].key) = es[i].val
             /\ InArray(h, es[i].key) /\ es[i].key > a
  <2>1. es[i].key = a + i /\ es[i].val = h.array[a + i]
    BY <1>3, EntryIs
  <2>2. a + i \in 1 .. m /\ a + i > a
    BY <1>2
  <2>3. a + i \in TableKeys
    BY <1>1, <1>4, <2>1, <2>2 DEF Stored
  <2>4. InArray(h, a + i)
    BY <2>2 DEF InArray
  <2> QED BY <2>1, <2>2, <2>3, <2>4, GetIs
<1>5. ASSUME NEW i \in 1 .. n, es[l + i].val # 0
      PROVE  /\ n - i \in Places(h) /\ es[l + i].key = h.node[n - i].key /\ es[l + i].key # 0
             /\ es[l + i].key \in TableKeys /\ luaH_get(h, es[l + i].key) = es[l + i].val
             /\ ~InArray(h, es[l + i].key)
  <2>1. es[l + i].key = h.node[n - i].key /\ es[l + i].val = h.node[n - i].val
    BY <1>3, EntryIs
  <2>2. n - i \in Places(h)
    BY <1>2
  <2>3. h.node[n - i].key # 0
    BY <1>1, <1>5, <2>1, <2>2 DEF Stored, FreeNode, Node
  <2>4. h.node[n - i].key \in TableKeys /\ ~InArray(h, h.node[n - i].key)
    BY <1>1, <2>2, <2>3 DEF Typed, Stored
  <2> QED BY <2>1, <2>2, <2>3, <2>4, GetIs
<1> HIDE DEF l, n, m
<1>6. \A i \in 1 .. Len(es) : i \in 1 .. l \/ (i - l \in 1 .. n /\ l + (i - l) = i)
  BY <1>2, <1>3
<1>7. ASSUME NEW i \in 1 .. Len(es), es[i].val # 0
      PROVE  /\ es[i].key \in TableKeys /\ luaH_get(h, es[i].key) = es[i].val
             /\ InArray(h, es[i].key) => es[i].key > a
  <2>1. CASE i \in 1 .. l
    BY <1>4, <1>7, <2>1
  <2>2. CASE i - l \in 1 .. n /\ l + (i - l) = i
    <3> DEFINE j == i - l
    <3>1. j \in 1 .. n /\ l + j = i
      BY <2>2
    <3> HIDE DEF j
    <3> QED BY <1>5, <1>7, <3>1
  <2> QED BY <1>6, <2>1, <2>2
<1>8. ASSUME NEW i \in 1 .. Len(es), NEW j \in 1 .. Len(es), es[i].val # 0, es[j].val # 0, es[i].key = es[j].key
      PROVE  i = j
  <2>1. CASE i \in 1 .. l /\ j \in 1 .. l
    BY <1>2, <1>4, <1>8, <2>1
  <2>2. CASE i \in 1 .. l /\ j \notin 1 .. l
    <3> DEFINE y == j - l
    <3>1. y \in 1 .. n /\ l + y = j
      BY <1>6, <2>2
    <3> HIDE DEF y
    <3>2. InArray(h, es[i].key) /\ ~InArray(h, es[l + y].key)
      BY <1>4, <1>5, <1>8, <2>2, <3>1
    <3> QED BY <1>8, <3>1, <3>2
  <2>3. CASE i \notin 1 .. l /\ j \in 1 .. l
    <3> DEFINE x == i - l
    <3>1. x \in 1 .. n /\ l + x = i
      BY <1>6, <2>3
    <3> HIDE DEF x
    <3>2. InArray(h, es[j].key) /\ ~InArray(h, es[l + x].key)
      BY <1>4, <1>5, <1>8, <2>3, <3>1
    <3> QED BY <1>8, <3>1, <3>2
  <2>4. CASE i \notin 1 .. l /\ j \notin 1 .. l
    <3> DEFINE x == i - l  y == j - l
    <3>1. x \in 1 .. n /\ l + x = i /\ y \in 1 .. n /\ l + y = j
      BY <1>6, <2>4
    <3> HIDE DEF x, y
    <3>2. /\ n - x \in Places(h) /\ es[i].key = h.node[n - x].key /\ es[i].key # 0
          /\ n - y \in Places(h) /\ es[j].key = h.node[n - y].key
      BY <1>5, <1>8, <3>1
    <3>3. n - x = n - y
      BY <1>1, <1>8, <3>2 DEF Stored
    <3> QED BY <1>2, <3>1, <3>3
  <2> QED BY <2>1, <2>2, <2>3, <2>4
<1>9. ASSUME NEW j \in TableKeys, luaH_get(h, j) # 0, ~(InArray(h, j) /\ j <= a)
      PROVE  \E i \in 1 .. Len(es) : es[i].val # 0 /\ es[i].key = j
  <2>0. j \in Int
    BY TableAssumption
  <2>1. CASE InArray(h, j)
    <3>1. j > a /\ j <= m
      BY <1>9, <2>0, <2>1 DEF InArray, m
    <3>2. l = m - a
      BY <1>2, <2>0, <3>1 DEF l
    <3>3. j - a \in 1 .. l /\ a + (j - a) = j /\ j - a \in 1 .. Len(es)
      BY <1>2, <1>3, <2>0, <3>1, <3>2
    <3>4. es[j - a] = Entry(j, h.array[j])
      BY <1>3, <3>3
    <3>5. luaH_get(h, j) = h.array[j]
      BY <2>1, GetIs
    <3>6. es[j - a].key = j /\ es[j - a].val = h.array[j]
      BY <3>4, EntryIs
    <3> QED BY <1>9, <3>3, <3>5, <3>6
  <2>2. CASE ~InArray(h, j)
    <3>1. PICK p \in Places(h) : h.node[p].key = j
      BY <1>9, <2>2, GetIs
    <3>2. n - p \in 1 .. n /\ n - (n - p) = p /\ l + (n - p) \in 1 .. Len(es)
      BY <1>2, <1>3, <3>1
    <3>3. es[l + (n - p)] = Entry(j, h.node[p].val)
      BY <1>3, <3>1, <3>2
    <3>4. es[l + (n - p)].key = j /\ es[l + (n - p)].val = h.node[p].val
      BY <3>3, EntryIs
    <3>5. luaH_get(h, j) = h.node[p].val
      BY <3>1, GetIs
    <3> QED BY <1>9, <3>2, <3>4, <3>5
  <2> QED BY <2>1, <2>2
<1>10. Len(es) \in Nat
  BY <1>2, <1>3
<1> QED BY <1>7, <1>8, <1>9, <1>10 DEF Contents, es

\* Another size, the same contents.
LEMMA ResizeIs ==
  ASSUME NEW h, Sound(h), NEW a \in Nat, NEW s \in Nat, NEW T, IsFiniteSet(T), Cardinality(T) <= s,
         \A j \in TableKeys : luaH_get(h, j) # 0 /\ ~(0 < j /\ j <= a) => j \in T
  PROVE  LET g == resize(h, a, s)
         IN  /\ Sound(g) /\ sizearray(g) = a /\ Fits(g, T)
             /\ \A j \in TableKeys : luaH_get(g, j) = luaH_get(h, j)
<1> DEFINE f == setnodevector(setarrayvector(h, a), s)  es == Moved(h, a)  g == resize(h, a, s)
<1>1. /\ h = [array |-> h.array, node |-> h.node, lastfree |-> h.lastfree, dummy |-> h.dummy]
      /\ sizearray(h) \in Nat /\ \A i \in 1 .. sizearray(h) : h.array[i] # 0 => i \in TableKeys
  BY DEF Sound, Typed, Stored
<1>2. /\ Sound(f) /\ sizearray(f) = a /\ f.dummy = (s = 0) /\ (s # 0 => sizenode(f) >= s)
      /\ \A i \in Places(f) : f.node[i].key = 0
      /\ \A j \in TableKeys : luaH_get(f, j) = IF 0 < j /\ j <= a /\ j <= sizearray(h) THEN h.array[j] ELSE 0
  BY <1>1, FreshIs
<1>3. Contents(es, h, a)
  BY MovedContents
<1>4. g = Filled(f, es)
  BY DEF resize
<1> HIDE DEF f, es, g
<1>5. Fits(f, T)
  <2>1. ASSUME T # {} PROVE ~f.dummy /\ Cardinality(T) <= sizenode(f)
    <3>1. Cardinality(T) \in Nat /\ Cardinality(T) # 0
      BY <2>1, FS_CardinalityType, FS_EmptySet
    <3>2. s # 0
      BY <3>1
    <3>3. sizenode(f) \in Nat
      BY <1>2 DEF Sound, Typed
    <3>4. ~f.dummy /\ sizenode(f) >= s
      BY <1>2, <3>2
    <3>5. Cardinality(T) <= sizenode(f)
      BY <3>1, <3>3, <3>4
    <3> QED BY <3>4, <3>5
  <2> QED BY <1>2, <2>1 DEF Fits
<1>6. Puts(es, f, T)
  <2>1. ASSUME NEW i \in 1 .. Len(es), es[i].val # 0
        PROVE  es[i].key \in TableKeys /\ (InArray(f, es[i].key) \/ es[i].key \in T)
    <3>1. es[i].key \in TableKeys /\ luaH_get(h, es[i].key) # 0
      BY <1>3, <2>1 DEF Contents
    <3>2. InArray(f, es[i].key) <=> 0 < es[i].key /\ es[i].key <= a
      BY <1>2 DEF InArray
    <3> QED BY <3>1, <3>2
  <2>2. \A i, j \in 1 .. Len(es) : es[i].val # 0 /\ es[j].val # 0 /\ es[i].key = es[j].key => i = j
    BY <1>3 DEF Contents
  <2> QED BY <2>1, <2>2 DEF Puts
<1>7. With(g, f, T, es, Len(es))
  BY <1>2, <1>3, <1>4, <1>5, <1>6, FilledIs DEF Contents
<1>8. ASSUME NEW j \in TableKeys PROVE luaH_get(g, j) = luaH_get(h, j)
  <2>0. j \in Int
    BY TableAssumption
  <2>1. CASE \E i \in 1 .. Len(es) : es[i].val # 0 /\ es[i].key = j
    <3>1. PICK i \in 1 .. Len(es) : es[i].val # 0 /\ es[i].key = j
      BY <2>1
    <3>2. luaH_get(g, j) = es[i].val
      BY <1>7, <3>1 DEF With
    <3>3. luaH_get(h, j) = es[i].val
      BY <1>3, <3>1 DEF Contents
    <3> QED BY <3>2, <3>3
  <2>2. CASE ~\E i \in 1 .. Len(es) : es[i].val # 0 /\ es[i].key = j
    <3>1. luaH_get(g, j) = luaH_get(f, j)
      BY <1>7, <2>2 DEF With
    <3>2. luaH_get(h, j) = 0 \/ (InArray(h, j) /\ j <= a)
      BY <1>3, <2>2 DEF Contents
    <3>3. InArray(h, j) <=> 0 < j /\ j <= sizearray(h)
      BY DEF InArray
    <3>4. InArray(h, j) => luaH_get(h, j) = h.array[j]
      BY GetIs
    <3> QED BY <1>2, <3>1, <3>2, <3>3, <3>4
  <2> QED BY <2>1, <2>2
<1> QED BY <1>2, <1>7, <1>8 DEF With, g

-----------------------------------------------------------------------------
(* A table grows, and is set *)

LEMMA ImageFinite ==
  ASSUME NEW S, IsFiniteSet(S), NEW f, S \subseteq DOMAIN f
  PROVE  IsFiniteSet({f[x] : x \in S}) /\ Cardinality({f[x] : x \in S}) <= Cardinality(S)
<1> DEFINE I == {f[x] : x \in S}  g == [x \in S |-> f[x]]
<1>1. g \in Surjection(S, I)
  BY DEF Surjection
<1> HIDE DEF g, I
<1>2. IsFiniteSet(I) /\ Cardinality(I) <= Cardinality(S)
  BY <1>1, FS_Surjection
<1> QED BY <1>2 DEF I

\* The size of the array is a number: no more than twice the keys.
LEMMA ArraySize ==
  ASSUME NEW S, IsFiniteSet(S), S \subseteq Int
  PROVE  computesizes(S) \in Nat
<1> DEFINE c == Cardinality(S)
           upTo(n) == Cardinality({k \in S : 0 < k /\ k <= n})
           good == {twoto[i] : i \in {ceillog2(k) : k \in {x \in S : x > 0}}}
           X == {0} \union {n \in good : upTo(n) > n \div 2}
<1>1. c \in Nat
  BY FS_CardinalityType
<1>2. ASSUME NEW n \in good PROVE n \in Nat /\ upTo(n) \in Nat /\ upTo(n) <= c
  <2>1. PICK k \in S : k > 0 /\ n = twoto[ceillog2(k)]
    BY <1>2
  <2>2. n \in Nat
    BY <2>1, CeilLog
  <2> DEFINE U == {x \in S : 0 < x /\ x <= n}
  <2>3. U \in SUBSET S
    OBVIOUS
  <2> HIDE DEF U
  <2>4. IsFiniteSet(U) /\ Cardinality(U) <= Cardinality(S) /\ Cardinality(U) \in Nat
    BY <2>3, FS_Subset, FS_CardinalityType
  <2> QED BY <2>2, <2>4 DEF U
<1> HIDE DEF c, upTo, good
<1>3. ASSUME NEW n \in X PROVE n \in 0 .. 2 * c
  <2>1. CASE n = 0
    BY <1>1, <2>1
  <2>2. CASE n # 0
    <3>1. n \in Nat /\ upTo(n) \in Nat /\ upTo(n) <= c /\ upTo(n) > n \div 2
      BY <1>2, <2>2
    <3>2. n < 2 * (n \div 2) + 2
      BY <3>1
    <3>3. n \div 2 \in Int
      BY <3>1
    <3> HIDE DEF X
    <3> QED BY <1>1, <3>1, <3>2, <3>3
  <2> QED BY <2>1, <2>2
<1>4. X \in SUBSET (0 .. 2 * c) /\ X # {}
  BY <1>3
<1> HIDE DEF X
<1>5. Max(X) \in X
  <2>1. 2 * c \in Nat
    BY <1>1
  <2> QED BY <1>4, <2>1, MaxIs
<1>6. computesizes(S) = Max(X)
  BY DEF computesizes, X, good, upTo
<1> QED BY <1>3, <1>5, <1>6

LEMMA UsedIs ==
  ASSUME NEW h, Sound(h), NEW k \in TableKeys
  PROVE  /\ IsFiniteSet(Used(h, k)) /\ Used(h, k) \subseteq Int /\ k \in Used(h, k)
         /\ \A j \in TableKeys : luaH_get(h, j) # 0 => j \in Used(h, k)
<1> DEFINE A == {i \in 1 .. sizearray(h) : h.array[i] # 0}  D == {i \in DOMAIN h.node : h.node[i].val # 0}
           N == {h.node[i].key : i \in D}
<1>1. Typed(h) /\ Stored(h)
  BY DEF Sound
<1>2. sizenode(h) \in Nat \ {0} /\ sizearray(h) \in Nat /\ DOMAIN h.node = 0 .. sizenode(h) - 1 /\ Places(h) = DOMAIN h.node
  BY <1>1 DEF Typed, Places
<1>3. Used(h, k) = A \union N \union {k}
  BY DEF Used
<1>4. IsFiniteSet(A)
  <2>1. IsFiniteSet(1 .. sizearray(h)) /\ A \in SUBSET (1 .. sizearray(h))
    BY <1>2, FS_Interval
  <2> HIDE DEF A
  <2> QED BY <2>1, FS_Subset
<1>5. IsFiniteSet(N)
  <2>1. IsFiniteSet(0 .. sizenode(h) - 1) /\ D \in SUBSET (0 .. sizenode(h) - 1)
    BY <1>2, FS_Interval
  <2> DEFINE f == [i \in 0 .. sizenode(h) - 1 |-> h.node[i].key]
  <2>2. D \subseteq DOMAIN f /\ N = {f[i] : i \in D}
    BY <2>1
  <2> HIDE DEF D, N, f
  <2>3. IsFiniteSet(D)
    BY <2>1, FS_Subset
  <2> QED BY <2>2, <2>3, ImageFinite
<1>6. N \subseteq Int /\ A \subseteq Int /\ k \in Int
  <2>1. ASSUME NEW i \in D PROVE h.node[i].key \in Int
    BY <1>1, <1>2, TableAssumption DEF Typed
  <2>2. k \in Int
    BY TableAssumption
  <2> QED BY <1>2, <2>1, <2>2
<1>7. IsFiniteSet(Used(h, k))
  <2> HIDE DEF A, N
  <2>1. IsFiniteSet(A \union N)
    BY <1>4, <1>5, FS_Union
  <2> QED BY <1>3, <2>1, FS_AddElement
<1>8. ASSUME NEW j \in TableKeys, luaH_get(h, j) # 0 PROVE j \in A \union N
  <2>1. CASE InArray(h, j)
    <3>1. j \in 1 .. sizearray(h) /\ h.array[j] # 0
      BY <1>2, <1>8, <2>1, GetIs, TableAssumption DEF InArray
    <3> QED BY <3>1
  <2>2. CASE ~InArray(h, j)
    <3>1. PICK p \in Places(h) : h.node[p].key = j
      BY <1>8, <2>2, GetIs
    <3>2. h.node[p].val # 0
      BY <1>8, <3>1, GetIs
    <3> QED BY <1>2, <3>1, <3>2
  <2> QED BY <2>1, <2>2
<1> HIDE DEF A, N
<1> QED BY <1>3, <1>6, <1>7, <1>8

\* After a rehash there is room for the key.
LEMMA RehashIs ==
  ASSUME NEW h, Sound(h), NEW k \in TableKeys
  PROVE  /\ Sound(rehash(h, k)) /\ HasRoom(rehash(h, k), k)
         /\ \A j \in TableKeys : luaH_get(rehash(h, k), j) = luaH_get(h, j)
<1> DEFINE S == Used(h, k)  a == computesizes(S)  T == S \ 1 .. a  s == Cardinality(T)  g == rehash(h, k)
<1>1. IsFiniteSet(S) /\ S \subseteq Int /\ k \in S /\ \A j \in TableKeys : luaH_get(h, j) # 0 => j \in S
  BY UsedIs
<1> HIDE DEF S
<1>2. a \in Nat
  BY <1>1, ArraySize
<1>3. g = resize(h, a, s)
  BY DEF rehash, S
<1> HIDE DEF a, g
<1>4. IsFiniteSet(T) /\ s \in Nat /\ T \subseteq S
  <2>1. T \in SUBSET S
    OBVIOUS
  <2> HIDE DEF T
  <2> QED BY <1>1, <2>1, FS_Subset, FS_CardinalityType
<1>5. ASSUME NEW j \in TableKeys, luaH_get(h, j) # 0, ~(0 < j /\ j <= a) PROVE j \in T
  BY <1>1, <1>2, <1>5
<1>6. k \in T \/ (0 < k /\ k <= a)
  BY <1>1, <1>2
<1> HIDE DEF T
<1>7. s <= s
  BY <1>4
<1>8. /\ Sound(g) /\ sizearray(g) = a /\ Fits(g, T)
      /\ \A j \in TableKeys : luaH_get(g, j) = luaH_get(h, j)
  BY <1>2, <1>3, <1>4, <1>5, <1>7, ResizeIs
<1>9. HasRoom(g, k)
  <2>1. CASE 0 < k /\ k <= a
    BY <1>8, <2>1 DEF HasRoom, InArray
  <2>2. CASE k \in T
    <3>1. /\ IsFiniteSet(T) /\ ~g.dummy /\ Cardinality(T) <= sizenode(g)
          /\ \A i \in Places(g) : g.node[i].key # 0 => g.node[i].key \in T
      BY <1>8, <2>2 DEF Fits
    <3> QED BY <1>8, <2>2, <3>1, Room
  <2> QED BY <1>6, <2>1, <2>2
<1> QED BY <1>8, <1>9 DEF g

\* A field is set: it has the value and the others keep theirs.  A field that the
\* table has stays where it is, as all others do.
Held(h, k) == InArray(h, k) \/ NodeOf(h, k) # Nowhere

LEMMA SetIs ==
  ASSUME NEW h, Sound(h), NEW k \in TableKeys, NEW v
  PROVE  LET g == luaH_set(h, k, v)
         IN  /\ Sound(g) /\ \A j \in TableKeys : luaH_get(g, j) = IF j = k THEN v ELSE luaH_get(h, j)
             /\ Held(h, k) => SameKeys(h, g) /\ sizearray(g) = sizearray(h) /\ sizenode(g) = sizenode(h)
<1>1. CASE HasRoom(h, k)
  <2>1. luaH_set(h, k, v) = Placed(h, k, v)
    BY <1>1 DEF luaH_set
  <2> QED BY <1>1, <2>1, PlacedIs DEF Stores, Held
<1>2. CASE ~HasRoom(h, k)
  <2> DEFINE f == rehash(h, k)
  <2>1. luaH_set(h, k, v) = Placed(f, k, v)
    BY <1>2 DEF luaH_set
  <2>2. Sound(f) /\ HasRoom(f, k) /\ \A j \in TableKeys : luaH_get(f, j) = luaH_get(h, j)
    BY RehashIs
  <2>3. ~Held(h, k)
    BY <1>2 DEF HasRoom, Held
  <2> HIDE DEF f
  <2>4. Stores(f, Placed(f, k, v), k, v)
    BY <2>2, PlacedIs
  <2> QED BY <2>1, <2>2, <2>3, <2>4 DEF Stores
<1> QED BY <1>1, <1>2

\* The array is made longer.
LEMMA LongerIs ==
  ASSUME NEW h, Sound(h), NEW a \in Nat, a > sizearray(h)
  PROVE  /\ Sound(luaH_resizearray(h, a))
         /\ \A j \in TableKeys : luaH_get(luaH_resizearray(h, a), j) = luaH_get(h, j)
<1> DEFINE n == sizenode(h)  s == IF h.dummy THEN 0 ELSE n
           I == {h.node[i].key : i \in 0 .. n - 1}  T == I \ {0}
<1>1. Typed(h) /\ Stored(h)
  BY DEF Sound
<1>2. n \in Nat \ {0} /\ Places(h) = 0 .. n - 1 /\ DOMAIN h.node = 0 .. n - 1 /\ sizearray(h) \in Nat
  BY <1>1 DEF Typed, Places
<1>3. IsFiniteSet(0 .. n - 1) /\ Cardinality(0 .. n - 1) = n
  <2> HIDE DEF I, T, s, n
  <2> QED BY <1>2, FS_Interval, SMTT(60)
<1>4. IsFiniteSet(I) /\ Cardinality(I) <= n
  <2> DEFINE f == [i \in 0 .. n - 1 |-> h.node[i].key]
  <2>1. 0 .. n - 1 \subseteq DOMAIN f /\ I = {f[i] : i \in 0 .. n - 1}
    OBVIOUS
  <2> HIDE DEF f, I
  <2>2. IsFiniteSet({f[i] : i \in 0 .. n - 1}) /\ Cardinality({f[i] : i \in 0 .. n - 1}) <= Cardinality(0 .. n - 1)
    BY <1>3, <2>1, ImageFinite
  <2> QED BY <1>3, <2>1, <2>2
<1>5. IsFiniteSet(T) /\ Cardinality(T) <= s
  <2>0. T \in SUBSET I
    OBVIOUS
  <2>1. IsFiniteSet(T) /\ Cardinality(T) <= Cardinality(I) /\ Cardinality(T) \in Nat /\ Cardinality(I) \in Nat
    <3> HIDE DEF T, I
    <3> QED BY <1>4, <2>0, FS_Subset, FS_CardinalityType
  <2>2. CASE h.dummy
    <3>1. n = 1 /\ h.node[0].key = 0
      BY <1>1, <2>2 DEF Stored, FreeNode, Node
    <3>2. T = {}
      BY <3>1
    <3> HIDE DEF T
    <3>3. Cardinality(T) = 0
      BY <3>2, FS_EmptySet
    <3> QED BY <2>1, <2>2, <3>3
  <2>3. CASE ~h.dummy
    <3> HIDE DEF T, I, n
    <3> QED BY <1>2, <1>4, <2>1, <2>3
  <2> QED BY <2>2, <2>3
<1>6. ASSUME NEW j \in TableKeys, luaH_get(h, j) # 0, ~(0 < j /\ j <= a) PROVE j \in T
  <2>1. ~InArray(h, j)
    BY <1>2, <1>6, TableAssumption DEF InArray
  <2>2. PICK p \in Places(h) : h.node[p].key = j
    BY <1>6, <2>1, GetIs
  <2>3. j # 0
    BY TableAssumption
  <2> QED BY <1>2, <2>2, <2>3
<1>7. luaH_resizearray(h, a) = resize(h, a, s)
  BY DEF luaH_resizearray
<1>8. s \in Nat
  BY <1>2
<1> HIDE DEF T, s
<1> QED BY <1>5, <1>6, <1>7, <1>8, ResizeIs

-----------------------------------------------------------------------------
(* Length *)

\* A number beyond the array that has a value is a key of a node.
LEMMA Beyond ==
  ASSUME NEW h, Sound(h), NEW x \in Nat, x > sizearray(h), luaH_get(h, x) # 0
  PROVE  \E p \in Places(h) : h.node[p].key = x
<1>1. sizearray(h) \in Nat
  BY DEF Sound, Typed
<1>2. ~InArray(h, x)
  BY <1>1 DEF InArray
<1>3. x \in TableKeys
  BY <1>2 DEF luaH_get
<1> QED BY <1>2, <1>3, GetIs

\* Zero, or an index that has a value; and an index that has none.
Ends(h) == {e \in Nat \X Nat : e[1] < e[2] /\ (e[1] = 0 \/ luaH_get(h, e[1]) # 0)}
Bounds(h) == {e \in Ends(h) : luaH_get(h, e[2]) = 0}

LEMMA BetweenIs ==
  ASSUME NEW h, NEW i \in Nat, NEW j \in Nat, <<i, j>> \in Bounds(h)
  PROVE  LET n == Between(h, i, j) IN n \in Nat /\ (n = 0 \/ luaH_get(h, n) # 0) /\ luaH_get(h, n + 1) = 0
<1> DEFINE P == Bounds(h)
           half(e) == IF e[2] - e[1] <= 1 THEN e
                      ELSE IF luaH_get(h, (e[1] + e[2]) \div 2) = 0 THEN <<e[1], (e[1] + e[2]) \div 2>>
                      ELSE <<(e[1] + e[2]) \div 2, e[2]>>
           G == [e \in P |-> half(e)]
           Is(f) == f = [n \in 0 .. j |-> IF n = 0 THEN <<i, j>> ELSE half(f[n - 1])]
           ends == CHOOSE f : Is(f)
<1>1. Between(h, i, j) = ends[j][1]
  BY Zenon DEF Between
<1>2. ASSUME NEW e \in P
      PROVE  /\ half(e) \in P
             /\ e[2] - e[1] <= 1 => half(e) = e
             /\ e[2] - e[1] > 1 => half(e)[2] - half(e)[1] < e[2] - e[1]
  <2> DEFINE a == e[1]  b == e[2]  m == (a + b) \div 2
  <2>1. /\ e = <<a, b>> /\ a \in Nat /\ b \in Nat /\ a < b /\ (a = 0 \/ luaH_get(h, a) # 0)
        /\ luaH_get(h, b) = 0
    BY <1>2 DEF Bounds, Ends
  <2>2. ASSUME b - a > 1 PROVE m \in Nat /\ a < m /\ m < b
    <3> HIDE DEF a, b
    <3>1. 2 * m <= a + b /\ a + b < 2 * m + 2 /\ m \in Int
      BY <2>1
    <3> HIDE DEF m
    <3> QED BY <2>1, <2>2, <3>1
  <2>3. half(e) = IF b - a <= 1 THEN e ELSE IF luaH_get(h, m) = 0 THEN <<a, m>> ELSE <<m, b>>
    OBVIOUS
  <2> HIDE DEF half, m, a, b
  <2>4. CASE b - a <= 1
    BY <1>2, <2>1, <2>3, <2>4 DEF a, b
  <2>5. CASE b - a > 1 /\ luaH_get(h, m) = 0
    <3>1. half(e) = <<a, m>>
      BY <2>1, <2>3, <2>5
    <3>2. <<a, m>> \in P
      BY <2>1, <2>2, <2>5 DEF Bounds, Ends
    <3>3. half(e)[1] = a /\ half(e)[2] = m /\ m - a < b - a
      BY <2>1, <2>2, <2>5, <3>1
    <3> QED BY <2>1, <2>5, <3>1, <3>2, <3>3 DEF a, b
  <2>6. CASE b - a > 1 /\ luaH_get(h, m) # 0
    <3>1. half(e) = <<m, b>>
      BY <2>1, <2>3, <2>6
    <3>2. <<m, b>> \in P
      BY <2>1, <2>2, <2>6 DEF Bounds, Ends
    <3>3. half(e)[1] = m /\ half(e)[2] = b /\ b - m < b - a
      BY <2>1, <2>2, <2>6, <3>1
    <3> QED BY <2>1, <2>6, <3>1, <3>2, <3>3 DEF a, b
  <2> QED BY <2>1, <2>4, <2>5, <2>6
<1> HIDE DEF half, P
<1>3. G \in [P -> P]
  BY <1>2
<1>4. \E f : Is(f)
  <2> HIDE DEF G, Is
  <2>1. PICK f : Iterated(f, P, <<i, j>>, G, j)
    BY <1>3, Iterates DEF P
  <2>2. f \in [0 .. j -> P] /\ f = [n \in 0 .. j |-> IF n = 0 THEN <<i, j>> ELSE G[f[n - 1]]]
    BY <2>1 DEF Iterated
  <2>3. \A n \in 0 .. j : f[n] = IF n = 0 THEN <<i, j>> ELSE half(f[n - 1])
    <3> TAKE n \in 0 .. j
    <3>1. n # 0 => n - 1 \in 0 .. j
      OBVIOUS
    <3>2. n # 0 => G[f[n - 1]] = half(f[n - 1])
      BY <2>2, <3>1 DEF G
    <3> QED BY <2>2, <3>2
  <2>4. Is(f)
    BY <2>2, <2>3 DEF Is
  <2> QED BY <2>4
<1>5. Is(ends)
  <2> HIDE DEF Is
  <2> QED BY <1>4, Zenon DEF ends
<1> HIDE DEF ends
<1>6. ends[0] = <<i, j>> /\ \A n \in 1 .. j : ends[n] = half(ends[n - 1])
  <2>1. ends[0] = <<i, j>>
    BY <1>5
  <2>2. ASSUME NEW n \in 1 .. j PROVE ends[n] = half(ends[n - 1])
    <3>1. n \in 0 .. j /\ n # 0
      OBVIOUS
    <3> QED BY <1>5, <3>1
  <2> QED BY <2>1, <2>2
<1> HIDE DEF Is, G
<1> DEFINE d(e) == e[2] - e[1]
           T == {n \in Nat : n <= j => ends[n] \in P /\ (d(ends[n]) <= 1 \/ d(ends[n]) + n <= j)}
<1>7. \A e \in P : d(e) \in Nat \ {0}
  BY DEF P, Bounds, Ends
<1>8. 0 \in T
  <2>1. <<i, j>>[2] - <<i, j>>[1] + 0 <= j
    OBVIOUS
  <2> QED BY <1>6, <2>1 DEF P
<1>9. ASSUME NEW n \in Nat, n \in T PROVE n + 1 \in T
  <2> SUFFICES ASSUME n + 1 <= j
               PROVE  ends[n + 1] \in P /\ (d(ends[n + 1]) <= 1 \/ d(ends[n + 1]) + (n + 1) <= j)
    OBVIOUS
  <2>1. ends[n] \in P /\ (d(ends[n]) <= 1 \/ d(ends[n]) + n <= j)
    BY <1>9
  <2>2. n + 1 \in 1 .. j /\ (n + 1) - 1 = n
    OBVIOUS
  <2>3. ends[n + 1] = half(ends[n])
    BY <1>6, <2>2
  <2> HIDE DEF T
  <2>4. /\ ends[n + 1] \in P
        /\ d(ends[n]) <= 1 => ends[n + 1] = ends[n]
        /\ d(ends[n]) > 1 => d(ends[n + 1]) < d(ends[n])
    BY <1>2, <2>1, <2>3
  <2>5. d(ends[n]) \in Nat /\ d(ends[n + 1]) \in Nat
    BY <1>7, <2>1, <2>4
  <2> HIDE DEF d
  <2> QED BY <2>1, <2>4, <2>5
<1>10. Nat \subseteq T
  <2> HIDE DEF T
  <2> QED BY <1>8, <1>9, Induction
<1>11. ends[j] \in P /\ (d(ends[j]) <= 1 \/ d(ends[j]) + j <= j)
  BY <1>10
<1>12. d(ends[j]) = 1
  <2> HIDE DEF d
  <2> QED BY <1>7, <1>11
<1>13. /\ ends[j][1] \in Nat /\ ends[j][2] = ends[j][1] + 1
       /\ (ends[j][1] = 0 \/ luaH_get(h, ends[j][1]) # 0) /\ luaH_get(h, ends[j][2]) = 0
  BY <1>11, <1>12 DEF P, Bounds, Ends
<1> QED BY <1>1, <1>13

\* The index is doubled until there is none, which there are not enough nodes to put off.
LEMMA UnboundIs ==
  ASSUME NEW h, Sound(h), LET i == sizearray(h) IN i = 0 \/ luaH_get(h, i) # 0
  PROVE  LET n == unbound_search(h, sizearray(h))
         IN  n \in Nat /\ (n = 0 \/ luaH_get(h, n) # 0) /\ luaH_get(h, n + 1) = 0
<1> DEFINE i == sizearray(h)  c == sizenode(h)
           Q == {e \in Ends(h) : e[2] > i}
           double(e) == IF luaH_get(h, e[2]) = 0 THEN e ELSE <<e[2], 2 * e[2]>>
           G == [e \in Q |-> double(e)]
           Is(f) == f = [n \in 0 .. c |-> IF n = 0 THEN <<i, i + 1>> ELSE double(f[n - 1])]
           ends == CHOOSE f : Is(f)
<1>1. unbound_search(h, i) = Between(h, ends[c][1], ends[c][2])
  BY Zenon DEF unbound_search
<1>2. i \in Nat /\ c \in Nat \ {0} /\ Places(h) = 0 .. c - 1 /\ (i = 0 \/ luaH_get(h, i) # 0)
  BY DEF Sound, Typed, Places
<1> HIDE DEF i, c
<1>3. <<i, i + 1>> \in Q
  BY <1>2 DEF Ends
<1>4. ASSUME NEW e \in Q PROVE double(e) \in Q /\ (luaH_get(h, e[2]) # 0 => double(e)[2] > e[2])
  <2>1. e[1] \in Nat /\ e[2] \in Nat /\ e[1] < e[2] /\ e[2] > i
    BY <1>4 DEF Ends
  <2>2. CASE luaH_get(h, e[2]) = 0
    BY <1>4, <2>2
  <2>3. CASE luaH_get(h, e[2]) # 0
    <3>1. double(e) = <<e[2], 2 * e[2]>>
      BY <2>3
    <3>2. 2 * e[2] \in Nat /\ e[2] < 2 * e[2] /\ 2 * e[2] > i
      BY <1>2, <2>1
    <3>3. <<e[2], 2 * e[2]>> \in Q
      BY <2>1, <2>3, <3>2 DEF Ends
    <3> QED BY <2>1, <3>1, <3>2, <3>3
  <2> QED BY <2>2, <2>3
<1> HIDE DEF double, Q
<1>5. G \in [Q -> Q]
  BY <1>4
<1>6. \E f : Is(f)
  <2> HIDE DEF G, Is
  <2>1. PICK f : Iterated(f, Q, <<i, i + 1>>, G, c)
    BY <1>2, <1>3, <1>5, Iterates
  <2>2. f \in [0 .. c -> Q] /\ f = [n \in 0 .. c |-> IF n = 0 THEN <<i, i + 1>> ELSE G[f[n - 1]]]
    BY <2>1 DEF Iterated
  <2>3. \A n \in 0 .. c : f[n] = IF n = 0 THEN <<i, i + 1>> ELSE double(f[n - 1])
    <3> TAKE n \in 0 .. c
    <3>1. n # 0 => n - 1 \in 0 .. c
      BY <1>2
    <3>2. n # 0 => G[f[n - 1]] = double(f[n - 1])
      BY <2>2, <3>1 DEF G
    <3> QED BY <2>2, <3>2
  <2>4. Is(f)
    BY <2>2, <2>3 DEF Is
  <2> QED BY <2>4
<1>7. Is(ends)
  <2> HIDE DEF Is
  <2> QED BY <1>6, Zenon DEF ends
<1> HIDE DEF ends
<1>8. ends[0] = <<i, i + 1>> /\ \A n \in 1 .. c : ends[n] = double(ends[n - 1])
  <2>1. \A n \in 1 .. c : n \in 0 .. c /\ n # 0
    BY <1>2
  <2> QED BY <1>2, <1>7, <2>1, SMTT(60)
<1> HIDE DEF Is, G
<1>9. \A n \in 0 .. c : ends[n] \in Q
  <2> DEFINE T == {n \in Nat : n <= c => ends[n] \in Q}
  <2>1. 0 \in T
    BY <1>3, <1>8
  <2>2. ASSUME NEW n \in Nat, n \in T PROVE n + 1 \in T
    <3> SUFFICES ASSUME n + 1 <= c PROVE ends[n + 1] \in Q
      OBVIOUS
    <3>1. ends[n] \in Q /\ n + 1 \in 1 .. c /\ (n + 1) - 1 = n
      BY <1>2, <2>2
    <3> QED BY <1>4, <1>8, <3>1
  <2>3. Nat \subseteq T
    <3> HIDE DEF T
    <3> QED BY <2>1, <2>2, Induction
  <2> QED BY <1>2, <2>3
<1> DEFINE x(n) == ends[n][2]
<1>10. \A n \in 0 .. c : x(n) \in Nat /\ x(n) > i
  BY <1>9 DEF Q, Ends
<1>11. luaH_get(h, x(c)) = 0
  <2> SUFFICES ASSUME luaH_get(h, x(c)) # 0 PROVE FALSE
    OBVIOUS
  <2>1. \A n \in 0 .. c : luaH_get(h, x(n)) # 0
    <3> DEFINE T == {m \in Nat : m <= c => luaH_get(h, x(c - m)) # 0}
    <3>1. 0 \in T
      BY <1>2
    <3>2. ASSUME NEW m \in Nat, m \in T PROVE m + 1 \in T
      <4> SUFFICES ASSUME m + 1 <= c, luaH_get(h, x(c - (m + 1))) = 0 PROVE FALSE
        OBVIOUS
      <4>1. c - m \in 1 .. c /\ (c - m) - 1 = c - (m + 1)
        BY <1>2
      <4>2. ends[c - m] = double(ends[c - (m + 1)])
        BY <1>8, <4>1
      <4>3. ends[c - m] = ends[c - (m + 1)]
        BY <4>2 DEF double
      <4>4. luaH_get(h, x(c - m)) # 0
        BY <1>2, <3>2
      <4> QED BY <4>3, <4>4
    <3>3. Nat \subseteq T
      <4> HIDE DEF T
      <4> QED BY <3>1, <3>2, Induction
    <3> TAKE n \in 0 .. c
    <3>4. c - n \in Nat /\ c - n <= c /\ c - (c - n) = n
      BY <1>2
    <3>5. c - n \in T
      BY <3>3, <3>4
    <3> QED BY <3>4, <3>5
  <2>2. \A n \in 1 .. c : x(n) > x(n - 1)
    <3> TAKE n \in 1 .. c
    <3>1. n - 1 \in 0 .. c
      BY <1>2
    <3>2. ends[n] = double(ends[n - 1]) /\ ends[n - 1] \in Q /\ luaH_get(h, ends[n - 1][2]) # 0
      BY <1>8, <1>9, <2>1, <3>1
    <3> QED BY <1>4, <3>2
  <2>3. ASSUME NEW a \in 0 .. c, NEW b \in 0 .. c, a < b PROVE x(a) < x(b)
    <3> DEFINE T == {m \in Nat : a + 1 + m <= c => x(a) < x(a + 1 + m)}
    <3> HIDE DEF x
    <3>1. 0 \in T
      <4>1. CASE a + 1 + 0 <= c
        <5>1. a + 1 + 0 \in 1 .. c /\ (a + 1 + 0) - 1 = a /\ a + 1 + 0 \in 0 .. c
          BY <1>2, <4>1
        <5>2. x(a + 1 + 0) > x(a) /\ x(a) \in Nat /\ x(a + 1 + 0) \in Nat
          BY <1>10, <2>2, <5>1
        <5>3. x(a) < x(a + 1 + 0)
          BY <5>2
        <5> QED BY <5>3
      <4>2. CASE ~(a + 1 + 0 <= c)
        BY <4>2
      <4> QED BY <4>1, <4>2
    <3>2. ASSUME NEW m \in Nat, m \in T PROVE m + 1 \in T
      <4> SUFFICES ASSUME a + 1 + (m + 1) <= c PROVE x(a) < x(a + 1 + (m + 1))
        OBVIOUS
      <4> DEFINE y == a + 1 + m  z == a + 1 + (m + 1)
      <4>1. z \in 1 .. c /\ z \in 0 .. c /\ z - 1 = y /\ y \in 0 .. c /\ y <= c
        BY <1>2
      <4>2. x(a) < x(y)
        BY <3>2, <4>1
      <4> HIDE DEF y, z
      <4>3. x(z) > x(y) /\ x(a) \in Nat /\ x(y) \in Nat /\ x(z) \in Nat
        BY <1>10, <2>2, <4>1
      <4>4. x(a) < x(z)
        BY <4>2, <4>3
      <4> QED BY <4>4 DEF z
    <3>3. Nat \subseteq T
      <4> HIDE DEF T
      <4> QED BY <3>1, <3>2, Induction
    <3>4. b - (a + 1) \in Nat /\ a + 1 + (b - (a + 1)) = b /\ b <= c
      BY <1>2, <2>3
    <3>5. b - (a + 1) \in T
      BY <3>3, <3>4
    <3> QED BY <3>4, <3>5
  <2>4. ASSUME NEW n \in 0 .. c PROVE \E p \in 0 .. c - 1 : h.node[p].key = x(n)
    <3> HIDE DEF x
    <3> QED BY <1>2, <1>10, <2>1, Beyond DEF i
  <2> DEFINE of == [n \in 0 .. c |-> CHOOSE p \in 0 .. c - 1 : h.node[p].key = x(n)]
  <2> HIDE DEF x
  <2>5. \A n \in 0 .. c : of[n] \in 0 .. c - 1 /\ h.node[of[n]].key = x(n)
    BY <2>4
  <2>6. of \in [0 .. c -> 0 .. c - 1]
    BY <2>5
  <2> HIDE DEF of
  <2>7. /\ IsFiniteSet(0 .. c) /\ Cardinality(0 .. c) = c + 1
        /\ IsFiniteSet(0 .. c - 1) /\ Cardinality(0 .. c - 1) = c
    BY <1>2, FS_Interval
  <2>8. Cardinality(0 .. c - 1) < Cardinality(0 .. c)
    BY <1>2, <2>7
  <2>9. \E a, b \in 0 .. c : a # b /\ of[a] = of[b]
    BY <2>6, <2>7, <2>8, FS_PigeonHole
  <2>10. PICK a, b \in 0 .. c : a # b /\ x(a) = x(b)
    BY <2>5, <2>9
  <2>11. (a < b \/ b < a) /\ x(a) \in Nat
    BY <1>2, <1>10, <2>10
  <2>12. ~(x(a) < x(b)) /\ ~(x(b) < x(a))
    BY <2>10, <2>11
  <2> QED BY <2>3, <2>11, <2>12
<1>12. ends[c] \in Ends(h) /\ c \in 0 .. c
  BY <1>2, <1>9 DEF Q
<1>13. ends[c] = <<ends[c][1], ends[c][2]>> /\ ends[c][1] \in Nat /\ ends[c][2] \in Nat
  BY <1>12 DEF Ends
<1>14. <<ends[c][1], ends[c][2]>> \in Bounds(h)
  BY <1>11, <1>12, <1>13 DEF Bounds
<1> QED BY <1>1, <1>13, <1>14, BetweenIs DEF i

LEMMA LengthIs ==
  ASSUME NEW h, Sound(h)
  PROVE  LET n == luaH_getn(h) IN n \in Nat /\ (n = 0 \/ luaH_get(h, n) # 0) /\ luaH_get(h, n + 1) = 0
<1> DEFINE j == sizearray(h)
<1>1. Typed(h) /\ Stored(h) /\ j \in Nat
  BY DEF Sound, Typed
<1>2. j > 0 => luaH_get(h, j) = h.array[j]
  <2>1. j > 0 => InArray(h, j)
    BY <1>1 DEF InArray
  <2> QED BY <2>1 DEF luaH_get
<1> HIDE DEF j
<1>3. luaH_getn(h) = IF j > 0 /\ h.array[j] = 0 THEN Between(h, 0, j)
                     ELSE IF h.dummy THEN j ELSE unbound_search(h, j)
  BY DEF luaH_getn, j
<1>4. CASE j > 0 /\ h.array[j] = 0
  <2>1. <<0, j>> \in Bounds(h)
    BY <1>1, <1>2, <1>4 DEF Bounds, Ends
  <2> QED BY <1>1, <1>3, <1>4, <2>1, BetweenIs
<1>5. CASE ~(j > 0 /\ h.array[j] = 0)
  <2>1. j = 0 \/ luaH_get(h, j) # 0
    BY <1>1, <1>2, <1>5
  <2>2. CASE h.dummy
    <3>1. \A p \in Places(h) : h.node[p].key = 0
      BY <1>1, <2>2 DEF Stored, Places, FreeNode, Node
    <3>2. ASSUME luaH_get(h, j + 1) # 0 PROVE FALSE
      <4>1. j + 1 \in Nat /\ j + 1 > sizearray(h)
        BY <1>1 DEF j
      <4>2. \E p \in Places(h) : h.node[p].key = j + 1
        BY <3>2, <4>1, Beyond
      <4> QED BY <1>1, <3>1, <4>2
    <3> QED BY <1>1, <1>3, <1>5, <2>1, <2>2, <3>2
  <2>3. CASE ~h.dummy
    <3>1. luaH_getn(h) = unbound_search(h, j)
      BY <1>3, <1>5, <2>3
    <3> QED BY <2>1, <3>1, UnboundIs DEF j
  <2> QED BY <2>2, <2>3
<1> QED BY <1>4, <1>5

-----------------------------------------------------------------------------
(* Traversal *)

Last(h) == sizearray(h) + sizenode(h)

\* Where a key is, and which key is there.
LEMMA PlaceIs ==
  ASSUME NEW h, Sound(h), NEW k \in TableKeys, Held(h, k)
  PROVE  findindex(h, k) \in 1 .. Last(h) /\ KeyAt(h, findindex(h, k)) = IF luaH_get(h, k) = 0 THEN 0 ELSE k
<1> DEFINE a == sizearray(h)  c == sizenode(h)
<1>1. a \in Nat /\ c \in Nat \ {0} /\ Places(h) = 0 .. c - 1 /\ k \in Int /\ k # 0
  BY TableAssumption DEF Sound, Typed, Places
<1>2. CASE InArray(h, k)
  <2>1. findindex(h, k) = k
    BY <1>1, <1>2 DEF findindex
  <2>2. 0 < k /\ k <= a
    BY <1>2 DEF InArray
  <2>3. luaH_get(h, k) = h.array[k]
    BY <1>2, GetIs
  <2>4. KeyAt(h, k) = IF h.array[k] = 0 THEN 0 ELSE k
    BY <2>2 DEF KeyAt
  <2>5. k \in 1 .. Last(h)
    BY <1>1, <2>2 DEF Last
  <2> QED BY <2>1, <2>3, <2>4, <2>5
<1>3. CASE ~InArray(h, k)
  <2> DEFINE n == NodeOf(h, k)
  <2>1. n \in Places(h) /\ h.node[n].key = k
    BY <1>3, NodeIs DEF Held
  <2>2. findindex(h, k) = a + 1 + n
    BY <1>1, <1>3 DEF findindex
  <2>3. luaH_get(h, k) = h.node[n].val
    BY <2>1, GetIs
  <2> HIDE DEF n
  <2> DEFINE i == a + 1 + n
  <2>4. i \in 1 .. Last(h) /\ ~(i <= a) /\ i - a - 1 = n
    BY <1>1, <2>1 DEF Last
  <2> HIDE DEF i
  <2>5. KeyAt(h, i) = IF h.node[n].val = 0 THEN 0 ELSE k
    BY <2>1, <2>4 DEF KeyAt
  <2> QED BY <2>2, <2>3, <2>4, <2>5 DEF i
<1> QED BY <1>2, <1>3

LEMMA KeyIs ==
  ASSUME NEW h, Sound(h), NEW i \in 1 .. Last(h), KeyAt(h, i) # 0
  PROVE  LET k == KeyAt(h, i) IN k \in TableKeys /\ luaH_get(h, k) # 0 /\ findindex(h, k) = i
<1> DEFINE a == sizearray(h)  c == sizenode(h)  k == KeyAt(h, i)
<1>1. a \in Nat /\ c \in Nat \ {0} /\ Places(h) = 0 .. c - 1 /\ Typed(h) /\ Stored(h)
  BY DEF Sound, Typed, Places
<1>2. CASE i <= a
  <2>1. KeyAt(h, i) = IF h.array[i] = 0 THEN 0 ELSE i
    BY <1>2 DEF KeyAt
  <2>2. i \in 1 .. a
    BY <1>1, <1>2
  <2>3. k = i /\ h.array[i] # 0
    BY <2>1, <2>2
  <2>4. i \in TableKeys
    BY <1>1, <2>2, <2>3 DEF Stored
  <2>5. InArray(h, i) /\ i # 0
    BY <2>2 DEF InArray
  <2>6. luaH_get(h, i) = h.array[i]
    BY <2>4, <2>5, GetIs
  <2>7. findindex(h, i) = i
    BY <2>5 DEF findindex
  <2> QED BY <2>3, <2>4, <2>6, <2>7
<1>3. CASE ~(i <= a)
  <2> DEFINE n == i - a - 1
  <2>1. n \in Places(h) /\ a + 1 + n = i
    BY <1>1, <1>3 DEF Last
  <2>2. KeyAt(h, i) = IF h.node[n].val = 0 THEN 0 ELSE h.node[n].key
    BY <1>3 DEF KeyAt
  <2> HIDE DEF n
  <2>3. k = h.node[n].key /\ h.node[n].val # 0
    BY <2>2
  <2>4. k # 0
    OBVIOUS
  <2> HIDE DEF k
  <2>5. k \in TableKeys /\ ~InArray(h, k)
    BY <1>1, <2>1, <2>3, <2>4 DEF Typed, Stored
  <2>6. luaH_get(h, k) = h.node[n].val /\ NodeOf(h, k) = n
    BY <2>1, <2>3, <2>5, GetIs
  <2>7. findindex(h, k) = a + 1 + n
    BY <2>4, <2>5, <2>6 DEF findindex
  <2> QED BY <2>1, <2>3, <2>5, <2>6, <2>7 DEF k
<1> QED BY <1>2, <1>3

LEMMA PresentHeld ==
  ASSUME NEW h, Sound(h), NEW k \in TableKeys, luaH_get(h, k) # 0
  PROVE  Held(h, k)
<1>1. CASE ~InArray(h, k)
  <2>1. PICK p \in Places(h) : h.node[p].key = k
    BY <1>1, GetIs
  <2>2. NodeOf(h, k) = p /\ p # Nowhere
    BY <2>1, GetIs, SMTT(60) DEF Places, Nowhere, Sound, Typed
  <2> QED BY <2>2 DEF Held
<1> QED BY <1>1 DEF Held

\* Keys stay in their places when one of them is set.
LEMMA SamePlace ==
  ASSUME NEW h, Sound(h), NEW g, Sound(g), SameKeys(h, g), sizearray(g) = sizearray(h), sizenode(g) = sizenode(h),
         NEW k \in TableKeys, Held(h, k)
  PROVE  Held(g, k) /\ findindex(g, k) = findindex(h, k)
<1>1. InArray(g, k) <=> InArray(h, k)
  BY DEF InArray
<1>2. CASE InArray(h, k)
  BY <1>1, <1>2 DEF Held, findindex
<1>3. CASE ~InArray(h, k)
  <2> DEFINE n == NodeOf(h, k)
  <2>1. n \in Places(h) /\ h.node[n].key = k /\ n # Nowhere
    BY <1>3, NodeIs DEF Held
  <2> HIDE DEF n
  <2>2. n \in Places(g) /\ g.node[n].key = k
    BY <2>1 DEF Places, SameKeys
  <2>3. NodeOf(g, k) = n
    BY <2>2, GetIs
  <2> QED BY <1>1, <1>3, <2>1, <2>3 DEF Held, findindex, n
<1> QED BY <1>2, <1>3

\* The next key is the first of those that are behind.
LEMMA NextIs ==
  ASSUME NEW h, Sound(h), NEW c, findindex(h, c) \in 0 .. Last(h)
  PROVE  LET k == luaH_next(h, c)
             behind(j) == luaH_get(h, j) # 0 /\ findindex(h, j) > findindex(h, c)
         IN  \/ k = 0 /\ \A j \in TableKeys : ~behind(j)
             \/ k \in TableKeys /\ k # 0 /\ behind(k) /\ \A j \in TableKeys : behind(j) => findindex(h, k) <= findindex(h, j)
<1> DEFINE i == findindex(h, c)  later == {m \in i + 1 .. Last(h) : KeyAt(h, m) # 0}
           behind(j) == luaH_get(h, j) # 0 /\ findindex(h, j) > i
<1>1. luaH_next(h, c) = IF later = {} THEN 0 ELSE KeyAt(h, Min(later))
  BY DEF luaH_next, Last
<1>2. Last(h) \in Nat
  BY DEF Sound, Typed, Last
<1> HIDE DEF i
<1>3. i \in 0 .. Last(h)
  BY DEF i
<1>4. ASSUME NEW j \in TableKeys, behind(j) PROVE findindex(h, j) \in later
  <2>1. findindex(h, j) \in 1 .. Last(h) /\ KeyAt(h, findindex(h, j)) = j
    BY <1>4, PresentHeld, PlaceIs
  <2>2. j # 0
    BY TableAssumption
  <2> QED BY <1>3, <1>4, <2>1, <2>2
<1>5. CASE later = {}
  BY <1>1, <1>4, <1>5 DEF i
<1>6. CASE later # {}
  <2> DEFINE m == Min(later)
  <2>1. later \in SUBSET Nat
    BY <1>3
  <2>2. m \in later /\ \A y \in later : m <= y
    <3> HIDE DEF later
    <3> QED BY <1>6, <2>1, MinIs
  <2>3. m \in 1 .. Last(h) /\ m > i /\ KeyAt(h, m) # 0
    BY <1>3, <2>2
  <2> HIDE DEF m
  <2> DEFINE k == KeyAt(h, m)
  <2>4. k \in TableKeys /\ luaH_get(h, k) # 0 /\ findindex(h, k) = m
    BY <2>3, KeyIs
  <2>5. luaH_next(h, c) = k
    BY <1>1, <1>6 DEF m
  <2> HIDE DEF k
  <2>6. behind(k)
    BY <2>3, <2>4
  <2>7. \A j \in TableKeys : behind(j) => m <= findindex(h, j)
    BY <1>4, <2>2
  <2>8. k # 0
    BY <2>4, TableAssumption
  <2> HIDE DEF later
  <2> QED BY <2>4, <2>5, <2>6, <2>7, <2>8 DEF i
<1> QED BY <1>5, <1>6

-----------------------------------------------------------------------------
(* The specification *)

\* A traversal has come to the keys that are up to where it is.
Traversed ==
  /\ key \in TableKeys \union {0} /\ (key # 0 => Held(t, key)) /\ (key = 0 => visited = {})
  /\ \A j \in TableKeys : luaH_get(t, j) # 0 => (j \in visited <=> findindex(t, j) <= findindex(t, key))

TableInv == Sound(t) /\ Traversed

LEMMA NewIs ==
  ASSUME TableInit
  PROVE  TableInv /\ \A k \in TableKeys : luaH_get(t, k) = 0
<1> DEFINE e == [array |-> <<>>, node |-> <<>>, lastfree |-> 0, dummy |-> TRUE]
<1>1. PICK s \in Sizes : t = luaH_new(s[1], s[2])
  BY DEF TableInit
<1>2. s[1] \in Nat /\ s[2] \in Nat
  BY TableAssumption
<1>3. t = setnodevector(setarrayvector(e, s[1]), s[2])
  BY <1>1 DEF luaH_new
<1>4. e = [array |-> e.array, node |-> e.node, lastfree |-> e.lastfree, dummy |-> e.dummy] /\ sizearray(e) = 0
  BY DEF sizearray
<1> HIDE DEF e
<1>5. /\ Sound(t)
      /\ \A k \in TableKeys : luaH_get(t, k) = IF 0 < k /\ k <= s[1] /\ k <= sizearray(e) THEN e.array[k] ELSE 0
  <2>1. \A i \in 1 .. sizearray(e) : e.array[i] # 0 => i \in TableKeys
    BY <1>4
  <2> QED BY <1>2, <1>3, <1>4, <2>1, FreshIs
<1>6. \A k \in TableKeys : luaH_get(t, k) = 0
  BY <1>4, <1>5, TableAssumption
<1>7. Traversed
  BY <1>6 DEF TableInit, Traversed
<1> QED BY <1>5, <1>6, <1>7 DEF TableInv

\* What each step does to the table and to the traversal.
LEMMA StoreStep ==
  ASSUME TableInv, StoreField
  PROVE  /\ TableInv'
         /\ \E k \in TableKeys : \E v \in TableValues[k] \union {0} :
              /\ \A j \in TableKeys : luaH_get(t', j) = IF j = k THEN v ELSE luaH_get(t, j)
              /\ IF luaH_get(t, k) # 0 THEN visited' = visited ELSE visited' = {}
<1>0. PICK k \in TableKeys : \E v \in TableValues[k] \union {0} :
        /\ t' = luaH_set(t, k, v)
        /\ IF luaH_get(t, k) # 0 THEN UNCHANGED <<key, visited>> ELSE key' = 0 /\ visited' = {}
  BY DEF StoreField
<1>1. PICK v \in TableValues[k] \union {0} :
        /\ t' = luaH_set(t, k, v)
        /\ IF luaH_get(t, k) # 0 THEN UNCHANGED <<key, visited>> ELSE key' = 0 /\ visited' = {}
  BY <1>0
<1>2. Sound(t)
  BY DEF TableInv
<1>3. /\ Sound(t') /\ \A j \in TableKeys : luaH_get(t', j) = IF j = k THEN v ELSE luaH_get(t, j)
      /\ Held(t, k) => SameKeys(t, t') /\ sizearray(t') = sizearray(t) /\ sizenode(t') = sizenode(t)
  BY <1>1, <1>2, SetIs
<1>4. Traversed'
  <2>1. CASE luaH_get(t, k) # 0
    <3>1. Held(t, k) /\ key' = key /\ visited' = visited
      BY <1>1, <1>2, <2>1, PresentHeld
    <3>2. \A j \in TableKeys : Held(t, j) => Held(t', j) /\ findindex(t', j) = findindex(t, j)
      BY <1>2, <1>3, <3>1, SamePlace
    <3>3. findindex(t', key) = findindex(t, key) /\ (key # 0 => Held(t', key))
      <4>1. CASE key = 0
        BY <4>1 DEF findindex
      <4>2. CASE key # 0
        BY <3>2, <4>2 DEF TableInv, Traversed
      <4> QED BY <4>1, <4>2
    <3>4. ASSUME NEW j \in TableKeys, luaH_get(t', j) # 0
          PROVE  j \in visited <=> findindex(t', j) <= findindex(t', key)
      <4>1. luaH_get(t, j) # 0
        BY <1>3, <2>1, <3>4
      <4>2. findindex(t', j) = findindex(t, j)
        BY <1>2, <3>2, <4>1, PresentHeld
      <4> QED BY <3>3, <4>1, <4>2 DEF TableInv, Traversed
    <3>5. key \in TableKeys \union {0} /\ (key = 0 => visited = {})
      BY DEF TableInv, Traversed
    <3> QED BY <3>1, <3>3, <3>4, <3>5 DEF Traversed
  <2>2. CASE luaH_get(t, k) = 0
    <3>1. key' = 0 /\ visited' = {}
      BY <1>1, <2>2
    <3>2. findindex(t', 0) = 0
      BY DEF findindex
    <3>3. ASSUME NEW j \in TableKeys, luaH_get(t', j) # 0 PROVE ~(findindex(t', j) <= 0)
      <4>1. findindex(t', j) \in 1 .. Last(t')
        BY <1>3, <3>3, PresentHeld, PlaceIs
      <4> QED BY <4>1
    <3> QED BY <3>1, <3>2, <3>3 DEF Traversed
  <2> QED BY <2>1, <2>2
<1>5. TableInv'
  BY <1>3, <1>4 DEF TableInv
<1>6. IF luaH_get(t, k) # 0 THEN visited' = visited ELSE visited' = {}
  BY <1>1
<1> QED BY <1>1, <1>3, <1>5, <1>6

LEMMA EnlargeStep ==
  ASSUME TableInv, Enlarge
  PROVE  TableInv' /\ visited' = visited /\ \A j \in TableKeys : luaH_get(t', j) = luaH_get(t, j)
<1>1. PICK n \in TableKeys : n > sizearray(t) /\ t' = luaH_resizearray(t, n)
  BY DEF Enlarge
<1>2. Sound(t) /\ key = 0 /\ key' = 0 /\ visited' = visited /\ visited = {}
  BY DEF Enlarge, TableInv, Traversed
<1>3. n \in Nat
  <2>1. sizearray(t) \in Nat /\ n \in Int
    BY <1>2, TableAssumption DEF Sound, Typed
  <2> QED BY <1>1, <2>1
<1>4. Sound(t') /\ \A j \in TableKeys : luaH_get(t', j) = luaH_get(t, j)
  BY <1>1, <1>2, <1>3, LongerIs
<1>5. findindex(t', 0) = 0
  BY DEF findindex
<1>6. ASSUME NEW j \in TableKeys, luaH_get(t', j) # 0 PROVE ~(findindex(t', j) <= 0)
  <2>1. findindex(t', j) \in 1 .. Last(t')
    BY <1>4, <1>6, PresentHeld, PlaceIs
  <2> QED BY <2>1
<1>7. Traversed'
  BY <1>2, <1>5, <1>6 DEF Traversed
<1> QED BY <1>2, <1>4, <1>7 DEF TableInv

LEMMA TraverseStep ==
  ASSUME TableInv, Traverse
  PROVE  /\ TableInv' /\ t' = t
         /\ \/ key' = 0 /\ visited' = {} /\ \A j \in TableKeys : luaH_get(t, j) # 0 => j \in visited
            \/ /\ key' \in TableKeys /\ luaH_get(t, key') # 0 /\ key' \notin visited
               /\ visited' = visited \union {key'}
<1> DEFINE i == findindex(t, key)  behind(j) == luaH_get(t, j) # 0 /\ findindex(t, j) > i
<1>1. Sound(t) /\ t' = t /\ key' = luaH_next(t, key) /\ visited' = IF key' = 0 THEN {} ELSE visited \union {key'}
  BY DEF TableInv, Traverse
<1>2. /\ key \in TableKeys \union {0} /\ (key # 0 => Held(t, key))
      /\ \A j \in TableKeys : luaH_get(t, j) # 0 => (j \in visited <=> findindex(t, j) <= i)
  BY DEF TableInv, Traversed
<1>3. Last(t) \in Nat /\ findindex(t, 0) = 0
  BY <1>1 DEF Sound, Typed, Last, findindex
<1>4. i \in 0 .. Last(t)
  <2>1. CASE key = 0
    BY <1>3, <2>1
  <2>2. CASE key # 0
    <3>1. i \in 1 .. Last(t)
      BY <1>1, <1>2, <2>2, PlaceIs
    <3> QED BY <1>3, <3>1
  <2> QED BY <2>1, <2>2
<1>5. \A j \in TableKeys : luaH_get(t, j) # 0 => findindex(t, j) \in 1 .. Last(t)
  BY <1>1, PresentHeld, PlaceIs
<1>6. \/ key' = 0 /\ \A j \in TableKeys : ~behind(j)
      \/ /\ key' \in TableKeys /\ key' # 0 /\ behind(key')
         /\ \A j \in TableKeys : behind(j) => findindex(t, key') <= findindex(t, j)
  BY <1>1, <1>4, NextIs
<1> HIDE DEF i
<1>7. CASE key' = 0 /\ \A j \in TableKeys : ~behind(j)
  <2>1. visited' = {}
    BY <1>1, <1>7
  <2>2. ASSUME NEW j \in TableKeys, luaH_get(t, j) # 0 PROVE j \in visited /\ ~(findindex(t, j) <= 0)
    <3>1. findindex(t, j) \in Nat \ {0} /\ i \in Nat
      BY <1>3, <1>4, <1>5, <2>2
    <3>2. findindex(t, j) <= i
      BY <1>7, <2>2, <3>1
    <3> QED BY <1>2, <2>2, <3>1, <3>2
  <2>3. Traversed'
    BY <1>1, <1>3, <1>7, <2>1, <2>2 DEF Traversed
  <2> QED BY <1>1, <1>7, <2>1, <2>2, <2>3 DEF TableInv
<1>8. CASE /\ key' \in TableKeys /\ key' # 0 /\ behind(key')
           /\ \A j \in TableKeys : behind(j) => findindex(t, key') <= findindex(t, j)
  <2> DEFINE m == findindex(t, key')
  <2>1. visited' = visited \union {key'} /\ luaH_get(t, key') # 0 /\ m > i
    BY <1>1, <1>8
  <2>2. m \in Nat /\ i \in Nat
    BY <1>3, <1>4, <1>5, <1>8
  <2>3. key' \notin visited
    BY <1>2, <1>8, <2>1, <2>2
  <2>4. ASSUME NEW j \in TableKeys, luaH_get(t, j) # 0 PROVE j \in visited' <=> findindex(t, j) <= m
    <3>1. findindex(t, j) \in Nat
      BY <1>3, <1>5, <2>4
    <3>2. CASE findindex(t, j) <= i
      BY <1>2, <2>1, <2>2, <2>4, <3>1, <3>2
    <3>3. CASE findindex(t, j) > i /\ j # key'
      <4>1. j \notin visited'
        BY <1>2, <2>1, <2>2, <2>4, <3>1, <3>3
      <4>2. m <= findindex(t, j)
        BY <1>8, <2>4, <3>3
      <4>3. m # findindex(t, j)
        <5>1. KeyAt(t, m) = key' /\ KeyAt(t, findindex(t, j)) = j
          BY <1>1, <1>8, <2>1, <2>4, PresentHeld, PlaceIs
        <5> QED BY <3>3, <5>1
      <4> QED BY <2>2, <3>1, <4>1, <4>2, <4>3
    <3>4. CASE j = key'
      BY <2>1, <2>2, <3>4
    <3> QED BY <2>2, <3>1, <3>2, <3>3, <3>4
  <2>5. Held(t, key')
    BY <1>1, <1>8, <2>1, PresentHeld
  <2>6. Traversed'
    BY <1>1, <1>8, <2>4, <2>5 DEF Traversed
  <2> QED BY <1>1, <1>8, <2>1, <2>3, <2>6 DEF TableInv
<1> QED BY <1>6, <1>7, <1>8

\* Chains stay in order, and a traversal knows where it is, whatever is stored.
THEOREM TablesStaySound == TableSpec => []TableInv
<1>1. TableInit => TableInv
  BY NewIs
<1>2. TableInv /\ [TableNext]_tableVars => TableInv'
  <2> SUFFICES ASSUME TableInv, [TableNext]_tableVars PROVE TableInv'
    OBVIOUS
  <2>1. CASE StoreField
    BY <2>1, StoreStep
  <2>2. CASE Enlarge
    BY <2>2, EnlargeStep
  <2>3. CASE Traverse
    BY <2>3, TraverseStep
  <2>4. CASE UNCHANGED tableVars
    BY <2>4 DEF TableInv, Traversed, tableVars
  <2> QED BY <2>1, <2>2, <2>3, <2>4 DEF TableNext
<1> QED BY <1>1, <1>2, PTL DEF TableSpec

\* Every chain ends, and a key is found at its node (ltable.c:382-429, 435-486).
THEOREM TableShapeKept == TableSpec => []TableShape
<1>1. TableInv => TableShape
  <2> SUFFICES ASSUME Sound(t) PROVE TableShape
    BY DEF TableInv
  <2>1. Typed(t) /\ Stored(t) /\ DOMAIN t.node = Places(t) /\ \E f : Ordered(t, f)
    BY DEF Sound, Typed, Linked
  <2>2. \A n \in Places(t) : Walk(t, n, {}) = Nowhere
    BY <2>1, WalkEnds
  <2>3. ASSUME NEW n \in Places(t), t.node[n].key # 0
        PROVE  ~InArray(t, t.node[n].key) /\ NodeOf(t, t.node[n].key) = n
    <3>1. t.node[n].key \in TableKeys /\ ~InArray(t, t.node[n].key)
      BY <2>1, <2>3 DEF Typed, Stored
    <3> QED BY <3>1, GetIs
  <2>4. ~t.dummy => \A n \in Places(t) : n >= t.lastfree => t.node[n].key # 0
    BY <2>1 DEF Stored
  <2> QED BY <2>1, <2>2, <2>3, <2>4 DEF TableShape
<1> QED BY <1>1, TablesStaySound, PTL

\* The length of a table is a boundary, in the array or beyond (ltable.c:532-576).
THEOREM BoundaryFound == TableSpec => []TableBoundary
<1>1. TableInv => TableBoundary
  BY LengthIs DEF TableInv, TableBoundary
<1> QED BY <1>1, TablesStaySound, PTL

\* A table is a function from keys to values, of which a traversal comes to each key
\* once (ltable.c:137-179, 297-349, 399-505).
THEOREM ImplementsTables == TableSpec => TableImplements
<1>1. TableInit => Table!CInit
  <2> SUFFICES ASSUME TableInit PROVE Table!CInit
    OBVIOUS
  <2>1. \A k \in TableKeys : luaH_get(t, k) = 0
    BY NewIs
  <2>2. visited = {}
    BY DEF TableInit
  <2> QED BY <2>1, <2>2 DEF Table!CInit
<1>2. TableInv /\ [TableNext]_tableVars => [Table!CNext]_Table!cvars
  <2> SUFFICES ASSUME TableInv, [TableNext]_tableVars PROVE [Table!CNext]_Table!cvars
    OBVIOUS
  <2> DEFINE c == [k \in TableKeys |-> luaH_get(t, k)]  d == [k \in TableKeys |-> luaH_get(t', k)]
  <2>1. CASE StoreField
    <3>0. PICK k \in TableKeys : \E v \in TableValues[k] \union {0} :
            /\ \A j \in TableKeys : luaH_get(t', j) = IF j = k THEN v ELSE luaH_get(t, j)
            /\ IF luaH_get(t, k) # 0 THEN visited' = visited ELSE visited' = {}
      BY <2>1, StoreStep
    <3>1. PICK v \in TableValues[k] \union {0} :
            /\ \A j \in TableKeys : luaH_get(t', j) = IF j = k THEN v ELSE luaH_get(t, j)
            /\ IF luaH_get(t, k) # 0 THEN visited' = visited ELSE visited' = {}
      BY <3>0
    <3>2. d[k] = v /\ d = [c EXCEPT ![k] = d[k]]
      BY <3>1
    <3>3. visited' \in {visited, {}} /\ (k \in {j \in TableKeys : c[j] # 0} => visited' = visited)
      BY <3>1
    <3> QED BY <3>1, <3>2, <3>3 DEF Table!CNext, Table!Store, Table!Present
  <2>2. CASE Enlarge
    <3>1. visited' = visited /\ \A j \in TableKeys : luaH_get(t', j) = luaH_get(t, j)
      BY <2>2, EnlargeStep
    <3>2. d = c
      BY <3>1
    <3> QED BY <3>1, <3>2 DEF Table!cvars
  <2>3. CASE Traverse
    <3>1. /\ t' = t
          /\ \/ visited' = {} /\ \A j \in TableKeys : luaH_get(t, j) # 0 => j \in visited
             \/ /\ key' \in TableKeys /\ luaH_get(t, key') # 0 /\ key' \notin visited
                /\ visited' = visited \union {key'}
      BY <2>3, TraverseStep
    <3>2. d = c
      BY <3>1
    <3>3. Table!Present = {j \in TableKeys : luaH_get(t, j) # 0}
      BY DEF Table!Present
    <3>4. CASE visited' = {} /\ \A j \in TableKeys : luaH_get(t, j) # 0 => j \in visited
      BY <3>2, <3>3, <3>4 DEF Table!CNext, Table!Finish
    <3>5. CASE /\ key' \in TableKeys /\ luaH_get(t, key') # 0 /\ key' \notin visited
               /\ visited' = visited \union {key'}
      BY <3>2, <3>3, <3>5 DEF Table!CNext, Table!Visit
    <3> QED BY <3>1, <3>4, <3>5
  <2>4. CASE UNCHANGED tableVars
    BY <2>4 DEF tableVars, Table!cvars
  <2> QED BY <2>1, <2>2, <2>3, <2>4 DEF TableNext
<1> QED BY <1>1, <1>2, TablesStaySound, PTL DEF TableSpec, TableImplements, Table!CSpec
=============================================================================
