------------------------------ MODULE LuaTable ------------------------------
(***************************************************************************)
(* The tables of Lua (ltable.c): an array for the keys 1 .. n and a vector *)
(* of nodes in which colliding keys are chained, each chain beginning at   *)
(* the main position of its keys.  A key that loses its value stays where  *)
(* it is until the table is rehashed.                                      *)
(*                                                                         *)
(* Keys are integers: those greater than zero are the numbers that may be  *)
(* in the array, the others stand for strings.  TableHash gives the hash   *)
(* of each.  The number 0 stands for nil.                                  *)
(***************************************************************************)
EXTENDS Integers, Sequences, FiniteSets, FiniteSetsExt

CONSTANTS TableKeys,
          TableHash,    \* of each key
          TableValues,  \* the values each key may have
          Sizes         \* the sizes tables are made with: pairs narray, nhash

ASSUME TableAssumption ==
  /\ TableKeys \subseteq Int \ {0} /\ TableHash \in [TableKeys -> Nat]
  /\ \A k \in TableKeys : 0 \notin TableValues[k]
  /\ Sizes \subseteq Nat \X Nat

VARIABLES t,          \* the table: array, node, lastfree and whether node is dummynode
          key,        \* where a traversal is: the key that luaH_next gave last, or 0
          visited     \* the keys it gave
tableVars == <<t, key, visited>>

Nowhere == -1
Node(k, v, next) == [key |-> k, val |-> v, next |-> next]
FreeNode == Node(0, 0, Nowhere)

sizenode(h) == Cardinality(DOMAIN h.node)
sizearray(h) == Len(h.array)
twoto[i \in Nat] == IF i = 0 THEN 1 ELSE 2 * twoto[i - 1]
ceillog2(n) == Min({i \in 0 .. n : twoto[i] >= n})

\* Strings are spread by the power of two, other keys by an odd number.
hashpow2(h, n) == n % sizenode(h)
hashmod(h, n) == n % (IF sizenode(h) % 2 = 0 THEN sizenode(h) - 1 ELSE sizenode(h))
mainposition(h, k) == IF k > 0 THEN hashmod(h, TableHash[k]) ELSE hashpow2(h, TableHash[k])

setarrayvector(h, size) == [h EXCEPT !.array = [i \in 1 .. size |-> IF i <= sizearray(h) THEN h.array[i] ELSE 0]]
setnodevector(h, size) ==
  LET n == IF size = 0 THEN 1 ELSE twoto[ceillog2(size)] IN
  [h EXCEPT !.node = [i \in 0 .. n - 1 |-> FreeNode], !.dummy = (size = 0), !.lastfree = IF size = 0 THEN 0 ELSE n]
luaH_new(narray, nhash) ==
  setnodevector(setarrayvector([array |-> <<>>, node |-> <<>>, lastfree |-> 0, dummy |-> TRUE], narray), nhash)

-----------------------------------------------------------------------------
(* Looking a key up *)

\* From node n on, one node after the other, up to the first of these; there are no
\* more steps than nodes.
Walk(h, n, these) ==
  LET step == [m \in DOMAIN h.node \union {Nowhere} |-> IF m = Nowhere \/ m \in these THEN m ELSE h.node[m].next]
      at[i \in 0 .. sizenode(h)] == IF i = 0 THEN n ELSE step[at[i - 1]]
  IN at[sizenode(h)]

InArray(h, k) == 0 < k /\ k <= sizearray(h)
NodeOf(h, k) == Walk(h, mainposition(h, k), {n \in DOMAIN h.node : h.node[n].key = k})
luaH_get(h, k) ==
  IF InArray(h, k) THEN h.array[k]
  ELSE IF k \notin TableKeys THEN 0
  ELSE LET n == NodeOf(h, k) IN IF n = Nowhere THEN 0 ELSE h.node[n].val

-----------------------------------------------------------------------------
(* A new key *)

getfreepos(h) ==
  LET free == {n \in 0 .. h.lastfree - 1 : h.node[n].key = 0}
  IN IF h.dummy \/ free = {} THEN Nowhere ELSE Max(free)

\* The node of a chain before node n.
Previous(h, other, n) == Walk(h, other, {m \in DOMAIN h.node : h.node[m].next = n})

\* A node whose main position is taken by a node that is in its own goes to a
\* free position; one that is not is moved there itself.
Collide_Unlinked(h, mp, n, k, v) ==   \* Mutant: the node before the one that is moved still leads to its old place
  IF mainposition(h, h.node[mp].key) # mp
  THEN [h EXCEPT !.node = [@ EXCEPT ![n] = h.node[mp], ![mp] = Node(k, v, Nowhere)], !.lastfree = n]
  ELSE [h EXCEPT !.node = [@ EXCEPT ![n] = Node(k, v, h.node[mp].next), ![mp].next = n], !.lastfree = n]
Collide(h, mp, n, k, v) ==
  LET other == mainposition(h, h.node[mp].key) IN
  IF other # mp
  THEN [h EXCEPT !.node = [@ EXCEPT ![Previous(h, other, mp)].next = n, ![n] = h.node[mp], ![mp] = Node(k, v, Nowhere)],
                 !.lastfree = n]
  ELSE [h EXCEPT !.node = [@ EXCEPT ![n] = Node(k, v, h.node[mp].next), ![mp].next = n], !.lastfree = n]

\* Whether the key's main position has no value, which the node of nobody is not for.
Usable(h, k) == h.node[mainposition(h, k)].val = 0 /\ ~h.dummy

\* Without room the key would be lost.
newkey_Unchained(h, k, v) ==   \* Mutant: a node that is used again does not keep its next
  LET mp == mainposition(h, k)
  IN  IF Usable(h, k) THEN [h EXCEPT !.node[mp] = Node(k, v, Nowhere)]
      ELSE IF getfreepos(h) = Nowhere THEN h
      ELSE Collide(h, mp, getfreepos(h), k, v)
newkey(h, k, v) ==
  LET mp == mainposition(h, k)
  IN  IF Usable(h, k) THEN [h EXCEPT !.node[mp] = Node(k, v, @.next)]
      ELSE IF getfreepos(h) = Nowhere THEN h
      ELSE Collide(h, mp, getfreepos(h), k, v)

\* luaH_set and the store that follows, but for a rehash.
Placed(h, k, v) ==
  IF InArray(h, k) THEN [h EXCEPT !.array[k] = v]
  ELSE LET n == NodeOf(h, k) IN IF n = Nowhere THEN newkey(h, k, v) ELSE [h EXCEPT !.node[n].val = v]

-----------------------------------------------------------------------------
(* Rehash *)

\* The keys that have a value, and the one there is no room for.
Used(h, extra) ==
  {k \in 1 .. sizearray(h) : h.array[k] # 0} \union {h.node[n].key : n \in {i \in DOMAIN h.node : h.node[i].val # 0}}
  \union {extra}

\* The greatest power of two such that more than half of the slots are used.
computesizes(S) ==
  LET upTo(n) == Cardinality({k \in S : 0 < k /\ k <= n})
      good == {twoto[i] : i \in {ceillog2(k) : k \in {x \in S : x > 0}}}
  IN  Max({0} \union {n \in good : upTo(n) > n \div 2})

\* The entries that are put in again: those the array loses, then the nodes from
\* the last to the first.
Moved(h, nasize) ==
  LET n     == sizenode(h)
      lost  == IF sizearray(h) <= nasize THEN <<>>
               ELSE [i \in 1 .. sizearray(h) - nasize |-> [key |-> nasize + i, val |-> h.array[nasize + i]]]
      nodes == [i \in 1 .. n |-> [key |-> h.node[n - i].key, val |-> h.node[n - i].val]]
  IN  lost \o nodes

\* A table with these entries too, but for nils.  There is room for them: rehash() makes
\* it, and luaH_resizearray() keeps the nodes.
Filled(h, entries) ==
  LET with[i \in 0 .. Len(entries)] ==
        IF i = 0 THEN h
        ELSE IF entries[i].val = 0 THEN with[i - 1]
        ELSE Placed(with[i - 1], entries[i].key, entries[i].val)
  IN with[Len(entries)]

resize(h, nasize, nhsize) == Filled(setnodevector(setarrayvector(h, nasize), nhsize), Moved(h, nasize))
rehash(h, k) ==
  LET S == Used(h, k)
      nasize == computesizes(S)
  IN  resize(h, nasize, Cardinality(S \ 1 .. nasize))

luaH_resizearray(h, nasize) == resize(h, nasize, IF h.dummy THEN 0 ELSE sizenode(h))

\* newkey() calls rehash() if it finds no room, and luaH_set() again.
HasRoom(h, k) == InArray(h, k) \/ NodeOf(h, k) # Nowhere \/ Usable(h, k) \/ getfreepos(h) # Nowhere
luaH_set(h, k, v) == Placed(IF HasRoom(h, k) THEN h ELSE rehash(h, k), k, v)

-----------------------------------------------------------------------------
(* Traversal and length *)

findindex(h, k) ==
  IF k = 0 THEN 0
  ELSE IF InArray(h, k) THEN k
  ELSE sizearray(h) + 1 + NodeOf(h, k)

\* The key in place i, the array's first, or 0 if it has no value.
KeyAt(h, i) ==
  IF i <= sizearray(h) THEN (IF h.array[i] = 0 THEN 0 ELSE i)
  ELSE LET n == h.node[i - sizearray(h) - 1] IN IF n.val = 0 THEN 0 ELSE n.key
luaH_next(h, k) ==
  LET later == {i \in findindex(h, k) + 1 .. sizearray(h) + sizenode(h) : KeyAt(h, i) # 0}
  IN  IF later = {} THEN 0 ELSE KeyAt(h, Min(later))

\* The search by halves between i < j, of which i is zero or present and j is not.
Between(h, i, j) ==
  LET ends[n \in 0 .. j] ==
        IF n = 0 THEN <<i, j>>
        ELSE LET e == ends[n - 1]
                 m == (e[1] + e[2]) \div 2
             IN IF e[2] - e[1] <= 1 THEN e ELSE IF luaH_get(h, m) = 0 THEN <<e[1], m>> ELSE <<m, e[2]>>
  IN ends[j][1]

\* Each index at which there is a value is another node's.
unbound_search(h, i) ==
  LET ends[n \in 0 .. sizenode(h)] ==
        IF n = 0 THEN <<i, i + 1>>
        ELSE LET e == ends[n - 1] IN IF luaH_get(h, e[2]) = 0 THEN e ELSE <<e[2], 2 * e[2]>>
  IN Between(h, ends[sizenode(h)][1], ends[sizenode(h)][2])
luaH_getn_Full(h) ==   \* Mutant: the array is taken to be full
  IF h.dummy THEN sizearray(h) ELSE unbound_search(h, sizearray(h))
luaH_getn(h) ==
  LET j == sizearray(h) IN
  IF j > 0 /\ h.array[j] = 0 THEN Between(h, 0, j)
  ELSE IF h.dummy THEN j ELSE unbound_search(h, j)

-----------------------------------------------------------------------------
TableInit == (\E s \in Sizes : t = luaH_new(s[1], s[2])) /\ key = 0 /\ visited = {}

\* luaV_settable: nil is stored like any other value.  A traversal may go on if
\* the field existed.
StoreField ==
  \E k \in TableKeys : \E v \in TableValues[k] \union {0} :
    /\ t' = luaH_set(t, k, v)
    /\ IF luaH_get(t, k) # 0 THEN UNCHANGED <<key, visited>> ELSE key' = 0 /\ visited' = {}

\* OP_SETLIST asks for a longer array: the table is under construction.
Enlarge ==
  /\ key = 0
  /\ \E n \in TableKeys : n > sizearray(t) /\ t' = luaH_resizearray(t, n)
  /\ UNCHANGED <<key, visited>>

Traverse ==
  /\ key' = luaH_next(t, key)
  /\ visited' = IF key' = 0 THEN {} ELSE visited \union {key'}
  /\ UNCHANGED t

TableNext == StoreField \/ Enlarge \/ Traverse
TableSpec == TableInit /\ [][TableNext]_tableVars

-----------------------------------------------------------------------------
\* Every chain ends, a key is in the chain of its main position and nowhere else, in
\* the array or in a node, and what is behind lastfree is taken (ltable.c:382-429).
TableShape ==
  /\ \A n \in DOMAIN t.node : Walk(t, n, {}) = Nowhere
  /\ \A n \in DOMAIN t.node : t.node[n].key # 0 => ~InArray(t, t.node[n].key) /\ NodeOf(t, t.node[n].key) = n
  /\ ~t.dummy => \A n \in DOMAIN t.node : n >= t.lastfree => t.node[n].key # 0

Table == INSTANCE TableContract
  WITH Keys <- TableKeys, Values <- TableValues, NilValue <- 0, contents <- [k \in TableKeys |-> luaH_get(t, k)]

\* However keys collide, are moved, removed and rehashed, a table is a function
\* from keys to values, and luaH_next comes to every key once (ltable.c:137-179,
\* 297-349, 399-505).
TableImplements == Table!CSpec

\* The length of a table is a boundary: an index that is zero or has a value,
\* and the next of which has none (luaH_getn, ltable.c:532-576).
TableBoundary ==
  LET n == luaH_getn(t) IN (n = 0 \/ luaH_get(t, n) # 0) /\ luaH_get(t, n + 1) = 0
=============================================================================
