--------------------------- MODULE PersistentMap ---------------------------
(***************************************************************************)
(* The map of src/src/vm/seq.c: a tree in which the digits of a key's hash *)
(* lead to the key.  A node whose children are not all there is an index   *)
(* node with a bitmap, a node with all of them is a full node, and keys    *)
(* whose hashes are the same share a collision node.                       *)
(*                                                                         *)
(* Nodes are values here: in this part of seq.c a function stores only to  *)
(* nodes it has made, so that a map never changes and one map stands for   *)
(* all.  The hash that index and full nodes keep is left out, because only *)
(* that of leaves and collisions is ever asked for.  value_eq() is taken   *)
(* to be identity, and equal keys to have equal hashes.                    *)
(*                                                                         *)
(* A function that calls itself on the child of a node is the way it takes *)
(* down the tree, and what it makes of the nodes on the way from the last  *)
(* one up.                                                                 *)
(***************************************************************************)
EXTENDS Naturals, Sequences, FiniteSets, SequencesExt

CONSTANTS Keys, Values, Absent,
          Hash,          \* of each key
          MapWidth,      \* 32 in the code
          MapHeight,     \* digits of a hash: 7 in the code
          Literals       \* what su_map() is called with: keys and values

VARIABLES map,           \* the number of keys, and the root
          mapOutcome     \* of the last operation

mapVars == <<map, mapOutcome>>

\* MapWidth to the power of n, as a function.
Weight[n \in Nat] == IF n = 0 THEN 1 ELSE MapWidth * Weight[n - 1]

MapConstants ==
  /\ MapWidth \in Nat /\ MapWidth >= 2 /\ MapHeight \in Nat
  /\ \A k \in Keys : Hash[k] \in 0 .. Weight[MapHeight] - 1
  /\ Absent \notin Values
  /\ \A s \in Literals : /\ s \in Seq(Range(s))
                         /\ \A i \in 1 .. Len(s) \div 2 : s[2 * i - 1] \in Keys /\ s[2 * i] # Absent
ASSUME MapAssumption == MapConstants

Digits == 0 .. MapWidth - 1

\* MASK(), with a level for five bits of shift.
Mask(hash, level) == (hash \div Weight[level]) % MapWidth

NoNode                       == [kind |-> "null"]
EmptyNode                    == [kind |-> "empty"]
Leaf(k, v)                   == [kind |-> "leaf", hash |-> Hash[k], key |-> k, val |-> v]
Collision(hash, leaves)      == [kind |-> "collision", hash |-> hash, leaves |-> leaves]
FullNode(nodes, level)       == [kind |-> "full", nodes |-> nodes, level |-> level]
Idx(bitmap, nodes, level)    == [kind |-> "idx", bitmap |-> bitmap, nodes |-> nodes, level |-> level]

\* create_idx_node2(): full when no bit is missing.
IdxOrFull(bitmap, nodes, level) ==
  IF bitmap = Digits THEN FullNode(nodes, level) ELSE Idx(bitmap, nodes, level)

\* idx_node_index(): where the child for digit d is, or would be.
Position(bitmap, d) == Cardinality({e \in bitmap : e < d}) + 1

\* The digits for which a node has a child, and the child.
Bits(n) == CASE n.kind = "idx" -> n.bitmap [] n.kind = "full" -> Digits [] OTHER -> {}
ChildAt(n, d) == IF n.kind = "full" THEN n.nodes[d + 1] ELSE n.nodes[Position(n.bitmap, d)]

\* The clone of a node that gets another child for digit d.
WithChild(n, d, child, level) ==
  IF n.kind = "full" THEN FullNode([n.nodes EXCEPT ![d + 1] = child], level)
  ELSE Idx(n.bitmap, [n.nodes EXCEPT ![Position(n.bitmap, d)] = child], level)

\* collision_node_find_index(): 0 when there is none.
IndexOf(n, k) ==
  LET at == {i \in 1 .. Len(n.leaves) : n.leaves[i].hash = Hash[k] /\ n.leaves[i].key = k}
  IN IF at = {} THEN 0 ELSE Min(at)

(***************************************************************************)
(* find: the key's leaf, as a set that is empty where the code gives NoNode. *)
(***************************************************************************)

\* Whether an index or full node has a child in which to look for k, and the child.
Leads(n, k) == Bits(n) # {} /\ Mask(Hash[k], n.level) \in Bits(n)
Below(n, k) == ChildAt(n, Mask(Hash[k], n.level))

\* The node on the way to k, from node n at a level down, at each level, in a set of its
\* own; the last one is that of all levels further down.
Way(n, level, k) ==
  LET w[l \in level .. MapHeight] ==
        IF l = level THEN {n}
        ELSE {IF Leads(above, k) THEN Below(above, k) ELSE above : above \in w[l - 1]}
  IN w

\* A mistake: equal hashes are taken for equal keys.
leaf_node_find_ByHash(n, k) == IF n.hash = Hash[k] THEN {n} ELSE {}

leaf_node_find(n, k) == IF n.hash = Hash[k] /\ n.key = k THEN {n} ELSE {}

collision_node_find(n, k) == IF IndexOf(n, k) = 0 THEN {} ELSE {n.leaves[IndexOf(n, k)]}

FindLast(n, k) ==
  CASE n.kind = "leaf"      -> leaf_node_find(n, k)
    [] n.kind = "collision" -> collision_node_find(n, k)
    [] OTHER                -> {}

Find(n, level, k) == UNION {FindLast(last, k) : last \in Way(n, level, k)[MapHeight]}

\* map_get()
Has(m, k) == Find(m.root, 0, k) # {}
Get(m, k) ==
  CHOOSE val \in {IF found = {} THEN Absent ELSE (CHOOSE leaf \in found : TRUE).val :
                  found \in {Find(m.root, 0, k)}} : TRUE

(***************************************************************************)
(* set: the node with the key's value, and whether a leaf was added.       *)
(***************************************************************************)

\* The index node that create_idx_node3() makes over a leaf or collision with another
\* hash, to set the key in it.
Opened(n, level, k) ==
  IF n.kind \in {"leaf", "collision"} /\ n.hash # Hash[k]
  THEN Idx({Mask(n.hash, level)}, <<n>>, level) ELSE n

\* The nodes in which k is set.
SetWay(n, level, k) ==
  LET w[l \in level .. MapHeight] ==
        IF l = level THEN Opened(n, l, k)
        ELSE LET above == w[l - 1]
                 d     == Mask(Hash[k], l - 1)
             IN IF d \in Bits(above) THEN Opened(ChildAt(above, d), l, k) ELSE above
  IN w

Result(n, added) == [n |-> n, added |-> added]

\* With the same hash:
leaf_node_set(n, k, v) ==
  IF n.key = k THEN Result(Leaf(k, v), FALSE) ELSE Result(Collision(n.hash, <<n, Leaf(k, v)>>), TRUE)

collision_node_set(n, k, v) ==
  LET idx == IndexOf(n, k)
  IN IF idx # 0 THEN Result(Collision(n.hash, [n.leaves EXCEPT ![idx] = Leaf(k, v)]), FALSE)
     ELSE Result(Collision(n.hash, Append(n.leaves, Leaf(k, v))), TRUE)

\* Without a child for the digit:
idx_node_set(n, level, k, v) ==
  LET d == Mask(Hash[k], level)
  IN Result(IdxOrFull(n.bitmap \union {d}, InsertAt(n.nodes, Position(n.bitmap, d), Leaf(k, v)), level), TRUE)

SetLast(n, level, k, v) ==
  CASE n.kind = "empty"     -> Result(Leaf(k, v), TRUE)
    [] n.kind = "leaf"      -> leaf_node_set(n, k, v)
    [] n.kind = "collision" -> collision_node_set(n, k, v)
    [] n.kind = "idx"       -> idx_node_set(n, level, k, v)

NodeSet(n, level, k, v) ==
  LET w == SetWay(n, level, k)
      r[i \in 0 .. MapHeight - level] ==      \* at level MapHeight - i
        LET l   == MapHeight - i
            d   == Mask(Hash[k], l)
            sub == r[i - 1]
        IN IF i > 0 /\ d \in Bits(w[l])
           THEN Result(WithChild(w[l], d, sub.n, l), sub.added)
           ELSE SetLast(w[l], l, k, v)
  IN r[MapHeight - level]

(***************************************************************************)
(* without: the node without the key, n itself if the key is not there, or *)
(* NoNode if nothing else is.                                                *)
(***************************************************************************)
leaf_node_without(n, k) == IF n.hash = Hash[k] /\ n.key = k THEN NoNode ELSE n

\* A mistake: the last leaf is kept in a collision node.
collision_node_without_Kept(n, k) ==
  IF IndexOf(n, k) = 0 THEN n ELSE Collision(n.hash, RemoveAt(n.leaves, IndexOf(n, k)))

collision_node_without(n, k) ==
  LET idx == IndexOf(n, k)
  IN IF idx = 0               THEN n
     ELSE IF Len(n.leaves) = 2 THEN n.leaves[3 - idx]
     ELSE Collision(n.hash, RemoveAt(n.leaves, idx))

WithoutLast(n, k) ==
  CASE n.kind = "leaf"      -> leaf_node_without(n, k)
    [] n.kind = "collision" -> collision_node_without(n, k)
    [] OTHER                -> n

\* An index or full node whose child for digit d goes.
Cut(n, d) ==
  LET idx == IF n.kind = "full" THEN d + 1 ELSE Position(n.bitmap, d)
  IN IF Bits(n) = {d} THEN NoNode ELSE Idx(Bits(n) \ {d}, RemoveAt(n.nodes, idx), n.level)

Without(n, level, k) ==
  LET w == Way(n, level, k)
      r[i \in 0 .. MapHeight - level] ==      \* at level MapHeight - i
        LET m   == CHOOSE node \in w[MapHeight - i] : TRUE
            d   == Mask(Hash[k], m.level)
            sub == r[i - 1]
        IN IF i > 0 /\ Leads(m, k)
           THEN IF sub = NoNode THEN Cut(m, d) ELSE WithChild(m, d, sub, m.level)
           ELSE WithoutLast(m, k)
  IN r[MapHeight - level]

(***************************************************************************)
(* The operations of a program.                                            *)
(***************************************************************************)
EmptyMap == [cnt |-> 0, root |-> EmptyNode]

\* map_insert()
Inserted(m, k, v) ==
  LET r == NodeSet(m.root, 0, k, v)
  IN [cnt |-> IF r.added THEN m.cnt + 1 ELSE m.cnt, root |-> r.n]

\* map_remove(): a root that stays the same is that of a map without the key.
Removed(m, k) ==
  LET root == Without(m.root, 0, k)
  IN IF root = m.root    THEN m
     ELSE IF root = NoNode THEN EmptyMap
     ELSE [cnt |-> m.cnt - 1, root |-> root]

GivesMap(m) == map' = m /\ mapOutcome' = "made"

\* su_map(), of keys and values in turn
Created(s) ==
  LET m[i \in 0 .. Len(s) \div 2] ==
        IF i = 0 THEN EmptyMap ELSE Inserted(m[i - 1], s[2 * i - 1], s[2 * i])
  IN m[Len(s) \div 2]

CreateMap(s) == IF Len(s) % 2 = 0 THEN GivesMap(Created(s)) ELSE mapOutcome' = "error" /\ UNCHANGED map

\* su_map_insert(), which is map-set
InsertKey(k, v) == GivesMap(Inserted(map, k, v))

\* su_map_remove()
RemoveKey(k) == GivesMap(Removed(map, k))

\* map-insert: su_map_has() takes its key from the top of the stack, where the
\* value is.
InsertNew(k, v) ==
  IF v \in Keys /\ Has(map, v) THEN mapOutcome' = "refused" /\ UNCHANGED map
                                      ELSE GivesMap(Inserted(map, k, v))

MapInit == map = EmptyMap /\ mapOutcome = "made"

MapNext == \/ \E s \in Literals : CreateMap(s)
           \/ \E k \in Keys : RemoveKey(k)
           \/ \E k \in Keys, v \in Values : InsertKey(k, v)
           \/ \E k \in Keys, v \in Values : InsertNew(k, v)

MapSpec == MapInit /\ [][MapNext]_mapVars

(***************************************************************************)
(* Properties.                                                             *)
(***************************************************************************)

\* The nodes at each level, with the digits that lead to them.
Layers(root) ==
  LET layer[l \in 0 .. MapHeight] ==
        IF l = 0 THEN {<<root, <<>>>>}
        ELSE UNION {{<<ChildAt(x[1], d), Append(x[2], d)>> : d \in Bits(x[1])} : x \in layer[l - 1]}
  IN layer

LeavesOf(n) == CASE n.kind = "leaf" -> {n} [] n.kind = "collision" -> Range(n.leaves) [] OTHER -> {}
Leaves(root) == UNION {UNION {LeavesOf(x[1]) : x \in Layers(root)[l]} : l \in 0 .. MapHeight}

\* The first digits of a hash.
Prefix(hash, level) == [i \in 1 .. level |-> Mask(hash, i - 1)]

IsLeaf(n) == n.kind = "leaf" /\ n.key \in Keys /\ n.hash = Hash[n.key]

\* A node that is well-formed at a level to which some digits lead.
WellFormed(n, level, digits) ==
  CASE n.kind = "leaf"      -> IsLeaf(n) /\ Prefix(n.hash, level) = digits
    [] n.kind = "collision" -> /\ Len(n.leaves) >= 2 /\ Prefix(n.hash, level) = digits
                               /\ \A leaf \in Range(n.leaves) : IsLeaf(leaf) /\ leaf.hash = n.hash
    [] n.kind = "idx"       -> /\ n.level = level /\ level < MapHeight /\ Len(n.nodes) = Cardinality(n.bitmap)
                               /\ n.bitmap # {} /\ n.bitmap # Digits /\ n.bitmap \subseteq Digits
    [] n.kind = "full"      -> n.level = level /\ level < MapHeight /\ Len(n.nodes) = MapWidth
    [] OTHER                -> FALSE

\* The tree is one in which keys can be found: an index node has a child for
\* each bit, a full node one for each digit, the digits on the way to a leaf are
\* those of its hash, leaves with the same hash are together, no node is left
\* empty below the root, no key is there twice, and cnt counts the leaves.
MapShape ==
  /\ map.cnt = 0 => map.root = EmptyNode
  /\ map.cnt > 0 => \A l \in 0 .. MapHeight : \A x \in Layers(map.root)[l] : WellFormed(x[1], l, x[2])
  /\ map.cnt = Cardinality(Leaves(map.root))
  /\ \A l, m \in Leaves(map.root) : l.key = m.key => l = m

Map == INSTANCE MapContract WITH contents <- [k \in Keys |-> Get(map, k)], length <- map.cnt,
                            outcome <- mapOutcome

\* map_insert(), map_remove() and map_get() behave as a function from keys to
\* values, whatever the hashes of the keys have in common, and map_length() is
\* the number of keys.
MapImplements == Map!Spec

\* map-insert reports "Duplicated key in map!" only of a key that is there.
RefusesDuplicates ==
  [][\A k \in Keys, v \in Values :
       InsertNew(k, v) /\ mapOutcome' = "refused" => Has(map, k)]_mapVars
=============================================================================
