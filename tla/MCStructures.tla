----------------------------- MODULE MCStructures -----------------------------
(***************************************************************************)
(* PersistentVector, PersistentMap and LuaTable for TLC.  They have        *)
(* nothing to do with each other: a behaviour is one of the vectors, of    *)
(* the map or of the table.                                                *)
(* Items differ from each other and, being negative, from addresses of     *)
(* nodes; there are enough for a tree three levels high.  Keys 1, 2 and 3  *)
(* have the same hash, key 4 differs from them in the third digit only,    *)
(* keys 5 and 6 in the first.  The keys of the table are two numbers that  *)
(* may be in its array and three that are not; in a vector of four nodes 2 *)
(* and 1 have one main position, -1 and -2 another, and -3 has its own     *)
(* where -1 or -2 may be put for want of theirs, to be moved away again.   *)
(***************************************************************************)
EXTENDS PersistentVector, PersistentMap, LuaTable

MCItems  == [i \in 1 .. 11 |-> -i]
MCValue  == -99
MCPushed == {<<-50>>, <<-50, -51>>}

MCHash     == <<0, 0, 0, 9, 1, 2>>
MCKeys     == DOMAIN MCHash
MCLiterals == {<<>>, <<1>>, <<1, 1, 4, 8, 1, 8>>, <<5, 1, 6, 1, 4, 8>>}

MCTableKeys   == {1, 2, -1, -2, -3}
MCTableHash   == [k \in MCTableKeys |-> CASE k = 1 -> 3 [] k = 2 -> 0 [] k = -1 -> 1 [] k = -2 -> 5 [] k = -3 -> 3]
MCTableValues == [k \in MCTableKeys |-> {10 + k}]
MCSizes       == {<<0, 0>>}

VARIABLE about       \* "vectors", "map" or "table"

MCInit == Init /\ MapInit /\ TableInit /\ about \in {"vectors", "map", "table"}
MCNext == \/ about = "vectors" /\ Next /\ UNCHANGED <<mapVars, tableVars>>
          \/ about = "map" /\ MapNext /\ UNCHANGED <<vars, tableVars>>
          \/ about = "table" /\ TableNext /\ UNCHANGED <<vars, mapVars>>
MCSpec == MCInit /\ [][MCNext /\ UNCHANGED about]_<<vars, mapVars, tableVars, about>>

=============================================================================
