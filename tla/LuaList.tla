------------------------------ MODULE LuaList ------------------------------
(***************************************************************************)
(* The library of Lua for lists (ltablib.c), with which the compiler keeps *)
(* its instructions, constants and arguments.  A list is a table whose     *)
(* keys 1 .. n have values; insert and remove move what is behind the      *)
(* place, sort is a quicksort that asks a function for the order.  The     *)
(* function is a program: sort is one step for each time it is called, and *)
(* the function may answer anything, or fail.                              *)
(*                                                                         *)
(* The variables a, l, u, i, j of the code are table, lower, upper, up and *)
(* down.  A list with a hole is not used any more: its length would be any *)
(* of its boundaries (LuaTable).                                           *)
(***************************************************************************)
EXTENDS Integers, Sequences, FiniteSets

CONSTANTS
  Elems,        \* the values of lists
  NoValue,      \* nil
  Orders,       \* the relations that functions for sort compute
  Unreliable,   \* stands for a function that computes none
  None,         \* stands for no function
  Limit,        \* bound: the longest list
  Wild,         \* bound: the longest that is sorted with no order
  MaxOperations,\* bound: operations done
  Lists         \* the lists there are at first

\* A function that sort can rely on: what is not ordered by it is equal.
StrictWeakOrder(r) ==
  /\ \A x, y \in Elems : <<x, y>> \in r => <<y, x>> \notin r
  /\ \A x, y, z \in Elems : <<x, z>> \in r => <<x, y>> \in r \/ <<y, z>> \in r

ASSUME ListAssumption ==
  /\ NoValue \notin Elems
  /\ None # Unreliable /\ None \notin Orders /\ Unreliable \notin Orders
  /\ Limit \in Nat /\ Wild \in Nat /\ MaxOperations \in Nat
  /\ \A r \in Orders : StrictWeakOrder(r)
  /\ \A s \in Lists : s \in Seq(Elems) /\ Len(s) <= Limit

VARIABLES
  table,    \* what it has at 0, 1, ...
  at,       \* where sort is: the next comparison, or "idle"
  order,    \* the function it asks
  lower, upper,      \* the part of the list that auxsort sorts
  up, down, pivot,   \* its scans from both ends, and what they compare with
  calls,    \* the parts that its callers go on with, the last call first
  before,   \* the table when sort was called, for what the host sees
  result,   \* of the last operation
  operations  \* how many there were
listVars == <<table, at, order, lower, upper, up, down, pivot, calls, before, result, operations>>

Places == 0 .. Limit + 1
Blank  == [k \in Places |-> NoValue]

\* The length, of a list without holes.
ListOf(t, n) == /\ \A k \in 1 .. n : t[k] # NoValue
                /\ \A k \in Places \ (1 .. n) : t[k] = NoValue
aux_getn(t)  == CHOOSE n \in 0 .. Limit : ListOf(t, n)
Whole(t)     == \E n \in 0 .. Limit : ListOf(t, n)
Idle         == at = "idle" /\ Whole(table)

\* Inserted without moving the elements behind it.
tinsert_Over(pos, v) ==
  /\ table' = [table EXCEPT ![pos] = v]
  /\ result' = <<>>

\* table.insert(t, pos, v): there is room between pos and the first free place.
tinsert(pos, v) ==
  LET e == IF pos > aux_getn(table) + 1 THEN pos ELSE aux_getn(table) + 1 IN
  /\ table' = [k \in Places |-> IF k = pos THEN v
                                ELSE IF pos < k /\ k <= e THEN table[k - 1] ELSE table[k]]
  /\ result' = <<>>

\* table.remove(t, pos)
tremove(pos) ==
  LET e == aux_getn(table) IN
  IF pos \in 1 .. e
  THEN /\ table' = [k \in Places |-> IF k = e THEN NoValue
                                     ELSE IF pos <= k /\ k < e THEN table[k + 1] ELSE table[k]]
       /\ result' = <<table[pos]>>
  ELSE UNCHANGED table /\ result' = <<>>

\* table.concat(t, "", first, last): the first field that is not a string ends it.
tconcat(first, last) ==
  /\ result' = IF \A k \in first .. last : table[k] # NoValue
               THEN [k \in 1 .. (IF first > last THEN 0 ELSE last - first + 1) |-> table[first + k - 1]]
               ELSE <<NoValue>>
  /\ UNCHANGED table

-----------------------------------------------------------------------------
(* Sort *)

\* The answers that sort_comp may get for two values.
sort_comp(x, y) == IF order = Unreliable THEN BOOLEAN ELSE {(<<x, y>> \in order)}

\* The table with the values at x and y exchanged.
set2(t, x, y) == [t EXCEPT ![x] = t[y], ![y] = t[x]]

scans  == <<up, down, pivot>>
NoScan == up' = 0 /\ down' = 0 /\ pivot' = NoValue

\* sort()
sort(r) ==
  /\ at' = "ends" /\ order' = r /\ before' = table
  /\ lower' = 1 /\ upper' = aux_getn(table) /\ calls' = <<>>
  /\ result' = <<>>
  /\ UNCHANGED <<table, scans>>

Leaves(r) == at' = "idle" /\ result' = r /\ lower' = 1 /\ upper' = 0 /\ calls' = <<>> /\ NoScan

\* luaL_error, or an error of the function: what was done stays.
Fails == Leaves(<<NoValue>>)

\* auxsort returns, and its caller goes on with the larger part.
Returns ==
  IF calls = <<>> THEN Leaves(<<>>)
  ELSE /\ at' = "ends" /\ lower' = Head(calls)[1] /\ upper' = Head(calls)[2] /\ calls' = Tail(calls)
       /\ NoScan /\ UNCHANGED result
Goes(next) == at' = next /\ UNCHANGED <<lower, upper, calls, result>>

\* while (l < u)
Done == at = "ends" /\ ~(lower < upper) /\ Returns /\ UNCHANGED table

\* a[u] < a[l]?
BothEnds ==
  /\ at = "ends" /\ lower < upper
  /\ \E less \in sort_comp(table[upper], table[lower]) :
       table' = IF less THEN set2(table, lower, upper) ELSE table
  /\ IF upper - lower = 1 THEN Returns
     ELSE Goes("middle") /\ up' = (lower + upper) \div 2 /\ UNCHANGED <<down, pivot>>

\* Three elements are sorted; the pivot goes to u - 1 when there are more.
PivotFrom(t) ==
  IF upper - lower = 2 THEN table' = t /\ Returns
  ELSE /\ table' = set2(t, up, upper - 1) /\ pivot' = t[up] /\ up' = lower /\ down' = upper - 1
       /\ Goes("up")

\* a[i] < a[l]?
Middle ==
  /\ at = "middle"
  /\ \E less \in sort_comp(table[up], table[lower]) :
       IF less THEN PivotFrom(set2(table, up, lower)) ELSE Goes("third") /\ UNCHANGED <<table, scans>>

\* a[u] < a[i]?
Third ==
  /\ at = "third"
  /\ \E less \in sort_comp(table[upper], table[up]) :
       PivotFrom(IF less THEN set2(table, up, upper) ELSE table)

\* Repeat ++i until a[i] >= pivot.
Up ==
  /\ at = "up" /\ UNCHANGED table
  /\ \E less \in sort_comp(table[up + 1], pivot) :
       IF less /\ up + 1 > upper THEN Fails
       ELSE Goes(IF less THEN "up" ELSE "down") /\ up' = up + 1 /\ UNCHANGED <<down, pivot>>

\* The smaller part is sorted by a call, then the larger.
Halves ==
  /\ at' = "ends" /\ NoScan /\ UNCHANGED result
  /\ IF up - lower < upper - up
     THEN lower' = lower /\ upper' = up - 1 /\ calls' = <<<<up + 1, upper>>>> \o calls
     ELSE lower' = up + 1 /\ upper' = upper /\ calls' = <<<<lower, up - 1>>>> \o calls

\* Repeat --j until a[j] <= pivot; the scans may have met.
Down ==
  /\ at = "down"
  /\ \E less \in sort_comp(pivot, table[down - 1]) :
       IF less /\ down - 1 < lower THEN Fails /\ UNCHANGED table
       ELSE IF less THEN Goes("down") /\ down' = down - 1 /\ UNCHANGED <<table, up, pivot>>
       ELSE IF down - 1 < up THEN table' = set2(table, upper - 1, up) /\ Halves
       ELSE table' = set2(table, up, down - 1) /\ Goes("up") /\ down' = down - 1 /\ UNCHANGED <<up, pivot>>

\* The function raises an error.
Raises == order = Unreliable /\ Fails /\ UNCHANGED table

Sorting ==
  /\ at # "idle" /\ UNCHANGED operations
  /\ Done \/ BothEnds \/ Middle \/ Third \/ Up \/ Down \/ Raises
  /\ IF at' = "idle" THEN order' = Unreliable /\ before' = Blank ELSE UNCHANGED <<order, before>>

-----------------------------------------------------------------------------
ListInit ==
  /\ \E s \in Lists : table = [k \in Places |-> IF k \in DOMAIN s THEN s[k] ELSE NoValue]
  /\ at = "idle" /\ order = Unreliable /\ before = Blank
  /\ lower = 1 /\ upper = 0 /\ up = 0 /\ down = 0 /\ pivot = NoValue /\ calls = <<>>
  /\ result = <<>> /\ operations = 0

Spots == 1 .. Limit
Edit == /\ \/ \E v \in Elems, pos \in Spots : aux_getn(table) < Limit /\ tinsert(pos, v)
           \/ \E pos \in Places : tremove(pos)
           \/ \E first \in 1 .. 2, last \in Spots : tconcat(first, last)
        /\ UNCHANGED <<at, order, before, lower, upper, calls, scans>>

Operate == /\ Idle /\ operations < MaxOperations /\ operations' = operations + 1
           /\ \/ Edit
              \/ \E r \in Orders : sort(r)
              \/ aux_getn(table) <= Wild /\ sort(Unreliable)

ListNext == Operate \/ Sorting
ListSpec == ListInit /\ [][ListNext]_listVars

-----------------------------------------------------------------------------
(* Properties *)

\* What the host sees of the table: what it was until sort is done.
Seen1 == IF at = "idle" THEN table ELSE before

Contract == INSTANCE ListContract
  WITH list <- [k \in 1 .. Limit + 1 |-> Seen1[k]], asked <- IF at = "idle" THEN None ELSE order,
       Size <- Limit + 1

\* insert and remove shift what is behind the place, and sort sorts whatever it is
\* that was in the list (ltablib.c:90-287): what sort has done is in the order of a
\* function that is one, and however a function answers nothing is lost or doubled.
ListsImplement == Contract!Spec
=============================================================================
