---------------------------- MODULE ListContract ----------------------------
(***************************************************************************)
(* What the library of Lua promises for lists: insert and remove are those *)
(* of sequences, sort puts the elements in order.  With a function that is *)
(* no order only this is left: no element is lost or doubled, although a   *)
(* hole may come between them.                                             *)
(***************************************************************************)
EXTENDS Integers, Sequences, FiniteSets

CONSTANTS Elems, NoValue, Orders, Unreliable, Lists,
          Size,        \* the places that are looked at
          None

VARIABLES list,        \* what is at 1 .. Size
          asked,       \* the function that a sort is asking, or None
          result       \* of the last operation
vars == <<list, asked, result>>

Padded(s) == s \o [k \in 1 .. Size - Len(s) |-> NoValue]
Length    == Cardinality({k \in 1 .. Size : list[k] # NoValue})

Insert(pos, v) ==
  /\ list' = IF pos > Length THEN [list EXCEPT ![pos] = v]
             ELSE Padded(SubSeq(list, 1, pos - 1) \o <<v>> \o SubSeq(list, pos, Length))
  /\ result' = <<>>

Remove(pos) ==
  IF pos \in 1 .. Length
  THEN /\ list' = Padded(SubSeq(list, 1, pos - 1) \o SubSeq(list, pos + 1, Length))
       /\ result' = <<list[pos]>>
  ELSE UNCHANGED list /\ result' = <<>>

Concat(first, last) ==
  /\ result' = IF \A k \in first .. last : list[k] # NoValue THEN SubSeq(list, first, last) ELSE <<NoValue>>
  /\ UNCHANGED list

\* As often as before, each value and NoValue.
Occurrences(s, v) == Cardinality({k \in 1 .. Size : s[k] = v})
Rearranged == /\ list' \in [1 .. Size -> Elems \union {NoValue}]
              /\ \A v \in Elems \union {NoValue} : Occurrences(list', v) = Occurrences(list, v)

InOrder(r) == /\ \A m \in 1 .. Length : list'[m] # NoValue
              /\ \A k, m \in 1 .. Length : k < m => <<list'[m], list'[k]>> \notin r

Sort == /\ asked # None /\ asked' = None
        /\ Rearranged
        /\ asked # Unreliable => InOrder(asked)
        /\ result' \in {<<>>} \union (IF asked = Unreliable THEN {<<NoValue>>} ELSE {})

Ask == asked = None /\ asked' \in Orders \union {Unreliable} /\ result' = <<>> /\ UNCHANGED list

Init == list \in {Padded(s) : s \in Lists} /\ asked = None /\ result = <<>>
Next == \/ /\ asked = None /\ UNCHANGED asked
           /\ \/ \E pos \in 1 .. Size, v \in Elems : Insert(pos, v)
              \/ \E pos \in 0 .. Size : Remove(pos)
              \/ \E first, last \in 1 .. Size : Concat(first, last)
        \/ Ask \/ Sort
Spec == Init /\ [][Next]_vars
=============================================================================
