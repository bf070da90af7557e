---------------------------- MODULE MapContract ----------------------------
(***************************************************************************)
(* What persistent maps promise: a map is a function from some keys to     *)
(* values, its length is the number of these keys, and inserting the value *)
(* of one key or removing a key changes nothing else.                      *)
(***************************************************************************)
EXTENDS Naturals, Sequences, FiniteSets

CONSTANTS Keys, Values, Absent,
          Literals       \* sequences of keys and values to make maps of

VARIABLES contents,      \* each key's value, or Absent
          length,
          outcome        \* of the last operation

vars == <<contents, length, outcome>>


Init == contents = [k \in Keys |-> Absent] /\ length = 0 /\ outcome = "made"

Held == {k \in Keys : contents[k] # Absent}

Put(k, v) == /\ outcome' = "made"
             /\ contents'[k] = v
             /\ contents' = [contents EXCEPT ![k] = v]
             /\ length' = Cardinality(Held \union {k})
Remove(k) == /\ outcome' = "made"
             /\ contents'[k] = Absent
             /\ contents' = [contents EXCEPT ![k] = Absent]
             /\ length' = Cardinality(Held \ {k})

\* A literal is keys and values in turn, and the last value of a key counts.
Uses(s, k)   == {i \in 1 .. Len(s) \div 2 : s[2 * i - 1] = k}
Latest(s, k) == CHOOSE i \in Uses(s, k) : \A j \in Uses(s, k) : j <= i
Create(s) ==
  IF Len(s) % 2 = 0
  THEN /\ outcome' = "made"
       /\ contents' = [k \in Keys |-> IF Uses(s, k) = {} THEN Absent ELSE s[2 * Latest(s, k)]]
       /\ length' = Cardinality({k \in Keys : Uses(s, k) # {}})
  ELSE outcome' = "error" /\ UNCHANGED <<contents, length>>

\* map-insert may refuse; which keys it should refuse is another question.
Refuse == outcome' = "refused" /\ UNCHANGED <<contents, length>>

Next == \/ Refuse
        \/ \E k \in Keys : Remove(k) \/ \E v \in Values : Put(k, v)
        \/ \E s \in Literals : Create(s)

Spec == Init /\ [][Next]_vars
=============================================================================
