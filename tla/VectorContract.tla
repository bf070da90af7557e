--------------------------- MODULE VectorContract ---------------------------
(***************************************************************************)
(* What persistent vectors promise: an operation gives a new sequence and  *)
(* leaves every earlier one as it was; an index out of bounds, or a pop    *)
(* too many, is an error and gives nothing.                                *)
(***************************************************************************)
EXTENDS Integers, Sequences

CONSTANTS Items, Pushed, Value    \* what PersistentVector puts in its vectors

VARIABLES vecs,      \* the sequences made so far
          outcome    \* of the last operation

vars == <<vecs, outcome>>

Error    == <<"error">>
Made     == <<"made">>
Found(v) == <<"found", v>>

Init == vecs = <<>> /\ outcome = Made

Gives(s) == vecs' = Append(vecs, s) /\ outcome' = Made
Fails    == outcome' = Error /\ UNCHANGED vecs

InBounds(s, i) == i \in 0 .. Len(s) - 1

Create(s)    == Gives(s)
Push(k, s)   == Gives(vecs[k] \o s)
Pop(k, n)    == IF n <= Len(vecs[k]) THEN Gives(SubSeq(vecs[k], 1, Len(vecs[k]) - n))
                                     ELSE Fails
Set(k, i, v) == IF InBounds(vecs[k], i) THEN Gives([vecs[k] EXCEPT ![i + 1] = v])
                                        ELSE Fails
Index(k, i)  == /\ outcome' = IF InBounds(vecs[k], i) THEN Found(vecs[k][i + 1]) ELSE Error
                /\ UNCHANGED vecs

Next == \/ \E n \in 0 .. Len(Items) : Create(SubSeq(Items, 1, n))
        \/ \E k \in 1 .. Len(vecs) :
             \/ \E s \in Pushed : Push(k, s)
             \/ \E n \in 0 .. Len(vecs[k]) + 1 : Pop(k, n)
             \/ \E i \in -1 .. Len(vecs[k]) : Set(k, i, Value) \/ Index(k, i)

Spec == Init /\ [][Next]_vars
=============================================================================
