--------------------------- MODULE TableContract ---------------------------
(***************************************************************************)
(* What a Lua table promises: it is a function from keys to values, and a  *)
(* traversal comes to every key exactly once, although fields that exist   *)
(* may be changed and removed meanwhile.                                   *)
(***************************************************************************)
EXTENDS Naturals

CONSTANTS Keys, Values, NilValue

VARIABLES contents,   \* Keys -> the value of each, NilValue if it has none
          visited     \* the keys a traversal came to so far
cvars == <<contents, visited>>

CInit == contents = [k \in Keys |-> NilValue] /\ visited = {}

Present == {k \in Keys : contents[k] # NilValue}

\* A key that is new to the table ends the traversal.
Store == \E k \in Keys :
           /\ contents'[k] \in Values[k] \union {NilValue} /\ contents' = [contents EXCEPT ![k] = contents'[k]]
           /\ visited' \in {visited, {}} /\ (k \in Present => visited' = visited)
Visit == \E k \in Present \ visited : visited' = visited \union {k} /\ UNCHANGED contents
Finish == Present \subseteq visited /\ visited' = {} /\ UNCHANGED contents

CNext == Store \/ Visit \/ Finish
CSpec == CInit /\ [][CNext]_cvars
=============================================================================
