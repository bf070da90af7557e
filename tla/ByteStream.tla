----------------------------- MODULE ByteStream -----------------------------
(***************************************************************************)
(* What buffer_read() promises su_load(): the bytes of the file one after  *)
(* another, as many as are asked for, or fewer and an error.  How the      *)
(* reader of the host cuts the file into pieces makes no difference.       *)
(***************************************************************************)
EXTENDS Integers, Sequences

CONSTANTS Files, Junk

VARIABLES
  file,
  pos,        \* bytes that have been given away
  got,        \* what the last request was given, Junk where nothing was
  asked,
  outcome     \* "ok", "short" (-1), "reading", "oom" (an error has left su_load)

vars == <<file, pos, got, asked, outcome>>

Taken(k) == [i \in 0 .. asked - 1 |-> IF i < k THEN file[pos + i + 1] ELSE Junk]

Init == /\ file \in Files
        /\ pos = 0 /\ got = <<>> /\ asked = 0 /\ outcome = "ok"

Ask == /\ outcome \in {"ok", "short"}
       /\ asked' \in Nat
       /\ outcome' = "reading"
       /\ got' = <<>>
       /\ UNCHANGED <<file, pos>>

Finish(how, k) == /\ outcome = "reading"
                  /\ outcome' = how
                  /\ pos' = pos + k
                  /\ pos + k <= Len(file)
                  /\ got' = Taken(k)
                  /\ UNCHANGED <<file, asked>>

Deliver    == Finish("ok", asked)
Fail       == \E k \in 0 .. asked - 1 : Finish("short", k)
OutOfMemory == /\ outcome = "reading"
               /\ outcome' = "oom"
               /\ UNCHANGED <<file, pos, got, asked>>

Next == Ask \/ Deliver \/ Fail \/ OutOfMemory
Spec == Init /\ [][Next]_vars
=============================================================================
