----------------------------- MODULE MCSaurusVM -----------------------------
(***************************************************************************)
(* SaurusVM on a few programs, as gen.lua compiles them: a file is a chunk *)
(* that makes the function (lambda (...) <text of the file>) and calls it. *)
(***************************************************************************)
EXTENDS SaurusVM

I(op)       == [op |-> op, a |-> 0]
IA(op, a)   == [op |-> op, a |-> a]
Push(v)     == [op |-> "PUSH", a |-> 0, v |-> v]
Get(g)      == [op |-> "GETGLOBAL", a |-> 0, name |-> g]
Define(g)   == [op |-> "SETGLOBAL", a |-> 0, name |-> g]
Chunk(body) == <<IA("LAMBDA", body), IA("LOAD", 0), IA("CALL", 1), I("RETURN")>>

MCCode ==
  [ \* (define loop (lambda (x) (if x (rec x) (+ x x)))) (loop 1)
    c1 |-> Chunk("w1"),
    w1 |-> <<IA("LAMBDA", "loop"), Define("loop"), IA("POP", 1),
             Get("loop"), Push(Number), IA("CALL", 1), I("RETURN")>>,
    loop |-> <<IA("LOAD", 0), IA("TEST", 6), IA("LOAD", 0), IA("LOAD", 0), I("ADD"),
               IA("JMP", 9), IA("COPY", 0), IA("LOAD", 0), IA("TCALL", 1), I("RETURN")>>,
    \* ((lambda (x) ((lambda () (native x)))) 1)
    c2 |-> Chunk("w2"),
    w2 |-> <<IA("LAMBDA", "outer"), Push(Number), IA("CALL", 1), I("RETURN")>>,
    outer |-> <<IA("LAMBDA", "inner"), IA("TCALL", 0), I("RETURN")>>,
    inner |-> <<Get("native"), IA("LOAD", 0), IA("TCALL", 1), I("RETURN")>>,
    \* ((lambda args (< (args 1) (native args)) (args 1)) 1 nil)
    c3 |-> Chunk("w3"),
    w3 |-> <<IA("LAMBDA", "var"), Push(Number), Push(Nil), IA("CALL", 2), I("RETURN")>>,
    var |-> <<IA("LOAD", 0), Push(Number), IA("CALL", 1), Get("native"), IA("LOAD", 0),
              IA("CALL", 1), I("LESS"), IA("POP", 1),
              IA("LOAD", 0), Push(Number), IA("TCALL", 1), I("RETURN")>>,
    \* (define deep (lambda (x) (if x (+ 1 (deep (< 1 1))) 1))) (deep true)
    c4 |-> Chunk("w4"),
    w4 |-> <<IA("LAMBDA", "deep"), Define("deep"), IA("POP", 1),
             Get("deep"), Push(Bool(TRUE)), IA("CALL", 1), I("RETURN")>>,
    deep |-> <<IA("LOAD", 0), IA("TEST", 4), Push(Number), IA("JMP", 11), Push(Number),
               Get("deep"), Push(Number), Push(Number), I("LESS"), IA("CALL", 1),
               I("ADD"), I("RETURN")>>,
    \* (or (and (req 1 1) nil) true), (% (- 1) 1), ((lambda (x) (x)) nil)
    c5 |-> Chunk("w5"),
    w5 |-> <<Push(Number), Push(Number), I("EQ"), Push(Nil), I("AND"), Push(Bool(TRUE)),
             I("OR"), I("NOT"), IA("POP", 1), Push(Number), I("UNM"), Push(Number),
             I("MOD"), IA("POP", 1), IA("LAMBDA", "bad"), Push(Nil), IA("CALL", 1),
             I("RETURN")>>,
    bad |-> <<IA("LOAD", 0), IA("TCALL", 0), I("RETURN")>>,
    \* (1 (unbound))
    c6 |-> Chunk("w6"),
    w6 |-> <<IA("LAMBDA", "one"), Push(Nil), IA("CALL", 0), I("RETURN")>>,
    one |-> <<IA("LOAD", 0), I("RETURN")>> ]

MCProtos == DOMAIN MCCode
MCChunks == {"c1", "c2", "c3", "c4", "c5", "c6"}
MCArity  == [p \in MCProtos |-> CASE p \in MCChunks \cup {"var"} -> -1
                                  [] p \in {"inner"}             -> 0
                                  [] OTHER                       -> 1]
MCUps    == [p \in MCProtos |-> IF p = "inner" THEN <<[lv |-> 1, idx |-> 0]>> ELSE <<>>]

\* The operands in use, from the instruction that leads to this one.
Effect(i) == CASE i.op \in PushOps                  -> 1
               [] i.op \in BinaryOps \cup {"TEST"}  -> -1
               [] i.op \in {"POP", "CALL", "TCALL"} -> -i.a
               [] OTHER                             -> 0
DepthIn(code) ==
  LET d[k \in 0 .. Len(code) - 1] ==
        IF k = 0 THEN 0
        ELSE LET from == {j \in 0 .. k - 1 : code[j + 1].op \in {"TEST", "JMP"}
                                              /\ code[j + 1].a = k}
                 j == IF from = {} THEN k - 1 ELSE CHOOSE x \in from : TRUE
             IN d[j] + Effect(code[j + 1])
  IN d
MCDepth == [p \in MCProtos |-> DepthIn(MCCode[p])]

MCNames   == {"loop", "deep", "native"}
MCLibrary == [g \in MCNames |-> IF g = "native" THEN Native("n") ELSE Inv]
MCResults == {Number}

\* Three operands of the host are explored for the files that fail, c2 and c6; with
\* the others it has two.
FewFiles == run = "host" /\ Len(stack) = 3 =>
              \A i \in 1 .. 3 : IsFunction(stack[i]) => stack[i].prot \notin {"c1", "c3", "c4", "c5"}
=============================================================================
