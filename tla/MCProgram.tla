------------------------------ MODULE MCProgram ------------------------------
(***************************************************************************)
(* Programs for SaurusProgram: every nesting of two forms, with one of the *)
(* two in each place of the other, inside the function that a file is; and *)
(* files of several forms, with globals, recursion and macros.             *)
(***************************************************************************)
EXTENDS SaurusProgram

X == Sym("x")
Y == Sym("y")
F(a, rest) == Form(a, rest)

Leaves == {Lit(1), Lit(2), X}
Params == {Sexp(<<X>>), Sexp(<<Y>>)}

\* Forms with subexpressions a, b, c.
Of1(a) == {F("lambda", <<p, a>>) : p \in Params}
            \cup {F("rec", <<a>>), F("define", <<Y, a>>), F("do", <<a>>), F("-", <<a>>),
                  F("quote", <<a>>), Sexp(<<a>>)}
Of2(a, b) == {F("+", <<a, b>>), F(">", <<a, b>>), F("and", <<a, b>>), F("do", <<a, b>>),
              F("let", <<Sexp(<<X, a>>), b>>), F("let", <<Sexp(<<Y, a>>), b>>),
              F("if", <<a, b>>), F("lambda", <<Sexp(<<X>>), a, b>>), Sexp(<<a, b>>)}
Of3(a, b, c) == {F("if", <<a, b, c>>), F("let", <<Sexp(<<X, a, Y, b>>), c>>),
                 Sexp(<<a, b, c>>)}

Forms(S, T) == UNION {Of1(a) : a \in S}
                 \cup UNION {Of2(a, b) \cup Of2(b, a) : a \in S, b \in T}
                 \cup UNION {Of3(a, b, b) \cup Of3(b, a, b) \cup Of3(b, b, a)
                               : a \in S, b \in T}
One == Forms(Leaves, Leaves)
Few == {Lit(1), X}
Two == Forms(Forms(Few, Few), Few) \cup Forms(Forms({X}, {Sym("...")}), {X})
Calling == {F("do", <<Lit(2), Sexp(<<Sym("list"), Lit(1)>>)>>), Sexp(<<Sym("list"), X>>)}

Loop == F("lambda", <<Sexp(<<X>>), F("if", <<F("<", <<X, Lit(3)>>),
                                            F("rec", <<F("+", <<X, Lit(1)>>)>>), X>>)>>)
Sum == F("lambda", <<Sexp(<<X>>), F("if", <<F("<=", <<X, Lit(0)>>), Lit(0),
                             F("+", <<X, F("rec", <<F("-", <<X, Lit(1)>>)>>)>>)>>)>>)
Args == Sexp(<<Sexp(<<Sym("..."), Lit(0)>>), Lit(0)>>)

Files ==
  {<<F("define", <<Y, e>>), f>> : e \in {Loop, Sum, Lit(2)},
                                  f \in {Sexp(<<Y, Lit(2)>>), F("define", <<Y, X>>), Y}}
    \cup {<<F("macro", <<Y, Sexp(<<X>>), t>>), e>> :
            t \in {X, Lit(1), F("quote", <<Sexp(<<F("unquote", <<X>>), Lit(1), Sym("+")>>)>>),
                   F("quote", <<Sexp(<<X, Sexp(<<X>>), Sym("lambda")>>)>>)},
            e \in {Sexp(<<Y, Lit(2)>>), Sexp(<<Sexp(<<Y, X>>), Lit(2)>>),
                   F("+", <<Lit(1), Sexp(<<Y, Lit(2)>>)>>), Sexp(<<Y, Sym("nil")>>),
                   F("let", <<Sexp(<<X, Lit(2)>>), Sexp(<<Y, X>>)>>)}}
    \cup {<<Args>>, <<F("lambda", <<Sym("..."), Sexp(<<Sym("..."), Lit(0)>>)>>)>>,
          <<Sexp(<<F("lambda", <<Sym("..."), Sexp(<<Sym("..."), Lit(1)>>)>>), Lit(1), Lit(2)>>)>>,
          <<F("or", <<Lit(1), Sym("nil")>>), F("not", <<X, Sym("true")>>)>>,
          <<F("let", <<Sexp(<<X>>), X>>)>>, <<F("if", <<X>>)>>,
          <<F("macro", <<Y, Sexp(<<X>>), X>>), F("macro", <<Y, Sexp(<<X>>), X>>), X>>}

MCPrograms == {<<e>> : e \in One} \cup Files
                \cup {<<F("let", <<Sexp(<<X, Lit(1)>>), e>>)>> : e \in Two \cup Forms(Calling, Few)}

Natives == {"list", "first", "rest", "cons"}
MCLibrary == [g \in Natives |-> Native(g)]
MCArgument == Num(7)

\* Files of n macros and a last form.
Macro(n) == F("macro", <<Sym(IF n = 1 THEN "m" ELSE IF n = 2 THEN "n" ELSE
                            IF n = 3 THEN "o" ELSE IF n = 4 THEN "p" ELSE "q"),
                         Sexp(<<X>>), X>>)
MacroFiles == {[k \in 1 .. n + 1 |-> IF k <= n THEN Macro(k) ELSE Lit(1)] : n \in 0 .. 5}
                \cup {<<e>> : e \in One}

(***************************************************************************)
(* The natives that programs call, by themselves: SaurusLibrary shares no  *)
(* variable with SaurusProgram.                                            *)
(***************************************************************************)
VARIABLES value, loc, call,
          about       \* "programs" or "natives"

nativeVars == <<value, loc, call>>

ZeroNumber == [t |-> "number", n |-> 0]
OneText == [t |-> "string", s |-> <<"1">>]
Natively == INSTANCE SaurusLibrary WITH
              Starts <- {ZeroNumber, [t |-> "vector", e |-> <<ZeroNumber, OneText>>]},
              Literals <- {[t |-> "number", n |-> 1], OneText},
              MaxCalls <- 3

MCInit == /\ Init /\ Natively!Init /\ about \in {"programs", "natives"}
          /\ IF about = "natives" THEN body = <<Args>> ELSE value = ZeroNumber
MCNext == \/ about = "programs" /\ Next /\ UNCHANGED <<nativeVars, about>>
          \/ about = "natives" /\ Natively!Next /\ UNCHANGED <<vars, about>>
MCSpec == MCInit /\ [][MCNext]_<<vars, nativeVars, about>>

\* Sequences have the elements they should, and every native takes each of its
\* arguments for what it is (libseq.c, lib.c, core.c).
SequencesPromised == Natively!SequencesPromised
DataPromised      == Natively!DataPromised
=============================================================================
