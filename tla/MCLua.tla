------------------------------- MODULE MCLua -------------------------------
(***************************************************************************)
(* The programs the compiler of Lua is checked with, as families of syntax *)
(* trees; and, with nothing to do with them, LuaList and LuaPattern: a     *)
(* behaviour is one of programs, of lists or of patterns.                  *)
(***************************************************************************)
EXTENDS LuaProgram, LuaList

CONSTANT MaxParts

Op(o) == [k |-> "op", op |-> o]
N(n) == [k |-> "number", n |-> n]
S(s) == [k |-> "string", s |-> s]
NilE == [k |-> "nil"]
TrueE == [k |-> "true"]
FalseE == [k |-> "false"]
DotsE == [k |-> "..."]
V(x) == [k |-> "name", name |-> x]
Paren(e) == [k |-> "paren", e |-> e]
Dot(x, f) == [k |-> "field", of |-> x, name |-> f]
At1(x, e) == [k |-> "index", of |-> x, key |-> e]
Call(f, args) == [k |-> "call", of |-> f, args |-> args]
Method1(x, f, args) == [k |-> "method", of |-> x, name |-> f, args |-> args]
Fun(params, stats) == [k |-> "function", params |-> params, dots |-> FALSE, usesdots |-> FALSE,
                       self |-> FALSE, body |-> stats]
VarFun(params, uses, stats) == [k |-> "function", params |-> params, dots |-> TRUE, usesdots |-> uses,
                       self |-> FALSE, body |-> stats]
Item(e) == [k |-> "item", e |-> e]
Pair(key, e) == [k |-> "pair", key |-> key, e |-> e]
Tab(fs) == [k |-> "table", fields |-> fs]

Local(names, es) == [k |-> "local", names |-> names, es |-> es]
Assign1(vs, es) == [k |-> "assign", vars |-> vs, es |-> es]
Do(b) == [k |-> "do", body |-> b]
CallS(c) == [k |-> "callstat", call |-> c]
Return(es) == [k |-> "return", es |-> es]
If(c, b) == [k |-> "if", clauses |-> <<[c |-> c, body |-> b]>>, els |-> <<>>]
WhileS(c, b) == [k |-> "while", c |-> c, body |-> b]
Emit(es) == CallS(Call(V("emit"), es))

Num(i) == <<N(i)>>
Var(x) == <<V(x)>>
Of(x)  == <<x>>
Bin(x, op, y) == x \o <<Op(op)>> \o y
Set1(x, e) == Assign1(<<V(x)>>, <<e>>)
IfElse(c, b, e) == [k |-> "if", clauses |-> <<[c |-> c, body |-> b]>>, els |-> <<e>>]
RepeatS(b, c) == [k |-> "repeat", body |-> b, c |-> c]
ForN(x, from, to, b) == [k |-> "fornum", name |-> x, from |-> from, to |-> to, step |-> <<>>, body |-> b]
ForIn1(names, es, b) == [k |-> "forlist", names |-> names, es |-> es, body |-> b]
LocalFun(x, f) == [k |-> "localfunction", name |-> x, f |-> f]
FunStat(target, f, self) == [k |-> "function", target |-> target, f |-> f, needself |-> self]
Break1 == [k |-> "break"]
Closing1(b) == Of(Fun(<<>>, b))                   \* function () b end
Elem(i) == Of(At1(V("t"), Num(i)))
CallIf(x) == Bin(x, "and", Of(Call(Paren(x), <<>>)))

-----------------------------------------------------------------------------
\* Expressions: operators between operands.
ChainOf(ps) == FlattenSeq([i \in DOMAIN ps |-> IF i = 1 THEN ps[i].x ELSE <<Op(ps[i].op)>> \o ps[i].x])
Decisions == {[op |-> o, x |-> <<x>>] : o \in {"and", "or", "==", "<", "..", "+"},
                                        x \in {NilE, TrueE, FalseE, N(1), V("a"), V("g")}}
Calculations ==
  {[op |-> o, x |-> x] : o \in {"^", "-", "*", "..", "<=", "~="}, x \in {Num(2), Var("a")}}
    \cup {[op |-> o, x |-> x] :
            o \in {"-", "..", ">=", "and"},
            x \in {Of(Op("-")) \o Var("a"), Of(Op("not")) \o Var("a"), Of(Op("#")) \o Var("t"),
                   Of(Paren(Bin(Num(1), "-", Var("a"))))}}
Expressed(e) == <<Local(<<"a", "t">>, <<Num(2), Of(Tab(<<Item(Num(1))>>))>>), Emit(<<e>>),
                  If(e, <<Emit(<<Num(7)>>)>>), WhileS(e, <<Emit(<<Num(8)>>), Break1>>), Return(<<e>>)>>

\* Statements that store.
AtI == Of(At1(V("t"), Var("i")))
Stores ==
  { Assign1(<<V("i"), At1(V("t"), Var("i"))>>, <<AtI, Var("i")>>),
    Assign1(<<At1(V("t"), Var("i")), V("i")>>, <<Var("i"), Num(2)>>),
    Assign1(<<At1(V("t"), Var("i")), V("t")>>, <<Num(5), Of(Tab(<<Item(Num(7)), Item(Num(8))>>))>>),
    Assign1(<<V("g"), V("i")>>, <<Var("i"), Var("g")>>),
    Assign1(<<Dot(V("t"), "x"), At1(V("t"), Num(2)), V("i")>>, <<Of(Call(V("emit"), <<Var("i"), Num(3)>>))>>),
    Assign1(<<V("i"), V("i")>>, <<Num(2), Num(1), AtI>>),
    Local(<<"y", "i">>, <<Bin(Var("i"), "+", Num(1))>>),
    Local(<<"y">>, <<>>),
    If(Bin(Var("i"), "==", Var("y")), <<Local(<<"z">>, <<>>), Set1("i", Var("z"))>>),
    Assign1(<<At1(V("t"), Bin(Var("i"), "and", Num(1)))>>, <<Bin(Var("y"), "or", Of(TrueE))>>) }
Storing(stats) ==
  <<Local(<<"t", "i">>, <<Of(Tab(<<Item(Num(2)), Item(Num(9))>>)), Num(1)>>), Local(<<"y">>, <<>>)>>
    \o stats \o <<Emit(<<Var("i"), Var("y"), Elem(1), Elem(2), Of(Dot(V("t"), "x")), Var("g")>>)>>

\* The body of a loop, with closures of what is local to it.
Turning ==
  { Assign1(<<At1(V("t"), Var("n"))>>, <<Closing1(<<Set1("x", Bin(Var("x"), "+", Num(1))), Return(<<Var("x")>>)>>)>>),
    Set1("g", Closing1(<<Return(<<Var("x")>>)>>)),
    If(Bin(Var("n"), "==", Num(2)), <<Break1>>),
    If(Bin(Var("n"), "==", Num(2)), <<Return(<<CallIf(Var("g"))>>)>>),
    Set1("x", Bin(Var("x"), "+", Num(10))),
    Do(<<Local(<<"x">>, <<Var("n")>>), Set1("g", Closing1(<<Return(<<Var("x")>>)>>))>>),
    IfElse(Bin(Var("n"), "==", Num(1)), <<Set1("n", Bin(Var("n"), "+", Num(1)))>>, <<Emit(<<CallIf(Elem(1))>>)>>),
    WhileS(Of(TrueE), <<Local(<<"x">>, <<Var("n")>>),
                        Assign1(<<At1(V("t"), Num(3))>>, <<Closing1(<<Return(<<Var("x")>>)>>)>>), Break1>>) }
Counted(b) == <<Set1("n", Bin(Var("n"), "+", Num(1))), Local(<<"x">>, <<Var("n")>>)>> \o b
Iterator == Fun(<<"s", "c">>, <<If(Bin(Var("c"), "<", Num(3)),
                                   <<Return(<<Bin(Var("c"), "+", Num(1)), Bin(Var("c"), "*", Num(2))>>)>>)>>)
Looped(f, b) ==
  CASE f = "while"  -> WhileS(Bin(Var("n"), "<", Num(3)), Counted(b))
    [] f = "repeat" -> RepeatS(Counted(b), Bin(Bin(Var("n"), ">=", Num(3)), "or", Bin(Var("x"), "==", Num(12))))
    [] f = "for"    -> ForN("x", Num(1), Num(3), <<Set1("n", Var("x"))>> \o b)
    [] f = "each"   -> Do(<<
         LocalFun("next", Iterator),
         LocalFun("f", Fun(<<>>, <<
           ForIn1(<<"c", "x">>, <<Var("next"), Of(NilE), Num(0)>>, <<Set1("n", Var("c"))>> \o b) >>)),
         CallS(Call(V("f"), <<>>)) >>)
Looping(f, b) ==
  <<Local(<<"n", "t">>, <<Num(0), Of(Tab(<<>>))>>), Looped(f, b),
    Emit(<<Var("n"), CallIf(Elem(1)), CallIf(Elem(2)), CallIf(Elem(3)), CallIf(Var("g"))>>)>>

\* Lists of expressions, where they are arguments, items, values and results.
Listed ==
  { Num(1), Of(NilE), Of(DotsE), Of(Paren(Of(DotsE))), Of(Call(V("none"), <<>>)),
    Of(Call(V("two"), <<Num(4)>>)), Of(Paren(Of(Call(V("two"), <<Num(4)>>)))),
    Of(Method1(V("o"), "m", <<Num(6)>>)) }
Items1(es) == Tab([i \in DOMAIN es |-> Item(es[i])] \o <<Pair(Of(S("k")), Num(3))>>)
Items2(es) == Tab(<<Pair(Num(2), Num(3))>> \o [i \in DOMAIN es |-> Item(es[i])])
Listing(es) ==
  << LocalFun("none", Fun(<<>>, <<Return(<<>>)>>)),
     Local(<<"two", "o">>, <<Of(Fun(<<"a", "b">>, <<Return(<<Var("a"), Var("b"), Num(2)>>)>>)), Of(Tab(<<>>))>>),
     FunStat(Dot(V("o"), "m"), Fun(<<"p">>, <<Return(<<Var("p"), Of(Dot(V("self"), "m"))>>)>>), TRUE),
     Emit(es), Local(<<"x", "y">>, es), Emit(<<Var("x"), Var("y")>>),
     Local(<<"t">>, <<Of(Items1(es))>>), Emit(<<Elem(1), Elem(2), Elem(3), Elem(4), Of(Dot(V("t"), "k"))>>),
     Set1("t", Of(Items2(es))), Emit(<<Elem(1), Elem(2), Elem(3), Elem(4)>>),
     Assign1(<<V("x"), V("y")>>, es), Emit(<<Var("x"), Var("y")>>),
     CallS(Call(Paren(Of(VarFun(<<"p">>, FALSE, <<Emit(<<Var("p"), Of(Dot(V("arg"), "n"))>>)>>))), es)),
     CallS(Call(Paren(Of(VarFun(<<"p">>, TRUE, <<Return(<<Of(Call(V("emit"), <<Of(DotsE), Var("p")>>))>>)>>))), es)),
     Return(<<Of(Call(V("two"), es))>>) >>

\* What a protected call runs.
Undefined1 == CallS(Call(V("undefined"), <<>>))
Protected1 ==
  { Set1("x", Bin(Var("x"), "+", Num(1))), Set1("g", Closing1(<<Return(<<Var("x")>>)>>)),
    Undefined1, Do(<<Return(<<Var("x"), Num(7)>>)>>), Assign1(<<Dot(V("h"), "x")>>, <<Var("x")>>),
    Do(<<LocalFun("f", Fun(<<>>, <<Set1("x", Num(5)), Local(<<"y">>, <<Var("x")>>),
                                   Set1("h", Closing1(<<Return(<<Var("y")>>)>>)), Undefined1>>)),
         Emit(<<Of(Call(V("pcall"), <<Var("f")>>))>>)>>),
    Do(<<Return(<<Of(Call(V("pcall"), <<Var("g")>>))>>)>>),
    Do(<<Local(<<"x">>, <<Num(8)>>), Set1("h", Closing1(<<Set1("x", Num(9)), Return(<<Var("x")>>)>>)),
         Return(<<Of(Call(V("h"), <<>>))>>)>>) }
Protecting(b) ==
  << LocalFun("f", Fun(<<"x">>, b)), Emit(<<Of(Call(V("pcall"), <<Var("f"), Num(4)>>))>>),
     Emit(<<CallIf(Var("g")), CallIf(Var("h"))>>), Return(<<Of(Call(V("pcall"), <<Of(DotsE)>>))>>) >>

-----------------------------------------------------------------------------
Loops == {"while", "repeat", "for", "each"}
MCFamily == {"decisions", "calculations", "stores", "lists", "errors"} \cup Loops
MCPool(f) ==
  CASE f = "decisions" -> Decisions [] f = "calculations" -> Calculations [] f = "stores" -> Stores
    [] f = "lists" -> Listed [] f = "errors" -> Protected1 [] OTHER -> Turning
MCLongest(f) == IF f \in {"stores", "while", "repeat", "for", "each", "errors"} THEN 3 ELSE 2
MCText(f, ps) ==
  CASE f \in {"decisions", "calculations"} -> Expressed(ChainOf(ps))
    [] f = "stores" -> Storing(ps) [] f = "lists" -> Listing(ps) [] f = "errors" -> Protecting(ps)
    [] OTHER -> Looping(f, ps)
MCArgs == <<Number(5), Number(6)>>

-----------------------------------------------------------------------------
\* Lists: all of up to three elements, and longer ones, of which the longest is cut
\* into parts that have to be cut themselves.  The second order thinks that 1 and 2
\* are equal.
ListValues == {Number(1), Number(2), Number(3)}
NumbersOf(ns) == [x \in DOMAIN ns |-> Number(ns[x])]
MCLists == {NumbersOf(ns) : ns \in UNION {[1 .. n -> {1, 2}] : n \in 0 .. 3}
              \cup {<<1, 2, 3, 1>>, <<3, 2, 1, 3, 1, 2>>, <<1, 3, 2, 3, 1, 1, 2, 2, 3, 3, 1, 2>>}}
ListOrders == { {r \in ListValues \X ListValues : r[1][2] < r[2][2]},
                {<<Number(3), Number(1)>>, <<Number(3), Number(2)>>} }

\* Patterns.
Every == {" ", "a", "b"}
Parts ==
  LET one(src, set, rep) == [k |-> "one", src |-> src, set |-> set, rep |-> rep]
      other(k, src)      == [k |-> k, src |-> src]
  IN {<<one(<<"a">>, {"a"}, "one")>>, <<one(<<"a", "*">>, {"a"}, "star")>>,
      <<one(<<".", "-">>, Every, "lazy")>>, <<one(<<"[", "^", "a", "]", "+">>, {" ", "b"}, "plus")>>,
      <<one(<<"%", "S", "?">>, {"a", "b"}, "maybe")>>, <<one(<<"[", "a", "-", "b", "]">>, {"a", "b"}, "one")>>,
      <<other("open", <<"(">>), one(<<".", "*">>, Every, "star"), other("close", <<")">>)>>,
      <<other("open", <<"(">>)>>, <<other("close", <<")">>)>>, <<other("place", <<"(", ")">>)>>,
      <<other("back", <<"%", "1">>)>>, <<other("end", <<"$">>)>>,
      <<[k |-> "balance", src |-> <<"%", "b", "a", "b">>, b |-> "a", e |-> "b"]>>,
      <<[k |-> "frontier", src |-> <<"%", "f", "[", "%", "a", "]">>, set |-> {"a", "b"}]>>}
Texts == {<<>>, <<"a", "a", "b">>, <<"b", "a", " ", "a">>, <<"a", "a", "b", "a", "b", "b">>}

VARIABLES text, parts
Patterns == INSTANCE LuaPattern

VARIABLE about    \* "programs", "lists" or "patterns"

MCInit == /\ about \in {"programs", "lists", "patterns"}
          /\ Init /\ ListInit /\ Patterns!Init
          /\ about # "programs" => family = "lists"
          /\ about # "lists"    => table = Blank
          /\ about # "patterns" => text = <<>>
MCNext == \/ about = "programs" /\ Next /\ UNCHANGED <<listVars, text, parts>>
          \/ about = "lists" /\ ListNext /\ UNCHANGED <<vars, text, parts>>
          \/ about = "patterns" /\ Patterns!Next /\ UNCHANGED <<vars, listVars>>
MCSpec == MCInit /\ [][MCNext /\ UNCHANGED about]_<<vars, listVars, text, parts, about>>

\* Patterns mean what they say, whatever is tried on the way (lstrlib.c:186-684).
PatternsFind == Patterns!Finds
=============================================================================
