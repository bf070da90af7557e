----------------------------- MODULE LuaLanguage -----------------------------
(***************************************************************************)
(* What a Lua program means: the abstract specification of the parser, the *)
(* code generator and the interpreter together.  Variables are cells of a  *)
(* store, an environment says which cell a name is; there are no           *)
(* registers, jumps or upvalues.  A state s has the cells, the tables, the *)
(* functions, the globals and what the host has been shown; r holds a      *)
(* state with the values of expressions, or with how a block ended.        *)
(***************************************************************************)
EXTENDS LuaMachine

NoVars == [vars |-> <<>>, dots |-> <<>>]
Going(s) == s.status = "run"
Values(s, vs) == [s |-> s, vs |-> vs]
Failed(s) == Values([s EXCEPT !.status = "error"], <<>>)
Single(r) == IF r.vs = <<>> THEN Nil ELSE r.vs[1]
One1(r)   == Values(r.s, <<Single(r)>>)

\* Variables.
Positions(env, name) == {i \in DOMAIN env.vars : env.vars[i].name = name}
Cell(env, name) == env.vars[Greatest(Positions(env, name))].at
Lookup(s, env, name) ==
  IF Positions(env, name) = {} THEN Get(s.globals, Name(name)) ELSE s.cells[Cell(env, name)]
Bound(env, names, n) ==
  [env EXCEPT !.vars = @ \o [i \in DOMAIN names |-> [name |-> names[i], at |-> n + i]]]
NewCells(s, vs) == [s EXCEPT !.cells = @ \o vs]

-----------------------------------------------------------------------------
\* The manual's precedence, from low to high; `..' and `^' group to the right.
Level(op) ==
  CASE op = "or" -> 1 [] op = "and" -> 2 [] op \in DOMAIN CompareOf -> 3 [] op = ".." -> 4
    [] op \in {"+", "-"} -> 5 [] op = "*" -> 6 [] op = "^" -> 8
Unaries == 7
Binaries(e) == {i \in 2 .. Len(e) : e[i].k = "op" /\ e[i - 1].k # "op"}
Least(S) == CHOOSE i \in S : \A j \in S : i <= j
Lowest(e, B) == {i \in B : \A j \in B : Level(e[i].op) <= Level(e[j].op)}
RootAmong(e, L) == IF e[Least(L)].op \in {"..", "^"} THEN Least(L) ELSE Greatest(L)
LowBinaries(e) == {i \in Binaries(e) : Level(e[i].op) < Unaries}
Root(e) ==
  IF LowBinaries(e) # {} THEN RootAmong(e, Lowest(e, LowBinaries(e)))
  ELSE IF e[1].k = "op" THEN 1
  ELSE IF Binaries(e) # {} THEN Least(Binaries(e)) ELSE 0

-----------------------------------------------------------------------------
RECURSIVE Sem(_, _, _, _), ExecOne(_, _, _), Fields(_, _, _, _, _), While(_, _, _), Repeat(_, _, _),
          Turns(_, _, _, _, _, _), EachOf(_, _, _, _), Cases(_, _, _)

Eval(s, env, e)     == Sem(s, env, "expression", e)
EvalAll(s, env, es) == Sem(s, env, "list", es)
Operand1(s, env, x) == Sem(s, env, "operand", x)
Exec(s, env, stats) == Sem(s, env, "block", stats)
Apply(s, f, vs)     == Sem(s, f, "call", vs)

OrFail(s, v) == IF v = Fail THEN Failed(s) ELSE Values(s, <<v>>)

BinaryOp(s, op, x, y) ==
  CASE op \in DOMAIN ArithOf -> Arith(ArithOf[op], x, y)
    [] op = ".." -> Concat(x, y)
    [] op = "==" -> Boolean(x = y)
    [] op = "~=" -> Boolean(x # y)
    [] op \in {"<", "<="} -> Compare(CompareOf[op], x, y)
    [] op \in {">", ">="} -> Compare(CompareOf[op], y, x)
UnaryOp(s, op, x) ==
  CASE op = "not" -> Boolean(IsFalse(x))
    [] op = "-" -> Unary("UNM", x)
    [] op = "#" -> IF Type(x) = "table" THEN Number(Length(s.tabs[x[2]])) ELSE Fail

\* x is the value of what stands left of the operator, rest what stands right.
Both(r, op, x) == IF Going(r.s) THEN OrFail(r.s, BinaryOp(r.s, op, x, Single(r))) ELSE r
RightOf(r, env, op, rest) ==
  CASE ~Going(r.s) -> r
    [] Going(r.s) /\ op = "and" -> IF IsFalse(Single(r)) THEN One1(r) ELSE One1(Eval(r.s, env, rest))
    [] Going(r.s) /\ op = "or" -> IF IsFalse(Single(r)) THEN One1(Eval(r.s, env, rest)) ELSE One1(r)
    [] OTHER -> Both(Eval(r.s, env, rest), op, Single(r))
Applied1(r, op) == IF Going(r.s) THEN OrFail(r.s, UnaryOp(r.s, op, Single(r))) ELSE r
EvalAt(s, env, e, i) ==
  CASE i = 0 -> Operand1(s, env, e[1])
    [] i = 1 -> Applied1(Eval(s, env, Tail(e)), e[1].op)
    [] OTHER -> RightOf(Eval(s, env, SubSeq(e, 1, i - 1)), env, e[i].op, SubSeq(e, i + 1, Len(e)))
Expression(s, env, e) == EvalAt(s, env, e, Root(e))

\* A list: every expression but the last gives one value.
Appended(r, vs) == Values(r.s, vs \o r.vs)
RestOf(r, env, es) ==
  IF ~Going(r.s) THEN r ELSE Appended(EvalAll(r.s, env, es), <<Single(r)>>)
List(s, env, es) ==
  CASE es = <<>> -> Values(s, <<>>)
    [] Len(es) = 1 -> Eval(s, env, es[1])
    [] OTHER -> RestOf(Eval(s, env, Head(es)), env, Tail(es))

Indexed(s, t, key) ==
  IF Type(t) = "table" THEN Values(s, <<Get(s.tabs[t[2]], key)>>) ELSE Failed(s)
IndexWith(r, t) == IF Going(r.s) THEN Indexed(r.s, t, Single(r)) ELSE r
FieldOf(r, name) == IF Going(r.s) THEN Indexed(r.s, Single(r), Name(name)) ELSE r
IndexOf(r, env, key) == IF Going(r.s) THEN IndexWith(Eval(r.s, env, key), Single(r)) ELSE r

CallWithArgs(r, f, self) == IF Going(r.s) THEN Apply(r.s, f, self \o r.vs) ELSE r
CallValue(r, env, args) ==
  IF Going(r.s) THEN CallWithArgs(EvalAll(r.s, env, args), Single(r), <<>>) ELSE r
MethodOf(r, env, args, obj) ==
  IF Going(r.s) THEN CallWithArgs(EvalAll(r.s, env, args), Single(r), <<obj>>) ELSE r
CallMethod(r, env, name, args) ==
  IF Going(r.s) THEN MethodOf(Indexed(r.s, Single(r), Name(name)), env, args, Single(r)) ELSE r

Allocated(s, h) == Values([s EXCEPT !.tabs = Append(@, h)], <<Table(Len(s.tabs) + 1)>>)
NewClosure(s, env, x) ==
  Values([s EXCEPT !.cl = Append(@, [x |-> x, env |-> env])], <<Function(Len(s.cl) + 1)>>)

OperandOf(s, env, x) ==
  CASE x.k = "number" -> Values(s, <<Number(x.n)>>)
    [] x.k = "string" -> Values(s, <<Name(x.s)>>)
    [] x.k = "nil" -> Values(s, <<Nil>>)
    [] x.k = "true" -> Values(s, <<Boolean(TRUE)>>)
    [] x.k = "false" -> Values(s, <<Boolean(FALSE)>>)
    [] x.k = "..." -> Values(s, env.dots)
    [] x.k = "function" -> NewClosure(s, env, x)
    [] x.k = "table" -> Fields(Values(s, <<>>), env, x.fields, NewTable, 1)
    [] x.k = "name" -> Values(s, <<Lookup(s, env, x.name)>>)
    [] x.k = "paren" -> One1(Eval(s, env, x.e))
    [] x.k = "field" -> FieldOf(Operand1(s, env, x.of), x.name)
    [] x.k = "index" -> IndexOf(Operand1(s, env, x.of), env, x.key)
    [] x.k = "method" -> CallMethod(Operand1(s, env, x.of), env, x.name, x.args)
    [] x.k = "call" -> CallValue(Operand1(s, env, x.of), env, x.args)

\* A constructor: h so far, n the number of the next item.
RECURSIVE Items(_, _, _)
Items(h, vs, n) == IF vs = <<>> THEN h ELSE Items(Set(h, Number(n), Head(vs)), Tail(vs), n + 1)
ItemDone(r, env, xs, h, n) ==
  IF ~Going(r.s) THEN r
  ELSE Fields(r, env, Tail(xs), Items(h, IF Len(xs) = 1 THEN r.vs ELSE <<Single(r)>>, n), n + 1)
PairDone(r, env, xs, h, n, key) ==
  IF ~Going(r.s) THEN r
  ELSE IF key = Nil THEN Failed(r.s) ELSE Fields(r, env, Tail(xs), Set(h, key, Single(r)), n)
KeyDone(r, env, xs, h, n) ==
  IF ~Going(r.s) THEN r ELSE PairDone(Eval(r.s, env, Head(xs).e), env, xs, h, n, Single(r))
Fields(r, env, xs, h, n) ==
  CASE xs = <<>> -> Allocated(r.s, h)
    [] xs # <<>> /\ Head(xs).k = "item" -> ItemDone(Eval(r.s, env, Head(xs).e), env, xs, h, n)
    [] OTHER -> KeyDone(Eval(r.s, env, Head(xs).key), env, xs, h, n)

-----------------------------------------------------------------------------
\* Functions.
Pad(vs, n) == WantedOf(vs, n)
ParamsOf(x, self) == self \o x.params \o (IF x.dots THEN <<"arg">> ELSE <<>>)
ArgOf(s, x, extra) == IF x.dots /\ ~x.usesdots THEN Table(Len(s.tabs) + 1) ELSE Nil
WithArgTable(s, x, extra) ==
  IF x.dots /\ ~x.usesdots THEN [s EXCEPT !.tabs = Append(@, ArgTable(extra))] ELSE s
ExtraOf(vs, n) == SubSeq(vs, n + 1, Len(vs))
Ended(r) == IF r.ctl = "return" THEN Values(r.s, r.vs) ELSE Values(r.s, <<>>)
Invoke(s, c, self, vs, n) ==
  Ended(Exec(NewCells(WithArgTable(s, c.x, ExtraOf(vs, n)),
                      Pad(vs, n) \o (IF c.x.dots THEN <<ArgOf(s, c.x, ExtraOf(vs, n))>> ELSE <<>>)),
             [Bound(c.env, ParamsOf(c.x, self), Len(s.cells))
                EXCEPT !.dots = IF c.x.dots THEN ExtraOf(vs, n) ELSE <<>>],
             c.x.body))
SelfOf(x) == IF x.self THEN <<"self">> ELSE <<>>
InvokeClosure(s, c, vs) == Invoke(s, c, SelfOf(c.x), vs, Len(SelfOf(c.x)) + Len(c.x.params))

Protect(r) ==
  CASE r.s.status = "error" -> Values([r.s EXCEPT !.status = "run"], <<Boolean(FALSE), ErrorObject>>)
    [] r.s.status = "run" -> Values(r.s, <<Boolean(TRUE)>> \o r.vs)
    [] OTHER -> r
Spend(s) == IF s.fuel = 0 THEN [s EXCEPT !.status = "long"] ELSE [s EXCEPT !.fuel = @ - 1]
ApplyTo(s, f, vs) ==
  CASE ~Going(s) -> Values(s, <<>>)
    [] Going(s) /\ Type(f) = "function" -> InvokeClosure(s, s.cl[f[2]], vs)
    [] Going(s) /\ f = Native("emit") -> Values([s EXCEPT !.trace = Append(@, SeenAll(vs))], vs)
    [] Going(s) /\ f = Native("pcall") /\ vs # <<>> -> Protect(Apply(s, Head(vs), Tail(vs)))
    [] OTHER -> Failed(s)

-----------------------------------------------------------------------------
\* Statements: how a block ended, and the environment at its end.
Next1(s, env) == [s |-> s, env |-> env, ctl |-> "next", vs |-> <<>>]
Ends(s, env, ctl, vs) == [s |-> s, env |-> env, ctl |-> ctl, vs |-> vs]
Then1(r, stats) == IF r.ctl = "next" /\ Going(r.s) THEN Exec(r.s, r.env, stats) ELSE r
Block(s, env, stats) ==
  IF stats = <<>> THEN Next1(s, env) ELSE Then1(ExecOne(s, env, Head(stats)), Tail(stats))
Scoped(r, env) == [r EXCEPT !.env = env]
After(r, env) == Scoped(IF r.ctl = "break" THEN [r EXCEPT !.ctl = "next"] ELSE r, env)

Declare(r, env, names) ==
  IF Going(r.s) THEN Next1(NewCells(r.s, Pad(r.vs, Len(names))), Bound(env, names, Len(r.s.cells)))
  ELSE Next1(r.s, env)

\* Assignment: targets are evaluated first, values next; then values are stored, the last first.
StoreTo(s, env, t, v) ==
  CASE t.k = "name" /\ Positions(env, t.name) # {} -> [s EXCEPT !.cells[Cell(env, t.name)] = v]
    [] t.k = "name" /\ Positions(env, t.name) = {} -> [s EXCEPT !.globals = Set(@, Name(t.name), v)]
    [] t.k = "place" ->
         IF Type(t.of) = "table" /\ t.key # Nil THEN [s EXCEPT !.tabs[t.of[2]] = Set(@, t.key, v)]
         ELSE [s EXCEPT !.status = "error"]
RECURSIVE StoreAll(_, _, _, _), TargetsOf(_, _, _, _)
StoreAll(s, env, ts, vs) ==
  IF ts = <<>> \/ ~Going(s) THEN s
  ELSE StoreAll(StoreTo(s, env, Last(ts), vs[Len(ts)]), env, Front(ts), vs)
StoreValues(r, env, ts) ==
  IF Going(r.s) THEN Next1(StoreAll(r.s, env, ts, Pad(r.vs, Len(ts))), env) ELSE Next1(r.s, env)
Assign(r, env, es) == IF Going(r.s) THEN StoreValues(EvalAll(r.s, env, es), env, r.vs) ELSE Next1(r.s, env)
KeyRead(r, env, vars, ts, of) ==
  IF Going(r.s) THEN TargetsOf(r.s, env, Tail(vars), Append(ts, [k |-> "place", of |-> of, key |-> Single(r)]))
  ELSE r
TableRead(r, env, vars, ts) ==
  IF ~Going(r.s) THEN r
  ELSE KeyRead(IF Head(vars).k = "field" THEN Values(r.s, <<Name(Head(vars).name)>>)
               ELSE Eval(r.s, env, Head(vars).key), env, vars, ts, Single(r))
TargetsOf(s, env, vars, ts) ==
  CASE vars = <<>> -> Values(s, ts)
    [] vars # <<>> /\ Head(vars).k = "name" -> TargetsOf(s, env, Tail(vars), Append(ts, Head(vars)))
    [] OTHER -> TableRead(Operand1(s, env, Head(vars).of), env, vars, ts)

WhileDone(r, env, x) ==
  IF r.ctl = "next" /\ Going(r.s) THEN While(Spend(r.s), env, x) ELSE After(r, env)
WhileTest(r, env, x) ==
  IF Going(r.s) /\ ~IsFalse(Single(r)) THEN WhileDone(Exec(r.s, env, x.body), env, x) ELSE Next1(r.s, env)
While(s, env, x) == IF Going(s) THEN WhileTest(Eval(s, env, x.c), env, x) ELSE Next1(s, env)

RepeatTest(r, env, x) ==
  IF Going(r.s) /\ IsFalse(Single(r)) THEN Repeat(Spend(r.s), env, x) ELSE Next1(r.s, env)
RepeatDone(r, env, x) ==
  IF r.ctl = "next" /\ Going(r.s) THEN RepeatTest(Eval(r.s, r.env, x.c), env, x) ELSE After(r, env)
Repeat(s, env, x) == IF Going(s) THEN RepeatDone(Exec(s, env, x.body), env, x) ELSE Next1(s, env)

TurnDone(r, env, x, i, limit, step) ==
  IF r.ctl = "next" /\ Going(r.s) THEN Turns(Spend(r.s), env, x, i + step, limit, step) ELSE After(r, env)
Turns(s, env, x, i, limit, step) ==
  IF Going(s) /\ Continues(i, limit, step)
  THEN TurnDone(Exec(NewCells(s, <<Number(i)>>), Bound(env, <<x.name>>, Len(s.cells)), x.body),
                env, x, i, limit, step)
  ELSE Next1(s, env)
ForNum(r, env, x, vs) ==
  CASE ~Going(r.s) -> Next1(r.s, env)
    [] Going(r.s) /\ \E k \in 1 .. 3 : ~IsNumber(vs[k]) -> Next1([r.s EXCEPT !.status = "error"], env)
    [] OTHER -> Turns(r.s, env, x, vs[1][2], vs[2][2], vs[3][2])
StepOf(x) == IF x.step = <<>> THEN <<<<[k |-> "number", n |-> 1]>>>> ELSE x.step
ParenAll(es) == [i \in DOMAIN es |-> <<[k |-> "paren", e |-> es[i]]>>]
ForNumOf(r, env, x) == ForNum(r, env, x, r.vs)

EachDone(r, env, x, c) ==
  IF r.ctl = "next" /\ Going(r.s) THEN EachOf(Spend(r.s), env, x, c) ELSE After(r, env)
EachTurn(r, env, x, c) ==
  IF ~Going(r.s) \/ Single(r) = Nil THEN Next1(r.s, env)
  ELSE EachDone(Exec(NewCells(r.s, Pad(r.vs, Len(x.names))), Bound(env, x.names, Len(r.s.cells)), x.body),
                env, x, [c EXCEPT ![3] = Single(r)])
EachOf(s, env, x, c) ==
  IF Going(s) THEN EachTurn(Apply(s, c[1], <<c[2], c[3]>>), env, x, c) ELSE Next1(s, env)
ForIn(r, env, x) == IF Going(r.s) THEN EachOf(r.s, env, x, Pad(r.vs, 3)) ELSE Next1(r.s, env)

CaseDone(r, env, x) ==
  CASE ~Going(r.s) -> Next1(r.s, env)
    [] Going(r.s) /\ IsFalse(Single(r)) -> Cases(r.s, env, [x EXCEPT !.clauses = Tail(@)])
    [] OTHER -> Scoped(Exec(r.s, env, Head(x.clauses).body), env)
Cases(s, env, x) ==
  IF x.clauses # <<>> THEN CaseDone(Eval(s, env, Head(x.clauses).c), env, x)
  ELSE IF x.els # <<>> THEN Scoped(Exec(s, env, x.els[1]), env) ELSE Next1(s, env)

Discard(r, env) == Next1(r.s, env)
Returning(r, env) == Ends(r.s, env, IF Going(r.s) THEN "return" ELSE "next", r.vs)
FunctionStat(s, env, x) ==
  Assign(TargetsOf(s, env, <<x.target>>, <<>>), env, <<<<[x.f EXCEPT !.self = x.needself]>>>>)
LocalFunction(s, env, x) ==
  StoreValues(Eval(NewCells(s, <<Nil>>), Bound(env, <<x.name>>, Len(s.cells)), <<x.f>>),
              Bound(env, <<x.name>>, Len(s.cells)), <<[k |-> "name", name |-> x.name]>>)
ExecOne(s, env, x) ==
  CASE x.k = "local" -> Declare(EvalAll(s, env, x.es), env, x.names)
    [] x.k = "assign" -> Assign(TargetsOf(s, env, x.vars, <<>>), env, x.es)
    [] x.k = "callstat" -> Discard(Operand1(s, env, x.call), env)
    [] x.k = "do" -> Scoped(Exec(s, env, x.body), env)
    [] x.k = "while" -> While(s, env, x)
    [] x.k = "repeat" -> Repeat(s, env, x)
    [] x.k = "if" -> Cases(s, env, x)
    [] x.k = "fornum" -> ForNumOf(EvalAll(s, env, ParenAll(<<x.from, x.to>> \o StepOf(x))), env, x)
    [] x.k = "forlist" -> ForIn(EvalAll(s, env, x.es), env, x)
    [] x.k = "function" -> FunctionStat(s, env, x)
    [] x.k = "localfunction" -> LocalFunction(s, env, x)
    [] x.k = "return" -> Returning(EvalAll(s, env, x.es), env)
    [] x.k = "break" -> Ends(s, env, "break", <<>>)

Sem(s, env, what, x) ==
  CASE what = "expression" -> Expression(s, env, x)
    [] what = "list" -> List(s, env, x)
    [] what = "operand" -> OperandOf(s, env, x)
    [] what = "block" -> Block(s, env, x)
    [] what = "call" -> ApplyTo(Spend(s), env, x)

Meaning(stats, args, globals, fuel) ==
  Ended(Exec([cells |-> <<>>, tabs |-> <<>>, cl |-> <<>>, globals |-> globals, trace |-> <<>>,
              status |-> "run", fuel |-> fuel], [NoVars EXCEPT !.dots = args], stats))
=============================================================================
