--------------------------- MODULE SaurusLanguage ---------------------------
(***************************************************************************)
(* What a program of the language means: the abstract specification of the *)
(* compiler together with the interpreter.  Expressions are the trees that *)
(* read.lua builds, without their line numbers.  Functions close over the  *)
(* variables around them, `and' and `or' are strict, `let' is the call of  *)
(* a function, `rec' calls the function it stands in.                      *)
(***************************************************************************)
EXTENDS SaurusMachine

Lit(n)  == [type |-> "NUMBER", num |-> n]
Sym(a)  == [type |-> "SYMBOL", atom |-> a]
Sexp(d) == [type |-> "SEXP", data |-> d]
Form(head, rest) == Sexp(<<Sym(head)>> \o rest)

IsSym(e)      == e.type = "SYMBOL"
IsForm(e, a)  == e.type = "SEXP" /\ e.data # <<>> /\ e.data[1] = Sym(a)

\* The number i of an environment: vars binds names, self is what `rec' calls.
\* A state st has the globals, the macros and the calls that may still be made.
Error == [kind |-> "error"]
Endless == [kind |-> "long"]
Done(v, st) == [v |-> v, st |-> st]
Stuck(v)    == v.kind \in {"error", "long"}

Closure(params, body, env) ==
  [kind |-> "closure", params |-> params, body |-> body, env |-> env]

\* let (k1 v1 k2 v2) body: the function of the keys applied to the values.
LetKeys(e)   == [k \in 1 .. Len(e.data[2].data) \div 2 |-> e.data[2].data[2 * k - 1]]
LetValues(e) == [k \in 1 .. Len(e.data[2].data) \div 2 |-> e.data[2].data[2 * k]]
LetLambda(e) == Form("lambda", <<Sexp(LetKeys(e))>> \o SubSeq(e.data, 3, Len(e.data)))

\* What a value looks like as an expression, for a macro's result.
RECURSIVE Elements(_), AsExpr(_)
Elements(v) == IF v.kind = "seq" THEN <<v.first>> \o Elements(v.rest) ELSE <<>>
AsExpr(v) ==
  CASE v.kind = "number" -> Lit(v.n)
    [] v.kind = "string" -> Sym(v.atom)
    [] v.kind = "nil"    -> Sym("nil")
    [] v.kind = "boolean" -> Sym(IF v.b THEN "true" ELSE "false")
    [] v.kind = "seq"    -> Sexp([k \in DOMAIN Elements(v) |-> AsExpr(Elements(v)[k])])

\* A form with every list in it back to front: how a macro has to write it.
RECURSIVE BackToFront(_)
BackToFront(e) ==
  IF e.type # "SEXP" THEN e
  ELSE Sexp(Reverse([k \in DOMAIN e.data |-> BackToFront(e.data[k])]))

ArithOf == [a \in {"+", "-", "*", "<", "<=", ">", ">="} |->
              CASE a = "+" -> "ADD" [] a = "-" -> "SUB" [] a = "*" -> "MUL"
                [] a \in {"<", ">"} -> "LESS" [] OTHER -> "LEQUAL"]

Operate(a, x, y) ==
  CASE a = "and" -> Bool(Truthy(x) /\ Truthy(y))
    [] a = "or"  -> Bool(Truthy(x) \/ Truthy(y))
    [] a = "req" -> Equal(x, y)
    [] OTHER -> IF x.kind # "number" \/ y.kind # "number" THEN Error
                ELSE IF a \in {">", ">="} THEN Arith(ArithOf[a], y.n, x.n)
                ELSE Arith(ArithOf[a], x.n, y.n)
Operators == DOMAIN ArithOf \cup {"and", "or", "req"}

RECURSIVE Eval(_, _, _), EvalAll(_, _, _), EvalBody(_, _, _), Apply(_, _, _),
          EvalQuoted(_, _, _)

\* The values of several expressions, from left to right, until one is stuck.
EvalAll(es, env, st) ==
  FoldLeft(LAMBDA r, e :
             IF r.vs # <<>> /\ Stuck(Last(r.vs)) THEN r
             ELSE LET x == Eval(e, env, r.st) IN [vs |-> Append(r.vs, x.v), st |-> x.st],
           [vs |-> <<>>, st |-> st], es)

EvalBody(es, env, st) ==
  LET r == EvalAll(es, env, st) IN Done(Last(r.vs), r.st)

Apply(f, args, st) ==
  CASE f.kind = "closure" ->
         LET vararg == IsSym(f.params)
             names  == IF vararg THEN <<f.params>> ELSE f.params.data
             vals   == IF vararg THEN <<Vec(args)>> ELSE args
             bound  == [a \in {names[k].atom : k \in DOMAIN names} |->
                          vals[CHOOSE k \in DOMAIN names :
                                 /\ names[k].atom = a
                                 /\ \A j \in DOMAIN names : names[j].atom = a => j <= k]]
         IN IF Len(names) # Len(vals) THEN Done(Error, st)
            ELSE IF st.fuel = 0 THEN Done(Endless, st)
            ELSE EvalBody(f.body, [vars |-> bound @@ f.env.vars, self |-> f],
                          [st EXCEPT !.fuel = @ - 1])
    [] f.kind = "native" -> Done(ApplyNative(f.name, args), st)
    [] f.kind = "vector" ->
         IF Len(args) = 1 /\ args[1].kind = "number" /\ args[1].n \in 0 .. Len(f.items) - 1
         THEN Done(f.items[args[1].n + 1], st) ELSE Done(Error, st)
    [] OTHER -> Done(Error, st)

ApplyAll(r) == IF Stuck(Last(r.vs)) THEN Done(Last(r.vs), r.st)
               ELSE Apply(r.vs[1], Tail(r.vs), r.st)

EvalQuoted(e, env, st) ==
  CASE e.type = "NUMBER" -> Done(Num(e.num), st)
    [] e.type = "SYMBOL" -> Done(IF e.atom = "nil" THEN Nil ELSE Str(e.atom), st)
    [] IsForm(e, "unquote") -> Eval(e.data[2], env, st)
    [] OTHER -> LET r == FoldLeft(LAMBDA x, d :
                           IF x.vs # <<>> /\ Stuck(Last(x.vs)) THEN x
                           ELSE LET y == EvalQuoted(d, env, x.st)
                                IN [vs |-> Append(x.vs, y.v), st |-> y.st],
                           [vs |-> <<>>, st |-> st], e.data)
                IN Done(IF Stuck(Last(r.vs)) THEN Last(r.vs) ELSE List(r.vs), r.st)

\* A macro is a function of the expressions it is applied to; what it gives is
\* read from its last element to its first (list_to_vec, gen.lua:432).
Expand(mac, args, env, st) ==
  LET quoted == [k \in DOMAIN args |-> Form("quote", <<args[k]>>)]
      plain  == [vars |-> <<>>, self |-> Nil]
      r == Eval(Sexp(<<mac>> \o quoted), plain, [st EXCEPT !.macros = <<>>])
  IN IF Stuck(r.v) THEN Done(Error, st)
     ELSE Eval(BackToFront(AsExpr(r.v)), env, st)

EvalForm(head, e, env, st) ==
  LET d == e.data IN
  CASE head \in DOMAIN st.macros -> Expand(st.macros[head], Tail(d), env, st)
    [] head = "if" ->
         LET c == Eval(d[2], env, st)
         IN IF Stuck(c.v) THEN c
            ELSE IF Truthy(c.v) THEN Eval(d[3], env, c.st)
            ELSE IF Len(d) > 3 THEN Eval(d[4], env, c.st) ELSE Done(Nil, c.st)
    [] head = "lambda" -> Done(Closure(d[2], SubSeq(d, 3, Len(d)), env), st)
    [] head = "let"    -> LET r == EvalAll(<<LetLambda(e)>> \o LetValues(e), env, st)
                          IN ApplyAll(r)
    [] head = "define" ->
         LET r == Eval(d[3], env, st)
         IN IF Stuck(r.v) THEN r
            ELSE IF d[2].atom \in DOMAIN r.st.globals THEN Done(Error, r.st)
            ELSE Done(r.v, [r.st EXCEPT !.globals = (d[2].atom :> r.v) @@ @])
    [] head = "macro" ->
         Done(Nil, [st EXCEPT !.macros =
                      (d[2].atom :> Form("lambda", SubSeq(d, 3, Len(d)))) @@ @])
    [] head = "rec" -> ApplyAll(LET r == EvalAll(Tail(d), env, st)
                                IN [r EXCEPT !.vs = <<env.self>> \o @])
    [] head = "do"    -> EvalBody(Tail(d), env, st)
    [] head = "quote" -> EvalQuoted(d[2], env, st)
    [] head = "not"   -> LET r == Eval(d[2], env, st)
                         IN IF Stuck(r.v) THEN r ELSE Done(Bool(~Truthy(r.v)), r.st)
    [] head = "-" /\ Len(d) = 2 ->
         LET r == Eval(d[2], env, st)
         IN Done(IF Stuck(r.v) THEN r.v
                 ELSE IF r.v.kind = "number" THEN Num(-r.v.n) ELSE Error, r.st)
    [] head \in Operators /\ Len(d) = 3 ->
         LET es == IF head \in {">", ">="} THEN <<d[3], d[2]>> ELSE Tail(d)
             r  == EvalAll(es, env, st)
         IN IF Stuck(Last(r.vs)) THEN Done(Last(r.vs), r.st)
            ELSE Done(IF head \in {">", ">="} THEN Operate(head, r.vs[2], r.vs[1])
                      ELSE Operate(head, r.vs[1], r.vs[2]), r.st)
    [] OTHER -> ApplyAll(EvalAll(d, env, st))

Specials == {"if", "lambda", "define", "macro", "rec", "do", "quote", "let", "not"}
              \cup Operators

Eval(e, env, st) ==
  CASE e.type = "NUMBER" -> Done(Num(e.num), st)
    [] e = Sym("nil")    -> Done(Nil, st)
    [] e = Sym("true")   -> Done(Bool(TRUE), st)
    [] e = Sym("false")  -> Done(Bool(FALSE), st)
    [] e.type = "SYMBOL" -> IF e.atom \in DOMAIN env.vars THEN Done(env.vars[e.atom], st)
                            ELSE IF e.atom \in DOMAIN st.globals
                            THEN Done(st.globals[e.atom], st)
                            ELSE Done(Error, st)
    [] OTHER -> IF IsSym(e.data[1]) THEN EvalForm(e.data[1].atom, e, env, st)
                ELSE ApplyAll(EvalAll(e.data, env, st))

\* What one can see of a value from outside.
RECURSIVE Seen(_)
Seen(v) == CASE v.kind \in {"closure", "function"} -> [kind |-> "function"]
             [] v.kind = "seq"    -> Cell(Seen(v.first), Seen(v.rest))
             [] v.kind = "vector" -> Vec([k \in DOMAIN v.items |-> Seen(v.items[k])])
             [] OTHER -> v

\* A file: the text of the program becomes the body of (lambda (...) <text>),
\* which is called with the vector of the arguments that the host passes.
Program(body) == Form("lambda", <<Sexp(<<Sym("...")>>)>> \o body)
Meaning(body, arg, globals, fuel) ==
  LET st == [globals |-> globals, macros |-> <<>>, fuel |-> fuel]
      f  == Closure(Sexp(<<Sym("...")>>), body, [vars |-> <<>>, self |-> Nil])
  IN Seen(Apply(f, <<Vec(<<arg>>)>>, st).v)
=============================================================================
