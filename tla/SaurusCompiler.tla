--------------------------- MODULE SaurusCompiler ---------------------------
(***************************************************************************)
(* The compiler: gen.lua makes instructions of a tree, compile.lua writes  *)
(* them to a file, with the width of each operand.                         *)
(*                                                                         *)
(* A function that is being compiled is a record c:                        *)
(*   inst, const, up, prot   what goes into the file                       *)
(*   lables                  its arguments                                 *)
(*   scopes                  the lables of the functions around it, the    *)
(*                           nearest first                                 *)
(*   all                     what there is one of: the macros, whether a   *)
(*                           macro is being compiled (in_macro_world), the *)
(*                           globals of macro_state, whether gen_error or  *)
(*                           an assertion has ended the compilation        *)
(* An error in Lua leaves everything at once; here it is noted in all, and *)
(* what is generated afterwards is of no account.                          *)
(***************************************************************************)
EXTENDS SaurusLanguage

CONSTANTS
  UINT8,       \* operands a, and constants' numbers, are written modulo this
  MacroFuel    \* bound: instructions that the expansion of a macro may take

Absent == -1

Compiling(lables, scopes, all) ==
  [inst |-> <<>>, const |-> <<>>, up |-> <<>>, prot |-> <<>>,
   lables |-> lables, scopes |-> scopes, all |-> all]

GenError(c) == [c EXCEPT !.all.failed = TRUE]

GenInst(c, op, a) == [c EXCEPT !.inst = Append(@, [op |-> op, a |-> a, b |-> 0])]

\* Tail calls are for functions inside the body of the file's function.
CallOrTail(c, tail, narg) ==
  GenInst(c, IF tail /\ Len(c.scopes) # 1 THEN "TCALL" ELSE "CALL", narg)

\* The last argument of that name, counted from 0.
FindLable(lables, a) == SelectLastInSeq(lables, LAMBDA x : x = a) - 1

\* The nearest function around this one that has an argument of that name.
FindUp(scopes, a) ==
  IF \E lv \in DOMAIN scopes : FindLable(scopes[lv], a) # Absent
  THEN CHOOSE lv \in DOMAIN scopes :
         /\ FindLable(scopes[lv], a) # Absent
         /\ \A k \in 1 .. lv - 1 : FindLable(scopes[k], a) = Absent
  ELSE Absent

\* The constant's number in the list, in which it is looked for first.
ConstId(c, k) == LET i == SelectInSeq(c.const, LAMBDA x : x = k)
                 IN IF i = 0 THEN Len(c.const) ELSE i - 1
PushConst(c, k) == IF Contains(c.const, k) THEN c ELSE [c EXCEPT !.const = Append(@, k)]
GenWithConst(c, op, k) == GenInst(PushConst(c, k), op, ConstId(c, k))

\* Every use of a variable from outside becomes an upvalue of its own.
GenFetch(c, a) ==
  LET id == FindLable(c.lables, a)
      lv == FindUp(c.scopes, a)
      u  == [c EXCEPT !.up = Append(@, [lv |-> lv, idx |-> FindLable(c.scopes[lv], a)])]
  IN IF id # Absent THEN GenInst(c, "LOAD", id)
     ELSE IF lv # Absent THEN GenInst(u, "LOAD", Len(u.lables) + Len(u.up) - 1)
     ELSE GenWithConst(c, "GETGLOBAL", Sym(a))

RECURSIVE Gen(_, _, _, _), GenLambda(_, _), GenSexp(_, _)

\* gen() of several expressions; what is between them is thrown away.
GenEach(c, es)  == FoldLeft(LAMBDA d, e : Gen(d, e, FALSE, FALSE), c, es)
GenForEffect(c, es) ==
  FoldLeft(LAMBDA d, e : GenInst(Gen(d, e, FALSE, FALSE), "POP", 1), c, es)

GenFunccall(c, e, tail) ==
  IF e.data = <<>> THEN GenError(c)
  ELSE CallOrTail(GenEach(c, e.data), tail, Len(e.data) - 1)

GenRec(c, e, tail) ==
  CallOrTail(GenEach(GenInst(c, "COPY", 0), Tail(e.data)), tail, Len(e.data) - 1)

\* The last expression is compiled as a tail call wherever the do stands.
GenDo(c, e) ==
  LET d == GenForEffect(c, SubSeq(e.data, 2, Len(e.data) - 1))
  IN Gen(d, Last(e.data), TRUE, FALSE)

GenList(c, e, tail) ==
  IF e.type # "SEXP" THEN Gen(c, e, tail, TRUE)
  ELSE IF e.data = <<>> THEN GenError(c)
  ELSE IF e.data[1].type = "SYMBOL" /\ e.data[1].atom = "unquote"
  THEN Gen(c, e.data[2], tail, FALSE)
  ELSE CallOrTail(FoldLeft(LAMBDA d, x : Gen(d, x, FALSE, TRUE), GenFetch(c, "list"), e.data),
                  tail, Len(e.data))

\* TEST jumps over the second alternative, which comes first, and its JMP.
Patch(c, i, target) == [c EXCEPT !.inst[i].a = target]
\* Mutant: TEST is patched before the JMP is there.
GenIf_Early(c, e, tail) ==
  LET n == Len(e.data)
      cond == GenInst(Gen(c, e.data[2], FALSE, FALSE), "TEST", 0)
      else == GenInst(Gen(cond, IF n > 3 THEN e.data[4] ELSE Sym("nil"), tail, FALSE), "JMP", 0)
      then == Gen(Patch(else, Len(cond.inst), Len(else.inst) - 1), e.data[3], tail, FALSE)
  IN IF n < 3 THEN GenError(c) ELSE Patch(then, Len(else.inst), Len(then.inst))

GenIf(c, e, tail) ==
  LET n == Len(e.data)
      cond == GenInst(Gen(c, e.data[2], FALSE, FALSE), "TEST", 0)
      else == GenInst(Gen(cond, IF n > 3 THEN e.data[4] ELSE Sym("nil"), tail, FALSE), "JMP", 0)
      then == Gen(Patch(else, Len(cond.inst), Len(else.inst)), e.data[3], tail, FALSE)
  IN IF n < 3 THEN GenError(c) ELSE Patch(then, Len(else.inst), Len(then.inst))

\* A macro is kept as a lambda; no instruction stands for its definition.
GenMacro(c, e) ==
  LET d == e.data
  IN IF \/ Len(d) < 4
        \/ ~IsSym(d[2])
        \/ d[3].type = "NUMBER"
        \/ (d[3].type = "SEXP" /\ \E k \in DOMAIN d[3].data : ~IsSym(d[3].data[k]))
        \/ d[2].atom \in DOMAIN c.all.macros
     THEN GenError(c)
     ELSE [c EXCEPT !.all.macros =
             (d[2].atom :> Form("lambda", SubSeq(d, 3, Len(d)))) @@ @]

\* recreate_ast(): a list comes out back to front (list_to_vec).  What is no
\* data leaves the text of the compiled macro in its place, as a symbol.
ListToVec(es) == Reverse(es)
RECURSIVE RecreateAst(_)
RecreateAst(v) ==
  IF v.kind = "seq" THEN Sexp(ListToVec([k \in DOMAIN Elements(v) |->
                                            RecreateAst(Elements(v)[k])]))
  ELSE AsExpr(v)
RECURSIVE IsData(_)
IsData(v) == \/ v.kind \in {"nil", "number", "string", "boolean"}
             \/ /\ v.kind = "seq"
                /\ \A k \in DOMAIN Elements(v) : IsData(Elements(v)[k])

\* gen_macro_expansion(): the call of the macro on its quoted arguments becomes
\* a file, which a state of its own loads and calls with nil.
Expansion(c, e, m) ==
  IF m.status # "done" THEN [c |-> GenError(c), e |-> e]
  ELSE LET v == m.stk[m.top]
       IN [c |-> [c EXCEPT !.all.globals = m.globals],
           e |-> IF IsData(v) THEN RecreateAst(v) ELSE Sym("<code>")]
ExpansionBy(c, e, file) ==
  IF file.all.failed THEN [c |-> GenError(c), e |-> e]
  ELSE Expansion(c, e, Run(Start(file.prot, Nil, c.all.globals, MacroFuel)))
GenMacroExpansion(c, e) ==
  LET quoted == [k \in DOMAIN Tail(e.data) |-> Form("quote", <<Tail(e.data)[k]>>)]
      code   == Sexp(<<c.all.macros[e.data[1].atom]>> \o quoted)
      whole  == Form("lambda", <<Sexp(<<Sym("...")>>), code>>)
  IN ExpansionBy(c, e, GenSexp(whole, [c.all EXCEPT !.inMacro = TRUE]))

\* What is written of a function that has been compiled.
Prototype(f) == [inst |-> f.inst, const |-> f.const, up |-> f.up, prot |-> f.prot]
WithLambda(c, f, narg) ==
  [c EXCEPT !.prot = Append(@, Prototype(f)), !.all = f.all,
            !.inst = Append(@, [op |-> "LAMBDA", a |-> Len(c.prot), b |-> narg])]

GenBody(c, es) == GenInst(Gen(GenForEffect(c, Front(es)), Last(es), TRUE, FALSE), "RETURN", 0)
GenLambda(c, e) ==
  LET d == e.data
      args == IF d[2].type = "SEXP" THEN d[2].data ELSE <<d[2]>>
      narg == IF d[2].type = "SEXP" THEN Len(args) ELSE -1
      new  == Compiling([k \in DOMAIN args |-> args[k].atom], <<c.lables>> \o c.scopes, c.all)
  IN IF Len(d) < 3 \/ \E k \in DOMAIN args : ~IsSym(args[k]) THEN GenError(c)
     ELSE WithLambda(c, GenBody(new, SubSeq(d, 3, Len(d))), narg)

GenLet(c, e, tail) ==
  IF \/ Len(e.data) < 3
     \/ e.data[2].type # "SEXP"
     \/ Len(e.data[2].data) % 2 # 0
     \/ \E k \in DOMAIN LetKeys(e) : ~IsSym(LetKeys(e)[k])
  THEN GenError(c)
  ELSE CallOrTail(GenEach(GenLambda(c, LetLambda(e)), LetValues(e)),
                  tail, Len(LetValues(e)))

GenDefine(c, e) ==
  IF Len(e.data) # 3 \/ ~IsSym(e.data[2]) THEN GenError(c)
  ELSE GenWithConst(Gen(c, e.data[3], FALSE, FALSE), "SETGLOBAL", e.data[2])

\* gen_arith(), gen_logical(), gen_greater(): two operands; of more, a call.
OpOf == [a \in Operators \cup {"not"} |->
           CASE a \in {"and", "or", "not"} ->
                  (CASE a = "and" -> "AND" [] a = "or" -> "OR" [] a = "not" -> "NOT")
             [] a = "req" -> "EQ" [] OTHER -> ArithOf[a]]
GenOperator(c, e, tail) ==
  LET a == e.data[1].atom
      operands == IF a \in {">", ">="} THEN Reverse(Tail(e.data)) ELSE Tail(e.data)
  IN IF a = "-" /\ Len(e.data) = 2
     THEN GenInst(Gen(c, e.data[2], FALSE, FALSE), "UNM", 0)
     ELSE IF Len(e.data) < 3 THEN GenError(c)
     ELSE IF Len(e.data) > 3
     THEN GenFunccall(c, e, tail /\ a \notin {">", ">="})
     ELSE GenInst(GenEach(c, operands), OpOf[a], 0)

IsMacro(c, e) == /\ e.data # <<>> /\ IsSym(e.data[1]) /\ ~c.all.inMacro
                 /\ e.data[1].atom \in DOMAIN c.all.macros

GenSpecial(c, head, e, tail) ==
  CASE head = "if"     -> GenIf(c, e, tail)
    [] head = "lambda" -> GenLambda(c, e)
    [] head = "define" -> GenDefine(c, e)
    [] head = "macro"  -> GenMacro(c, e)
    [] head = "rec"    -> GenRec(c, e, tail)
    [] head = "do"     -> GenDo(c, e)
    [] head = "quote"  -> GenList(c, e.data[2], tail)
    [] head = "let"    -> GenLet(c, e, tail)
    [] OTHER           -> GenOperator(c, e, tail)

IsSpecial(e) == e.data # <<>> /\ IsSym(e.data[1]) /\ e.data[1].atom \in Specials

GenExpanded(x, tail) == Gen(x.c, x.e, tail, FALSE)
Gen(c, e, tail, quoted) ==
  CASE c.all.failed -> c
    [] e.type = "NUMBER" -> GenWithConst(c, "PUSH", e)
    [] e.type = "SYMBOL" ->
         IF quoted \/ e.atom \in {"nil", "true", "false"} THEN GenWithConst(c, "PUSH", e)
                                                          ELSE GenFetch(c, e.atom)
    [] OTHER ->
         IF quoted THEN GenList(c, e, tail)
         ELSE IF IsMacro(c, e)
         THEN GenExpanded(GenMacroExpansion(c, e), tail)
         ELSE IF IsSpecial(e) THEN GenSpecial(c, e.data[1].atom, e, tail)
         ELSE GenFunccall(c, e, tail)

\* gen_sexp(): the file's own code makes the function and calls it with what it
\* was given itself.
TopFunction(c) == GenInst(GenInst(GenInst(c, "LOAD", 0), "CALL", 1), "RETURN", 0)
Generated(f) == [prot |-> Prototype(f), all |-> f.all]
GenSexp(e, all) ==
  Generated(TopFunction(Gen(Compiling(<<>>, <<>>, all), e, FALSE, FALSE)))

\* compile_func(): an operand is written as one byte.
RECURSIVE CompileFunc(_)
CompileFunc(p) ==
  [p EXCEPT !.inst = [k \in DOMAIN p.inst |-> [p.inst[k] EXCEPT !.a = @ % UINT8]],
            !.prot = [k \in DOMAIN p.prot |-> CompileFunc(p.prot[k])]]

\* entry(): a file is compiled with no macros, by a state that has only the library.
Compile(body, library) ==
  GenSexp(Program(body),
          [macros |-> <<>>, inMacro |-> FALSE, globals |-> library, failed |-> FALSE])
=============================================================================
