------------------------------ MODULE LuaParser ------------------------------
(***************************************************************************)
(* The parser of Lua (lparser.c), which generates code as it goes.  It     *)
(* reads a tree in which the tokens of statements and of primary           *)
(* expressions are already grouped; an expression is the sequence of its   *)
(* operands and operators, and its grouping is the parser's.  The          *)
(* functions around the one that is being read are the chain fs.prev.      *)
(***************************************************************************)
EXTENDS LuaCode, FiniteSets, SequencesExt

Outermost == [main |-> TRUE]
open_func(prev, main) ==
  [prev |-> prev, main |-> main, code |-> <<>>, k |-> <<>>, p |-> <<>>, jpc |-> NO_JUMP,
   lasttarget |-> -1, freereg |-> 0, maxstacksize |-> 2, actvar |-> <<>>, newvars |-> <<>>,
   bl |-> <<>>, upvalues |-> <<>>, numparams |-> 0, is_vararg |-> {}, e |-> Void,
   asserted |-> TRUE]

\* What is left of a FuncState when its function is closed.
Proto(fs) ==
  [code |-> fs.code, k |-> fs.k, p |-> fs.p, nups |-> Len(fs.upvalues),
   numparams |-> fs.numparams, is_vararg |-> fs.is_vararg, maxstacksize |-> fs.maxstacksize]

-----------------------------------------------------------------------------
\* Variables.
new_localvar(fs, name) == [fs EXCEPT !.newvars = Append(@, name)]
adjustlocalvars(fs, n) ==
  [fs EXCEPT !.actvar = @ \o SubSeq(fs.newvars, 1, n),
             !.newvars = SubSeq(@, n + 1, Len(@))]
removevars(fs, tolevel) == [fs EXCEPT !.actvar = SubSeq(@, 1, tolevel)]

Where(fs, name) == {i \in 1 .. nactvar(fs) : fs.actvar[i] = name}
searchvar(fs, name) == (CHOOSE i \in Where(fs, name) : \A j \in Where(fs, name) : j <= i) - 1

Greatest(S) == CHOOSE i \in S : \A j \in S : j <= i
BlocksOf(fs, level) == {i \in DOMAIN fs.bl : fs.bl[i].nactvar <= level}
markupval(fs, level) ==
  IF BlocksOf(fs, level) = {} THEN fs
  ELSE [fs EXCEPT !.bl[Greatest(BlocksOf(fs, level))].upval = TRUE]

Upvalue(v) == [k |-> v.k, info |-> v.info]
indexupvalue(fs, v) ==
  [fs EXCEPT !.upvalues = IF Upvalue(v) \in ToSet(@) THEN @ ELSE Append(@, Upvalue(v))]
UpvalueIndex(fs, v) == (CHOOSE i \in DOMAIN fs.upvalues : fs.upvalues[i] = Upvalue(v)) - 1
AsUpvalue(fs, v) == Hold(fs, init_exp("VUPVAL", UpvalueIndex(fs, v)))

\* A local, an upvalue of this function (and of those between), or a global.
RECURSIVE singlevaraux(_, _, _)
FromOuter(fs, outer) ==
  IF outer.e.k = "VGLOBAL" THEN Hold(fs, outer.e)
  ELSE AsUpvalue(indexupvalue([fs EXCEPT !.prev = [outer EXCEPT !.e = fs.prev.e]], outer.e),
                 outer.e)
singlevaraux(fs, name, base) ==
  IF Where(fs, name) # {}
  THEN Hold(IF base THEN fs ELSE markupval(fs, searchvar(fs, name)),
            init_exp("VLOCAL", searchvar(fs, name)))
  ELSE IF fs.main THEN Hold(fs, init_exp("VGLOBAL", NO_REG))
  ELSE FromOuter(fs, singlevaraux(fs.prev, name, FALSE))

Name(s) == <<"string", <<s>>>>
NamedGlobal(fs, s) ==
  IF fs.e.k = "VGLOBAL" THEN [codestring(fs, s) EXCEPT !.e.k = "VGLOBAL"] ELSE fs
singlevar(fs, name) == NamedGlobal(singlevaraux(fs, name, TRUE), Name(name))

\* nvars variables take the values of nexps expressions, the last is in fs.
Padded(fs, extra, reg) ==
  IF extra <= 0 THEN fs ELSE luaK_nil(luaK_reserveregs(fs, extra), reg, extra)
PaddedFrom(fs, extra) == Padded(fs, extra, fs.freereg)
Spread(fs, extra) ==
  IF extra <= 1 THEN luaK_setreturns(fs, extra)
  ELSE luaK_reserveregs(luaK_setreturns(fs, extra), extra - 1)
adjust_assign(fs, nvars, nexps) ==
  IF hasmultret(fs.e.k) THEN Spread(fs, Larger(nvars - nexps + 1, 0))
  ELSE PaddedFrom(IF fs.e.k = "VVOID" THEN fs ELSE luaK_exp2nextreg(fs), nvars - nexps)

-----------------------------------------------------------------------------
\* Blocks and functions.
enterblock(fs, isbreakable) ==
  [lua_assert(fs, fs.freereg = nactvar(fs))
     EXCEPT !.bl = Append(@, [breaklist |-> NO_JUMP, isbreakable |-> isbreakable,
                              nactvar |-> nactvar(fs), upval |-> FALSE])]

Left(fs, bl) ==
  luaK_patchtohere([lua_assert(fs, ~bl.isbreakable \/ ~bl.upval) EXCEPT !.freereg = nactvar(fs)],
                   bl.breaklist)
LeaveTo(fs, bl) ==
  Left(IF bl.upval THEN luaK_codeABC(fs, "CLOSE", bl.nactvar, 0, 0) ELSE fs, bl)
leaveblock(fs) ==
  LeaveTo([removevars(fs, Last(fs.bl).nactvar) EXCEPT !.bl = Front(@)], Last(fs.bl))

Capture(u) ==
  Instruction(IF u.k = "VLOCAL" THEN "MOVE" ELSE "GETUPVAL", 0, u.info, 0)
\* The first capture ends the jumps to here, as every instruction does.
PushClosure(fs, func) ==
  Hold([fs EXCEPT !.code = @ \o [i \in DOMAIN func.upvalues |-> Capture(func.upvalues[i])]],
       init_exp("VRELOCABLE", pc(fs) - 1))
pushclosure(fs, func) ==
  PushClosure(luaK_codeABC([lua_assert(fs, func.asserted) EXCEPT !.p = Append(@, Proto(func))],
                           "CLOSURE", 0, Len(fs.p), 0), func)

close_func(fs) == lua_assert(luaK_ret(removevars(fs, 0), 0, 0), fs.bl = <<>>)

\* `...' also makes a local arg, filled only in a function that never uses `...'.
RECURSIVE NewVars(_, _)
NewVars(fs, names) ==
  IF names = <<>> THEN fs ELSE NewVars(new_localvar(fs, Head(names)), Tail(names))
Parameters(fs, hasarg) ==
  luaK_reserveregs([fs EXCEPT !.numparams = nactvar(fs) - (IF hasarg THEN 1 ELSE 0)],
                   nactvar(fs))
parlist(fs, params, dots) ==
  Parameters(adjustlocalvars(
    [NewVars(fs, params \o (IF dots THEN <<"arg">> ELSE <<>>))
       EXCEPT !.is_vararg = IF dots THEN {"HASARG", "NEEDSARG", "ISVARARG"} ELSE {}],
    Len(params) + (IF dots THEN 1 ELSE 0)), dots)

-----------------------------------------------------------------------------
\* Expressions.
left  == [op \in {"+", "-", "*", "^", "..", "==", "~=", "<", "<=", ">", ">=", "and", "or"} |->
            CASE op \in {"+", "-"} -> 6 [] op = "*" -> 7 [] op = "^" -> 10 [] op = ".." -> 5
              [] op = "and" -> 2 [] op = "or" -> 1 [] OTHER -> 3]
right == [op \in DOMAIN left |->
            CASE op = "^" -> 9 [] op = ".." -> 4 [] OTHER -> left[op]]
UNARY_PRIORITY == 8

RECURSIVE parse(_, _, _), subexpr(_, _, _, _), expand(_, _, _), simpleexp(_, _),
          constructor(_, _), fields(_, _), body(_, _, _), chunk(_, _)

expr(fs, e)       == parse(fs, "expr", e)
primaryexp(fs, x) == parse(fs, "primaryexp", x)
explist1(fs, es)  == parse(fs, "explist1", es)
stats1(fs, stats) == parse(fs, "chunk", stats)

At(fs, i) == [fs |-> fs, at |-> i]
Right(r, op, e1) == At(luaK_posfix(r.fs, op, e1), r.at)
Operated(fs, e, i, op) == Right(subexpr(fs, e, i + 1, right[op]), op, fs.e)
expand(r, e, limit) ==
  IF r.at > Len(e) THEN r
  ELSE IF left[e[r.at].op] <= limit THEN r
  ELSE expand(Operated(luaK_infix(r.fs, e[r.at].op), e, r.at, e[r.at].op), e, limit)

Prefixed(r, op) == At(luaK_prefix(r.fs, op), r.at)
subexpr(fs, e, i, limit) ==
  CASE ~fs.asserted  -> At(fs, Len(e) + 1)
    [] e[i].k = "op" -> expand(Prefixed(subexpr(fs, e, i + 1, UNARY_PRIORITY), e[i].op), e, limit)
    [] OTHER         -> expand(At(simpleexp(fs, e[i]), i + 1), e, limit)

Dots(fs) ==
  Coded(Hold(luaK_codeABC([fs EXCEPT !.is_vararg = @ \ {"NEEDSARG"}], "VARARG", 0, 1, 0), Void),
        "VVARARG")
simpleexp(fs, x) ==
  CASE x.k = "number" -> Hold(fs, init_exp("VKNUM", x.n))
    [] x.k = "string" -> codestring(fs, Name(x.s))
    [] x.k = "nil"    -> Hold(fs, init_exp("VNIL", 0))
    [] x.k = "true"   -> Hold(fs, init_exp("VTRUE", 0))
    [] x.k = "false"  -> Hold(fs, init_exp("VFALSE", 0))
    [] x.k = "..."    -> Dots(fs)
    [] x.k = "table"  -> constructor(fs, x.fields)
    [] x.k = "function" -> body(fs, x, FALSE)
    [] OTHER -> primaryexp(fs, x)

\* A call of the function in the register base.
CallWith(fs, base, nparams) ==
  [Coded(Hold(luaK_codeABC(fs, "CALL", base, nparams + 1, 2), Void), "VCALL")
     EXCEPT !.freereg = base + 1]
CallClosed(fs, base) == CallWith(fs, base, fs.freereg - (base + 1))
CallOf(fs, base) ==
  CASE hasmultret(fs.e.k) -> CallWith(fs, base, MULTRET)
    [] fs.e.k = "VVOID" -> CallClosed(fs, base)
    [] OTHER -> CallClosed(luaK_exp2nextreg(fs), base)
Arguments(fs, args) ==
  IF args = <<>> THEN Hold(fs, Void) ELSE luaK_setmultret(explist1(fs, args))
funcargs(fs, args) ==
  CallOf(Arguments(lua_assert(fs, fs.e.k = "VNONRELOC"), args), fs.e.info)

field(fs, name) == luaK_indexed(codestring(fs, Name(name)), fs.e)
yindex(fs, key) == luaK_indexed(luaK_exp2val(expr(fs, key)), fs.e)
Method(fs, name) == luaK_self(Hold(codestring(fs, Name(name)), fs.e), codestring(fs, Name(name)).e)
Primary(fs, x) ==
  CASE x.k = "name"  -> singlevar(fs, x.name)
    [] x.k = "paren" -> luaK_dischargevars(expr(fs, x.e))
    [] x.k = "field" -> field(luaK_exp2anyreg(primaryexp(fs, x.of)), x.name)
    [] x.k = "index" -> yindex(luaK_exp2anyreg(primaryexp(fs, x.of)), x.key)
    [] x.k = "method" -> funcargs(Method(primaryexp(fs, x.of), x.name), x.args)
    [] x.k = "call"  -> funcargs(luaK_exp2nextreg(primaryexp(fs, x.of)), x.args)

\* The values of all but the last expression are in registers.
ExpList(fs, es) ==
  IF Len(es) = 1 THEN expr(fs, es[1])
  ELSE explist1(luaK_exp2nextreg(expr(fs, Head(es))), Tail(es))

-----------------------------------------------------------------------------
\* Table constructors: cc holds the last list item read and the counters.
Flush(fs, cc) ==
  IF cc.tostore = LFIELDS_PER_FLUSH
  THEN [cc EXCEPT !.fs = luaK_setlist(fs, cc.t, cc.na, cc.tostore), !.v = Void, !.tostore = 0]
  ELSE [cc EXCEPT !.fs = fs, !.v = Void]
closelistfield(cc) ==
  IF cc.v.k = "VVOID" THEN cc ELSE Flush(luaK_exp2nextreg(Hold(cc.fs, cc.v)), cc)

listfield(cc, fs) ==
  [cc EXCEPT !.fs = fs, !.v = fs.e, !.na = @ + 1, !.tostore = @ + 1]

StoreField(fs, cc, rkkey) ==
  [cc EXCEPT !.fs = [luaK_codeABC(fs, "SETTABLE", cc.t, rkkey, RK(fs.e))
                       EXCEPT !.freereg = cc.fs.freereg],
             !.nh = @ + 1]
KeyedField(fs, cc, e) == StoreField(luaK_exp2RK(expr(fs, e)), cc, RK(fs.e))
recfield(cc, x) == KeyedField(luaK_exp2RK(luaK_exp2val(expr(cc.fs, x.key))), cc, x.e)

OneField(cc, x) == IF x.k = "item" THEN listfield(cc, expr(cc.fs, x.e)) ELSE recfield(cc, x)
fields(cc, xs) == IF xs = <<>> THEN cc ELSE fields(OneField(closelistfield(cc), Head(xs)), Tail(xs))

lastlistfield(cc) ==
  CASE cc.tostore = 0 -> cc
    [] cc.tostore # 0 /\ hasmultret(cc.v.k) ->
         [cc EXCEPT !.fs = luaK_setlist(luaK_setmultret(Hold(@, cc.v)), cc.t, cc.na, MULTRET),
                    !.na = @ - 1]
    [] cc.tostore # 0 /\ ~hasmultret(cc.v.k) ->
         [cc EXCEPT !.fs = luaK_setlist(IF cc.v.k = "VVOID" THEN @
                                        ELSE luaK_exp2nextreg(Hold(@, cc.v)),
                                        cc.t, cc.na, cc.tostore)]
\* Below 8 luaO_int2fb, which encodes the sizes, is the identity.
Sized(cc, at) ==
  [Hold(cc.fs, init_exp("VNONRELOC", cc.t))
     EXCEPT !.code[at].b = cc.na, !.code[at].c = cc.nh]
FieldsInto(fs, xs, at) ==
  Sized(lastlistfield(fields([fs |-> fs, v |-> Void, na |-> 0, nh |-> 0, tostore |-> 0,
                              t |-> fs.e.info], xs)), at)
CodeTable(fs) == luaK_exp2nextreg(Relocable(Hold(fs, Void), "NEWTABLE", 0, 0))
constructor(fs, xs) == FieldsInto(CodeTable(fs), xs, pc(fs) + 1)

-----------------------------------------------------------------------------
\* function (params) body end; self is the first parameter of a method.
Opened(fs, needself) ==
  IF needself THEN adjustlocalvars(new_localvar(open_func(fs, FALSE), "self"), 1)
  ELSE open_func(fs, FALSE)
ClosureOf(func) == pushclosure(func.prev, func)
body(fs, x, needself) ==
  ClosureOf(close_func(stats1(parlist(Opened(fs, needself), x.params, x.dots), x.body)))

-----------------------------------------------------------------------------
\* Assignments: the targets read so far, their registers kept.
Conflicts(lhs, v) ==
  {i \in DOMAIN lhs : lhs[i].k = "VINDEXED" /\ v.info \in {lhs[i].info, lhs[i].aux}}
UseCopy(t, v, extra) ==
  [t EXCEPT !.info = IF @ = v.info THEN extra ELSE @, !.aux = IF @ = v.info THEN extra ELSE @]
Copied(lhs, v, extra) ==
  [i \in DOMAIN lhs |-> IF lhs[i].k = "VINDEXED" THEN UseCopy(lhs[i], v, extra) ELSE lhs[i]]
check_conflict(fs, lhs) ==
  IF fs.e.k # "VLOCAL" \/ Conflicts(lhs, fs.e) = {} THEN [fs |-> fs, lhs |-> Append(lhs, fs.e)]
  ELSE [fs |-> luaK_reserveregs(luaK_codeABC(fs, "MOVE", fs.freereg, fs.e.info, 0), 1),
        lhs |-> Append(Copied(lhs, fs.e, fs.freereg), fs.e)]

RECURSIVE Targets(_, _), StoreRest(_, _)
Targets(r, vars) ==
  IF vars = <<>> THEN r
  ELSE Targets(check_conflict(primaryexp(r.fs, Head(vars)), r.lhs), Tail(vars))

\* The value on top goes to the last target that has none.
StoreRest(fs, lhs) ==
  IF lhs = <<>> THEN fs
  ELSE StoreRest(luaK_storevar(Hold(fs, init_exp("VNONRELOC", fs.freereg - 1)), Last(lhs)),
                 Front(lhs))
Surplus(fs, n) == [fs EXCEPT !.freereg = @ - Larger(n, 0)]
Store(fs, lhs, nexps) ==
  IF nexps = Len(lhs) THEN StoreRest(luaK_storevar(luaK_setoneret(fs), Last(lhs)), Front(lhs))
  ELSE StoreRest(Surplus(adjust_assign(fs, Len(lhs), nexps), nexps - Len(lhs)), lhs)
AssignTo(r, es) == Store(explist1(r.fs, es), r.lhs, Len(es))
assignment(fs, vars, es) == AssignTo(Targets([fs |-> fs, lhs |-> <<>>], vars), es)

-----------------------------------------------------------------------------
\* Statements.
block(fs, stats) == leaveblock(stats1(enterblock(fs, FALSE), stats))

\* The jumps that leave when the condition is false are in fs.e.f.
FalseIsFalse(fs) == IF fs.e.k = "VNIL" THEN [fs EXCEPT !.e.k = "VFALSE"] ELSE fs
cond(fs, e) == luaK_goiftrue(FalseIsFalse(expr(fs, e)))

Loop(fs) == Greatest({i \in DOMAIN fs.bl : fs.bl[i].isbreakable})
ToBreak(fs, b) ==
  [fs EXCEPT !.code = luaK_concat(@, fs.bl[b].breaklist, TheJump(fs)),
             !.bl[b].breaklist = Joined(@, TheJump(fs))]
\* Mutant: a break that leaves the variables of its loop open.
BreakUnclosed(fs) == ToBreak(luaK_jump(fs), Loop(fs))
breakstat(fs) ==
  ToBreak(luaK_jump(IF \E i \in Loop(fs) + 1 .. Len(fs.bl) : fs.bl[i].upval
                    THEN luaK_codeABC(fs, "CLOSE", fs.bl[Loop(fs)].nactvar, 0, 0) ELSE fs),
          Loop(fs))

JumpBack(fs, target) == luaK_patchlist(luaK_jump(fs), pc(fs), target)
WhileBody(fs, stats, whileinit) ==
  luaK_patchtohere(leaveblock(JumpBack(block(enterblock(fs, TRUE), stats), whileinit)), fs.e.f)
whilestat(fs, c, stats) == WhileBody(cond(luaK_getlabel(fs), c), stats, pc(fs))

Repeated(fs, init) ==
  IF ~Last(fs.bl).upval THEN luaK_patchlist(leaveblock(fs), fs.e.f, init)
  ELSE JumpBack(leaveblock(luaK_patchtohere(breakstat(fs), fs.e.f)), init)
repeatstat(fs, stats, c) ==
  leaveblock(Repeated(cond(stats1(enterblock(enterblock(luaK_getlabel(fs), TRUE), FALSE), stats), c),
                      pc(fs)))

exp1(fs, e) == luaK_exp2nextreg(expr(fs, e))

\* The end of a loop whose test is at the end and whose first jump is prep.
ForEnd(fs, base, prep, nvars, isnum) ==
  IF isnum THEN luaK_patchlist(luaK_codeABC(fs, "FORLOOP", base, NO_JUMP, 0), pc(fs), prep + 1)
  ELSE JumpBack(luaK_codeABC(fs, "TFORLOOP", base, 0, nvars), prep + 1)
ForScope(fs, nvars) == luaK_reserveregs(adjustlocalvars(enterblock(fs, FALSE), nvars), nvars)
ForLoop(fs, base, nvars, isnum, stats, prep) ==
  ForEnd(luaK_patchtohere(leaveblock(block(ForScope(fs, nvars), stats)), prep),
         base, prep, nvars, isnum)
ForPrep(fs, base, nvars, isnum, stats) ==
  ForLoop(IF isnum THEN luaK_codeABC(fs, "FORPREP", base, NO_JUMP, 0) ELSE luaK_jump(fs),
          base, nvars, isnum, stats, pc(fs))
forbody(fs, base, nvars, isnum, stats) ==
  ForPrep(adjustlocalvars(fs, 3), base, nvars, isnum, stats)

One == <<"number", 1>>
DefaultStep(fs) == luaK_reserveregs(Loaded(addk(fs, One), KIndex(addk(fs, One), One), fs.freereg), 1)
fornum(fs, x) ==
  forbody(IF x.step = <<>> THEN DefaultStep(exp1(exp1(fs, x.from), x.to))
          ELSE exp1(exp1(exp1(fs, x.from), x.to), x.step[1]),
          fs.freereg, 1, TRUE, x.body)
\* Mutant: no space for the call of the generator.
ForListTight(fs, x) ==
  forbody(adjust_assign(explist1(fs, x.es), 3, Len(x.es)), fs.freereg, Len(x.names), FALSE, x.body)
forlist(fs, x) ==
  forbody(luaK_checkstack(adjust_assign(explist1(fs, x.es), 3, Len(x.es)), 3),
          fs.freereg, Len(x.names), FALSE, x.body)
ForVars(fs, names) ==
  NewVars(fs, <<"(for index)", "(for limit)", "(for step)">> \o names)
forstat(fs, x) ==
  leaveblock(IF x.k = "fornum" THEN fornum(ForVars(enterblock(fs, TRUE), <<x.name>>), x)
             ELSE forlist(ForVars(enterblock(fs, TRUE), x.names), x))

\* if: r has the jumps past the whole, and those to the next clause.
Escape(fs, escapelist, j) ==
  [fs |-> [fs EXCEPT !.code = luaK_concat(@, escapelist, j)], escape |-> Joined(escapelist, j)]
Then(fs, stats, escapelist) ==
  [fs |-> block(fs, stats), flist |-> fs.e.f, escape |-> escapelist]
test_then_block(fs, clause, escapelist) == Then(cond(fs, clause.c), clause.body, escapelist)
NextClause(r, flist) == [r EXCEPT !.fs = luaK_patchtohere(@, flist)]
Skip(r) == NextClause(Escape(luaK_jump(r.fs), r.escape, pc(r.fs)), r.flist)

RECURSIVE Clauses(_, _)
ElseIf(s, clauses) == Clauses(test_then_block(s.fs, Head(clauses), s.escape), Tail(clauses))
Clauses(r, clauses) == IF clauses = <<>> THEN r ELSE ElseIf(Skip(r), clauses)
EndIf(r) == luaK_patchtohere(r.fs, r.escape)
Else(s, stats) == EndIf([s EXCEPT !.fs = block(@, stats)])
IfEnd(r, els) ==
  IF els = <<>> THEN EndIf(Escape(r.fs, r.escape, r.flist)) ELSE Else(Skip(r), els[1])
ifstat(fs, x) ==
  IfEnd(Clauses(test_then_block(fs, Head(x.clauses), NO_JUMP), Tail(x.clauses)), x.els)

localfunc(fs, x) ==
  luaK_storevar(body(adjustlocalvars(luaK_reserveregs(new_localvar(fs, x.name), 1), 1), x.f, FALSE),
                init_exp("VLOCAL", fs.freereg))
localstat(fs, x) ==
  adjustlocalvars(adjust_assign(IF x.es = <<>> THEN Hold(NewVars(fs, x.names), Void)
                                ELSE explist1(NewVars(fs, x.names), x.es),
                                Len(x.names), Len(x.es)), Len(x.names))
Defined(fs, x) == luaK_storevar(body(fs, x.f, x.needself), fs.e)
funcstat(fs, x) == Defined(primaryexp(fs, x.target), x)

CallStat(fs) == [fs EXCEPT !.code[fs.e.info + 1].c = 1]

ReturnOne(fs) == luaK_ret(fs, fs.e.info, 1)
ReturnMany(fs, nret) ==
  luaK_ret(lua_assert(fs, nret = fs.freereg - nactvar(fs)), nactvar(fs), nret)
ReturnAll(fs, nret) ==
  CASE hasmultret(fs.e.k) /\ fs.e.k = "VCALL" /\ nret = 1 ->
         luaK_ret([lua_assert(luaK_setmultret(fs), getcode(fs).a = nactvar(fs))
                     EXCEPT !.code[fs.e.info + 1].op = "TAILCALL"], nactvar(fs), MULTRET)
    [] hasmultret(fs.e.k) /\ ~(fs.e.k = "VCALL" /\ nret = 1) ->
         luaK_ret(luaK_setmultret(fs), nactvar(fs), MULTRET)
    [] ~hasmultret(fs.e.k) /\ nret = 1 -> ReturnOne(luaK_exp2anyreg(fs))
    [] OTHER -> ReturnMany(luaK_exp2nextreg(fs), nret)
retstat(fs, es) ==
  IF es = <<>> THEN luaK_ret(fs, 0, 0) ELSE ReturnAll(explist1(fs, es), Len(es))

statement(fs, x) ==
  CASE x.k = "if" -> ifstat(fs, x)
    [] x.k = "while" -> whilestat(fs, x.c, x.body)
    [] x.k = "do" -> block(fs, x.body)
    [] x.k \in {"fornum", "forlist"} -> forstat(fs, x)
    [] x.k = "repeat" -> repeatstat(fs, x.body, x.c)
    [] x.k = "function" -> funcstat(fs, x)
    [] x.k = "localfunction" -> localfunc(fs, x)
    [] x.k = "local" -> localstat(fs, x)
    [] x.k = "return" -> retstat(fs, x.es)
    [] x.k = "break" -> breakstat(fs)
    [] x.k = "callstat" -> CallStat(primaryexp(fs, x.call))
    [] x.k = "assign" -> assignment(fs, x.vars, x.es)

\* Between statements only the locals are in registers.
Settled(fs) ==
  [lua_assert(fs, fs.maxstacksize >= fs.freereg /\ fs.freereg >= nactvar(fs))
     EXCEPT !.freereg = nactvar(fs)]
chunk(fs, stats) ==
  IF stats = <<>> THEN fs ELSE stats1(Settled(statement(fs, Head(stats))), Tail(stats))

\* What the parser reads next decides which of its functions does; nothing is
\* read after a failed assertion.
parse(fs, what, x) ==
  CASE ~fs.asserted -> fs
    [] what = "expr" -> subexpr(fs, x, 1, 0).fs
    [] what = "primaryexp" -> Primary(fs, x)
    [] what = "explist1" -> ExpList(fs, x)
    [] what = "chunk" -> chunk(fs, x)

luaY_parser(stats) ==
  close_func(stats1([open_func(Outermost, TRUE) EXCEPT !.is_vararg = {"ISVARARG"}], stats))
=============================================================================
