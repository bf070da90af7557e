----------------------------- MODULE LuaMachine -----------------------------
(***************************************************************************)
(* The interpreter of Lua: luaV_execute (lvm.c), calls, returns and errors *)
(* (ldo.c), upvalues (lfunc.c).  A machine m has one stack for all frames, *)
(* from 0; a frame ci knows its function's slot, its base and its top.     *)
(* The host functions are emit, which notes its arguments and returns      *)
(* them, and pcall.                                                        *)
(* A string is the sequence of its parts, a table a function from the keys *)
(* that it has; tables and functions are known by their number.  Strings   *)
(* are never compared by order, nor converted to numbers.                  *)
(***************************************************************************)
EXTENDS LuaVerifier, TLC

CONSTANT StackSize    \* bound: slots of the stack

-----------------------------------------------------------------------------
(* Values, and what the primitive operations make of them *)

Nil        == <<"nil">>
Boolean(b) == <<"boolean", b>>
Number(n)  == <<"number", n>>
String(s)  == <<"string", s>>
Table(i)   == <<"table", i>>
Function(i) == <<"function", i>>
Native(f)  == <<"native", f>>
Fail       == <<"fail">>        \* in the place of a value: an error

Type(v)    == v[1]
IsFalse(v) == v \in {Nil, Boolean(FALSE)}
IsNumber(v) == Type(v) = "number"
IsText(v)  == Type(v) \in {"number", "string"}

\* What luaV_tostring makes of a number is one part of a string.
TextOf(v) == IF IsNumber(v) THEN <<ToString(v[2])>> ELSE v[2]
Concat(x, y) == IF IsText(x) /\ IsText(y) THEN String(TextOf(x) \o TextOf(y)) ELSE Fail

Arith(op, x, y) ==
  IF ~IsNumber(x) \/ ~IsNumber(y) THEN Fail
  ELSE Number(CASE op = "ADD" -> x[2] + y[2] [] op = "SUB" -> x[2] - y[2]
                [] op = "MUL" -> x[2] * y[2] [] op = "POW" -> x[2] ^ y[2])
Unary(op, x) == IF IsNumber(x) /\ op = "UNM" THEN Number(-x[2]) ELSE Fail

\* op: "EQ", "LT", "LE".
Compare(op, x, y) ==
  CASE op = "EQ" -> Boolean(x = y)
    [] op # "EQ" /\ IsNumber(x) /\ IsNumber(y) ->
         Boolean(IF op = "LT" THEN x[2] < y[2] ELSE x[2] <= y[2])
    [] OTHER -> Fail

\* Tables: h is the function that the table is.
NewTable   == <<>>
Get(h, key) == IF key \in DOMAIN h THEN h[key] ELSE Nil
Set(h, key, v) ==
  IF Type(v) = "nil" THEN [k \in DOMAIN h \ {key} |-> h[k]]
  ELSE [k \in DOMAIN h \cup {key} |-> IF k = key THEN v ELSE h[k]]
Length(h) == CHOOSE n \in 0 .. 9 : /\ \A i \in 1 .. n : Number(i) \in DOMAIN h
                                   /\ Number(n + 1) \notin DOMAIN h

-----------------------------------------------------------------------------
(* The stack *)

Slot(m, i)    == m.stack[i + 1]
Put(m, i, v)  == [m EXCEPT !.stack[i + 1] = v]
CI(m)         == Last(m.ci)
Base(m)       == CI(m).base
P(m)          == m.cl[Slot(m, CI(m).func)[2]].p
UpvalId(m, b) == m.cl[Slot(m, CI(m).func)[2]].upvals[b + 1]
R(m, x)       == Slot(m, Base(m) + x)
\* What an instruction writes ought to be in its frame.
Inside(m, n)  == [m EXCEPT !.confined = @ /\ Base(m) + n <= CI(m).top]
SetR(m, x, v) == Put(Inside(m, x + 1), Base(m) + x, v)
Kst(m, x)     == P(m).k[x + 1]
RKv(m, x)     == IF ISK(x) THEN Kst(m, INDEXK(x)) ELSE R(m, x)
dojump(m, d)  == [m EXCEPT !.ci[Len(m.ci)].savedpc = @ + d]
TopOfFrame(m) == [m EXCEPT !.top = CI(m).top]

RECURSIVE PutAll(_, _, _)
PutAll(m, i, vs) == IF vs = <<>> THEN m ELSE PutAll(Put(m, i, Head(vs)), i + 1, Tail(vs))
Slots(m, from, to) == [i \in 1 .. to - from |-> Slot(m, from + i - 1)]
Nils(n) == [i \in 1 .. n |-> Nil]

-----------------------------------------------------------------------------
\* Upvalues: open ones, highest slot first, live in the stack.
UpvalueAt(m, level) == {i \in DOMAIN m.openupval : m.uv[m.openupval[i]].at = level}
NewUpval(m, level) ==
  [m EXCEPT !.uv = Append(@, [open |-> TRUE, at |-> level, v |-> Nil]),
            !.openupval = SelectSeq(@, LAMBDA u : m.uv[u].at > level)
                            \o <<Len(m.uv) + 1>>
                            \o SelectSeq(@, LAMBDA u : m.uv[u].at < level)]
luaF_findupval(m, level) == IF UpvalueAt(m, level) = {} THEN NewUpval(m, level) ELSE m
UpvalOf(m, level) == m.openupval[CHOOSE i \in UpvalueAt(m, level) : TRUE]

luaF_close(m, level) ==
  [m EXCEPT !.uv = [u \in DOMAIN @ |->
                      IF @[u].open /\ @[u].at >= level
                      THEN [open |-> FALSE, at |-> 0, v |-> Slot(m, @[u].at)] ELSE @[u]],
            !.openupval = SelectSeq(@, LAMBDA u : m.uv[u].at < level)]

UpvalueValue(m, u) == IF m.uv[u].open THEN Slot(m, m.uv[u].at) ELSE m.uv[u].v
SetUpvalue(m, u, v) ==
  IF m.uv[u].open THEN Put(m, m.uv[u].at, v) ELSE [m EXCEPT !.uv[u].v = v]

-----------------------------------------------------------------------------
\* Calls.  how: what waits for the frame to return, luaV_execute at a call
\* ("call") or a generic for ("tfor"), pcall, or the host.
Frame(func, base, top, nresults, how, isC) ==
  [func |-> func, base |-> base, top |-> top, savedpc |-> 0, nresults |-> nresults,
   how |-> how, isC |-> isC]

\* Missing parameters are nil, and those of a vararg function move above its arguments.
WithParams(m, p, missing) ==
  IF missing <= 0 THEN m ELSE [PutAll(m, m.top, Nils(missing)) EXCEPT !.top = @ + missing]
ArgTable(vs) ==
  Set([k \in {Number(i) : i \in DOMAIN vs} |-> vs[k[2]]], Name("n"), Number(Len(vs)))
WithArg(m, p, extra) ==
  IF "NEEDSARG" \notin p.is_vararg THEN m
  ELSE [Put(m, m.top, Table(Len(m.tabs) + 1))
          EXCEPT !.top = @ + 1, !.tabs = Append(@, ArgTable(extra))]
MoveFixed(m, p, fixed) ==
  [PutAll(PutAll(m, m.top, Slots(m, fixed, fixed + p.numparams)), fixed, Nils(p.numparams))
     EXCEPT !.top = @ + p.numparams]
adjust_varargs(m, func, p) ==
  WithArg(MoveFixed(m, p, func + 1), p, Slots(m, func + 1 + p.numparams, m.top))

Enter(m, func, base, p, nresults, how) ==
  [PutAll(m, m.top, Nils(base + p.maxstacksize - m.top))
     EXCEPT !.ci = Append(@, Frame(func, base, base + p.maxstacksize, nresults, how, FALSE)),
            !.top = base + p.maxstacksize]
FixedArgs(m, func, p) ==
  [m EXCEPT !.top = IF @ > func + 1 + p.numparams THEN func + 1 + p.numparams ELSE @]
VarArgs(m, func, p, nresults, how) ==
  Enter(adjust_varargs(m, func, p), func, m.top, p, nresults, how)
PrecallLua(m, func, p, nresults, how) ==
  IF "ISVARARG" \in p.is_vararg
  THEN VarArgs(WithParams(m, p, p.numparams - (m.top - func - 1)), func, p, nresults, how)
  ELSE Enter(FixedArgs(m, func, p), func, func + 1, p, nresults, how)
PrecallC(m, func, nresults, how) ==
  [m EXCEPT !.ci = Append(@, Frame(func, func + 1, m.top + 20, nresults, how, TRUE))]

\* The results, from firstResult to the top, take the place of the function.
WantedOf(vs, nresults) ==
  IF nresults = MULTRET THEN vs
  ELSE [i \in 1 .. nresults |-> IF i <= Len(vs) THEN vs[i] ELSE Nil]
Results(m, res, vs) == [PutAll(m, res, vs) EXCEPT !.ci = Front(@), !.top = res + Len(vs)]
luaD_poscall(m, firstResult) ==
  Results(m, CI(m).func, WantedOf(Slots(m, firstResult, m.top), CI(m).nresults))

\* The instruction after a test is the jump that it decides.
Branch(m, taken) ==
  dojump(m, IF taken THEN P(m).code[CI(m).savedpc + 1].b + 1 ELSE 1)

\* A generic for looks at the first result.
NextTurn(m, a) ==
  IF R(m, a + 3) = Nil THEN Branch(m, FALSE) ELSE Branch(SetR(m, a + 2, R(m, a + 3)), TRUE)

RECURSIVE Returned(_, _, _)
\* luaB_pcall: the status goes before the results.
FinishPcall(m, ok) ==
  Returned(luaD_poscall([PutAll(m, Base(m), <<Boolean(ok)>> \o Slots(m, Base(m), m.top))
                           EXCEPT !.top = @ + 1], Base(m)),
           CI(m).how, CI(m).nresults)
Returned(m, how, nresults) ==
  CASE how = "call" -> IF nresults = MULTRET THEN m ELSE TopOfFrame(m)
    [] how = "tfor" -> NextTurn(TopOfFrame(m), P(m).code[CI(m).savedpc].a)
    [] how = "pcall" -> FinishPcall(m, TRUE)
    [] how = "host" -> [m EXCEPT !.status = "ended"]

\* An error: the innermost pcall closes the upvalues above it and returns false.
Protected(m)   == {i \in DOMAIN m.ci : m.ci[i].isC}
ErrorObject    == Name("error")
seterrorobj(m) == [Put(m, Base(m), ErrorObject) EXCEPT !.top = Base(m) + 1]
Unwound(m, i)  == [luaF_close(m, m.ci[i].base) EXCEPT !.ci = SubSeq(@, 1, i)]
luaD_throw(m) ==
  IF Protected(m) = {} THEN [m EXCEPT !.status = "error"]
  ELSE FinishPcall(seterrorobj(Unwound(m, Greatest(Protected(m)))), FALSE)

\* What the host can see of a value.
Seen(v)   == IF Type(v) \in {"table", "function", "native"} THEN <<Type(v)>> ELSE v
SeenAll(vs) == [i \in DOMAIN vs |-> Seen(vs[i])]
emit(m, func) == [m EXCEPT !.trace = Append(@, SeenAll(Slots(m, func + 1, m.top)))]

RECURSIVE luaD_call(_, _, _, _)
luaD_call(m, func, nresults, how) ==
  CASE Type(Slot(m, func)) = "function" ->
         PrecallLua(m, func, m.cl[Slot(m, func)[2]].p, nresults, how)
    [] Slot(m, func) = Native("emit") ->
         Returned(luaD_poscall(PrecallC(emit(m, func), func, nresults, how), func + 1),
                  how, nresults)
    [] Slot(m, func) = Native("pcall") ->
         IF m.top = func + 1 THEN luaD_throw(m)
         ELSE luaD_call(PrecallC(m, func, nresults, how), func + 1, MULTRET, "pcall")
    [] OTHER -> luaD_throw(m)

-----------------------------------------------------------------------------
\* Instructions; the program counter is already past them.
Into(m, a, v) == IF v = Fail THEN luaD_throw(m) ELSE SetR(m, a, v)

luaV_gettable(m, a, t, key) ==
  IF Type(t) = "table" THEN SetR(m, a, Get(m.tabs[t[2]], key)) ELSE luaD_throw(m)
luaV_settable(m, t, key, v) ==
  IF Type(t) = "table" /\ key # Nil THEN [m EXCEPT !.tabs[t[2]] = Set(@, key, v)]
  ELSE luaD_throw(m)
OpNewTable(m, a) ==
  SetR([m EXCEPT !.tabs = Append(@, NewTable)], a, Table(Len(m.tabs) + 1))
OpLen(m, a, v) ==
  IF Type(v) = "table" THEN SetR(m, a, Number(Length(m.tabs[v[2]]))) ELSE luaD_throw(m)

\* luaV_concat: from the last to the first.
RECURSIVE ConcatAll(_)
ConcatAll(vs) ==
  IF Len(vs) = 1 THEN vs[1]
  ELSE IF Fail \in ToSet(vs) THEN Fail
  ELSE ConcatAll(SubSeq(vs, 1, Len(vs) - 2) \o <<Concat(vs[Len(vs) - 1], Last(vs))>>)
OpConcat(m, a, b, v) == IF v = Fail THEN luaD_throw(m) ELSE SetR(SetR(m, b, v), a, v)

OpCompare(m, a, v) == IF v = Fail THEN luaD_throw(m) ELSE Branch(m, v = Boolean(a = 1))
OpTest(m, i) == Branch(m, IsFalse(R(m, i.a)) # (i.c = 1))
OpTestSet(m, i) ==
  IF IsFalse(R(m, i.b)) # (i.c = 1) THEN Branch(SetR(m, i.a, R(m, i.b)), TRUE)
  ELSE Branch(m, FALSE)

\* The arguments end at the top, or where b says.
ArgsTo(m, i) == IF i.b # 0 THEN [m EXCEPT !.top = Base(m) + i.a + i.b] ELSE m
OpCall(m, i) == luaD_call(ArgsTo(m, i), Base(m) + i.a, i.c - 1, "call")

\* The new frame takes the place of the one that calls.
Replaced(m, old, new) ==
  [PutAll(luaF_close(m, old.base), old.func, Slots(m, new.func, m.top))
     EXCEPT !.ci = SubSeq(@, 1, Len(@) - 2)
                     \o <<[old EXCEPT !.base = old.func + (new.base - new.func),
                                      !.top = old.func + (m.top - new.func),
                                      !.savedpc = 0]>>,
            !.top = old.func + (m.top - new.func)]
TailCalled(m, old) == Replaced(m, old, CI(m))
OpTailCall(m, i) ==
  IF Type(R(m, i.a)) = "function"
  THEN TailCalled(OpCall(m, [i EXCEPT !.c = 0]), CI(m))
  ELSE OpCall(m, [i EXCEPT !.c = 0])

OpReturn(m, i) ==
  Returned(luaD_poscall(luaF_close(IF i.b # 0 THEN [m EXCEPT !.top = Base(m) + i.a + i.b - 1]
                                   ELSE m, Base(m)), Base(m) + i.a),
           CI(m).how, CI(m).nresults)

Continues(idx, limit, step) == IF 0 < step THEN idx <= limit ELSE limit <= idx
ForTurn(m, i, idx) ==
  IF Continues(idx, R(m, i.a + 1)[2], R(m, i.a + 2)[2])
  THEN dojump(SetR(SetR(m, i.a, Number(idx)), i.a + 3, Number(idx)), i.b) ELSE m
OpForLoop(m, i) == ForTurn(m, i, R(m, i.a)[2] + R(m, i.a + 2)[2])
OpForPrep(m, i) ==
  IF \E k \in 0 .. 2 : ~IsNumber(R(m, i.a + k)) THEN luaD_throw(m)
  ELSE dojump(SetR(m, i.a, Arith("SUB", R(m, i.a), R(m, i.a + 2))), i.b)
OpTForLoop(m, i) ==
  luaD_call([PutAll(Inside(m, i.a + 6), Base(m) + i.a + 3, Slots(m, Base(m) + i.a, Base(m) + i.a + 3))
               EXCEPT !.top = Base(m) + i.a + 6], Base(m) + i.a + 3, i.c, "tfor")

RECURSIVE StoreItems(_, _, _, _)
StoreItems(h, vs, n, last) ==
  IF n = 0 THEN h ELSE StoreItems(Set(h, Number(last), vs[n]), vs, n - 1, last - 1)
SetItems(m, i, vs) ==
  [m EXCEPT !.tabs[R(m, i.a)[2]] =
              StoreItems(@, vs, Len(vs), (i.c - 1) * LFIELDS_PER_FLUSH + Len(vs))]
OpSetList(m, i) ==
  IF i.b = 0 THEN TopOfFrame(SetItems(m, i, Slots(m, Base(m) + i.a + 1, m.top)))
  ELSE SetItems(m, i, Slots(m, Base(m) + i.a + 1, Base(m) + i.a + 1 + i.b))

\* The instructions after CLOSURE name the upvalues.
RECURSIVE Capturing(_, _, _)
FoundOne(m, level, ops, ids) == Capturing(m, Tail(ops), Append(ids, UpvalOf(m, level)))
Capturing(m, ops, ids) ==
  IF ops = <<>> THEN [m |-> m, ids |-> ids]
  ELSE IF Head(ops).op = "GETUPVAL" THEN Capturing(m, Tail(ops), Append(ids, UpvalId(m, Head(ops).b)))
  ELSE FoundOne(luaF_findupval(m, Base(m) + Head(ops).b), Base(m) + Head(ops).b, ops, ids)
Closing(r, a, p) ==
  dojump(SetR([r.m EXCEPT !.cl = Append(@, [p |-> p, upvals |-> r.ids])], a,
              Function(Len(r.m.cl) + 1)), p.nups)
OpClosure(m, i, p) ==
  Closing(Capturing(m, SubSeq(P(m).code, CI(m).savedpc + 1, CI(m).savedpc + p.nups), <<>>), i.a, p)

VarargsOf(m) == Slots(m, Base(m) - (Base(m) - CI(m).func - P(m).numparams - 1), Base(m))
OpVararg(m, i, vs) ==
  IF i.b = 0 THEN [PutAll(m, Base(m) + i.a, vs) EXCEPT !.top = Base(m) + i.a + Len(vs)]
  ELSE PutAll(Inside(m, i.a + i.b - 1), Base(m) + i.a, WantedOf(vs, i.b - 1))

Execute(m, i) ==
  CASE i.op = "MOVE"      -> SetR(m, i.a, R(m, i.b))
    [] i.op = "LOADK"     -> SetR(m, i.a, Kst(m, i.b))
    [] i.op = "LOADBOOL"  -> dojump(SetR(m, i.a, Boolean(i.b = 1)), IF i.c # 0 THEN 1 ELSE 0)
    [] i.op = "LOADNIL"   -> PutAll(Inside(m, i.b + 1), Base(m) + i.a, Nils(i.b - i.a + 1))
    [] i.op = "GETUPVAL"  -> SetR(m, i.a, UpvalueValue(m, UpvalId(m, i.b)))
    [] i.op = "GETGLOBAL" -> SetR(m, i.a, Get(m.globals, Kst(m, i.b)))
    [] i.op = "GETTABLE"  -> luaV_gettable(m, i.a, R(m, i.b), RKv(m, i.c))
    [] i.op = "SETGLOBAL" -> [m EXCEPT !.globals = Set(@, Kst(m, i.b), R(m, i.a))]
    [] i.op = "SETUPVAL"  -> SetUpvalue(m, UpvalId(m, i.b), R(m, i.a))
    [] i.op = "SETTABLE"  -> luaV_settable(m, R(m, i.a), RKv(m, i.b), RKv(m, i.c))
    [] i.op = "NEWTABLE"  -> OpNewTable(m, i.a)
    [] i.op = "SELF"      -> luaV_gettable(SetR(m, i.a + 1, R(m, i.b)), i.a, R(m, i.b), RKv(m, i.c))
    [] i.op \in {"ADD", "SUB", "MUL", "POW"} -> Into(m, i.a, Arith(i.op, RKv(m, i.b), RKv(m, i.c)))
    [] i.op = "UNM"       -> Into(m, i.a, Unary("UNM", R(m, i.b)))
    [] i.op = "NOT"       -> SetR(m, i.a, Boolean(IsFalse(R(m, i.b))))
    [] i.op = "LEN"       -> OpLen(m, i.a, R(m, i.b))
    [] i.op = "CONCAT"    ->
         OpConcat(m, i.a, i.b, ConcatAll(Slots(m, Base(m) + i.b, Base(m) + i.c + 1)))
    [] i.op = "JMP"       -> dojump(m, i.b)
    [] i.op \in {"EQ", "LT", "LE"} -> OpCompare(m, i.a, Compare(i.op, RKv(m, i.b), RKv(m, i.c)))
    [] i.op = "TEST"      -> OpTest(m, i)
    [] i.op = "TESTSET"   -> OpTestSet(m, i)
    [] i.op = "CALL"      -> OpCall(m, i)
    [] i.op = "TAILCALL"  -> OpTailCall(m, i)
    [] i.op = "RETURN"    -> OpReturn(m, i)
    [] i.op = "FORLOOP"   -> OpForLoop(m, i)
    [] i.op = "FORPREP"   -> OpForPrep(m, i)
    [] i.op = "TFORLOOP"  -> OpTForLoop(m, i)
    [] i.op = "SETLIST"   -> OpSetList(m, i)
    [] i.op = "CLOSE"     -> luaF_close(m, Base(m) + i.a)
    [] i.op = "CLOSURE"   -> OpClosure(m, i, P(m).p[i.b + 1])
    [] i.op = "VARARG"    -> OpVararg(m, i, VarargsOf(m))

Step(m) == Execute(dojump(m, 1), P(m).code[CI(m).savedpc + 1])

\* The host calls a main function, in slot 0, with args.
Started(p, args, globals) ==
  luaD_call([stack |-> <<Function(1)>> \o args \o Nils(StackSize - Len(args)), top |-> Len(args) + 1,
             ci |-> <<>>, uv |-> <<>>, openupval |-> <<>>, cl |-> <<[p |-> p, upvals |-> <<>>]>>,
             tabs |-> <<>>, globals |-> globals, trace |-> <<>>, status |-> "run",
             confined |-> TRUE], 0, MULTRET, "host")

\* Up to fuel instructions, in two halves.
RECURSIVE Steps(_, _)
Steps(m, fuel) ==
  IF m.status # "run" \/ fuel = 0 THEN m
  ELSE IF fuel = 1 THEN Step(m)
  ELSE Steps(Steps(m, fuel \div 2), fuel - fuel \div 2)
Run(m, fuel) ==
  LET end == Steps(m, fuel)
  IN  IF end.status = "run" THEN [end EXCEPT !.status = "long"] ELSE end
=============================================================================
