------------------------------- MODULE LuaCode -------------------------------
(***************************************************************************)
(* The code generator of Lua (lcode.c).  A FuncState fs is a record; the   *)
(* expression that the parser is in is its field e, an expdesc, so that    *)
(* every function here turns a FuncState into a FuncState.  An instruction *)
(* has a, b, c; operands Bx and sBx are in b.  Program counters count from *)
(* 0.  The conditions of lua_assert are kept in the field asserted.        *)
(***************************************************************************)
EXTENDS Integers, Sequences

CONSTANTS
  MAXINDEXRK,         \* the last constant that fits an operand
  LFIELDS_PER_FLUSH   \* list items that are stored at once

ASSUME OperandsAssumption ==
  /\ MAXINDEXRK \in 0 .. 255
  /\ LFIELDS_PER_FLUSH \in Nat \ {0}

NO_JUMP == -1
NO_REG  == 255
BITRK   == 256
MULTRET == -1

ISK(r)   == r >= BITRK
INDEXK(r) == r - BITRK
RKASK(i) == i + BITRK

\* opmode(1, ...): the next instruction is a jump.
TestMode == {"EQ", "LT", "LE", "TEST", "TESTSET", "TFORLOOP"}

Larger(m, n) == IF m < n THEN n ELSE m
Instruction(op, a, b, c) == [op |-> op, a |-> a, b |-> b, c |-> c]
init_exp(k, i) == [k |-> k, info |-> i, aux |-> 0, t |-> NO_JUMP, f |-> NO_JUMP]
Void == init_exp("VVOID", 0)

pc(fs) == Len(fs.code)
lua_assert(fs, p) == [fs EXCEPT !.asserted = @ /\ p]
nactvar(fs) == Len(fs.actvar)
Hold(fs, e) == [fs EXCEPT !.e = e]
As(fs, k, i) == [fs EXCEPT !.e.k = k, !.e.info = i]

hasjumps(e)  == e.t # e.f
isnumeral(e) == e.k = "VKNUM" /\ e.t = NO_JUMP /\ e.f = NO_JUMP
hasmultret(k) == k \in {"VCALL", "VVARARG"}

-----------------------------------------------------------------------------
\* Lists of jumps: each holds the distance to the next, the last NO_JUMP.
getjump(code, p) ==
  IF code[p + 1].b = NO_JUMP THEN NO_JUMP ELSE p + 1 + code[p + 1].b

fixjump(code, p, dest) == [code EXCEPT ![p + 1].b = dest - (p + 1)]

getjumpcontrol(code, p) ==
  IF p >= 1 /\ code[p].op \in TestMode THEN p - 1 ELSE p

RECURSIVE LastJump(_, _)
LastJump(code, list) ==
  IF getjump(code, list) = NO_JUMP THEN list ELSE LastJump(code, getjump(code, list))

Joined(l1, l2) == IF l1 = NO_JUMP THEN l2 ELSE l1
luaK_concat(code, l1, l2) ==
  IF l1 = NO_JUMP \/ l2 = NO_JUMP THEN code ELSE fixjump(code, LastJump(code, l1), l2)

\* Some jump of the list leaves no value in a register.
RECURSIVE need_value(_, _)
need_value(code, list) ==
  /\ list # NO_JUMP
  /\ \/ code[getjumpcontrol(code, list) + 1].op # "TESTSET"
     \/ need_value(code, getjump(code, list))

IsTestSet(code, node) == code[getjumpcontrol(code, node) + 1].op = "TESTSET"

PatchTest(i, reg) ==
  IF reg # NO_REG /\ reg # i.b THEN [i EXCEPT !.a = reg]
  ELSE Instruction("TEST", i.b, 0, i.c)
patchtestreg(code, node, reg) ==
  IF ~IsTestSet(code, node) THEN code
  ELSE [code EXCEPT ![getjumpcontrol(code, node) + 1] = PatchTest(@, reg)]

RECURSIVE removevalues(_, _)
removevalues(code, list) ==
  IF list = NO_JUMP THEN code
  ELSE removevalues(patchtestreg(code, list, NO_REG), getjump(code, list))

RECURSIVE patchlistaux(_, _, _, _, _)
patchlistaux(code, list, vtarget, reg, dtarget) ==
  IF list = NO_JUMP THEN code
  ELSE patchlistaux(fixjump(patchtestreg(code, list, reg), list,
                            IF IsTestSet(code, list) THEN vtarget ELSE dtarget),
                    getjump(code, list), vtarget, reg, dtarget)

-----------------------------------------------------------------------------
\* The jumps that wait for the next instruction end there.
dischargejpc(fs) ==
  [fs EXCEPT !.code = patchlistaux(@, fs.jpc, pc(fs), NO_REG, pc(fs)), !.jpc = NO_JUMP]

luaK_code(fs, i) == [dischargejpc(fs) EXCEPT !.code = Append(@, i)]
luaK_codeABC(fs, op, a, b, c) == luaK_code(fs, Instruction(op, a, b, c))

\* The expression is what the last instruction leaves.
Coded(fs, k) == As(fs, k, pc(fs) - 1)
getcode(fs) == fs.code[fs.e.info + 1]

luaK_getlabel(fs) == [fs EXCEPT !.lasttarget = pc(fs)]

luaK_patchtohere(fs, list) ==
  [fs EXCEPT !.lasttarget = pc(fs), !.code = luaK_concat(@, fs.jpc, list),
             !.jpc = Joined(@, list)]

luaK_patchlist(fs, list, target) ==
  IF target = pc(fs) THEN luaK_patchtohere(fs, list)
  ELSE [lua_assert(fs, target < pc(fs))
          EXCEPT !.code = patchlistaux(@, list, target, NO_REG, target)]

\* The new jump is the last instruction; those that waited jump where it jumps.
luaK_jump(fs) ==
  [fs EXCEPT !.jpc = NO_JUMP,
             !.code = luaK_concat(Append(@, Instruction("JMP", 0, NO_JUMP, 0)),
                                  pc(fs), fs.jpc)]
TheJump(fs) == pc(fs) - 1
condjump(fs, op, a, b, c) == luaK_jump(luaK_codeABC(fs, op, a, b, c))

luaK_ret(fs, first, nret) == luaK_codeABC(fs, "RETURN", first, nret + 1, 0)

Connects(fs, from) ==
  /\ pc(fs) > fs.lasttarget
  /\ pc(fs) > 0
  /\ fs.code[pc(fs)].op = "LOADNIL"
  /\ fs.code[pc(fs)].a <= from /\ from <= fs.code[pc(fs)].b + 1
luaK_nil(fs, from, n) ==
  IF pc(fs) > fs.lasttarget /\ pc(fs) = 0 /\ from >= nactvar(fs) THEN fs
  ELSE IF Connects(fs, from)
  THEN [fs EXCEPT !.code[pc(fs)].b = Larger(@, from + n - 1)]
  ELSE luaK_codeABC(fs, "LOADNIL", from, from + n - 1, 0)

-----------------------------------------------------------------------------
\* Registers.
\* Mutant of luaK_checkstack: the last register is not counted.
CheckLess(fs, n) == [fs EXCEPT !.maxstacksize = Larger(@, fs.freereg + n - 1)]
luaK_checkstack(fs, n) == [fs EXCEPT !.maxstacksize = Larger(@, fs.freereg + n)]
luaK_reserveregs(fs, n) == [luaK_checkstack(fs, n) EXCEPT !.freereg = @ + n]

freereg(fs, reg) ==
  IF ISK(reg) \/ reg < nactvar(fs) THEN fs
  ELSE [lua_assert(fs, reg = fs.freereg - 1) EXCEPT !.freereg = @ - 1]
freeexp(fs, e) == IF e.k = "VNONRELOC" THEN freereg(fs, e.info) ELSE fs

\* Constants.
KIndex(fs, v) == CHOOSE i \in 0 .. Len(fs.k) - 1 : fs.k[i + 1] = v
addk(fs, v) ==
  IF \E i \in DOMAIN fs.k : fs.k[i] = v THEN fs ELSE [fs EXCEPT !.k = Append(@, v)]
ConstantOf(e) ==
  CASE e.k = "VNIL" -> <<"nil">>
    [] e.k = "VTRUE" -> <<"boolean", TRUE>>
    [] e.k = "VFALSE" -> <<"boolean", FALSE>>
    [] e.k = "VKNUM" -> <<"number", e.info>>
AsConstant(fs, v) == As(addk(fs, v), "VK", KIndex(addk(fs, v), v))
codestring(fs, s) == Hold(addk(fs, s), init_exp("VK", KIndex(addk(fs, s), s)))

-----------------------------------------------------------------------------
\* Open calls and `...'.
luaK_setreturns(fs, n) ==
  CASE fs.e.k = "VCALL" -> [fs EXCEPT !.code[fs.e.info + 1].c = n + 1]
    [] fs.e.k = "VVARARG" ->
         luaK_reserveregs([fs EXCEPT !.code[fs.e.info + 1].b = n + 1,
                                     !.code[fs.e.info + 1].a = fs.freereg], 1)
    [] OTHER -> fs
luaK_setmultret(fs) == luaK_setreturns(fs, MULTRET)

luaK_setoneret(fs) ==
  CASE fs.e.k = "VCALL" -> As(fs, "VNONRELOC", getcode(fs).a)
    [] fs.e.k = "VVARARG" ->
         [fs EXCEPT !.code[fs.e.info + 1].b = 2, !.e.k = "VRELOCABLE"]
    [] OTHER -> fs

Relocable(fs, op, b, c) == Coded(luaK_codeABC(fs, op, 0, b, c), "VRELOCABLE")

luaK_dischargevars(fs) ==
  CASE fs.e.k = "VLOCAL" -> [fs EXCEPT !.e.k = "VNONRELOC"]
    [] fs.e.k = "VUPVAL" -> Relocable(fs, "GETUPVAL", fs.e.info, 0)
    [] fs.e.k = "VGLOBAL" -> Relocable(fs, "GETGLOBAL", fs.e.info, 0)
    [] fs.e.k = "VINDEXED" ->
         Relocable(freereg(freereg(fs, fs.e.aux), fs.e.info), "GETTABLE", fs.e.info, fs.e.aux)
    [] OTHER -> luaK_setoneret(fs)

Loaded(fs, i, reg) == luaK_codeABC(fs, "LOADK", reg, i, 0)
\* The expression's variable is discharged; its value goes to reg.
ValueTo(fs, reg) ==
  CASE fs.e.k = "VNIL" -> luaK_nil(fs, reg, 1)
    [] fs.e.k \in {"VFALSE", "VTRUE"} ->
         luaK_codeABC(fs, "LOADBOOL", reg, IF fs.e.k = "VTRUE" THEN 1 ELSE 0, 0)
    [] fs.e.k = "VK" -> Loaded(fs, fs.e.info, reg)
    [] fs.e.k = "VKNUM" ->
         Loaded(addk(fs, ConstantOf(fs.e)), AsConstant(fs, ConstantOf(fs.e)).e.info, reg)
    [] fs.e.k = "VRELOCABLE" -> [fs EXCEPT !.code[fs.e.info + 1].a = reg]
    [] fs.e.k = "VNONRELOC" ->
         IF reg = fs.e.info THEN fs ELSE luaK_codeABC(fs, "MOVE", reg, fs.e.info, 0)
Placed(fs, reg) ==
  IF fs.e.k \in {"VVOID", "VJMP"} THEN fs ELSE As(ValueTo(fs, reg), "VNONRELOC", reg)
discharge2reg(fs, reg) == Placed(luaK_dischargevars(fs), reg)

InNextReg(fs) == discharge2reg(fs, fs.freereg - 1)
discharge2anyreg(fs) ==
  IF fs.e.k = "VNONRELOC" THEN fs ELSE InNextReg(luaK_reserveregs(fs, 1))

-----------------------------------------------------------------------------
\* Expressions with jumps.
code_label(fs, a, b, jump) == luaK_codeABC(luaK_getlabel(fs), "LOADBOOL", a, b, jump)

\* false, and true, for the jumps that bring no value; a value jumps past both.
Labels(fs, reg) == code_label(code_label(fs, reg, 0, 1), reg, 1, 0)
WithLabels(fs, reg) ==
  IF fs.e.k = "VJMP" THEN Labels(fs, reg)
  ELSE luaK_patchtohere(Labels(luaK_jump(fs), reg), pc(fs))

Closed(fs, reg, final, p_f, p_t) ==
  [fs EXCEPT !.code = patchlistaux(patchlistaux(@, fs.e.f, final, reg, p_f),
                                   fs.e.t, final, reg, p_t)]
Finish(fs, reg) == Closed(luaK_getlabel(fs), reg, pc(fs), pc(fs) - 2, pc(fs) - 1)

NeedsLabels(fs) == need_value(fs.code, fs.e.t) \/ need_value(fs.code, fs.e.f)
WithJumps(fs, reg) ==
  IF ~hasjumps(fs.e) THEN fs
  ELSE Finish(IF NeedsLabels(fs) THEN WithLabels(fs, reg) ELSE fs, reg)

\* A comparison's jump is one of those taken when the expression is true.
OwnJump(fs) ==
  IF fs.e.k # "VJMP" THEN fs
  ELSE [fs EXCEPT !.code = luaK_concat(@, fs.e.t, fs.e.info), !.e.t = Joined(@, fs.e.info)]

exp2reg(fs, reg) ==
  [WithJumps(OwnJump(discharge2reg(fs, reg)), reg) EXCEPT !.e = init_exp("VNONRELOC", reg)]

InLastReg(fs) == exp2reg(fs, fs.freereg - 1)
Freed(fs) == freeexp(fs, fs.e)
luaK_exp2nextreg(fs) == InLastReg(luaK_reserveregs(Freed(luaK_dischargevars(fs)), 1))

InSomeReg(fs) ==
  CASE fs.e.k = "VNONRELOC" /\ ~hasjumps(fs.e) -> fs
    [] fs.e.k = "VNONRELOC" /\ hasjumps(fs.e) /\ fs.e.info >= nactvar(fs) ->
         exp2reg(fs, fs.e.info)
    [] OTHER -> luaK_exp2nextreg(fs)
luaK_exp2anyreg(fs) == InSomeReg(luaK_dischargevars(fs))

luaK_exp2val(fs) == IF hasjumps(fs.e) THEN luaK_exp2anyreg(fs) ELSE luaK_dischargevars(fs)

\* A constant that fits, or a register.
Operand(fs) ==
  CASE fs.e.k \in {"VKNUM", "VTRUE", "VFALSE", "VNIL"} /\ Len(fs.k) <= MAXINDEXRK ->
         AsConstant(fs, ConstantOf(fs.e))
    [] fs.e.k = "VK" /\ fs.e.info <= MAXINDEXRK -> fs
    [] OTHER -> luaK_exp2anyreg(fs)
luaK_exp2RK(fs) == Operand(luaK_exp2val(fs))
RK(e) == IF e.k = "VK" THEN RKASK(e.info) ELSE e.info

-----------------------------------------------------------------------------
\* The expression is stored in var.
StoreIn(fs, var) ==
  CASE var.k = "VUPVAL" -> luaK_codeABC(fs, "SETUPVAL", fs.e.info, var.info, 0)
    [] var.k = "VGLOBAL" -> luaK_codeABC(fs, "SETGLOBAL", fs.e.info, var.info, 0)
    [] var.k = "VINDEXED" -> luaK_codeABC(fs, "SETTABLE", var.info, var.aux, RK(fs.e))
luaK_storevar(fs, var) ==
  CASE var.k = "VLOCAL" -> exp2reg(Freed(fs), var.info)
    [] var.k = "VINDEXED" -> Freed(StoreIn(luaK_exp2RK(fs), var))
    [] OTHER -> Freed(StoreIn(luaK_exp2anyreg(fs), var))

\* func is the register of the method, obj that of the object.
SelfKey(fs, func, obj) ==
  [Freed(luaK_codeABC(fs, "SELF", func, obj, RK(fs.e))) EXCEPT !.e = init_exp("VNONRELOC", func)]
SelfReserve(fs, key) ==
  SelfKey(luaK_exp2RK(Hold(luaK_reserveregs(Freed(fs), 2), key)), Freed(fs).freereg, fs.e.info)
luaK_self(fs, key) == SelfReserve(luaK_exp2anyreg(fs), key)

invertjump(fs) ==
  [lua_assert(fs, getjumpcontrol(fs.code, fs.e.info) # fs.e.info
              /\ fs.code[fs.e.info].op \in {"EQ", "LT", "LE"})
     EXCEPT !.code[fs.e.info].a = 1 - @]

Flag(b) == IF b THEN 1 ELSE 0

\* The value, in a register, decides: a jump if it is (not) false.
TestValue(fs, cond) ==
  condjump(Freed(fs), "TESTSET", NO_REG, fs.e.info, Flag(cond))
WithoutLast(fs) == [fs EXCEPT !.code = SubSeq(@, 1, pc(fs) - 1)]
jumponcond(fs, cond) ==
  IF fs.e.k = "VRELOCABLE" /\ getcode(fs).op = "NOT"
  THEN condjump(WithoutLast(fs), "TEST", getcode(fs).b, 0, Flag(~cond))
  ELSE TestValue(discharge2anyreg(fs), cond)

\* The jump j is added to the list of those that are taken on false (true).
FalseTo(fs, j) == [fs EXCEPT !.code = luaK_concat(@, fs.e.f, j), !.e.f = Joined(@, j)]
TrueTo(fs, j)  == [fs EXCEPT !.code = luaK_concat(@, fs.e.t, j), !.e.t = Joined(@, j)]
TrueHere(fs)  == [luaK_patchtohere(fs, fs.e.t) EXCEPT !.e.t = NO_JUMP]
FalseHere(fs) == [luaK_patchtohere(fs, fs.e.f) EXCEPT !.e.f = NO_JUMP]
ByLastOnFalse(fs) == FalseTo(fs, TheJump(fs))
ByLastOnTrue(fs)  == TrueTo(fs, TheJump(fs))

BranchIfTrue(fs) ==
  CASE fs.e.k \in {"VK", "VKNUM", "VTRUE"} -> fs
    [] fs.e.k = "VFALSE" -> ByLastOnFalse(luaK_jump(fs))
    [] fs.e.k = "VJMP" -> FalseTo(invertjump(fs), fs.e.info)
    [] OTHER -> ByLastOnFalse(jumponcond(fs, FALSE))
luaK_goiftrue(fs) == TrueHere(BranchIfTrue(luaK_dischargevars(fs)))

BranchIfFalse(fs) ==
  CASE fs.e.k \in {"VNIL", "VFALSE"} -> fs
    [] fs.e.k = "VTRUE" -> ByLastOnTrue(luaK_jump(fs))
    [] fs.e.k = "VJMP" -> TrueTo(fs, fs.e.info)
    [] OTHER -> ByLastOnTrue(jumponcond(fs, TRUE))
luaK_goiffalse(fs) == FalseHere(BranchIfFalse(luaK_dischargevars(fs)))

NotOf(fs) == Relocable(Freed(fs), "NOT", fs.e.info, 0)
Negated(fs) ==
  CASE fs.e.k \in {"VNIL", "VFALSE"} -> [fs EXCEPT !.e.k = "VTRUE"]
    [] fs.e.k \in {"VK", "VKNUM", "VTRUE"} -> [fs EXCEPT !.e.k = "VFALSE"]
    [] fs.e.k = "VJMP" -> invertjump(fs)
    [] OTHER -> NotOf(discharge2anyreg(fs))
Exchanged(fs) ==
  [fs EXCEPT !.e.t = fs.e.f, !.e.f = fs.e.t,
             !.code = removevalues(removevalues(@, fs.e.t), fs.e.f)]
codenot(fs) == Exchanged(Negated(luaK_dischargevars(fs)))

\* t[e]
AsIndex(fs, t) == Hold(fs, [t EXCEPT !.k = "VINDEXED", !.aux = RK(fs.e)])
luaK_indexed(fs, t) == AsIndex(luaK_exp2RK(fs), t)

-----------------------------------------------------------------------------
\* Operators: e1 on the left, the expression of fs on the right.
Folded(op, x, y) ==
  CASE op = "ADD" -> x + y
    [] op = "SUB" -> x - y
    [] op = "MUL" -> x * y
    [] op = "POW" -> x ^ y
    [] op = "UNM" -> -x
constfolding(op, e1, e2) ==
  isnumeral(e1) /\ isnumeral(e2) /\ op \in {"ADD", "SUB", "MUL", "POW", "UNM"}

\* e1 becomes an operand when e2 is one; the upper register is freed first.
\* Mutant of TwoFreed: the right operand is always freed first.
RightFreed(fs, e1, e2) == freeexp(freeexp(fs, e2), e1)
TwoFreed(fs, e1, e2) ==
  IF RK(e1) > RK(e2) THEN freeexp(freeexp(fs, e1), e2) ELSE freeexp(freeexp(fs, e2), e1)
Binary(fs, op, e2) ==
  Relocable(TwoFreed(fs, fs.e, e2), op, RK(fs.e), RK(e2))
BinaryOf(fs, op, e1) == Binary(luaK_exp2RK(Hold(fs, e1)), op, fs.e)
UnaryOf(fs, op) == Relocable(Freed(fs), op, RK(fs.e), 0)

codearith(fs, op, e1) ==
  IF constfolding(op, e1, fs.e)
  THEN Hold(fs, [e1 EXCEPT !.info = Folded(op, e1.info, fs.e.info)])
  ELSE BinaryOf(luaK_exp2RK(fs), op, e1)

Comparison(fs, op, o1, o2, cond) ==
  Coded(IF ~cond /\ op # "EQ" THEN condjump(fs, op, 1, o2, o1)
        ELSE condjump(fs, op, Flag(cond), o1, o2), "VJMP")
CompareWith(fs, op, cond, e1) ==
  Comparison(Hold(freeexp(Freed(fs), e1), e1), op, RK(e1), RK(fs.e), cond)
CompareBoth(fs, op, cond, e2) == CompareWith(luaK_exp2RK(Hold(fs, e2)), op, cond, fs.e)
codecomp(fs, op, cond, e1) == CompareBoth(luaK_exp2RK(Hold(fs, e1)), op, cond, fs.e)

Minus(fs) ==
  IF isnumeral(fs.e) THEN [fs EXCEPT !.e.info = Folded("UNM", @, 0)] ELSE UnaryOf(fs, "UNM")
luaK_prefix(fs, op) ==
  CASE op = "not" -> codenot(fs)
    [] op = "-" -> IF isnumeral(fs.e) THEN Minus(fs) ELSE Minus(luaK_exp2anyreg(fs))
    [] op = "#" -> UnaryOf(luaK_exp2anyreg(fs), "LEN")

luaK_infix(fs, op) ==
  CASE op = "and" -> luaK_goiftrue(fs)
    [] op = "or" -> luaK_goiffalse(fs)
    [] op = ".." -> luaK_exp2nextreg(fs)
    [] op \in {"+", "-", "*", "^"} -> IF isnumeral(fs.e) THEN fs ELSE luaK_exp2RK(fs)
    [] OTHER -> luaK_exp2RK(fs)

\* x .. (y .. z) is one instruction over consecutive registers.
Concatenation(fs, e1) ==
  IF fs.e.k = "VRELOCABLE" /\ getcode(fs).op = "CONCAT"
  THEN [freeexp(lua_assert(fs, e1.info = getcode(fs).b - 1), e1)
          EXCEPT !.code[fs.e.info + 1].b = e1.info]
  ELSE codearith(luaK_exp2nextreg(fs), "CONCAT", e1)

AndWith(fs, e1) == FalseTo(lua_assert(fs, e1.t = NO_JUMP), e1.f)
OrWith(fs, e1)  == TrueTo(lua_assert(fs, e1.f = NO_JUMP), e1.t)

ArithOf == [op \in {"+", "-", "*", "^"} |->
              CASE op = "+" -> "ADD" [] op = "-" -> "SUB" [] op = "*" -> "MUL" [] op = "^" -> "POW"]
CompareOf == [op \in {"==", "~=", "<", "<=", ">", ">="} |->
                CASE op \in {"==", "~="} -> "EQ" [] op \in {"<", ">"} -> "LT" [] OTHER -> "LE"]
luaK_posfix(fs, op, e1) ==
  CASE op = "and" -> AndWith(luaK_dischargevars(fs), e1)
    [] op = "or" -> OrWith(luaK_dischargevars(fs), e1)
    [] op = ".." -> Concatenation(luaK_exp2val(fs), e1)
    [] op \in DOMAIN ArithOf -> codearith(fs, ArithOf[op], e1)
    [] OTHER -> codecomp(fs, CompareOf[op], op \in {"==", "<", "<="}, e1)

\* OP_SETLIST's counter is in batches, and in the next word when it is large.
luaK_setlist(fs, base, nelems, tostore) ==
  [luaK_codeABC(lua_assert(fs, tostore # 0), "SETLIST", base, IF tostore = MULTRET THEN 0 ELSE tostore,
                (nelems - 1) \div LFIELDS_PER_FLUSH + 1) EXCEPT !.freereg = base + 1]
=============================================================================
