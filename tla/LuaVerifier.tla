----------------------------- MODULE LuaVerifier -----------------------------
(***************************************************************************)
(* The code checker of Lua, luaG_checkcode (ldebug.c), with the operand    *)
(* modes of lopcodes.c.  The parser asserts it of every function that it   *)
(* closes, the loader asks it of every function that it reads.  p is a     *)
(* prototype.  No list is long enough for the counter of a SETLIST to be   *)
(* in the next word, so that every word is an instruction.                 *)
(***************************************************************************)
EXTENDS LuaParser

iAsBx == {"JMP", "FORLOOP", "FORPREP"}
iABx  == {"LOADK", "GETGLOBAL", "SETGLOBAL", "CLOSURE"}
Arithmetic == {"ADD", "SUB", "MUL", "POW"}

getBMode(op) ==
  CASE op \in {"MOVE", "LOADNIL", "GETTABLE", "SELF", "UNM", "NOT", "LEN", "CONCAT", "TEST",
               "TESTSET"} \cup iAsBx -> "OpArgR"
    [] op \in {"LOADK", "GETGLOBAL", "SETGLOBAL", "SETTABLE", "EQ", "LT", "LE"} \cup Arithmetic -> "OpArgK"
    [] op \in {"TFORLOOP", "CLOSE"} -> "OpArgN"
    [] OTHER -> "OpArgU"
getCMode(op) ==
  CASE op = "CONCAT" -> "OpArgR"
    [] op \in {"GETTABLE", "SETTABLE", "SELF", "EQ", "LT", "LE"} \cup Arithmetic -> "OpArgK"
    [] op \in {"MOVE", "LOADNIL", "GETUPVAL", "SETUPVAL", "UNM", "NOT", "LEN", "RETURN", "CLOSE",
               "VARARG"} -> "OpArgN"
    [] OTHER -> "OpArgU"

checkreg(p, reg) == reg < p.maxstacksize
checkArgMode(p, r, mode) ==
  CASE mode = "OpArgN" -> r = 0
    [] mode = "OpArgU" -> TRUE
    [] mode = "OpArgR" -> checkreg(p, r)
    [] mode = "OpArgK" -> IF ISK(r) THEN INDEXK(r) < Len(p.k) ELSE r < p.maxstacksize

precheck(p) ==
  /\ p.numparams + (IF "HASARG" \in p.is_vararg THEN 1 ELSE 0) <= p.maxstacksize
  /\ "NEEDSARG" \in p.is_vararg => "HASARG" \in p.is_vararg
  /\ p.code # <<>> /\ Last(p.code).op = "RETURN"

\* What may follow an instruction that leaves an open list.
luaG_checkopenop(i) == i.op \in {"CALL", "TAILCALL", "RETURN", "SETLIST"} /\ i.b = 0
checkopenop(p, at) == luaG_checkopenop(p.code[at + 2])

Operands1(p, at, i) ==
  CASE i.op \in iAsBx -> at + 1 + i.b \in 0 .. Len(p.code) - 1
    [] i.op \in iABx  -> getBMode(i.op) = "OpArgK" => i.b < Len(p.k)
    [] OTHER -> checkArgMode(p, i.b, getBMode(i.op)) /\ checkArgMode(p, i.c, getCMode(i.op))

Skips(p, at) == at + 2 < Len(p.code)

Results1(p, at, i, nresults) ==
  IF nresults = MULTRET THEN checkopenop(p, at) ELSE nresults # 0 => checkreg(p, i.a + nresults - 1)
OfOpcode(p, at, i) ==
  CASE i.op = "LOADBOOL" -> i.c = 1 => /\ Skips(p, at)
                                       /\ p.code[at + 2].op = "SETLIST" => p.code[at + 2].c # 0
    [] i.op \in {"GETUPVAL", "SETUPVAL"} -> i.b < p.nups
    [] i.op \in {"GETGLOBAL", "SETGLOBAL"} -> p.k[i.b + 1][1] = "string"
    [] i.op = "SELF" -> checkreg(p, i.a + 1)
    [] i.op = "CONCAT" -> i.b < i.c
    [] i.op = "TFORLOOP" -> i.c >= 1 /\ checkreg(p, i.a + 2 + i.c)
    [] i.op \in {"FORLOOP", "FORPREP"} -> checkreg(p, i.a + 3)
    [] i.op \in {"CALL", "TAILCALL"} ->
         (i.b # 0 => checkreg(p, i.a + i.b - 1)) /\ Results1(p, at, i, i.c - 1)
    [] i.op = "RETURN" -> i.b - 1 > 0 => checkreg(p, i.a + i.b - 2)
    [] i.op = "SETLIST" -> i.b > 0 => checkreg(p, i.a + i.b)
    [] i.op = "CLOSURE" ->
         /\ i.b < Len(p.p)
         /\ at + p.p[i.b + 1].nups < Len(p.code)
         /\ \A j \in 1 .. p.p[i.b + 1].nups : p.code[at + 1 + j].op \in {"GETUPVAL", "MOVE"}
    [] i.op = "VARARG" ->
         /\ "ISVARARG" \in p.is_vararg /\ "NEEDSARG" \notin p.is_vararg
         /\ i.b - 1 = MULTRET => checkopenop(p, at)
         /\ checkreg(p, i.a + i.b - 2)
    [] OTHER -> TRUE

\* symbexec to the end, tracing no register.
symbexec(p, at, i) ==
  /\ checkreg(p, i.a)
  /\ Operands1(p, at, i)
  /\ i.op \in TestMode => Skips(p, at) /\ p.code[at + 2].op = "JMP"
  /\ OfOpcode(p, at, i)
luaG_checkcode(p) ==
  precheck(p) /\ \A at \in 0 .. Len(p.code) - 1 : symbexec(p, at, p.code[at + 1])

\* A function and those in it.
RECURSIVE Functions1(_)
Functions1(p) == {p} \cup UNION {Functions1(p.p[i]) : i \in DOMAIN p.p}
=============================================================================
