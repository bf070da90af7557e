---------------------------- MODULE SaurusMachine ----------------------------
(***************************************************************************)
(* The interpreter of src/src/vm/core.c as a function from states to       *)
(* states, with the data that SaurusVM leaves out: it computes what a      *)
(* program computes.  A machine m has the fields                           *)
(*   stk, top   s->stack, with what a pop leaves behind, and s->stack_top  *)
(*   frames     s->frames up to s->frame_top: func, stack_top, ret_addr    *)
(*   func, pc   vm_loop's func, whose prot is s->prot, and s->pc           *)
(*   globals    a function from the names that are bound                   *)
(*   status     "run", "done", "error" (su_error), "abort" (an assertion), *)
(*              "wild" (memory that no value was stored in), "long"        *)
(*   fuel       bound: the steps it may still take                         *)
(***************************************************************************)
EXTENDS Integers, Sequences, SequencesExt

Nil         == [kind |-> "nil"]
Num(n)      == [kind |-> "number", n |-> n]
Bool(b)     == [kind |-> "boolean", b |-> b]
Str(a)      == [kind |-> "string", atom |-> a]
Native(a)   == [kind |-> "native", name |-> a]
Vec(s)      == [kind |-> "vector", items |-> s]
Cell(f, r)  == [kind |-> "seq", first |-> f, rest |-> r]

EXIT == 65535      \* ret_addr of the frame that su_call pushes

\* su_list(): cell_create_array() links the cells from the last one to the first.
List(args) == FoldRight(Cell, args, Nil)

Stop(m, how) == [m EXCEPT !.status = how]
Goto(m, pc)  == [m EXCEPT !.pc = pc]
FRAME(m)     == m.frames[Len(m.frames)]
Inst(m)      == m.func.prot.inst[m.pc + 1]

\* s->stack[i], and STK(n) for n < 0.
Slot(m, i) == m.stk[i + 1]
STK(m, n)  == Slot(m, m.top + n)

\* Storing v in slot i, and making it the newest one.
Settle(m, i, v) ==
  [m EXCEPT !.top = i + 1,
            !.stk = IF i < Len(m.stk) THEN [@ EXCEPT ![i + 1] = v] ELSE Append(@, v)]
Push(m, v)       == Goto(Settle(m, m.top, v), m.pc + 1)
Replace(m, n, v) == Goto(Settle(m, m.top - n, v), m.pc + 1)
PushAll(m, vs)   == FoldLeft(LAMBDA n, v : Settle(n, n.top, v), m, vs)

\* su_pop() asserts that the stack does not become shorter than empty.
PopBy(m, n) == IF m.top < n THEN Stop(m, "abort")
               ELSE Goto([m EXCEPT !.top = @ - n], m.pc + 1)

Truthy(v) == v.kind # "nil" /\ (v.kind = "boolean" => v.b)
Numbers(m, n) == \A k \in 1 .. n : STK(m, -k).kind = "number"

Arith(op, x, y) == CASE op = "ADD" -> Num(x + y)
                     [] op = "SUB" -> Num(x - y)
                     [] op = "MUL" -> Num(x * y)
                     [] op = "LESS"   -> Bool(x < y)
                     [] op = "LEQUAL" -> Bool(x <= y)

\* core.c:951-957, for operands that are numbers, strings or of two kinds.
Equal(v, w) == Bool(v = w)

Unary(op, v) ==
  CASE op = "NOT" -> Bool(IF v.kind = "boolean" THEN ~v.b ELSE v.kind # "nil")
    [] op = "UNM" -> Num(-v.n)

\* OP_OR: all that is not nil is no boolean or true, and nil is no boolean.
Binary(op, v, w) ==
  CASE op = "EQ"  -> Equal(v, w)
    [] op = "AND" -> Bool(Truthy(v) /\ Truthy(w))
    [] op = "OR"  -> Bool(TRUE)
    [] OTHER      -> Arith(op, v.n, w.n)

NumericOps == {"ADD", "SUB", "MUL", "LESS", "LEQUAL"}
BinaryOps  == NumericOps \cup {"EQ", "AND", "OR"}

\* create_value(): a constant of the file becomes a value.
CreateValue(c) == IF c.type = "NUMBER" THEN Num(c.num)
                  ELSE IF c.atom = "nil" THEN Nil ELSE Str(c.atom)
Constant(m) == CreateValue(m.func.prot.const[Inst(m).a + 1])

\* The slot of upvalue u when LAMBDA runs: it is looked for in the activation lv
\* frames up, wherever that is, and below what is in use or not.
UpFrame(m, u) == Len(m.frames) - u.lv + 1
\* Mutant: the callee's slot is not counted.
UpSlot_OffByOne(m, u) == m.frames[UpFrame(m, u)].stack_top + u.idx
UpSlot(m, u)  == m.frames[UpFrame(m, u)].stack_top + u.idx + 1

Lambda(m) ==
  LET p == m.func.prot.prot[Inst(m).a + 1]
  IN IF \A k \in 1 .. Len(p.up) : UpFrame(m, p.up[k]) >= 1
                                  /\ UpSlot(m, p.up[k]) < Len(m.stk)
     THEN Push(m, [kind |-> "function", prot |-> p, narg |-> Inst(m).b,
                   ups |-> [k \in 1 .. Len(p.up) |-> Slot(m, UpSlot(m, p.up[k]))]])
     ELSE Stop(m, "wild")

\* The natives that macros are written with.
ApplyNative(name, args) ==
  CASE name = "list"  -> IF args = <<>> THEN Nil ELSE List(args)
    [] name = "first" -> args[1].first
    [] name = "rest"  -> args[1].rest
    [] name = "cons"  -> Cell(args[2], args[1])

\* OP_CALL: the callee and its n arguments are the newest values.
Call(m, ret, n) ==
  LET at   == m.top - n - 1
      g    == Slot(m, at)
      args == [k \in 1 .. n |-> Slot(m, at + k)]
      frame == [func |-> m.func, stack_top |-> at, ret_addr |-> ret]
      in   == IF g.narg < 0 THEN Settle(m, at + 1, Vec(args)) ELSE m
  IN IF at < 0 THEN Stop(m, "wild")
     ELSE IF g.kind = "function"
     THEN IF g.narg >= 0 /\ g.narg # n THEN Stop(m, "error")
          ELSE [PushAll(in, g.ups) EXCEPT !.frames = Append(@, frame),
                                          !.func = g, !.pc = 0]
     ELSE IF g.kind = "native"
     THEN Goto(Settle(m, at, ApplyNative(g.name, args)), ret)
     ELSE IF g.kind = "vector" /\ n = 1 /\ STK(m, -1).kind = "number"
             /\ STK(m, -1).n \in 0 .. Len(g.items) - 1
     THEN Goto(Settle(m, at, g.items[STK(m, -1).n + 1]), ret)
     ELSE Stop(m, "error")

\* OP_RETURN, and what OP_TCALL does before it becomes a call.
Leave(m) == [m EXCEPT !.frames = Front(@), !.func = FRAME(m).func]
Return(m) == Goto(Leave(Settle(m, FRAME(m).stack_top, STK(m, -1))), FRAME(m).ret_addr)
TailCall(m, n) ==
  LET moved == [k \in 1 .. n + 1 |-> STK(m, k - n - 2)]
      down  == PushAll([m EXCEPT !.top = FRAME(m).stack_top], moved)
  IN Call(Leave(down), FRAME(m).ret_addr, n)

\* One turn of the loop of vm_loop.
Execute(m) ==
  LET i == Inst(m)
  IN CASE i.op = "PUSH" -> Push(m, Constant(m))
       [] i.op = "POP"  -> PopBy(m, i.a)
       [] i.op = "LOAD" -> Push(m, Slot(m, FRAME(m).stack_top + 1 + i.a))
       [] i.op = "COPY" -> Push(m, Slot(m, FRAME(m).stack_top + i.a))
       [] i.op = "UNM"  -> IF Numbers(m, 1) THEN Replace(m, 1, Unary("UNM", STK(m, -1)))
                           ELSE Stop(m, "error")
       [] i.op = "NOT"  -> Replace(m, 1, Unary("NOT", STK(m, -1)))
       [] i.op \in BinaryOps ->
            IF i.op \in NumericOps /\ ~Numbers(m, 2) THEN Stop(m, "error")
            ELSE Replace(m, 2, Binary(i.op, STK(m, -2), STK(m, -1)))
       [] i.op = "TEST" -> Goto(PopBy(m, 1), IF Truthy(STK(m, -1)) THEN i.a ELSE m.pc + 1)
       [] i.op = "JMP"  -> Goto(m, i.a)
       [] i.op = "LAMBDA" -> Lambda(m)
       [] i.op = "GETGLOBAL" -> IF Constant(m).atom \in DOMAIN m.globals
                                THEN Push(m, m.globals[Constant(m).atom])
                                ELSE Stop(m, "error")
       [] i.op = "SETGLOBAL" ->
            IF Constant(m).atom \in DOMAIN m.globals THEN Stop(m, "error")
            ELSE Goto([m EXCEPT !.globals = (Constant(m).atom :> STK(m, -1)) @@ @], m.pc + 1)
       [] i.op = "CALL"   -> Call(m, m.pc + 1, i.a)
       [] i.op = "TCALL"  -> TailCall(m, i.a)
       [] i.op = "RETURN" -> Return(m)

Step(m) ==
  LET n == [Execute(m) EXCEPT !.fuel = @ - 1]
  IN IF m.fuel = 0 THEN Stop(m, "long")
     ELSE IF n.status = "run" /\ n.pc = EXIT THEN Stop(n, "done") ELSE n

RECURSIVE Run(_)
Run(m) == IF m.status = "run" THEN Run(Step(m)) ELSE m

\* su_load() and su_call() with one argument: a chunk takes any number of them.
Start(prot, arg, globals, fuel) ==
  LET f == [kind |-> "function", prot |-> prot, narg |-> -1, ups |-> <<>>]
  IN [stk |-> <<f, Vec(<<arg>>)>>, top |-> 2, func |-> f, pc |-> 0, globals |-> globals,
      frames |-> <<[func |-> f, stack_top |-> 0, ret_addr |-> EXIT]>>,
      status |-> "run", fuel |-> fuel]
=============================================================================
