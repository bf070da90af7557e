------------------------------ MODULE SaurusVM ------------------------------
(***************************************************************************)
(* The interpreter of src/src/vm/core.c: one value stack and one array of  *)
(* frames shared by all activations, the instruction loop (vm_loop), calls *)
(* from the host (su_call), errors and their recovery (su_error,           *)
(* su_seterror).                                                           *)
(*                                                                         *)
(* Data are abstract: a number is just a number, so that a comparison may  *)
(* give either boolean; a native function may give any of NativeResults,   *)
(* or fail.  The collector, which runs between two instructions and moves  *)
(* nothing, is SaurusGC.  s->prot is func->prot throughout vm_loop, and is *)
(* left out; so are s->pc outside vm_loop and the line number it gives.    *)
(***************************************************************************)
EXTENDS Integers, Sequences, FiniteSets, Functions

CONSTANTS
  Protos,          \* the prototypes of the bytecode files that are loaded
  Chunks,          \* those a file consists of: what su_load gives the host
  Code,            \* their instructions
  Arity,           \* their narg operand of LAMBDA; -1 collects the arguments
  Ups,             \* their upvalues: lv, idx
  Depth,           \* operands in use before each instruction (see Balanced)
  Natives,         \* the native functions
  NativeResults,   \* what they can return
  NativeRets,      \* the nret with which the host calls one
  Names,           \* the names of globals
  Library,         \* what su_libinit binds them to, Inv where nothing
  MAX_CALLS,       \* length of the frame array
  STACK_SIZE,      \* length of the value stack
  MaxHost          \* bound: operands of the host

Inv       == [kind |-> "inv"]      \* no value: SU_INV
Nil       == [kind |-> "nil"]
Number    == [kind |-> "number"]
Bool(b)   == [kind |-> "boolean", b |-> b]
Native(n) == [kind |-> "native", name |-> n]
Vector(s) == [kind |-> "vector", items |-> s]
Func(p, u) == [kind |-> "function", prot |-> p, ups |-> u]

Data       == {"nil", "boolean", "number", "string"}
Indexed    == {"vector", "map"}
IsFunction(v) == v.kind = "function" /\ v.prot \in Protos

EXIT  == 65535      \* ret_addr of the frame that su_call pushes
Unset == -1         \* errtop when no error is caught

ArithOps   == {"ADD", "SUB", "MUL", "DIV", "MOD", "POW"}
CompareOps == {"LESS", "LEQUAL"}
PushOps    == {"PUSH", "COPY", "LOAD", "LAMBDA", "GETGLOBAL"}
UnaryOps   == {"UNM", "NOT", "SETGLOBAL"}
BinaryOps  == ArithOps \cup CompareOps \cup {"EQ", "AND", "OR"}
Ops        == PushOps \cup UnaryOps \cup BinaryOps
                \cup {"POP", "TEST", "JMP", "CALL", "TCALL", "RETURN"}

PcOf(p) == 0 .. Len(Code[p]) - 1

\* Stack slots of an activation between the callee and its operands: the
\* arguments, or the vector of them, and the upvalues.
Slots(p) == (IF Arity[p] < 0 THEN 1 ELSE Arity[p]) + Len(Ups[p])

\* Bytecode uses the stack evenly: on every path to an instruction the same
\* number of operands is in use, never less than it takes.
ReachedWith(p, pc, d) == pc \in PcOf(p) /\ Depth[p][pc] = d

Balanced(p) ==
  /\ ReachedWith(p, 0, 0)
  /\ \A pc \in PcOf(p) :
       LET i == Code[p][pc + 1]
           d == Depth[p][pc]
       IN /\ i.op \in PushOps   => ReachedWith(p, pc + 1, d + 1)
          /\ i.op \in UnaryOps  => d >= 1 /\ ReachedWith(p, pc + 1, d)
          /\ i.op \in BinaryOps => d >= 2 /\ ReachedWith(p, pc + 1, d - 1)
          /\ i.op = "POP"       => d >= i.a /\ ReachedWith(p, pc + 1, d - i.a)
          /\ i.op = "TEST"      => /\ d >= 1
                                   /\ ReachedWith(p, pc + 1, d - 1)
                                   /\ ReachedWith(p, i.a, d - 1)
          /\ i.op = "JMP"       => ReachedWith(p, i.a, d)
          /\ i.op = "CALL"      => d > i.a /\ ReachedWith(p, pc + 1, d - i.a)
          /\ i.op = "TCALL"     => d > i.a
          /\ i.op = "RETURN"    => d >= 1
          /\ i.op = "LOAD"      => i.a < Slots(p)
          /\ i.op = "COPY"      => i.a <= Slots(p)
          /\ i.op = "LAMBDA"    => i.a \in Protos \ Chunks

ASSUME SizesAssumption ==
  /\ MAX_CALLS \in Nat /\ STACK_SIZE \in Nat
  /\ MaxHost \in 0 .. STACK_SIZE

ASSUME CodeAssumption ==
  /\ Chunks \subseteq Protos
  /\ \A p \in Protos :
       /\ Len(Code[p]) \in 1 .. EXIT
       /\ \A pc \in PcOf(p) :
            LET i == Code[p][pc + 1]
            IN /\ i.op \in Ops
               /\ i.op # "LAMBDA" => i.a \in Nat
               /\ i.op \in {"GETGLOBAL", "SETGLOBAL"} => i.name \in Names
               /\ Depth[p][pc] \in Nat
       /\ Arity[p] \in Int
       /\ Len(Ups[p]) \in Nat
       /\ p \in Chunks => Slots(p) = 1 /\ Arity[p] = -1
       /\ Balanced(p)

ASSUME LibraryAssumption ==
  /\ DOMAIN Library = Names
  /\ NativeRets \subseteq 0 .. 1

VARIABLES
  run,        \* who runs: "host", "loop" (vm_loop), "recover" (longjmp has
              \* come back to the host); or what ended the process: "exit",
              \* "abort" (an assertion, a trap), "wild" (a stray pointer)
  stack,      \* stack[0 .. stack_top-1], oldest value first
  frames,     \* frames[0 .. frame_top-1]: func, stack_top, ret_addr
  pc,         \* s->pc, the next instruction
  func,       \* vm_loop's func
  narg, errtop, globals,
  call        \* su_call's locals: top, frame, nret, tmp (the saved narg)

vars == <<run, stack, frames, pc, func, narg, errtop, globals, call>>

Keep(s, n)   == SubSeq(s, 1, Len(s) - n)
Newest(s, n) == SubSeq(s, Len(s) - n + 1, Len(s))

STK(n) == stack[Len(stack) + n + 1]         \* the n-th newest, n < 0
FRAME  == frames[Len(frames)]
Inst   == Code[func.prot][pc + 1]

\* Instructions that end in `break' with the frames as they were.
Goto(s, target) == /\ stack' = s
                   /\ pc' = target
                   /\ UNCHANGED <<run, frames, func, narg, errtop, globals, call>>
Replace(n, v) == Goto(Append(Keep(stack, n), v), pc + 1)

\* error(): it names the file of the youngest frame that has one, so it looks
\* into the function of every frame down to there; then it jumps to the host,
\* or exits.
StrayFrame(frs) ==
  \E i \in 1 .. Len(frs) :
    /\ ~IsFunction(frs[i].func)
    /\ \A j \in i + 1 .. Len(frs) : frs[j].func.prot \notin Chunks
Raise(frs) == run' = IF StrayFrame(frs) THEN "wild"
                     ELSE IF errtop = Unset THEN "exit" ELSE "recover"

RaiseHere == /\ Raise(frames)
             /\ UNCHANGED <<stack, frames, pc, func, narg, errtop, globals, call>>
Die(how)  == /\ run' = how
             /\ UNCHANGED <<stack, frames, pc, func, narg, errtop, globals, call>>

\* Mutant: the assertion lets one frame too many through.
Full_OffByOne(frs) == Len(frs) > MAX_CALLS

\* Is the frame array used up?  Then s->frame_top <= MAX_CALLS is about to fail.
Full(frs) == Len(frs) >= MAX_CALLS

\* push_value(): "Stack overflow!" is an error like any other.
PushValue(v) == IF Len(stack) < STACK_SIZE THEN Replace(0, v) ELSE RaiseHere

At(op) == /\ run = "loop"
          /\ pc < Len(Code[func.prot])
          /\ Inst.op = op

(***************************************************************************)
(* Instructions that stay inside their activation.                         *)
(***************************************************************************)
OpPush == At("PUSH") /\ PushValue(Inst.v)
OpPop  == At("POP") /\ Goto(Keep(stack, Inst.a), pc + 1)
OpLoad == At("LOAD") /\ PushValue(stack[FRAME.stack_top + 1 + Inst.a + 1])
OpCopy == /\ At("COPY")
          /\ IF Len(stack) < STACK_SIZE
             THEN Replace(0, stack[FRAME.stack_top + Inst.a + 1])
             ELSE Die("abort")

Numbers(n) == \A k \in 1 .. n : STK(-k).kind = "number"

OpArith == /\ \E op \in ArithOps : At(op)
           /\ IF Numbers(2) THEN Replace(2, Number) ELSE RaiseHere
\* OP_MOD divides two ints: the divisor may be zero.
OpModByZero == At("MOD") /\ Numbers(2) /\ Die("abort")
OpMinus == At("UNM") /\ (IF Numbers(1) THEN Replace(1, Number) ELSE RaiseHere)
OpCompare == /\ \E op \in CompareOps : At(op)
             /\ IF Numbers(2) THEN \E b \in BOOLEAN : Replace(2, Bool(b))
                              ELSE RaiseHere

\* OP_EQ compares the whole 8 bytes of the union for all but numbers, of which
\* a boolean sets four and nil none; equal contents may be distinct objects.
OpEqual == /\ At("EQ")
           /\ \E b \in IF STK(-2) = STK(-1) THEN BOOLEAN ELSE {FALSE} :
                Replace(2, Bool(b))

Truthy(v) == v.kind # "nil" /\ (v.kind = "boolean" => v.b)

OpNot == /\ At("NOT")
         /\ LET v == STK(-1)
            IN Replace(1, Bool(IF v.kind = "boolean" THEN ~v.b ELSE v.kind # "nil"))
OpAnd == At("AND") /\ Replace(2, Bool(Truthy(STK(-2)) /\ Truthy(STK(-1))))
\* Every disjunction of core.c:978-979 is true: a value that is nil is not a boolean.
OpOr  == At("OR") /\ Replace(2, Bool(\E k \in 1 .. 2 :
                       STK(-k).kind # "nil" \/ STK(-k).kind # "boolean" \/ STK(-k).b))

OpTest == At("TEST") /\ Goto(Keep(stack, 1), IF Truthy(STK(-1)) THEN Inst.a ELSE pc + 1)
OpJump == At("JMP") /\ Goto(stack, Inst.a)

\* lambda(): the upvalues are copied out of the activation lv frames up, which
\* need not exist, nor be the one the function was written in.
OpLambda ==
  /\ At("LAMBDA")
  /\ LET q      == Inst.a
         f(k)   == Len(frames) - Ups[q][k].lv + 1
         slot(k) == frames[f(k)].stack_top + Ups[q][k].idx + 1 + 1
     IN IF \A k \in 1 .. Len(Ups[q]) : f(k) >= 1 /\ slot(k) <= Len(stack)
        THEN PushValue(Func(q, [k \in 1 .. Len(Ups[q]) |-> stack[slot(k)]]))
        ELSE Die("wild")

OpGetGlobal == /\ At("GETGLOBAL")
               /\ IF globals[Inst.name] = Inv THEN RaiseHere
                                              ELSE PushValue(globals[Inst.name])
\* The value stays on the stack.
OpSetGlobal ==
  /\ At("SETGLOBAL")
  /\ IF globals[Inst.name] # Inv THEN RaiseHere
     ELSE /\ globals' = [globals EXCEPT ![Inst.name] = STK(-1)]
          /\ pc' = pc + 1
          /\ UNCHANGED <<run, stack, frames, func, narg, errtop, call>>

(***************************************************************************)
(* OP_CALL, and OP_TCALL, which does what OP_RETURN does to the frames but *)
(* keeps the callee and its n arguments, then goes on as OP_CALL.  Both    *)
(* come here: the stack s ends in the callee and its arguments, frs are    *)
(* the frames, f the function to come back to and ret the place in it.     *)
(***************************************************************************)
CalleeOf(s, n) == s[Len(s) - n]

\* The first operands of a function: itself, its arguments, its upvalues.
Entry(g, args) ==
  <<g>> \o (IF Arity[g.prot] < 0 THEN <<Vector(args)>> ELSE args)
        \o [k \in 1 .. Len(Ups[g.prot]) |-> g.ups[k]]

\* Frames beyond MAX_CALLS, and upvalues that do not fit, fail an assertion.
EnterFunction(s, frs, f, ret, n) ==
  LET g     == CalleeOf(s, n)
      frame == [func |-> f, stack_top |-> Len(s) - n - 1, ret_addr |-> ret]
      in    == Keep(s, n + 1) \o Entry(g, Newest(s, n))
      full  == Arity[g.prot] < 0 /\ n = 0 /\ Len(s) >= STACK_SIZE
      bad   == Arity[g.prot] >= 0 /\ Arity[g.prot] # n
  IN /\ IsFunction(g)
     /\ IF Full(frs) THEN Die("abort")
        ELSE IF bad \/ full
        THEN /\ stack' = s
             /\ frames' = Append(frs, frame)
             /\ Raise(frames')
             /\ UNCHANGED <<pc, func, narg, errtop, globals, call>>
        ELSE IF Len(in) > STACK_SIZE THEN Die("abort")
        ELSE /\ stack' = in
             /\ frames' = Append(frs, frame)
             /\ func' = g
             /\ pc' = 0
             /\ UNCHANGED <<run, narg, errtop, globals, call>>

\* The call is over within this instruction, with one result.
Resume(s, frs, f, ret, n, v) == /\ stack' = Append(Keep(s, n + 1), v)
                                /\ frames' = frs
                                /\ func' = f
                                /\ pc' = ret
                                /\ UNCHANGED <<run, narg, errtop, globals, call>>
RaiseFrom(s, frs, n) == /\ stack' = s
                        /\ frames' = frs
                        /\ narg' = n
                        /\ Raise(frs)
                        /\ UNCHANGED <<pc, func, errtop, globals, call>>

\* A native gets s->narg for itself; an error leaves it set.
CallNative(s, frs, f, ret, n) ==
  /\ CalleeOf(s, n).kind = "native"
  /\ \/ \E v \in NativeResults \cup {Nil} : Resume(s, frs, f, ret, n, v)
     \/ RaiseFrom(s, frs, n)

\* A vector or a map applied to one key gives what it holds there, if anything.
CallIndexed(s, frs, f, ret, n) ==
  LET g == CalleeOf(s, n)
  IN /\ g.kind \in Indexed
     /\ \/ /\ n = 1
           /\ g.kind = "vector" => s[Len(s)].kind = "number"
           /\ \E k \in DOMAIN g.items : Resume(s, frs, f, ret, n, g.items[k])
        \/ RaiseFrom(s, frs, narg)

CallOther(s, frs, f, ret, n) ==
  CalleeOf(s, n).kind \in Data /\ RaiseFrom(s, frs, narg)

Invoke(s, frs, f, ret, n) ==
  \/ EnterFunction(s, frs, f, ret, n) \/ CallNative(s, frs, f, ret, n)
  \/ CallIndexed(s, frs, f, ret, n)   \/ CallOther(s, frs, f, ret, n)

\* Mutant: the frame of a call comes back to the call itself.
OpCall_Again == At("CALL") /\ Invoke(stack, frames, func, pc, Inst.a)

OpCall == At("CALL") /\ Invoke(stack, frames, func, pc + 1, Inst.a)

\* Mutant: the tail call leaves the old callee where it is.
Lowered_OneHigh(n) == SubSeq(stack, 1, FRAME.stack_top + 1) \o Newest(stack, n + 1)

\* What memcpy leaves of the stack: the regions may overlap, the copy goes down.
Lowered(n) == SubSeq(stack, 1, FRAME.stack_top) \o Newest(stack, n + 1)

OpTailCall == /\ At("TCALL")
              /\ Invoke(Lowered(Inst.a), Keep(frames, 1), FRAME.func,
                        FRAME.ret_addr, Inst.a)

\* Mutant: the result goes below the callee's slot.
OpReturn_Sunk == /\ At("RETURN")
                 /\ pc' = FRAME.ret_addr
                 /\ func' = FRAME.func
                 /\ stack' = Append(SubSeq(stack, 1, FRAME.stack_top - 1), STK(-1))
                 /\ frames' = Keep(frames, 1)
                 /\ UNCHANGED <<run, narg, errtop, globals, call>>

OpReturn == /\ At("RETURN")
            /\ pc' = FRAME.ret_addr
            /\ func' = FRAME.func
            /\ stack' = Append(SubSeq(stack, 1, FRAME.stack_top), STK(-1))
            /\ frames' = Keep(frames, 1)
            /\ UNCHANGED <<run, narg, errtop, globals, call>>

(***************************************************************************)
(* The host: it loads bytecode, calls it or a native function, and may ask *)
(* for errors to come back to it.  It never pops what it had on the stack  *)
(* when it asked.                                                          *)
(***************************************************************************)
Mine == Len(stack) - (IF errtop = Unset THEN 0 ELSE errtop)

HostPush(v) == /\ run = "host"
               /\ Len(stack) < MaxHost
               /\ stack' = Append(stack, v)
               /\ UNCHANGED <<run, frames, pc, func, narg, errtop, globals, call>>

HostPop(n) == /\ run = "host"
              /\ n <= Mine
              /\ stack' = Keep(stack, n)
              /\ UNCHANGED <<run, frames, pc, func, narg, errtop, globals, call>>

\* su_load(): the chunk of a file as a function.
Load(p) == HostPush(Func(p, <<>>))

\* su_call() of a chunk, whose narg of -1 takes any argument as it is.  The host
\* passes one.
HostCall(nret) ==
  LET top   == Len(stack) - 2
      f     == stack[top + 1]
      frame == [func |-> f, stack_top |-> top, ret_addr |-> EXIT]
  IN /\ run = "host"
     /\ Mine >= 2
     /\ IsFunction(f) /\ f.prot \in Chunks
     /\ IF Full(frames) THEN Die("abort")
        ELSE /\ call' = [top |-> top, frame |-> Len(frames), nret |-> nret, tmp |-> narg]
             /\ frames' = Append(frames, frame)
             /\ func' = f
             /\ pc' = 0
             /\ narg' = 1
             /\ run' = "loop"
             /\ UNCHANGED <<stack, errtop, globals>>

\* The loop of vm_loop ends: su_call gives the host what it asked for.
Finish == /\ run = "loop"
          /\ pc >= Len(Code[func.prot])
          /\ run' = "host"
          /\ stack' = IF call.nret = 0 THEN Keep(stack, 1) ELSE stack
          /\ narg' = call.tmp
          /\ UNCHANGED <<frames, pc, func, errtop, globals, call>>

\* su_call() of a native: its frame has a C function where error() expects one
\* of bytecode.  With nret = 1 it pops narg values, the callee's slot not being
\* one of them.
HostCallNative(n, nret) ==
  LET top == Len(stack) - n - 1
      f   == stack[top + 1]
      frs == Append(frames, [func |-> f, stack_top |-> top, ret_addr |-> EXIT])
  IN /\ run = "host"
     /\ n < Mine
     /\ f.kind = "native"
     /\ IF Full(frames) THEN Die("abort")
        ELSE \/ /\ nret = 0 \/ Len(stack) < STACK_SIZE
                /\ \E v \in NativeResults :
                     stack' = IF nret = 0 THEN SubSeq(stack, 1, top)
                              ELSE Keep(Append([stack EXCEPT ![top + 1] = v], v), n)
                /\ UNCHANGED <<run, frames, pc, func, narg, errtop, globals, call>>
             \/ /\ frames' = frs
                /\ narg' = n
                /\ Raise(frs)
                /\ UNCHANGED <<stack, pc, func, errtop, globals, call>>

\* su_seterror(): first with 0, the first result of setjmp; with 1 when longjmp
\* has come back, the frames being left as they are.
SetError == /\ run = "host"
            /\ errtop' = Len(stack)
            /\ UNCHANGED <<run, stack, frames, pc, func, narg, globals, call>>
\* Mutant: the operands of the functions that failed are left on the stack.
Recover_Nothing == /\ run = "recover"
                   /\ run' = "host"
                   /\ UNCHANGED <<stack, frames, pc, func, narg, errtop, globals, call>>

Recover == /\ run = "recover"
           /\ run' = "host"
           /\ stack' = SubSeq(stack, 1, errtop)
           /\ UNCHANGED <<frames, pc, func, narg, errtop, globals, call>>

HostValues == {Vector(<<>>)} \cup {Native(n) : n \in Natives}

Init == /\ run = "host"
        /\ stack = <<>>
        /\ frames = <<>>
        /\ pc = EXIT
        /\ func = Nil
        /\ narg = 0
        /\ errtop = Unset
        /\ globals = Library
        /\ call = [top |-> 0, frame |-> 0, nret |-> 0, tmp |-> 0]

Compute == \/ OpPush \/ OpPop \/ OpLoad \/ OpCopy \/ OpArith \/ OpModByZero
           \/ OpMinus \/ OpCompare \/ OpEqual \/ OpNot \/ OpAnd \/ OpOr
           \/ OpTest \/ OpJump \/ OpLambda \/ OpGetGlobal \/ OpSetGlobal

HostStep == \/ \E v \in HostValues : HostPush(v)
            \/ \E n \in 1 .. Len(stack) : HostPop(n)
            \/ \E p \in Chunks : Load(p)
            \/ \E r \in 0 .. 1 : HostCall(r)
            \/ \E n \in 0 .. Len(stack), r \in NativeRets : HostCallNative(n, r)
            \/ SetError \/ Recover

Next == Compute \/ OpCall \/ OpTailCall \/ OpReturn \/ Finish \/ HostStep

Spec == Init /\ [][Next]_vars

(***************************************************************************)
(* Properties.                                                             *)
(***************************************************************************)
ASequence(s) == s \in Seq(Range(s))
FramesTyped(frs) ==
  \A k \in 1 .. Len(frs) : frs[k].stack_top \in Nat /\ frs[k].ret_addr \in Nat

\* Types, and the limits of the two arrays.
TypeOK ==
  /\ run \in {"host", "loop", "recover", "exit", "abort", "wild"}
  /\ ASequence(stack) /\ Len(stack) <= STACK_SIZE
  /\ ASequence(frames) /\ Len(frames) <= MAX_CALLS
  /\ FramesTyped(frames)
  /\ pc \in Nat /\ narg \in Nat
  /\ errtop \in Nat \cup {Unset}
  /\ DOMAIN globals = Names
  /\ call.top \in Nat /\ call.frame \in Nat /\ call.nret \in 0 .. 1 /\ call.tmp \in Nat

\* What an activation has on the stack: callee, arguments, upvalues, operands.
Extent(p, q) == 1 + Slots(p) + Depth[p][q]

\* The frames frs, those below c.frame left aside (c is su_call's locals),
\* account for the stack up to slot lim, where the result of the call that the
\* youngest activation waits for will come.  That one runs f and goes on at q.
\* Every activation starts in the slot that the one before it expects its result
\* in, and is as large as its place in its code says; the oldest started where
\* su_call was told to, and goes back to su_call.
Chain(c, frs, f, q, lim) ==
  /\ c.frame <= Len(frs)
  /\ IsFunction(f)
  /\ Len(frs) = c.frame => q = EXIT /\ lim = c.top
  /\ Len(frs) > c.frame => /\ frs[c.frame + 1].stack_top = c.top
                           /\ frs[c.frame + 1].ret_addr = EXIT
  /\ \A k \in c.frame + 1 .. Len(frs) :
       LET top     == k = Len(frs)
           running == IF top THEN f ELSE frs[k + 1].func
           place   == IF top THEN q ELSE frs[k + 1].ret_addr
           limit   == IF top THEN lim ELSE frs[k + 1].stack_top
       IN /\ IsFunction(frs[k].func)
          /\ frs[k].stack_top >= c.top
          /\ place \in PcOf(running.prot)
          /\ limit + 1 = frs[k].stack_top + Extent(running.prot, place)

\* While bytecode runs the stack is accounted for to the last slot; when it has
\* returned, the host finds one result where the callee was, and the frames as
\* they were.  core.c:991-1077 keep this up through calls, tail calls, natives
\* and returns.
StackExact == run = "loop" => Chain(call, frames, func, pc, Len(stack) - 1)

\* An error always finds the operands that the host wants back (su_seterror,
\* core.c:654): no instruction has eaten into them.
MarkKept == /\ run \in {"host", "recover"} => errtop <= Len(stack)
            /\ run = "loop" => errtop <= call.top /\ call.top < Len(stack)

IInv == TypeOK /\ StackExact /\ MarkKept

Dead == {"exit", "abort", "wild"}

\* The stack and the frames as the activations that CallContract speaks of.
HostAct(ops) == [who |-> [kind |-> "host"], pc |-> 0, ops |-> ops]
Activation(k) ==
  LET top == k = Len(frames)
  IN [who |-> IF top THEN func ELSE frames[k + 1].func,
      pc  |-> IF top THEN pc ELSE frames[k + 1].ret_addr,
      ops |-> SubSeq(stack, frames[k].stack_top + 1,
                     IF top THEN Len(stack) ELSE frames[k + 1].stack_top)]
Live == Len(frames) - call.frame
Acts ==
  IF run \in Dead THEN <<>>
  ELSE IF run = "recover" THEN <<HostAct(SubSeq(stack, 1, errtop))>>
  ELSE IF run = "host" \/ Live = 0 THEN <<HostAct(stack)>>
  ELSE <<HostAct(SubSeq(stack, 1, call.top))>>
         \o [k \in 1 .. Live |-> Activation(call.frame + k)]

InstAt(f, q) == Code[f.prot][q + 1]

Contract == INSTANCE CallContract
              WITH acts <- Acts, mark <- errtop, Host <- [kind |-> "host"]

\* The shared stack and the frames behave as private operands of activations.
Implements == Contract!Spec

\* What core.c:1020 and 1118 assert: the frames suffice for calls that nest no
\* deeper than MAX_CALLS (whether they do is up to the programs of the run).
FramesSuffice == run # "abort"

\* An error that the host asked for comes back to it (su_seterror, main.c:104),
\* whoever raised it.
ErrorsComeBack == run # "wild"
=============================================================================
