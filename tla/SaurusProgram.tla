---------------------------- MODULE SaurusProgram ----------------------------
(***************************************************************************)
(* A program on its way: the compiler makes a file of its text (entry()),  *)
(* the virtual machine loads the file, calls it with one argument and runs *)
(* it, one instruction at a time.  What comes of it is what the language   *)
(* says (SaurusLanguage), except for the programs that KnownToDiffer names.*)
(***************************************************************************)
EXTENDS SaurusCompiler

CONSTANTS
  Programs,    \* the bodies of the source files
  Library,     \* the globals of su_libinit
  Argument,    \* what the host passes
  Fuel,        \* bound: instructions that a program may take
  Calls        \* bound: calls that it may take

VARIABLES
  phase,       \* "source", "refused", "compiled", "running", "ended"
  body,        \* the text, read
  file,        \* what gen_sexp made of it
  machine      \* the interpreter

vars == <<phase, body, file, machine>>

Nothing == [status |-> "none"]

FileOf(f) == IF f.all.failed THEN Nothing ELSE f.prot

Init == /\ body \in Programs
        /\ phase = "source" /\ file = Nothing /\ machine = Nothing

\* entry(): read, gen_sexp, compile; a Lua error leaves no file to load.
Translate ==
  /\ phase = "source"
  /\ file' = FileOf(Compile(body, Library))
  /\ phase' = IF file' = Nothing THEN "refused" ELSE "compiled"
  /\ UNCHANGED <<body, machine>>

\* su_load() and su_call(), main.c:245-255.
LoadAndCall ==
  /\ phase = "compiled"
  /\ machine' = Start(CompileFunc(file), Argument, Library, Fuel)
  /\ phase' = "running"
  /\ UNCHANGED <<body, file>>

Turn ==
  /\ phase = "running"
  /\ machine' = Step(machine)
  /\ phase' = IF machine'.status = "run" THEN "running" ELSE "ended"
  /\ UNCHANGED <<body, file>>

Next == Translate \/ LoadAndCall \/ Turn
Spec == Init /\ [][Next]_vars

-----------------------------------------------------------------------------
\* The functions of a file.
RECURSIVE Within(_)
Within(p) == {p} \cup UNION {Within(p.prot[k]) : k \in DOMAIN p.prot}

\* Operands an instruction adds, and those it needs to be there.
Effect(i) == CASE i.op \in {"PUSH", "COPY", "LOAD", "LAMBDA", "GETGLOBAL"} -> 1
               [] i.op \in BinaryOps \cup {"TEST"}  -> -1
               [] i.op \in {"POP", "CALL", "TCALL"} -> -i.a
               [] OTHER                             -> 0
Needs(i) == CASE i.op \in BinaryOps -> 2
              [] i.op \in {"UNM", "NOT", "SETGLOBAL", "TEST", "RETURN"} -> 1
              [] i.op \in {"CALL", "TCALL"} -> i.a + 1
              [] i.op = "POP" -> i.a
              [] OTHER -> 0

\* Where the instruction k may lead to.
Successors(p, k) ==
  LET i == p.inst[k + 1]
  IN CASE i.op = "RETURN" -> {} [] i.op = "JMP" -> {i.a}
       [] i.op = "TEST" -> {k + 1, i.a} [] OTHER -> {k + 1}

\* SaurusVM!Balanced: every way to an instruction leaves the same operands in use,
\* and as many as it needs.  What the code of a function has pushed before an
\* instruction follows from the nearest one that leads there.
Depths(p) ==
  LET d[k \in 0 .. Len(p.inst) - 1] ==
        IF k = 0 THEN 0
        ELSE LET j == CHOOSE x \in 0 .. k - 1 : k \in Successors(p, x)
             IN d[j] + Effect(p.inst[j + 1])
  IN d
Reached(p) == \A k \in 1 .. Len(p.inst) - 1 : \E j \in 0 .. k - 1 : k \in Successors(p, j)
Even(p) ==
  /\ Reached(p)
  /\ \A k \in DOMAIN Depths(p) :
       /\ Depths(p)[k] >= Needs(p.inst[k + 1])
       /\ \A j \in Successors(p, k) :
            /\ j \in DOMAIN Depths(p)
            /\ Depths(p)[j] = Depths(p)[k] + Effect(p.inst[k + 1])

\* The symbols a text consists of.
RECURSIVE Atoms(_)
Atoms(e) == CASE e.type = "SYMBOL" -> {e.atom} [] e.type = "NUMBER" -> {}
              [] OTHER -> UNION {Atoms(e.data[k]) : k \in DOMAIN e.data}
Mentions(names) == \E k \in DOMAIN body : Atoms(body[k]) \cap names # {}

\* lambda() looks for a variable of the function around the next one in whatever
\* activation is that far up.
CapturesFar == \E p \in Within(file) : \E k \in DOMAIN p.up : p.up[k].lv > 1

\* A tail call that something follows in the text: gen_do() says so of its last
\* form wherever the do stands.
RECURSIVE LeadsToReturn(_, _)
LeadsToReturn(p, k) == CASE p.inst[k + 1].op = "RETURN" -> TRUE
                         [] p.inst[k + 1].op = "JMP" -> LeadsToReturn(p, p.inst[k + 1].a)
                         [] OTHER -> FALSE
CutsShort == \E p \in Within(file) : \E k \in DOMAIN p.inst :
               p.inst[k].op = "TCALL" /\ ~LeadsToReturn(p, k)

\* A macro's definition leaves no value for what follows to drop: the arguments
\* of the file are dropped instead, or returned.
DropsArguments == /\ \E k \in DOMAIN body : IsForm(body[k], "macro")
                  /\ \/ IsForm(Last(body), "macro")
                     \/ Mentions({"..."})
                     \/ Cardinality({k \in DOMAIN body : IsForm(body[k], "macro")}) > 4

\* true and false compile to strings; OP_OR always holds.
KnownToDiffer == \/ CapturesFar \/ CutsShort \/ DropsArguments
                 \/ Mentions({"true", "false", "or"})

Result == CASE machine.status = "done"  -> Seen(STK(machine, -1))
            [] machine.status = "error" -> Error
            [] machine.status = "long"  -> Endless
            [] OTHER                    -> Nothing

-----------------------------------------------------------------------------
\* The compiled program gives what the language says it gives: gen.lua, with the
\* jumps it patches, the numbers it gives to variables and upvalues and the places
\* where it says TCALL, undoes nothing that the instructions of vm_loop do.
Agrees == phase = "ended" /\ ~KnownToDiffer
            => Result = Meaning(body, Argument, Library, Calls)


\* core.c:126: assert(s->stack_top >= 0).
StackNeverBelowEmpty == phase = "ended" => machine.status # "abort"
=============================================================================
