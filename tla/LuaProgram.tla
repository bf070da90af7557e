----------------------------- MODULE LuaProgram -----------------------------
(***************************************************************************)
(* Lua programs, one statement (or operand) longer at each step: what the  *)
(* parser makes of the text, what the interpreter makes of that, and what  *)
(* the text means.                                                         *)
(***************************************************************************)
EXTENDS LuaLanguage, LuaDump

CONSTANTS
  Family,         \* names of ways to put a program together
  Pool(_),        \* the pieces that a family has
  Longest(_),     \* bound: how many pieces its programs have
  Text(_, _),     \* the statements that a sequence of pieces makes
  Arguments0,     \* what the host passes
  Instructions,   \* bound: instructions that a program may take
  Turns0          \* bound: calls and turns of loops that it may take

VARIABLES
  family, pieces,   \* the program
  main,             \* the FuncState that its parser leaves
  ended,            \* how the interpreter ends
  meant             \* how it ought to end
vars == <<family, pieces, main, ended, meant>>

Globals == [g \in {Name("emit"), Name("pcall")} |-> Native(g[2][1])]

Outcome(status, trace, results, confined) ==
  [status |-> status, trace |-> trace, results |-> SeenAll(results), confined |-> confined]
RunOf(m) ==
  Outcome(m.status, m.trace, IF m.status = "ended" THEN Slots(m, 0, m.top) ELSE <<>>, m.confined)
MeaningOf(r) ==
  Outcome(IF r.s.status = "run" THEN "ended" ELSE r.s.status, r.s.trace,
          IF r.s.status = "run" THEN r.vs ELSE <<>>, TRUE)

Aborted == Outcome("aborted", <<>>, <<>>, TRUE)    \* an assertion of the parser failed
Judge(stats) ==
  /\ main' = luaY_parser(stats)
  /\ ended' = IF main'.asserted
              THEN RunOf(Run(Started(Proto(main'), Arguments0, Globals), Instructions)) ELSE Aborted
  /\ meant' = MeaningOf(Meaning(stats, Arguments0, Globals, Turns0))

Empty == Outcome("ended", <<>>, <<>>, TRUE)
Init == /\ family \in Family
        /\ pieces = <<>>
        /\ main = luaY_parser(<<>>)
        /\ ended = Empty /\ meant = Empty

Write(piece) ==
  /\ Len(pieces) < Longest(family)
  /\ pieces' = Append(pieces, piece)
  /\ UNCHANGED family
  /\ Judge(Text(family, pieces'))

Next == \E piece \in Pool(family) : Write(piece)
Spec == Init /\ [][Next]_vars

-----------------------------------------------------------------------------
\* What a program shows the host, what it returns and whether it fails are what the
\* text means (lcode.c, lparser.c, lvm.c, ldo.c and lfunc.c together).
Agrees == meant.status = "long" \/ [ended EXCEPT !.confined = TRUE] = meant

\* No assertion of the parser or the code generator fails: registers are freed in the
\* opposite order of their reservation, blocks end with the locals alone in registers.
Asserted == main.asserted

\* A function that was dumped is the same when it is loaded again, whether or not with
\* what the debugger needs, and the code checker accepts it and all that are in it
\* (ldump.c, lundump.c, ldebug.c:375); a chunk that ends too early is refused.
Function0 == Described(Proto(main), <<"chunk">>)
Reloaded ==
  /\ luaU_undump(luaU_dump(Function0, FALSE)) = Function0
  /\ luaU_undump(luaU_dump(Function0, TRUE)) = Stripped(Function0)
  /\ Len(pieces) = 1 =>
       LET dumped == luaU_dump(Function0, TRUE)
       IN  \A n \in 0 .. Len(dumped) - 1 : luaU_undump(SubSeq(dumped, 1, n)) = Refused

\* No instruction writes past the registers that its function declares.
Confined == ended.confined
=============================================================================
