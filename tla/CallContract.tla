---------------------------- MODULE CallContract ----------------------------
(***************************************************************************)
(* What calling a function promises, with no shared value stack and no     *)
(* frame records: every activation owns a private sequence of operands,    *)
(* and only the youngest one runs.  While it runs nobody touches the       *)
(* operands of the activations below it; when it returns, its caller goes  *)
(* on where it stopped, with the callee and its arguments replaced by one  *)
(* result; a tail call replaces the activation; an error leaves the host   *)
(* alone with the operands it had marked.  SaurusVM implements it.         *)
(***************************************************************************)
EXTENDS Naturals, Sequences

CONSTANTS Host,            \* the embedding program, the oldest activation
          Unset,           \* mark of a host that catches no error
          InstAt(_, _),    \* the instruction at a pc of a function: op, a
          IsFunction(_),   \* is the value a function of bytecode?
          Entry(_, _)      \* first operands of a function, given its arguments

VARIABLES acts,            \* the activations, oldest first: who, pc, ops
          mark             \* operands of the host that an error leaves in place

vars == <<acts, mark>>

Keep(s, n)   == SubSeq(s, 1, Len(s) - n)
Newest(s, n) == SubSeq(s, Len(s) - n + 1, Len(s))

Height   == Len(acts)
Top      == acts[Height]
Below    == Keep(acts, 1)
Op       == InstAt(Top.who, Top.pc)
Callee   == Top.ops[Len(Top.ops) - Op.a]
Args     == Newest(Top.ops, Op.a)
HostOnly == Height = 1
InCode   == Height > 1

Init == /\ acts = <<[who |-> Host, pc |-> 0, ops |-> <<>>]>>
        /\ mark = Unset

\* The youngest activation trades some of its newest operands for at most one
\* new operand: every instruction but those that enter or leave a function, a
\* native function being one such step.
Work == /\ Height > 0
        /\ InCode => Op.op \notin {"RETURN", "TCALL"}
        /\ Len(acts') = Height
        /\ Below' = Below
        /\ Top'.who = Top.who
        /\ \E n \in 0 .. Len(Top.ops) :
             /\ SubSeq(Top'.ops, 1, n) = SubSeq(Top.ops, 1, n)
             /\ Len(Top'.ops) <= n + 1
        /\ UNCHANGED mark

\* The host calls the function below its n newest operands, and hands it those.
HostCalls(n) ==
  /\ HostOnly
  /\ n < Len(Top.ops)
  /\ LET f == Top.ops[Len(Top.ops) - n]
     IN /\ IsFunction(f)
        /\ acts' = << [Top EXCEPT !.ops = Keep(Top.ops, n + 1)],
                      [who |-> f, pc |-> 0, ops |-> Newest(Top.ops, n + 1)] >>
  /\ UNCHANGED mark

\* A function calls another one.
Call == /\ InCode /\ Op.op = "CALL" /\ IsFunction(Callee)
        /\ acts' = Below \o << [Top EXCEPT !.ops = Keep(Top.ops, Op.a + 1),
                                           !.pc = Top.pc + 1],
                               [who |-> Callee, pc |-> 0,
                                ops |-> Entry(Callee, Args)] >>
        /\ UNCHANGED mark

\* A function hands its activation over to another one.
TailCall == /\ InCode /\ Op.op = "TCALL" /\ IsFunction(Callee)
            /\ acts' = Append(Below, [who |-> Callee, pc |-> 0,
                                      ops |-> Entry(Callee, Args)])
            /\ UNCHANGED mark

\* The youngest activation ends; its caller receives v.
Leave(v) == acts' = Append(Keep(acts, 2),
                           [acts[Height - 1] EXCEPT !.ops = Append(@, v)])

Return == /\ InCode /\ Op.op = "RETURN"
          /\ Leave(Top.ops[Len(Top.ops)])
          /\ UNCHANGED mark

\* A tail call of what is no bytecode function: its result is the caller's.
TailApply == /\ InCode /\ Op.op = "TCALL" /\ ~IsFunction(Callee)
             /\ Len(acts') = Height - 1
             /\ Leave(Top'.ops[Len(Top'.ops)])
             /\ UNCHANGED mark

\* The host asks for errors to come back to it, with its operands of now.
Mark == HostOnly /\ mark' = Len(Top.ops) /\ UNCHANGED acts

\* An error that the host catches, and what ends the process.
Fail == /\ mark # Unset
        /\ acts # <<>>
        /\ acts' = <<[acts[1] EXCEPT !.ops = SubSeq(@, 1, mark)]>>
        /\ UNCHANGED mark
Die  == acts' = <<>> /\ UNCHANGED mark

Next == \/ Work \/ (\E n \in 0 .. Len(Top.ops) : HostCalls(n)) \/ Call \/ TailCall
        \/ Return \/ TailApply \/ Mark \/ Fail \/ Die

Spec == Init /\ [][Next]_vars
=============================================================================
