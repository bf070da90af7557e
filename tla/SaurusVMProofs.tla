--------------------------- MODULE SaurusVMProofs ---------------------------
(***************************************************************************)
(* That the stack stays exact and the host's operands safe, for every      *)
(* program that uses the stack evenly and any sizes of the stack and the   *)
(* frames; and that the shared value stack and the frames behave as        *)
(* private operands of activations: SaurusVM implements CallContract.      *)
(*                                                                         *)
(* The one step that does not is su_call() of a native with nret = 1,      *)
(* which leaves a value too many (see HostCallNative): the host is taken   *)
(* to call natives for their effect only.                                  *)
(***************************************************************************)
EXTENDS SaurusVM, SequenceTheorems, WellFoundedInduction, NaturalsInduction, TLAPS

USE SizesAssumption
-----------------------------------------------------------------------------
(***************************************************************************)
(* Sequences.                                                              *)
(***************************************************************************)

LEMMA OwnRange ==
  ASSUME NEW S, NEW s \in Seq(S)
  PROVE  ASequence(s)
  <1>1. /\ Len(s) \in Nat
        /\ s \in [1 .. Len(s) -> S]
    BY LenProperties
  <1>2. s \in [1 .. Len(s) -> Range(s)]
    BY <1>1 DEF Range
  <1> QED
    BY <1>1, <1>2, SeqDef DEF ASequence

\* What SubSeq leaves of a stack or of the frames.
LEMMA Cut ==
  ASSUME NEW s, ASequence(s), NEW m \in Nat, NEW n \in Nat, m >= 1, n <= Len(s)
  PROVE  /\ ASequence(SubSeq(s, m, n))
         /\ Len(SubSeq(s, m, n)) = IF m <= n THEN n - m + 1 ELSE 0
         /\ \A i \in 1 .. n - m + 1 : SubSeq(s, m, n)[i] = s[m + i - 1]
  <1>1. Len(s) \in Nat /\ \A i \in 1 .. Len(s) : s[i] \in Range(s)
    BY LenProperties, ElementOfSeq DEF ASequence
  <1>2. \A i \in m .. n : s[i] \in Range(s)
    BY <1>1
  <1>3. /\ SubSeq(s, m, n) \in Seq(Range(s))
        /\ Len(SubSeq(s, m, n)) = IF m <= n THEN n - m + 1 ELSE 0
        /\ \A i \in 1 .. n - m + 1 : SubSeq(s, m, n)[i] = s[m + i - 1]
    BY <1>2, SubSeqProperties
  <1> QED
    BY <1>3, OwnRange

LEMMA KeepLength ==
  ASSUME NEW s, ASequence(s), NEW n \in Nat, n <= Len(s)
  PROVE  /\ ASequence(Keep(s, n))
         /\ Len(Keep(s, n)) = Len(s) - n
         /\ \A i \in 1 .. Len(s) - n : Keep(s, n)[i] = s[i]
  <1>1. Len(s) \in Nat
    BY LenProperties DEF ASequence
  <1> QED
    BY <1>1, Cut DEF Keep

LEMMA NewestLength ==
  ASSUME NEW s, ASequence(s), NEW n \in Nat, n <= Len(s)
  PROVE  ASequence(Newest(s, n)) /\ Len(Newest(s, n)) = n
  <1>1. Len(s) \in Nat
    BY LenProperties DEF ASequence
  <1> QED
    BY <1>1, Cut DEF Newest

LEMMA PushLength ==
  ASSUME NEW s, ASequence(s), NEW v
  PROVE  /\ ASequence(Append(s, v))
         /\ Len(Append(s, v)) = Len(s) + 1
         /\ \A i \in 1 .. Len(s) : Append(s, v)[i] = s[i]
         /\ Append(s, v)[Len(s) + 1] = v
  <1> DEFINE S == Range(s) \cup {v}
  <1>1. s \in Seq(S) /\ v \in S
    BY SeqMonotonic DEF ASequence
  <1> HIDE DEF S
  <1>2. /\ Append(s, v) \in Seq(S)
        /\ Len(Append(s, v)) = Len(s) + 1
        /\ \A i \in 1 .. Len(s) : Append(s, v)[i] = s[i]
        /\ Append(s, v)[Len(s) + 1] = v
    BY <1>1, AppendProperties
  <1> QED
    BY <1>2, OwnRange

LEMMA JoinLength ==
  ASSUME NEW s, ASequence(s), NEW t, ASequence(t)
  PROVE  ASequence(s \o t) /\ Len(s \o t) = Len(s) + Len(t)
  <1> DEFINE S == Range(s) \cup Range(t)
  <1>1. s \in Seq(S) /\ t \in Seq(S)
    BY SeqMonotonic DEF ASequence
  <1> HIDE DEF S
  <1>2. s \o t \in Seq(S) /\ Len(s \o t) = Len(s) + Len(t)
    BY <1>1, ConcatProperties
  <1> QED
    BY <1>2, OwnRange
-----------------------------------------------------------------------------
(***************************************************************************)
(* Bytecode.                                                               *)
(***************************************************************************)

LEMMA Sizes ==
  ASSUME NEW p \in Protos
  PROVE  /\ Len(Code[p]) \in 1 .. EXIT
         /\ Arity[p] \in Int
         /\ Len(Ups[p]) \in Nat
         /\ Slots(p) \in Nat
         /\ p \in Chunks => Slots(p) = 1 /\ Arity[p] = -1
         /\ ReachedWith(p, 0, 0)
         /\ \A q \in PcOf(p) : Depth[p][q] \in Nat /\ Extent(p, q) \in Nat \ {0}
  <1>1. /\ Len(Code[p]) \in 1 .. EXIT
        /\ Arity[p] \in Int
        /\ Len(Ups[p]) \in Nat
        /\ p \in Chunks => Slots(p) = 1 /\ Arity[p] = -1
        /\ \A q \in PcOf(p) : Depth[p][q] \in Nat
    BY CodeAssumption
  <1>2. ReachedWith(p, 0, 0)
    BY CodeAssumption DEF Balanced
  <1>3. Slots(p) \in Nat
    BY <1>1 DEF Slots
  <1> QED
    BY <1>1, <1>2, <1>3 DEF Extent

\* An instruction finds its operands and leads to instructions that find theirs.
LEMMA EvenUse ==
  ASSUME NEW p \in Protos, NEW q \in PcOf(p), NEW i, i = Code[p][q + 1],
         NEW d, d = Depth[p][q]
  PROVE  /\ i.op \in Ops
         /\ i.op # "LAMBDA" => i.a \in Nat
         /\ i.op \in {"GETGLOBAL", "SETGLOBAL"} => i.name \in Names
         /\ i.op \in PushOps   => ReachedWith(p, q + 1, d + 1)
         /\ i.op \in UnaryOps  => d >= 1 /\ ReachedWith(p, q + 1, d)
         /\ i.op \in BinaryOps => d >= 2 /\ ReachedWith(p, q + 1, d - 1)
         /\ i.op = "POP"       => d >= i.a /\ ReachedWith(p, q + 1, d - i.a)
         /\ i.op = "TEST"      => /\ d >= 1
                                  /\ ReachedWith(p, q + 1, d - 1)
                                  /\ ReachedWith(p, i.a, d - 1)
         /\ i.op = "JMP"       => ReachedWith(p, i.a, d)
         /\ i.op = "CALL"      => d > i.a /\ ReachedWith(p, q + 1, d - i.a)
         /\ i.op = "TCALL"     => d > i.a
         /\ i.op = "RETURN"    => d >= 1
  <1>1. /\ i.op \in Ops
        /\ i.op # "LAMBDA" => i.a \in Nat
        /\ i.op \in {"GETGLOBAL", "SETGLOBAL"} => i.name \in Names
    BY CodeAssumption
  <1>2. Balanced(p)
    BY CodeAssumption
  <1> QED
    BY <1>1, <1>2 DEF Balanced
-----------------------------------------------------------------------------
(***************************************************************************)
(* Chains of activations.                                                  *)
(***************************************************************************)

\* The youngest activation of a chain.
LEMMA ChainTop ==
  ASSUME NEW c, c.frame \in Nat, c.top \in Nat,
         NEW frs, ASequence(frs), FramesTyped(frs),
         NEW f, NEW q, NEW lim \in Int, Chain(c, frs, f, q, lim)
  PROVE  /\ f.prot \in Protos /\ IsFunction(f)
         /\ q \in Nat
         /\ lim >= c.top
         /\ Len(frs) \in Nat /\ c.frame <= Len(frs)
         /\ Len(frs) = c.frame => q = EXIT /\ lim = c.top
         /\ Len(frs) > c.frame =>
              /\ q \in PcOf(f.prot)
              /\ frs[Len(frs)].stack_top \in Nat
              /\ frs[Len(frs)].ret_addr \in Nat
              /\ frs[Len(frs)].stack_top >= c.top
              /\ lim + 1 = frs[Len(frs)].stack_top + Extent(f.prot, q)
  <1>1. /\ Len(frs) \in Nat /\ c.frame <= Len(frs)
        /\ f.prot \in Protos /\ IsFunction(f)
        /\ Len(frs) = c.frame => q = EXIT /\ lim = c.top
    BY LenProperties DEF ASequence, Chain, IsFunction
  <1>2. CASE Len(frs) = c.frame
    BY <1>1, <1>2 DEF EXIT
  <1>3. CASE Len(frs) > c.frame
    <2>1. Len(frs) \in c.frame + 1 .. Len(frs) /\ Len(frs) \in 1 .. Len(frs)
      BY <1>1, <1>3
    <2>2. /\ q \in PcOf(f.prot)
          /\ frs[Len(frs)].stack_top >= c.top
          /\ lim + 1 = frs[Len(frs)].stack_top + Extent(f.prot, q)
      BY <2>1 DEF Chain
    <2>3. frs[Len(frs)].stack_top \in Nat /\ frs[Len(frs)].ret_addr \in Nat
      BY <2>1 DEF FramesTyped
    <2>4. Extent(f.prot, q) \in Nat \ {0}
      BY <1>1, <2>2, Sizes
    <2>5. q \in Nat
      BY <1>1, <2>2, Sizes DEF PcOf
    <2> QED
      BY <1>1, <1>3, <2>2, <2>3, <2>4, <2>5
  <1> QED
    BY <1>1, <1>2, <1>3

\* The youngest activation goes on elsewhere, with as many operands as it should.
LEMMA ChainGoto ==
  ASSUME NEW c, c.frame \in Nat,
         NEW frs, ASequence(frs), Len(frs) > c.frame,
         NEW f, NEW q, NEW lim \in Int, Chain(c, frs, f, q, lim),
         NEW r \in PcOf(f.prot), NEW l \in Int,
         l + 1 = frs[Len(frs)].stack_top + Extent(f.prot, r)
  PROVE  Chain(c, frs, f, r, l)
  <1>1. Len(frs) \in Nat
    BY LenProperties DEF ASequence
  <1> QED
    BY <1>1 DEF Chain

\* A call.
LEMMA ChainPush ==
  ASSUME NEW c, c.frame \in Nat, c.top \in Nat,
         NEW frs, ASequence(frs), FramesTyped(frs),
         NEW f, NEW q, NEW lim \in Int, Chain(c, frs, f, q, lim),
         NEW g, IsFunction(g),
         NEW l, l = lim + Slots(g.prot),
         NEW fr, fr = [func |-> f, stack_top |-> lim, ret_addr |-> q]
  PROVE  /\ Chain(c, Append(frs, fr), g, 0, l)
         /\ FramesTyped(Append(frs, fr))
  <1> DEFINE new == Append(frs, fr)
  <1>1. /\ f.prot \in Protos /\ IsFunction(f) /\ q \in Nat /\ lim \in Nat /\ lim >= c.top
        /\ Len(frs) \in Nat /\ c.frame <= Len(frs)
        /\ Len(frs) = c.frame => q = EXIT /\ lim = c.top
    BY ChainTop
  <1>2. /\ Len(new) = Len(frs) + 1
        /\ \A i \in 1 .. Len(frs) : new[i] = frs[i]
        /\ new[Len(frs) + 1] = fr
    BY PushLength
  <1>3. fr.func = f /\ fr.stack_top = lim /\ fr.ret_addr = q
    OBVIOUS
  <1>4. /\ g.prot \in Protos
        /\ 0 \in PcOf(g.prot)
        /\ l + 1 = lim + Extent(g.prot, 0)
    <2>1. g.prot \in Protos
      BY DEF IsFunction
    <2>2. 0 \in PcOf(g.prot) /\ Depth[g.prot][0] = 0 /\ Slots(g.prot) \in Nat
      BY <2>1, Sizes DEF ReachedWith
    <2> QED
      BY <1>1, <2>1, <2>2 DEF Extent
  <1> HIDE DEF new
  <1>5. FramesTyped(new)
    BY SMTT(60), <1>1, <1>2, <1>3 DEF FramesTyped
  <1>6. /\ new[c.frame + 1].stack_top = c.top
        /\ new[c.frame + 1].ret_addr = EXIT
    <2>1. CASE Len(frs) = c.frame
      BY <1>1, <1>2, <1>3, <2>1
    <2>2. CASE Len(frs) > c.frame
      <3>1. c.frame + 1 \in 1 .. Len(frs)
        BY <1>1, <2>2
      <3> QED
        BY <1>2, <2>2, <3>1 DEF Chain
    <2> QED
      BY <1>1, <2>1, <2>2
  <1>7. ASSUME NEW k \in c.frame + 1 .. Len(new)
        PROVE  LET top     == k = Len(new)
                   running == IF top THEN g ELSE new[k + 1].func
                   place   == IF top THEN 0 ELSE new[k + 1].ret_addr
                   limit   == IF top THEN l ELSE new[k + 1].stack_top
               IN /\ IsFunction(new[k].func)
                  /\ new[k].stack_top >= c.top
                  /\ place \in PcOf(running.prot)
                  /\ limit + 1 = new[k].stack_top + Extent(running.prot, place)
    <2>1. CASE k = Len(new)
      BY <1>1, <1>2, <1>3, <1>4, <2>1
    <2>2. CASE k = Len(frs)
      <3>1. new[k] = frs[k] /\ new[k + 1] = fr /\ k # Len(new)
        BY <1>1, <1>2, <2>2
      <3>2. /\ IsFunction(frs[k].func)
            /\ frs[k].stack_top >= c.top
            /\ q \in PcOf(f.prot)
            /\ lim + 1 = frs[k].stack_top + Extent(f.prot, q)
        BY <1>1, <2>2 DEF Chain
      <3> QED
        BY <1>3, <3>1, <3>2
    <2>3. CASE k < Len(frs)
      <3>1. new[k] = frs[k] /\ new[k + 1] = frs[k + 1] /\ k # Len(new) /\ k # Len(frs)
        BY SMTT(60), <1>1, <1>2, <2>3
      <3>2. k \in c.frame + 1 .. Len(frs)
        BY <1>1, <2>3
      <3> QED
        BY <3>1, <3>2 DEF Chain
    <2> QED
      BY <1>1, <1>2, <2>1, <2>2, <2>3
  <1>8. Chain(c, new, g, 0, l)
    BY <1>1, <1>2, <1>6, <1>7 DEF Chain
  <1> QED
    BY <1>5, <1>8 DEF new

\* A return.
LEMMA ChainPop ==
  ASSUME NEW c, c.frame \in Nat, c.top \in Nat,
         NEW frs, ASequence(frs), FramesTyped(frs), Len(frs) > c.frame,
         NEW f, NEW q, NEW lim \in Int, Chain(c, frs, f, q, lim),
         NEW fr, fr = frs[Len(frs)]
  PROVE  /\ Chain(c, Keep(frs, 1), fr.func, fr.ret_addr, fr.stack_top)
         /\ ASequence(Keep(frs, 1))
         /\ Len(Keep(frs, 1)) = Len(frs) - 1
         /\ FramesTyped(Keep(frs, 1))
  <1> DEFINE old == Keep(frs, 1)
  <1>1. Len(frs) \in Nat /\ Len(frs) \in c.frame + 1 .. Len(frs) /\ 1 <= Len(frs)
    BY LenProperties DEF ASequence
  <1>2. /\ ASequence(old) /\ Len(old) = Len(frs) - 1
        /\ \A i \in 1 .. Len(frs) - 1 : old[i] = frs[i]
    <2>1. 1 \in Nat
      OBVIOUS
    <2> QED
      BY <1>1, <2>1, KeepLength, Zenon
  <1> HIDE DEF old
  <1>3. FramesTyped(old)
    BY <1>1, <1>2 DEF FramesTyped
  <1>4. IsFunction(fr.func)
    BY <1>1 DEF Chain
  <1>5. CASE Len(old) = c.frame
    <2>1. Len(frs) = c.frame + 1
      BY <1>1, <1>2, <1>5
    <2>2. fr.ret_addr = EXIT /\ fr.stack_top = c.top
      BY <2>1 DEF Chain
    <2> QED
      BY <1>1, <1>2, <1>3, <1>4, <1>5, <2>2 DEF Chain, old
  <1>6. CASE Len(old) > c.frame
    <2>1. /\ old[c.frame + 1].stack_top = c.top
          /\ old[c.frame + 1].ret_addr = EXIT
      BY <1>1, <1>2, <1>6 DEF Chain
    <2>2. ASSUME NEW k \in c.frame + 1 .. Len(old)
          PROVE  LET top     == k = Len(old)
                     running == IF top THEN fr.func ELSE old[k + 1].func
                     place   == IF top THEN fr.ret_addr ELSE old[k + 1].ret_addr
                     limit   == IF top THEN fr.stack_top ELSE old[k + 1].stack_top
                 IN /\ IsFunction(old[k].func)
                    /\ old[k].stack_top >= c.top
                    /\ place \in PcOf(running.prot)
                    /\ limit + 1 = old[k].stack_top + Extent(running.prot, place)
      <3>1. k \in c.frame + 1 .. Len(frs) /\ k # Len(frs) /\ old[k] = frs[k]
        BY <1>1, <1>2
      <3>2. /\ IsFunction(frs[k].func)
            /\ frs[k].stack_top >= c.top
            /\ frs[k + 1].ret_addr \in PcOf(frs[k + 1].func.prot)
            /\ frs[k + 1].stack_top + 1
                 = frs[k].stack_top + Extent(frs[k + 1].func.prot, frs[k + 1].ret_addr)
        BY <3>1 DEF Chain
      <3>3. CASE k = Len(old)
        <4>1. frs[k + 1] = fr
          BY <1>1, <1>2, <3>3
        <4> QED
          BY <3>1, <3>2, <3>3, <4>1
      <3>4. CASE k # Len(old)
        <4>1. old[k + 1] = frs[k + 1]
          BY <1>1, <1>2, <3>4
        <4> QED
          BY <3>1, <3>2, <3>4, <4>1
      <3> QED
        BY <3>3, <3>4
    <2>3. Chain(c, old, fr.func, fr.ret_addr, fr.stack_top)
      BY <1>2, <1>4, <1>6, <2>1, <2>2 DEF Chain
    <2> QED
      BY <1>2, <1>3, <2>3 DEF old
  <1> QED
    BY <1>1, <1>2, <1>5, <1>6
-----------------------------------------------------------------------------
(***************************************************************************)
(* Where an instruction finds the machine, and how it may leave it.        *)
(***************************************************************************)

\* At an instruction some activation runs, and the stack ends with its operands.
LEMMA Here ==
  ASSUME IInv, NEW op, At(op)
  PROVE  /\ run = "loop" /\ Inst.op = op
         /\ func.prot \in Protos /\ pc \in PcOf(func.prot)
         /\ Depth[func.prot][pc] \in Nat
         /\ Len(frames) \in Nat /\ Len(frames) > call.frame
         /\ FRAME.stack_top \in Nat /\ FRAME.stack_top >= call.top
         /\ Slots(func.prot) \in Nat
         /\ Len(stack) \in Nat
         /\ Len(stack) = FRAME.stack_top + 1 + Slots(func.prot) + Depth[func.prot][pc]
  <1>1. /\ run = "loop" /\ Inst.op = op /\ pc < Len(Code[func.prot])
        /\ Chain(call, frames, func, pc, Len(stack) - 1)
        /\ ASequence(stack) /\ ASequence(frames) /\ FramesTyped(frames)
        /\ call.frame \in Nat /\ call.top \in Nat /\ pc \in Nat
    BY DEF At, IInv, TypeOK, StackExact
  <1>2. Len(stack) \in Nat /\ Len(stack) - 1 \in Int
    BY <1>1, LenProperties DEF ASequence
  <1>3. /\ func.prot \in Protos
        /\ Len(frames) \in Nat /\ call.frame <= Len(frames)
        /\ Len(frames) = call.frame => pc = EXIT
        /\ Len(frames) > call.frame =>
             /\ pc \in PcOf(func.prot)
             /\ FRAME.stack_top \in Nat
             /\ FRAME.stack_top >= call.top
             /\ Len(stack) - 1 + 1 = FRAME.stack_top + Extent(func.prot, pc)
    BY <1>1, <1>2, ChainTop DEF FRAME
  <1>4. Len(frames) > call.frame
    BY <1>1, <1>3, Sizes
  <1>5. Slots(func.prot) \in Nat /\ Depth[func.prot][pc] \in Nat
    BY <1>3, <1>4, Sizes
  <1>6. Extent(func.prot, pc) = 1 + Slots(func.prot) + Depth[func.prot][pc]
    BY DEF Extent
  <1>7. Len(stack) = FRAME.stack_top + 1 + Slots(func.prot) + Depth[func.prot][pc]
    <2>1. /\ FRAME.stack_top \in Nat
          /\ Len(stack) - 1 + 1 = FRAME.stack_top + Extent(func.prot, pc)
      BY <1>3, <1>4
    <2>2. Len(stack) = FRAME.stack_top + (1 + Slots(func.prot) + Depth[func.prot][pc])
      BY <1>2, <1>6, <2>1
    <2> QED
      BY SMTT(60), <1>5, <2>1, <2>2
  <1> QED
    BY <1>1, <1>2, <1>3, <1>4, <1>5, <1>7

\* An error, or the end of the process, wherever it is raised.
LEMMA StopStep ==
  ASSUME IInv, run = "loop", RaiseHere \/ Die("abort") \/ Die("wild")
  PROVE  IInv'
  <1>1. /\ run' \in {"recover", "exit", "abort", "wild"}
        /\ UNCHANGED <<stack, frames, pc, func, narg, errtop, globals, call>>
    BY DEF RaiseHere, Die, Raise
  <1>2. TypeOK'
    BY <1>1 DEF IInv, TypeOK, ASequence, FramesTyped, Range
  <1>3. errtop <= Len(stack)
    <2>1. errtop <= call.top /\ call.top < Len(stack)
      BY DEF IInv, MarkKept
    <2>2. Len(stack) \in Nat /\ call.top \in Nat /\ errtop \in Int
      BY LenProperties DEF IInv, TypeOK, ASequence, Unset
    <2> QED
      BY <2>1, <2>2
  <1> QED
    BY <1>1, <1>2, <1>3 DEF IInv, StackExact, MarkKept

\* An instruction that leaves the number of operands its successor expects.
LEMMA GotoStep ==
  ASSUME IInv, NEW op, At(op),
         NEW STATE s, NEW STATE target, NEW STATE d,
         ASequence(s), Len(s) <= STACK_SIZE,
         ReachedWith(func.prot, target, d), d \in Nat,
         Len(s) = FRAME.stack_top + 1 + Slots(func.prot) + d,
         stack' = s, pc' = target, DOMAIN globals' = Names,
         UNCHANGED <<run, frames, func, narg, errtop, call>>
  PROVE  IInv'
  <1>1. /\ run = "loop"
        /\ func.prot \in Protos
        /\ Len(frames) \in Nat /\ Len(frames) > call.frame
        /\ FRAME.stack_top \in Nat /\ FRAME.stack_top >= call.top
        /\ Slots(func.prot) \in Nat
    BY Here
  <1>2. /\ Chain(call, frames, func, pc, Len(stack) - 1)
        /\ ASequence(stack) /\ ASequence(frames) /\ call.frame \in Nat /\ call.top \in Nat
        /\ errtop <= call.top
    BY <1>1 DEF IInv, TypeOK, StackExact, MarkKept
  <1>3. Len(stack) - 1 \in Int /\ Len(s) \in Nat
    BY <1>2, LenProperties DEF ASequence
  <1>4. target \in PcOf(func.prot) /\ target \in Nat
    BY <1>1, Sizes DEF ReachedWith, PcOf
  <1>5. Len(s) - 1 + 1 = frames[Len(frames)].stack_top + Extent(func.prot, target)
    BY <1>1, <1>3 DEF Extent, FRAME, ReachedWith
  <1>6. Chain(call, frames, func, target, Len(s) - 1)
    <2> DEFINE lim == Len(stack) - 1
               l   == Len(s) - 1
    <2>1. lim \in Int /\ l \in Int /\ Chain(call, frames, func, pc, lim)
      BY <1>2, <1>3
    <2>2. l + 1 = frames[Len(frames)].stack_top + Extent(func.prot, target)
      BY <1>5
    <2> HIDE DEF lim, l
    <2>3. Chain(call, frames, func, target, l)
      BY <1>1, <1>2, <1>4, <2>1, <2>2, ChainGoto
    <2> QED
      BY <2>3 DEF l
  <1>7. TypeOK'
    BY <1>4 DEF IInv, TypeOK, ASequence, FramesTyped, Range
  <1>8. StackExact'
    BY <1>6 DEF StackExact
  <1>9. call.top < Len(s)
    BY <1>1, <1>2, <1>3
  <1>10. MarkKept'
    BY <1>1, <1>2, <1>9 DEF MarkKept
  <1> QED
    BY <1>7, <1>8, <1>10 DEF IInv

\* Most instructions replace some operands by one.
LEMMA ReplaceStep ==
  ASSUME IInv, NEW op, At(op),
         NEW n \in Nat, NEW STATE v, n <= Depth[func.prot][pc],
         n > 0 \/ Len(stack) < STACK_SIZE,
         ReachedWith(func.prot, pc + 1, Depth[func.prot][pc] - n + 1),
         Replace(n, v)
  PROVE  IInv'
  <1>1. /\ func.prot \in Protos /\ pc \in PcOf(func.prot)
        /\ Depth[func.prot][pc] \in Nat /\ FRAME.stack_top \in Nat
        /\ Slots(func.prot) \in Nat /\ Len(stack) \in Nat
        /\ Len(stack) = FRAME.stack_top + 1 + Slots(func.prot) + Depth[func.prot][pc]
    BY Here
  <1>2. ASequence(stack) /\ Len(stack) <= STACK_SIZE /\ DOMAIN globals = Names
    BY DEF IInv, TypeOK
  <1>3. n <= Len(stack)
    BY <1>1
  <1>8. ASequence(Keep(stack, n)) /\ Len(Keep(stack, n)) = Len(stack) - n
    BY <1>2, <1>3, KeepLength
  <1> DEFINE s == Append(Keep(stack, n), v)
  <1>4. ASequence(s) /\ Len(s) = Len(stack) - n + 1
    BY <1>8, PushLength
  <1>5. /\ stack' = s /\ pc' = pc + 1 /\ DOMAIN globals' = Names
        /\ UNCHANGED <<run, frames, func, narg, errtop, call>>
    BY <1>2 DEF Replace, Goto
  <1> HIDE DEF s
  <1> DEFINE d == Depth[func.prot][pc] - n + 1
  <1>6. /\ Len(s) <= STACK_SIZE /\ d \in Nat
        /\ Len(s) = FRAME.stack_top + 1 + Slots(func.prot) + d
    <2>1. Len(s) <= STACK_SIZE
      BY SMTT(60), <1>1, <1>2, <1>4
    <2>2. d \in Nat
      BY SMTT(60), <1>1
    <2>3. Len(s) = FRAME.stack_top + 1 + Slots(func.prot) + d
      BY SMTT(60), <1>1, <1>4
    <2> QED
      BY <2>1, <2>2, <2>3
  <1>7. ReachedWith(func.prot, pc + 1, d)
    OBVIOUS
  <1> HIDE DEF d
  <1> QED
    BY <1>4, <1>5, <1>6, <1>7, GotoStep

\* push_value(), by an instruction that pushes.
LEMMA PushStep ==
  ASSUME IInv, NEW op \in PushOps, At(op), NEW STATE v, PushValue(v)
  PROVE  IInv'
  <1>1. /\ run = "loop" /\ Inst.op = op
        /\ func.prot \in Protos /\ pc \in PcOf(func.prot)
        /\ Depth[func.prot][pc] \in Nat
    BY Here
  <1>2. ReachedWith(func.prot, pc + 1, Depth[func.prot][pc] + 1)
    BY <1>1, EvenUse DEF Inst
  <1>3. CASE Len(stack) < STACK_SIZE
    <2>1. Replace(0, v) /\ Depth[func.prot][pc] - 0 + 1 = Depth[func.prot][pc] + 1
      BY <1>1, <1>3 DEF PushValue
    <2> QED
      BY <1>1, <1>2, <1>3, <2>1, ReplaceStep
  <1>4. CASE ~(Len(stack) < STACK_SIZE)
    <2>1. RaiseHere
      BY <1>4 DEF PushValue
    <2> QED
      BY <1>1, <2>1, StopStep
  <1> QED
    BY <1>3, <1>4
-----------------------------------------------------------------------------
(***************************************************************************)
(* The instructions that stay inside their activation.                     *)
(***************************************************************************)

LEMMA UnaryStep ==
  ASSUME IInv, NEW op \in UnaryOps, At(op), NEW STATE v, Replace(1, v)
  PROVE  IInv'
  <1>1. /\ Inst.op = op /\ func.prot \in Protos /\ pc \in PcOf(func.prot)
        /\ Depth[func.prot][pc] \in Nat
    BY Here
  <1>2. /\ Depth[func.prot][pc] >= 1
        /\ ReachedWith(func.prot, pc + 1, Depth[func.prot][pc])
    BY <1>1, EvenUse DEF Inst
  <1>3. Depth[func.prot][pc] - 1 + 1 = Depth[func.prot][pc]
    BY <1>1
  <1> QED
    BY <1>1, <1>2, <1>3, ReplaceStep

LEMMA BinaryStep ==
  ASSUME IInv, NEW op \in BinaryOps, At(op), NEW STATE v, Replace(2, v)
  PROVE  IInv'
  <1>1. /\ Inst.op = op /\ func.prot \in Protos /\ pc \in PcOf(func.prot)
        /\ Depth[func.prot][pc] \in Nat
    BY Here
  <1>2. /\ Depth[func.prot][pc] >= 2
        /\ ReachedWith(func.prot, pc + 1, Depth[func.prot][pc] - 1)
    BY <1>1, EvenUse DEF Inst
  <1>3. Depth[func.prot][pc] - 2 + 1 = Depth[func.prot][pc] - 1
    BY <1>1
  <1> QED
    BY <1>1, <1>2, <1>3, ReplaceStep

\* An instruction that moves on with n operands fewer and changes no global.
LEMMA DropStep ==
  ASSUME IInv, NEW op, At(op), NEW n \in Nat, NEW STATE target,
         n <= Depth[func.prot][pc],
         ReachedWith(func.prot, target, Depth[func.prot][pc] - n),
         Goto(Keep(stack, n), target)
  PROVE  IInv'
  <1>1. /\ Depth[func.prot][pc] \in Nat /\ FRAME.stack_top \in Nat
        /\ Slots(func.prot) \in Nat /\ Len(stack) \in Nat
        /\ Len(stack) = FRAME.stack_top + 1 + Slots(func.prot) + Depth[func.prot][pc]
    BY Here
  <1>2. /\ ASequence(stack) /\ Len(stack) <= STACK_SIZE
        /\ DOMAIN globals = Names
    BY DEF IInv, TypeOK
  <1>3. n <= Len(stack)
    BY <1>1
  <1> DEFINE s == Keep(stack, n)
             d == Depth[func.prot][pc] - n
  <1>4. ASequence(s) /\ Len(s) = Len(stack) - n
    BY <1>2, <1>3, KeepLength
  <1>5. /\ stack' = s /\ pc' = target /\ DOMAIN globals' = Names
        /\ UNCHANGED <<run, frames, func, narg, errtop, call>>
    BY <1>2 DEF Goto
  <1>6. d \in Nat /\ ReachedWith(func.prot, target, d)
    BY <1>1
  <1> HIDE DEF s
  <1>7. /\ Len(s) <= STACK_SIZE
        /\ Len(s) = FRAME.stack_top + 1 + Slots(func.prot) + d
    BY SMTT(60), <1>1, <1>2, <1>4
  <1> HIDE DEF d
  <1> QED
    BY <1>4, <1>5, <1>6, <1>7, GotoStep

LEMMA ComputeStep == IInv /\ Compute => IInv'
  <1> SUFFICES ASSUME IInv, Compute PROVE IInv'
    OBVIOUS
  <1>0. /\ "PUSH" \in PushOps /\ "LOAD" \in PushOps /\ "COPY" \in PushOps
        /\ "LAMBDA" \in PushOps /\ "GETGLOBAL" \in PushOps
        /\ "UNM" \in UnaryOps /\ "NOT" \in UnaryOps /\ "SETGLOBAL" \in UnaryOps
        /\ "EQ" \in BinaryOps /\ "AND" \in BinaryOps /\ "OR" \in BinaryOps
        /\ ArithOps \subseteq BinaryOps /\ CompareOps \subseteq BinaryOps
    BY DEF PushOps, UnaryOps, BinaryOps
  <1>a. ASSUME NEW op, At(op)
        PROVE  /\ Inst.op = op /\ run = "loop"
               /\ func.prot \in Protos /\ pc \in PcOf(func.prot)
               /\ Depth[func.prot][pc] \in Nat
               /\ Inst = Code[func.prot][pc + 1]
    BY <1>a, Here DEF Inst
  <1>1. CASE OpPush
    BY <1>0, <1>1, PushStep DEF OpPush
  <1>2. CASE OpPop
    <2>1. At("POP") /\ Goto(Keep(stack, Inst.a), pc + 1)
      BY <1>2 DEF OpPop
    <2>2. /\ Inst.op = "POP" /\ func.prot \in Protos /\ pc \in PcOf(func.prot)
          /\ Inst = Code[func.prot][pc + 1]
      BY <1>a, <2>1
    <2>3. /\ Inst.a \in Nat /\ Depth[func.prot][pc] >= Inst.a
          /\ ReachedWith(func.prot, pc + 1, Depth[func.prot][pc] - Inst.a)
      BY <2>2, EvenUse
    <2> DEFINE n == Inst.a
    <2>4. /\ n \in Nat /\ n <= Depth[func.prot][pc] /\ Goto(Keep(stack, n), pc + 1)
          /\ ReachedWith(func.prot, pc + 1, Depth[func.prot][pc] - n)
      BY <1>a, <2>1, <2>3
    <2> HIDE DEF n
    <2> QED
      BY <2>1, <2>4, DropStep
  <1>3. CASE OpLoad
    BY <1>0, <1>3, PushStep DEF OpLoad
  <1>4. CASE OpCopy
    <2>1. CASE Len(stack) < STACK_SIZE
      BY <1>0, <1>4, <2>1, PushStep DEF OpCopy, PushValue
    <2>2. CASE ~(Len(stack) < STACK_SIZE)
      BY <1>4, <1>a, <2>2, StopStep DEF OpCopy
    <2> QED
      BY <2>1, <2>2
  <1>5. CASE OpArith
    <2>1. PICK op \in ArithOps : At(op)
      BY <1>5 DEF OpArith
    <2>2. Replace(2, Number) \/ RaiseHere
      BY <1>5 DEF OpArith
    <2> QED
      BY <1>0, <1>a, <2>1, <2>2, BinaryStep, StopStep
  <1>6. CASE OpModByZero
    BY <1>6, <1>a, StopStep DEF OpModByZero
  <1>7. CASE OpMinus
    <2>1. At("UNM") /\ (Replace(1, Number) \/ RaiseHere)
      BY <1>7 DEF OpMinus
    <2> QED
      BY <1>0, <1>a, <2>1, UnaryStep, StopStep
  <1>8. CASE OpCompare
    <2>1. PICK op \in CompareOps : At(op)
      BY <1>8 DEF OpCompare
    <2>2. (\E b \in BOOLEAN : Replace(2, Bool(b))) \/ RaiseHere
      BY <1>8 DEF OpCompare
    <2> QED
      BY <1>0, <1>a, <2>1, <2>2, BinaryStep, StopStep
  <1>9. CASE OpEqual
    <2>1. At("EQ") /\ \E b \in BOOLEAN : Replace(2, Bool(b))
      BY <1>9 DEF OpEqual
    <2> QED
      BY <1>0, <2>1, BinaryStep
  <1>10. CASE OpNot
    <2>1. At("NOT") /\ \E v \in {Bool(IF STK(-1).kind = "boolean" THEN ~STK(-1).b
                                      ELSE STK(-1).kind # "nil")} : Replace(1, v)
      BY <1>10 DEF OpNot
    <2> QED
      BY <1>0, <2>1, UnaryStep
  <1>11. CASE OpAnd
    BY <1>0, <1>11, BinaryStep DEF OpAnd
  <1>12. CASE OpOr
    BY <1>0, <1>12, BinaryStep DEF OpOr
  <1>13. CASE OpTest
    <2> DEFINE target == IF Truthy(STK(-1)) THEN Inst.a ELSE pc + 1
    <2>1. At("TEST") /\ Goto(Keep(stack, 1), target)
      BY <1>13 DEF OpTest
    <2>2. /\ Inst.op = "TEST" /\ func.prot \in Protos /\ pc \in PcOf(func.prot)
          /\ Inst = Code[func.prot][pc + 1]
      BY <1>a, <2>1
    <2>3. /\ 1 <= Depth[func.prot][pc]
          /\ ReachedWith(func.prot, target, Depth[func.prot][pc] - 1)
      BY <1>a, <2>1, <2>2, EvenUse
    <2> HIDE DEF target
    <2> QED
      BY <2>1, <2>3, DropStep
  <1>14. CASE OpJump
    <2>1. At("JMP") /\ Goto(stack, Inst.a)
      BY <1>14 DEF OpJump
    <2>2. /\ Inst.op = "JMP" /\ func.prot \in Protos /\ pc \in PcOf(func.prot)
          /\ Inst = Code[func.prot][pc + 1] /\ Depth[func.prot][pc] \in Nat
      BY <1>a, <2>1
    <2>3. ReachedWith(func.prot, Inst.a, Depth[func.prot][pc])
      BY <2>2, EvenUse
    <2>4. ASequence(stack) /\ Len(stack) <= STACK_SIZE /\ DOMAIN globals = Names
      BY DEF IInv, TypeOK
    <2>5. Len(stack) = FRAME.stack_top + 1 + Slots(func.prot) + Depth[func.prot][pc]
      BY <2>1, Here
    <2>6. /\ stack' = stack /\ pc' = Inst.a /\ DOMAIN globals' = Names
          /\ UNCHANGED <<run, frames, func, narg, errtop, call>>
      BY <2>1, <2>4 DEF Goto
    <2> QED
      BY <2>1, <2>2, <2>3, <2>4, <2>5, <2>6, GotoStep
  <1>15. CASE OpLambda
    <2>1. At("LAMBDA") /\ ((\E v : PushValue(v)) \/ Die("wild"))
      BY <1>15 DEF OpLambda
    <2> QED
      BY SMTT(60), <1>0, <1>a, <2>1, PushStep, StopStep
  <1>16. CASE OpGetGlobal
    BY <1>0, <1>16, <1>a, PushStep, StopStep DEF OpGetGlobal
  <1>17. CASE OpSetGlobal
    <2>1. At("SETGLOBAL")
      BY <1>17 DEF OpSetGlobal
    <2>2. CASE globals[Inst.name] # Inv
      BY <1>17, <1>a, <2>1, <2>2, StopStep DEF OpSetGlobal
    <2>3. CASE globals[Inst.name] = Inv
      <3>1. /\ func.prot \in Protos /\ pc \in PcOf(func.prot)
            /\ ReachedWith(func.prot, pc + 1, Depth[func.prot][pc])
            /\ Depth[func.prot][pc] \in Nat
        BY <1>0, <1>a, <2>1, EvenUse
      <3>2. ASequence(stack) /\ Len(stack) <= STACK_SIZE /\ DOMAIN globals = Names
        BY DEF IInv, TypeOK
      <3>3. Len(stack) = FRAME.stack_top + 1 + Slots(func.prot) + Depth[func.prot][pc]
        BY <2>1, Here
      <3>4. /\ stack' = stack /\ pc' = pc + 1
            /\ globals' = [globals EXCEPT ![Inst.name] = STK(-1)]
            /\ UNCHANGED <<run, frames, func, narg, errtop, call>>
        BY <1>17, <2>3 DEF OpSetGlobal
      <3>5. DOMAIN globals' = Names
        BY <3>2, <3>4
      <3> QED
        BY <2>1, <3>1, <3>2, <3>3, <3>4, <3>5, GotoStep
    <2> QED
      BY <2>2, <2>3
  <1> QED
    BY <1>1, <1>2, <1>3, <1>4, <1>5, <1>6, <1>7, <1>8, <1>9, <1>10, <1>11, <1>12,
       <1>13, <1>14, <1>15, <1>16, <1>17 DEF Compute
-----------------------------------------------------------------------------
(***************************************************************************)
(* Calls.                                                                  *)
(***************************************************************************)

\* A stack and frames with which the interpreter may begin a call.
Callable(s, frs, f, ret, n) ==
  /\ ASequence(s) /\ Len(s) <= STACK_SIZE
  /\ ASequence(frs) /\ FramesTyped(frs) /\ Len(frs) <= MAX_CALLS
  /\ n \in Nat /\ n + 1 <= Len(s)
  /\ Chain(call, frs, f, ret, Len(s) - n - 1)

LEMMA CallableFacts ==
  ASSUME IInv, run = "loop", NEW STATE s, NEW STATE frs, NEW STATE f, NEW STATE ret,
         NEW STATE n, Callable(s, frs, f, ret, n)
  PROVE  /\ Len(s) \in Nat /\ Len(frs) \in Nat /\ n \in Nat
         /\ Len(s) - n - 1 \in Nat
         /\ call.frame \in Nat /\ call.top \in Nat
         /\ call.top <= Len(s) - n - 1
         /\ ret \in Nat /\ IsFunction(f)
         /\ errtop <= call.top /\ errtop \in Int
  <1>1. /\ Len(s) \in Nat /\ Len(frs) \in Nat /\ n \in Nat
        /\ Len(s) - n - 1 \in Nat
    BY LenProperties DEF Callable, ASequence
  <1>2. /\ call.frame \in Nat /\ call.top \in Nat
        /\ errtop <= call.top /\ errtop \in Int
    BY DEF IInv, TypeOK, MarkKept, Unset
  <1> DEFINE lim == Len(s) - n - 1
  <1>3. lim \in Int /\ Chain(call, frs, f, ret, lim) /\ ASequence(frs) /\ FramesTyped(frs)
    BY <1>1 DEF Callable
  <1> HIDE DEF lim
  <1>4. lim >= call.top /\ ret \in Nat /\ IsFunction(f)
    BY <1>2, <1>3, ChainTop
  <1>5. call.top <= lim
    BY <1>2, <1>3, <1>4
  <1> QED
    BY <1>1, <1>2, <1>4, <1>5 DEF lim

\* An error while something is called.
LEMMA ErrorStep ==
  ASSUME IInv, run = "loop", NEW STATE s, NEW STATE frs,
         ASequence(s), Len(s) <= STACK_SIZE, call.top <= Len(s),
         ASequence(frs), FramesTyped(frs), Len(frs) <= MAX_CALLS,
         stack' = s, frames' = frs, narg' \in Nat, Raise(frs),
         UNCHANGED <<pc, func, errtop, globals, call>>
  PROVE  IInv'
  <1>1. run' \in {"recover", "exit", "wild"}
    BY DEF Raise
  <1>2. TypeOK'
    BY <1>1 DEF IInv, TypeOK, ASequence, FramesTyped, Range
  <1>3. /\ errtop <= call.top /\ errtop \in Int /\ call.top \in Nat
        /\ Len(s) \in Nat
    BY LenProperties DEF IInv, TypeOK, MarkKept, Unset, ASequence
  <1>4. MarkKept' /\ StackExact'
    BY <1>1, <1>3 DEF MarkKept, StackExact
  <1> QED
    BY <1>2, <1>4 DEF IInv

\* A call that is over within the instruction.
LEMMA ResumeStep ==
  ASSUME IInv, run = "loop", NEW STATE s, NEW STATE frs, NEW STATE f, NEW STATE ret,
         NEW STATE n, NEW STATE v, Callable(s, frs, f, ret, n),
         Resume(s, frs, f, ret, n, v)
  PROVE  IInv'
  <1>1. /\ Len(s) \in Nat /\ n \in Nat /\ Len(s) - n - 1 \in Nat
        /\ call.top \in Nat /\ call.top <= Len(s) - n - 1
        /\ ret \in Nat /\ errtop <= call.top /\ errtop \in Int
    BY CallableFacts
  <1>2. /\ ASequence(s) /\ n + 1 \in Nat /\ n + 1 <= Len(s) /\ Len(s) <= STACK_SIZE
    BY <1>1 DEF Callable
  <1>3. ASequence(Keep(s, n + 1)) /\ Len(Keep(s, n + 1)) = Len(s) - (n + 1)
    BY <1>2, KeepLength
  <1>4. ASequence(stack') /\ Len(stack') = Len(s) - (n + 1) + 1
    BY <1>3, PushLength DEF Resume
  <1>5. Len(stack') - 1 = Len(s) - n - 1 /\ Len(stack') <= STACK_SIZE
    BY <1>1, <1>2, <1>4
  <1>6. Chain(call, frs, f, ret, Len(stack') - 1)
    BY <1>5 DEF Callable
  <1>7. TypeOK'
    BY <1>1, <1>4, <1>5 DEF IInv, TypeOK, Resume, Callable, FramesTyped, ASequence, Range
  <1>8. StackExact'
    BY <1>6 DEF StackExact, Resume
  <1>9. MarkKept'
    BY <1>1, <1>4 DEF MarkKept, Resume
  <1> QED
    BY <1>7, <1>8, <1>9 DEF IInv

\* The callee's slot, its arguments and upvalues are what it has to begin with.
LEMMA EntryLength ==
  ASSUME NEW g, IsFunction(g), NEW args, ASequence(args),
         Arity[g.prot] < 0 \/ Len(args) = Arity[g.prot]
  PROVE  ASequence(Entry(g, args)) /\ Len(Entry(g, args)) = 1 + Slots(g.prot)
  <1>1. g.prot \in Protos /\ Arity[g.prot] \in Int /\ Len(Ups[g.prot]) \in Nat
    BY Sizes DEF IsFunction
  <1> DEFINE m    == Len(Ups[g.prot])
             ups  == [k \in 1 .. m |-> g.ups[k]]
             R    == {g.ups[k] : k \in 1 .. m}
             mine == IF Arity[g.prot] < 0 THEN <<Vector(args)>> ELSE args
  <1>2. ASequence(ups) /\ Len(ups) = m
    <2>1. ups \in [1 .. m -> R]
      OBVIOUS
    <2> HIDE DEF ups, R
    <2>2. m \in Nat
      BY <1>1
    <2> HIDE DEF m
    <2>3. ups \in Seq(R)
      BY <2>1, <2>2, SeqDef
    <2>4. Len(ups) = m
      BY <2>1, <2>2, <2>3, LenProperties
    <2> QED
      BY <2>3, <2>4, OwnRange
  <1>3. /\ ASequence(mine)
        /\ Len(mine) = IF Arity[g.prot] < 0 THEN 1 ELSE Arity[g.prot]
    <2>1. <<Vector(args)>> \in Seq({Vector(args)}) /\ Len(<<Vector(args)>>) = 1
      OBVIOUS
    <2>2. ASequence(<<Vector(args)>>)
      BY <2>1, OwnRange
    <2> QED
      BY <2>1, <2>2
  <1>4. ASequence(<<g>>) /\ Len(<<g>>) = 1
    <2>1. <<g>> \in Seq({g}) /\ Len(<<g>>) = 1
      OBVIOUS
    <2> QED
      BY <2>1, OwnRange
  <1>5. Entry(g, args) = <<g>> \o mine \o ups
    BY DEF Entry
  <1>6. m \in Nat /\ Slots(g.prot) = Len(mine) + m
    BY <1>1, <1>3 DEF Slots
  <1> HIDE DEF m, ups, mine
  <1>7. Len(mine) \in Nat
    BY <1>3, LenProperties DEF ASequence
  <1>8. ASequence(<<g>> \o mine) /\ Len(<<g>> \o mine) = 1 + Len(mine)
    BY <1>3, <1>4, JoinLength
  <1>9. /\ ASequence((<<g>> \o mine) \o ups)
        /\ Len((<<g>> \o mine) \o ups) = 1 + Len(mine) + m
    BY <1>2, <1>8, JoinLength
  <1> QED
    BY <1>5, <1>6, <1>7, <1>9

\* Entering a function.
LEMMA EnterStep ==
  ASSUME IInv, run = "loop", NEW STATE s, NEW STATE frs, NEW STATE f, NEW STATE ret,
         NEW STATE n, Callable(s, frs, f, ret, n),
         EnterFunction(s, frs, f, ret, n)
  PROVE  IInv'
  <1> DEFINE g     == CalleeOf(s, n)
             lim   == Len(s) - n - 1
             frame == [func |-> f, stack_top |-> lim, ret_addr |-> ret]
             in    == Keep(s, n + 1) \o Entry(g, Newest(s, n))
             full  == Arity[g.prot] < 0 /\ n = 0 /\ Len(s) >= STACK_SIZE
             bad   == Arity[g.prot] >= 0 /\ Arity[g.prot] # n
             new   == Append(frs, frame)
  <1>1. /\ Len(s) \in Nat /\ Len(frs) \in Nat /\ n \in Nat /\ lim \in Nat
        /\ call.frame \in Nat /\ call.top \in Nat /\ call.top <= lim
        /\ ret \in Nat /\ errtop <= call.top /\ errtop \in Int
    BY CallableFacts
  <1>2. /\ ASequence(s) /\ n + 1 \in Nat /\ n + 1 <= Len(s) /\ Len(s) <= STACK_SIZE
        /\ ASequence(frs) /\ FramesTyped(frs) /\ Len(frs) <= MAX_CALLS
        /\ Chain(call, frs, f, ret, lim)
    BY <1>1 DEF Callable
  <1>3. IsFunction(g) /\ g.prot \in Protos /\ Slots(g.prot) \in Nat /\ Arity[g.prot] \in Int
    BY Sizes DEF EnterFunction, IsFunction
  <1>4. /\ Chain(call, new, g, 0, lim + Slots(g.prot))
        /\ FramesTyped(new) /\ ASequence(new) /\ Len(new) = Len(frs) + 1
    <2> DEFINE l == lim + Slots(g.prot)
    <2>1. lim \in Int
      BY <1>1
    <2>2. ASequence(new) /\ Len(new) = Len(frs) + 1
      BY <1>2, PushLength
    <2> HIDE DEF lim, g
    <2>3. Chain(call, new, g, 0, l) /\ FramesTyped(new)
      BY <1>1, <1>2, <1>3, <2>1, ChainPush
    <2> QED
      BY <2>2, <2>3
  <1>5. CASE Full(frs)
    <2>1. Die("abort")
      BY <1>5 DEF EnterFunction
    <2> QED
      BY <2>1, StopStep
  <1>6. CASE ~Full(frs) /\ (bad \/ full)
    <2>1. /\ stack' = s /\ frames' = new /\ Raise(new)
          /\ UNCHANGED <<pc, func, narg, errtop, globals, call>>
      BY <1>6 DEF EnterFunction
    <2>2. Len(new) <= MAX_CALLS
      BY <1>1, <1>4, <1>6 DEF Full
    <2>3. narg' \in Nat /\ call.top <= Len(s)
      BY <1>1, <2>1 DEF IInv, TypeOK
    <2> HIDE DEF new
    <2> QED
      BY <1>2, <1>4, <2>1, <2>2, <2>3, ErrorStep
  <1>7. CASE ~Full(frs) /\ ~(bad \/ full) /\ Len(in) > STACK_SIZE
    <2>1. Die("abort")
      BY <1>7 DEF EnterFunction
    <2> QED
      BY <2>1, StopStep
  <1>8. CASE ~Full(frs) /\ ~(bad \/ full) /\ ~(Len(in) > STACK_SIZE)
    <2>1. /\ stack' = in /\ frames' = new /\ func' = g /\ pc' = 0
          /\ UNCHANGED <<run, narg, errtop, globals, call>>
      BY <1>8 DEF EnterFunction
    <2>2. ASequence(Newest(s, n)) /\ Len(Newest(s, n)) = n
      BY <1>1, <1>2, NewestLength
    <2>3. ASequence(Entry(g, Newest(s, n))) /\ Len(Entry(g, Newest(s, n))) = 1 + Slots(g.prot)
      BY SMTT(60), <1>1, <1>3, <1>8, <2>2, EntryLength
    <2>4. ASequence(Keep(s, n + 1)) /\ Len(Keep(s, n + 1)) = Len(s) - (n + 1)
      BY <1>2, KeepLength
    <2>5. ASequence(in) /\ Len(in) = Len(s) - (n + 1) + (1 + Slots(g.prot))
      BY <2>3, <2>4, JoinLength
    <2>6. /\ Len(in) - 1 = lim + Slots(g.prot)
          /\ call.top < Len(in) /\ Len(in) <= STACK_SIZE /\ Len(in) \in Nat
      <3>1. Len(in) \in Int /\ Len(in) - 1 = lim + Slots(g.prot)
        BY <1>1, <1>3, <2>5
      <3>2. Len(in) \in Nat
        BY <2>5, LenProperties DEF ASequence
      <3> HIDE DEF in, lim
      <3>3. call.top < Len(in)
        BY <1>1, <1>3, <3>1
      <3> QED
        BY <1>8, <3>1, <3>2, <3>3
    <2>7. Len(new) <= MAX_CALLS
      BY <1>1, <1>4, <1>8 DEF Full
    <2> HIDE DEF in, new, g, lim
    <2>8. TypeOK'
      BY <1>4, <2>1, <2>5, <2>6, <2>7 DEF IInv, TypeOK, FramesTyped, ASequence, Range
    <2>9. StackExact'
      BY <1>4, <2>1, <2>6 DEF StackExact
    <2>10. MarkKept'
      BY <1>1, <2>1, <2>6 DEF MarkKept
    <2> QED
      BY <2>8, <2>9, <2>10 DEF IInv
  <1> QED
    BY <1>5, <1>6, <1>7, <1>8

\* Whatever is called.
LEMMA InvokeStep ==
  ASSUME IInv, run = "loop", NEW STATE s, NEW STATE frs, NEW STATE f, NEW STATE ret,
         NEW STATE n, Callable(s, frs, f, ret, n),
         Invoke(s, frs, f, ret, n)
  PROVE  IInv'
  <1>1. /\ Len(s) \in Nat /\ n \in Nat
        /\ call.top \in Nat /\ call.top <= Len(s) - n - 1 /\ narg \in Nat
    BY CallableFacts DEF IInv, TypeOK
  <1>2. call.top <= Len(s)
    BY <1>1
  <1>3. ASSUME NEW m \in Nat, RaiseFrom(s, frs, m) PROVE IInv'
    BY <1>2, <1>3, ErrorStep DEF RaiseFrom, Callable
  <1>4. ASSUME NEW v, Resume(s, frs, f, ret, n, v) PROVE IInv'
    BY <1>4, ResumeStep
  <1>5. CASE EnterFunction(s, frs, f, ret, n)
    BY <1>5, EnterStep
  <1>6. CASE CallNative(s, frs, f, ret, n)
    BY <1>1, <1>3, <1>4, <1>6 DEF CallNative
  <1>7. CASE CallIndexed(s, frs, f, ret, n)
    BY <1>1, <1>3, <1>4, <1>7 DEF CallIndexed
  <1>8. CASE CallOther(s, frs, f, ret, n)
    BY <1>1, <1>3, <1>8 DEF CallOther
  <1> QED
    BY <1>5, <1>6, <1>7, <1>8 DEF Invoke

\* There is room for a callee and its n arguments among the operands.
LEMMA CalleeFits ==
  ASSUME NEW top \in Nat, NEW slots \in Nat, NEW d \in Nat, NEW n \in Nat, d > n,
         NEW len, len = top + 1 + slots + d
  PROVE  /\ n + 1 <= len /\ top <= len /\ top + n + 2 <= len
         /\ len - n - 1 \in Int
         /\ len - n - 1 + 1 = top + (1 + slots + (d - n))
  OBVIOUS

LEMMA CallStep == IInv /\ OpCall => IInv'
  <1> SUFFICES ASSUME IInv, OpCall PROVE IInv'
    OBVIOUS
  <1>1. At("CALL")
    BY DEF OpCall
  <1>2. /\ run = "loop" /\ Inst.op = "CALL"
        /\ func.prot \in Protos /\ pc \in PcOf(func.prot)
        /\ Depth[func.prot][pc] \in Nat
        /\ Len(frames) \in Nat /\ Len(frames) > call.frame
        /\ FRAME.stack_top \in Nat
        /\ Slots(func.prot) \in Nat /\ Len(stack) \in Nat
        /\ Len(stack) = FRAME.stack_top + 1 + Slots(func.prot) + Depth[func.prot][pc]
    BY <1>1, Here
  <1> DEFINE n == Inst.a
  <1>3. /\ n \in Nat /\ Depth[func.prot][pc] > n
        /\ ReachedWith(func.prot, pc + 1, Depth[func.prot][pc] - n)
    BY <1>2, EvenUse DEF Inst
  <1>4. Invoke(stack, frames, func, pc + 1, n)
    BY DEF OpCall
  <1> HIDE DEF n
  <1>5. /\ ASequence(stack) /\ Len(stack) <= STACK_SIZE
        /\ ASequence(frames) /\ FramesTyped(frames) /\ Len(frames) <= MAX_CALLS
        /\ call.frame \in Nat
        /\ Chain(call, frames, func, pc, Len(stack) - 1)
    BY <1>2 DEF IInv, TypeOK, StackExact
  <1> DEFINE lim == Len(stack) - 1
             l   == Len(stack) - n - 1
  <1>6. /\ lim \in Int /\ l \in Int /\ n + 1 <= Len(stack)
        /\ l + 1 = FRAME.stack_top + (1 + Slots(func.prot) + (Depth[func.prot][pc] - n))
    <2> DEFINE len == Len(stack)
               top == FRAME.stack_top
               d   == Depth[func.prot][pc]
               sl  == Slots(func.prot)
    <2>1. /\ len \in Nat /\ len = top + 1 + sl + d
          /\ top \in Nat /\ sl \in Nat /\ d \in Nat /\ d > n
      BY <1>2, <1>3
    <2> HIDE DEF len, top, d, sl
    <2>2. /\ n + 1 <= len
          /\ len - n - 1 \in Int
          /\ len - n - 1 + 1 = top + (1 + sl + (d - n))
      BY <1>3, <2>1, CalleeFits
    <2>3. len - 1 \in Int
      BY <2>1
    <2> QED
      BY <2>2, <2>3 DEF len, top, d, sl
  <1>7. pc + 1 \in PcOf(func.prot) /\ Depth[func.prot][pc + 1] = Depth[func.prot][pc] - n
    BY <1>3 DEF ReachedWith
  <1>8. l + 1 = frames[Len(frames)].stack_top + Extent(func.prot, pc + 1)
    BY <1>6, <1>7 DEF FRAME, Extent
  <1>9. Chain(call, frames, func, pc, lim)
    BY <1>5
  <1> HIDE DEF lim, l
  <1>10. Chain(call, frames, func, pc + 1, l)
    BY <1>2, <1>5, <1>6, <1>7, <1>8, <1>9, ChainGoto
  <1>11. Callable(stack, frames, func, pc + 1, n)
    BY <1>3, <1>5, <1>6, <1>10 DEF Callable, l
  <1> QED
    BY <1>2, <1>4, <1>11, InvokeStep

\* A return, or the half of one in a tail call: what is left of the frames.
LEMMA LeaveFrame ==
  ASSUME IInv, NEW op, At(op)
  PROVE  /\ Chain(call, Keep(frames, 1), FRAME.func, FRAME.ret_addr, FRAME.stack_top)
         /\ ASequence(Keep(frames, 1)) /\ FramesTyped(Keep(frames, 1))
         /\ Len(Keep(frames, 1)) <= MAX_CALLS
         /\ FRAME.ret_addr \in Nat
  <1>1. /\ run = "loop"
        /\ Len(frames) \in Nat /\ Len(frames) > call.frame
        /\ FRAME.stack_top \in Nat
        /\ Len(stack) \in Nat
    BY Here
  <1>2. /\ ASequence(frames) /\ FramesTyped(frames) /\ Len(frames) <= MAX_CALLS
        /\ call.frame \in Nat /\ call.top \in Nat
        /\ Chain(call, frames, func, pc, Len(stack) - 1)
    BY <1>1 DEF IInv, TypeOK, StackExact
  <1> DEFINE lim == Len(stack) - 1
             fr  == FRAME
  <1>3. lim \in Int /\ Chain(call, frames, func, pc, lim) /\ fr = frames[Len(frames)]
    BY <1>1, <1>2 DEF FRAME
  <1> HIDE DEF lim, fr
  <1>4. /\ Chain(call, Keep(frames, 1), fr.func, fr.ret_addr, fr.stack_top)
        /\ ASequence(Keep(frames, 1))
        /\ Len(Keep(frames, 1)) = Len(frames) - 1
        /\ FramesTyped(Keep(frames, 1))
    BY <1>1, <1>2, <1>3, ChainPop
  <1>5. Len(frames) \in 1 .. Len(frames)
    BY <1>1, <1>2
  <1>6. fr.ret_addr \in Nat
    BY <1>2, <1>3, <1>5 DEF FramesTyped
  <1>7. Len(Keep(frames, 1)) <= MAX_CALLS
    BY <1>1, <1>2, <1>4
  <1> QED
    BY <1>4, <1>6, <1>7 DEF fr

LEMMA TailCallStep == IInv /\ OpTailCall => IInv'
  <1> SUFFICES ASSUME IInv, OpTailCall PROVE IInv'
    OBVIOUS
  <1>1. At("TCALL")
    BY DEF OpTailCall
  <1>2. /\ run = "loop" /\ Inst.op = "TCALL"
        /\ func.prot \in Protos /\ pc \in PcOf(func.prot)
        /\ Depth[func.prot][pc] \in Nat
        /\ FRAME.stack_top \in Nat
        /\ Slots(func.prot) \in Nat /\ Len(stack) \in Nat
        /\ Len(stack) = FRAME.stack_top + 1 + Slots(func.prot) + Depth[func.prot][pc]
    BY <1>1, Here
  <1> DEFINE n  == Inst.a
             st == FRAME.stack_top
  <1>3. n \in Nat /\ Depth[func.prot][pc] > n
    BY <1>2, EvenUse DEF Inst
  <1>4. Invoke(Lowered(n), Keep(frames, 1), FRAME.func, FRAME.ret_addr, n)
    BY DEF OpTailCall
  <1>5. ASequence(stack) /\ Len(stack) <= STACK_SIZE
    BY DEF IInv, TypeOK
  <1>6. Lowered(n) = SubSeq(stack, 1, st) \o Newest(stack, n + 1)
    BY DEF Lowered
  <1>7. st \in Nat
    BY <1>2
  <1>8. Len(stack) = st + 1 + Slots(func.prot) + Depth[func.prot][pc]
    BY <1>2
  <1> HIDE DEF n, st
  <1>9. st + n + 2 <= Len(stack) /\ n + 1 \in Nat /\ n + 1 <= Len(stack) /\ st <= Len(stack)
    <2> DEFINE len == Len(stack)
               d   == Depth[func.prot][pc]
               sl  == Slots(func.prot)
    <2>1. len = st + 1 + sl + d /\ sl \in Nat /\ d \in Nat /\ d > n
      BY <1>2, <1>3, <1>8
    <2> HIDE DEF len, d, sl
    <2>2. st + n + 2 <= len /\ n + 1 <= len /\ st <= len
      BY <1>3, <1>7, <2>1, CalleeFits
    <2>3. n + 1 \in Nat
      BY <1>3
    <2> QED
      BY <2>2, <2>3 DEF len
  <1>10. ASequence(SubSeq(stack, 1, st)) /\ Len(SubSeq(stack, 1, st)) = st
    BY <1>5, <1>7, <1>9, Cut
  <1>11. ASequence(Newest(stack, n + 1)) /\ Len(Newest(stack, n + 1)) = n + 1
    BY <1>5, <1>9, NewestLength
  <1>12. ASequence(Lowered(n)) /\ Len(Lowered(n)) = st + (n + 1)
    BY <1>6, <1>10, <1>11, JoinLength
  <1>13. /\ Len(Lowered(n)) <= STACK_SIZE /\ n + 1 <= Len(Lowered(n))
         /\ Len(Lowered(n)) - n - 1 = FRAME.stack_top
    <2>1. Len(Lowered(n)) <= STACK_SIZE
      BY <1>2, <1>3, <1>5, <1>7, <1>9, <1>12
    <2>2. n + 1 <= Len(Lowered(n)) /\ Len(Lowered(n)) - n - 1 = st
      BY <1>3, <1>7, <1>12
    <2> QED
      BY <2>1, <2>2 DEF st
  <1>14. Callable(Lowered(n), Keep(frames, 1), FRAME.func, FRAME.ret_addr, n)
    BY <1>1, <1>3, <1>12, <1>13, LeaveFrame DEF Callable
  <1> QED
    BY <1>2, <1>4, <1>14, InvokeStep

LEMMA ReturnStep == IInv /\ OpReturn => IInv'
  <1> SUFFICES ASSUME IInv, OpReturn PROVE IInv'
    OBVIOUS
  <1>1. At("RETURN")
    BY DEF OpReturn
  <1>2. /\ run = "loop"
        /\ Depth[func.prot][pc] \in Nat
        /\ FRAME.stack_top \in Nat /\ FRAME.stack_top >= call.top
        /\ Slots(func.prot) \in Nat /\ Len(stack) \in Nat
        /\ Len(stack) = FRAME.stack_top + 1 + Slots(func.prot) + Depth[func.prot][pc]
    BY <1>1, Here
  <1> DEFINE st == FRAME.stack_top
             s  == Append(SubSeq(stack, 1, st), STK(-1))
  <1>3. /\ Chain(call, Keep(frames, 1), FRAME.func, FRAME.ret_addr, st)
        /\ ASequence(Keep(frames, 1)) /\ FramesTyped(Keep(frames, 1))
        /\ Len(Keep(frames, 1)) <= MAX_CALLS
        /\ FRAME.ret_addr \in Nat
    BY <1>1, LeaveFrame
  <1>4. /\ ASequence(stack) /\ Len(stack) <= STACK_SIZE
        /\ errtop <= call.top /\ errtop \in Int /\ call.top \in Nat
    BY <1>2 DEF IInv, TypeOK, MarkKept, Unset
  <1>5. /\ pc' = FRAME.ret_addr /\ func' = FRAME.func /\ stack' = s
        /\ frames' = Keep(frames, 1)
        /\ UNCHANGED <<run, narg, errtop, globals, call>>
    BY DEF OpReturn
  <1>6. st \in Nat /\ st >= call.top /\ st + 1 <= Len(stack) /\ st <= Len(stack)
    BY SMTT(60), <1>2, <1>4
  <1> HIDE DEF st
  <1>7. ASequence(SubSeq(stack, 1, st)) /\ Len(SubSeq(stack, 1, st)) = st
    BY <1>4, <1>6, Cut
  <1>8. ASequence(s) /\ Len(s) = st + 1
    BY <1>7, PushLength
  <1> HIDE DEF s
  <1>9. Len(s) - 1 = st /\ Len(s) <= STACK_SIZE /\ call.top < Len(s)
    BY <1>2, <1>4, <1>6, <1>8
  <1>10. TypeOK'
    BY <1>3, <1>5, <1>8, <1>9 DEF IInv, TypeOK, FramesTyped, ASequence, Range
  <1>11. StackExact'
    BY <1>3, <1>5, <1>9 DEF StackExact
  <1>12. MarkKept'
    BY <1>2, <1>4, <1>5, <1>9 DEF MarkKept
  <1> QED
    BY <1>10, <1>11, <1>12 DEF IInv

LEMMA FinishStep == IInv /\ Finish => IInv'
  <1> SUFFICES ASSUME IInv, Finish PROVE IInv'
    OBVIOUS
  <1>1. /\ ASequence(stack) /\ Len(stack) <= STACK_SIZE /\ Len(stack) \in Nat
        /\ errtop <= call.top /\ errtop \in Int /\ call.top \in Nat /\ call.tmp \in Nat
        /\ call.top < Len(stack)
    BY LenProperties DEF IInv, TypeOK, MarkKept, Finish, Unset, ASequence
  <1>2. /\ ASequence(stack') /\ Len(stack') <= STACK_SIZE /\ errtop <= Len(stack')
    <2>1. CASE call.nret = 0
      <3>1. 1 \in Nat /\ 1 <= Len(stack)
        BY <1>1
      <3>2. ASequence(Keep(stack, 1)) /\ Len(Keep(stack, 1)) = Len(stack) - 1
        BY <1>1, <3>1, KeepLength
      <3> QED
        BY <1>1, <2>1, <3>2 DEF Finish
    <2>2. CASE call.nret # 0
      BY <1>1, <2>2 DEF Finish
    <2> QED
      BY <2>1, <2>2
  <1>3. TypeOK'
    BY <1>1, <1>2 DEF IInv, TypeOK, Finish, FramesTyped, ASequence, Range
  <1> QED
    BY <1>2, <1>3 DEF IInv, StackExact, MarkKept, Finish
-----------------------------------------------------------------------------
(***************************************************************************)
(* The host.                                                               *)
(***************************************************************************)

\* A step of the host that starts no bytecode: it may raise an error, but leaves
\* what it had on the stack when it asked for errors.
LEMMA HostStepInv ==
  ASSUME IInv, ASequence(stack'), Len(stack') <= STACK_SIZE,
         ASequence(frames'), FramesTyped(frames'), Len(frames') <= MAX_CALLS,
         narg' \in Nat, errtop' \in Nat \cup {Unset}, errtop' <= Len(stack'),
         run' \in {"host", "recover", "exit", "abort", "wild"},
         UNCHANGED <<pc, func, globals, call>>
  PROVE  IInv'
  <1>1. TypeOK'
    BY DEF IInv, TypeOK, FramesTyped, ASequence, Range
  <1> QED
    BY <1>1 DEF IInv, StackExact, MarkKept

\* The stack of the host, and how much of it is not kept for an error.
LEMMA HostStack ==
  ASSUME IInv, run = "host"
  PROVE  /\ ASequence(stack) /\ Len(stack) \in Nat /\ Len(stack) <= STACK_SIZE
         /\ ASequence(frames) /\ FramesTyped(frames) /\ Len(frames) <= MAX_CALLS
         /\ Len(frames) \in Nat /\ narg \in Nat
         /\ errtop \in Nat \cup {Unset} /\ errtop \in Int /\ errtop <= Len(stack)
         /\ Mine \in Nat /\ Mine <= Len(stack) /\ errtop <= Len(stack) - Mine
  <1>1. /\ ASequence(stack) /\ Len(stack) \in Nat /\ Len(stack) <= STACK_SIZE
        /\ ASequence(frames) /\ FramesTyped(frames) /\ Len(frames) <= MAX_CALLS
        /\ Len(frames) \in Nat /\ narg \in Nat
        /\ errtop \in Nat \cup {Unset} /\ errtop \in Int /\ errtop <= Len(stack)
    BY LenProperties DEF IInv, TypeOK, MarkKept, Unset, ASequence
  <1> QED
    BY <1>1 DEF Mine, Unset

LEMMA HostPushStep ==
  ASSUME IInv, NEW STATE v, HostPush(v)
  PROVE  IInv'
  <1>1. /\ run = "host" /\ Len(stack) < MaxHost /\ stack' = Append(stack, v)
        /\ UNCHANGED <<run, frames, pc, func, narg, errtop, globals, call>>
    BY DEF HostPush
  <1>2. ASequence(stack') /\ Len(stack') = Len(stack) + 1
    BY <1>1, HostStack, PushLength
  <1>3. Len(stack') <= STACK_SIZE /\ errtop <= Len(stack')
    BY <1>1, <1>2, HostStack
  <1>4. ASequence(frames') /\ FramesTyped(frames') /\ Len(frames') <= MAX_CALLS
    BY <1>1, HostStack DEF ASequence, FramesTyped, Range
  <1> QED
    BY <1>1, <1>2, <1>3, <1>4, HostStack, HostStepInv

LEMMA HostPopStep ==
  ASSUME IInv, NEW n \in 1 .. Len(stack), HostPop(n)
  PROVE  IInv'
  <1>1. /\ run = "host" /\ n <= Mine /\ stack' = Keep(stack, n)
        /\ UNCHANGED <<run, frames, pc, func, narg, errtop, globals, call>>
    BY DEF HostPop
  <1>2. n \in Nat /\ n <= Len(stack)
    BY <1>1, HostStack
  <1>3. ASequence(stack') /\ Len(stack') = Len(stack) - n
    BY <1>1, <1>2, HostStack, KeepLength
  <1>4. Len(stack') <= STACK_SIZE /\ errtop <= Len(stack')
    BY <1>1, <1>2, <1>3, HostStack
  <1>5. ASequence(frames') /\ FramesTyped(frames') /\ Len(frames') <= MAX_CALLS
    BY <1>1, HostStack DEF ASequence, FramesTyped, Range
  <1> QED
    BY <1>1, <1>3, <1>4, <1>5, HostStack, HostStepInv

LEMMA HostDieStep ==
  ASSUME IInv, run = "host", Die("abort")
  PROVE  IInv'
  <1>1. /\ run' = "abort"
        /\ UNCHANGED <<stack, frames, pc, func, narg, errtop, globals, call>>
    BY DEF Die
  <1>2. /\ ASequence(stack') /\ Len(stack') <= STACK_SIZE
        /\ ASequence(frames') /\ FramesTyped(frames') /\ Len(frames') <= MAX_CALLS
    BY <1>1, HostStack DEF ASequence, FramesTyped, Range
  <1> QED
    BY <1>1, <1>2, HostStack, HostStepInv

\* su_call() of a chunk starts a chain of one activation.
LEMMA HostCallStep ==
  ASSUME IInv, NEW nret \in 0 .. 1, HostCall(nret)
  PROVE  IInv'
  <1> DEFINE top   == Len(stack) - 2
             f     == stack[top + 1]
             frame == [func |-> f, stack_top |-> top, ret_addr |-> EXIT]
             new   == Append(frames, frame)
  <1>1. run = "host" /\ Mine >= 2 /\ IsFunction(f) /\ f.prot \in Chunks
    BY DEF HostCall
  <1>2. /\ top \in Nat /\ errtop <= top /\ top < Len(stack) /\ top + 2 = Len(stack)
        /\ Len(frames) \in Nat /\ narg \in Nat
    BY <1>1, HostStack
  <1>3. CASE Full(frames)
    BY <1>1, <1>3, HostDieStep DEF HostCall
  <1>4. CASE ~Full(frames)
    <2>1. /\ call' = [top |-> top, frame |-> Len(frames), nret |-> nret, tmp |-> narg]
          /\ frames' = new /\ func' = f /\ pc' = 0 /\ narg' = 1 /\ run' = "loop"
          /\ UNCHANGED <<stack, errtop, globals>>
      BY <1>4 DEF HostCall
    <2>2. /\ ASequence(new) /\ Len(new) = Len(frames) + 1
          /\ \A i \in 1 .. Len(frames) : new[i] = frames[i]
          /\ new[Len(frames) + 1] = frame
      BY <1>1, HostStack, PushLength
    <2>3. frame.func = f /\ frame.stack_top = top /\ frame.ret_addr = EXIT
      OBVIOUS
    <2>4. /\ 0 \in PcOf(f.prot) /\ Extent(f.prot, 0) = 2
      <3>1. f.prot \in Protos
        BY <1>1 DEF IsFunction
      <3>2. Slots(f.prot) = 1 /\ 0 \in PcOf(f.prot) /\ Depth[f.prot][0] = 0
        BY <1>1, <3>1, Sizes DEF ReachedWith
      <3> QED
        BY <3>2 DEF Extent
    <2>5. /\ call'.top = top /\ call'.frame = Len(frames) /\ call'.nret = nret
          /\ call'.tmp = narg
      BY <2>1
    <2> HIDE DEF new, frame, f, top
    <2>6. FramesTyped(new)
      <3>1. \A k \in 1 .. Len(frames) :
              frames[k].stack_top \in Nat /\ frames[k].ret_addr \in Nat
        BY <1>1, HostStack DEF FramesTyped
      <3>2. EXIT \in Nat
        BY DEF EXIT
      <3> QED
        BY <1>2, <2>2, <2>3, <3>1, <3>2 DEF FramesTyped
    <2>7. Len(new) <= MAX_CALLS
      BY <1>2, <1>4, <2>2 DEF Full
    <2>8. ASSUME NEW c, c.top = top, c.frame = Len(frames)
          PROVE  Chain(c, new, f, 0, Len(stack) - 1)
      <3>1. \A k \in c.frame + 1 .. Len(new) : k = Len(new) /\ new[k] = frame
        BY <1>2, <2>2, <2>8
      <3>2. Len(stack) - 1 + 1 = top + 2
        BY <1>2
      <3>3. Len(new) > c.frame /\ new[c.frame + 1] = frame
        BY <1>2, <2>2, <2>8
      <3> QED
        BY <1>1, <1>2, <2>3, <2>4, <2>8, <3>1, <3>2, <3>3 DEF Chain
    <2>9. StackExact'
      <3>1. Chain(call', new, f, 0, Len(stack) - 1)
        BY <2>5, <2>8
      <3> QED
        BY <2>1, <3>1 DEF StackExact
    <2>10. ASequence(stack') /\ Len(stack') <= STACK_SIZE
      BY <1>1, <2>1, HostStack DEF ASequence, Range
    <2>11. TypeOK'
      BY <1>2, <2>1, <2>2, <2>5, <2>6, <2>7, <2>10
      DEF IInv, TypeOK, FramesTyped, ASequence, Range
    <2>12. MarkKept'
      BY <1>2, <2>1, <2>5 DEF MarkKept
    <2> QED
      BY <2>9, <2>11, <2>12 DEF IInv
  <1> QED
    BY <1>3, <1>4

\* su_call() of a native function.
LEMMA HostCallNativeStep ==
  ASSUME IInv, NEW n \in 0 .. Len(stack), NEW nret \in NativeRets,
         HostCallNative(n, nret)
  PROVE  IInv'
  <1> DEFINE top == Len(stack) - n - 1
             f   == stack[top + 1]
             frame == [func |-> f, stack_top |-> top, ret_addr |-> EXIT]
             frs == Append(frames, frame)
  <1>1. run = "host" /\ n < Mine
    BY DEF HostCallNative
  <1>2. /\ ASequence(stack) /\ Len(stack) \in Nat /\ Len(stack) <= STACK_SIZE
        /\ n \in Nat /\ n + 1 <= Len(stack)
        /\ top \in Nat /\ top <= Len(stack) /\ errtop <= top
    BY <1>1, HostStack
  <1>3. CASE Full(frames)
    BY <1>1, <1>3, HostDieStep DEF HostCallNative
  <1>4. CASE /\ ~Full(frames)
             /\ nret = 0 \/ Len(stack) < STACK_SIZE
             /\ \E v \in NativeResults :
                  stack' = IF nret = 0 THEN SubSeq(stack, 1, top)
                           ELSE Keep(Append([stack EXCEPT ![top + 1] = v], v), n)
             /\ UNCHANGED <<run, frames, pc, func, narg, errtop, globals, call>>
    <2>1. ASequence(frames') /\ FramesTyped(frames') /\ Len(frames') <= MAX_CALLS
      BY <1>1, <1>4, HostStack DEF ASequence, FramesTyped, Range
    <2>2. /\ ASequence(stack') /\ Len(stack') <= STACK_SIZE /\ errtop <= Len(stack')
      <3>1. CASE nret = 0
        <4>1. stack' = SubSeq(stack, 1, top)
          BY <1>4, <3>1
        <4> HIDE DEF top
        <4>2. ASequence(stack') /\ Len(stack') = top
          BY <1>2, <4>1, Cut
        <4> QED
          BY <1>1, <1>2, <4>2, HostStack
      <3>2. CASE nret # 0
        <4>1. PICK v \in NativeResults :
                stack' = Keep(Append([stack EXCEPT ![top + 1] = v], v), n)
          BY <1>4, <3>2
        <4> DEFINE s == [stack EXCEPT ![top + 1] = v]
                   w == Append(s, v)
        <4>2. ASequence(s) /\ Len(s) = Len(stack)
          <5> DEFINE S == Range(stack) \cup {v}
          <5>1. stack \in Seq(S) /\ v \in S
            BY <1>2, SeqMonotonic DEF ASequence
          <5>2. top + 1 \in 1 .. Len(stack)
            BY <1>2
          <5> HIDE DEF S, top
          <5>3. s \in Seq(S) /\ Len(s) = Len(stack)
            BY <5>1, <5>2, ExceptSeq
          <5> QED
            BY <5>3, OwnRange
        <4> HIDE DEF s
        <4>3. ASequence(w) /\ Len(w) = Len(stack) + 1
          BY <4>2, PushLength
        <4>4. stack' = Keep(w, n)
          BY <4>1 DEF s
        <4> HIDE DEF w
        <4>5. n <= Len(w)
          BY <1>2, <4>3
        <4>6. ASequence(stack') /\ Len(stack') = Len(w) - n
          BY <1>2, <4>3, <4>4, <4>5, KeepLength
        <4>7. Len(stack) < STACK_SIZE
          BY <1>4, <3>2
        <4> QED
          BY <1>1, <1>2, <4>3, <4>6, <4>7, HostStack
      <3> QED
        BY <3>1, <3>2
    <2>3. /\ narg' \in Nat /\ errtop' \in Nat \cup {Unset} /\ errtop' <= Len(stack')
          /\ run' = "host"
      BY <1>1, <1>4, <2>2, HostStack
    <2>4. UNCHANGED <<pc, func, globals, call>>
      BY <1>4
    <2> QED
      BY <2>1, <2>2, <2>3, <2>4, HostStepInv
  <1>5. CASE /\ ~Full(frames)
             /\ frames' = frs /\ narg' = n /\ Raise(frs)
             /\ UNCHANGED <<stack, pc, func, errtop, globals, call>>
    <2>1. /\ Len(frames) \in Nat /\ ASequence(frs) /\ Len(frs) = Len(frames) + 1
          /\ \A i \in 1 .. Len(frames) : frs[i] = frames[i]
          /\ frs[Len(frames) + 1] = frame
      BY <1>1, HostStack, PushLength
    <2>2. frame.stack_top = top /\ frame.ret_addr = EXIT /\ EXIT \in Nat
      BY DEF EXIT
    <2> HIDE DEF frs, frame, top
    <2>3. \A k \in 1 .. Len(frames) :
            frames[k].stack_top \in Nat /\ frames[k].ret_addr \in Nat
      BY <1>1, HostStack DEF FramesTyped
    <2>4. FramesTyped(frs)
      BY <1>2, <2>1, <2>2, <2>3 DEF FramesTyped
    <2>5. Len(frs) <= MAX_CALLS
      BY <1>5, <2>1 DEF Full
    <2>6. ASequence(frames') /\ FramesTyped(frames') /\ Len(frames') <= MAX_CALLS
      BY <1>5, <2>1, <2>4, <2>5
    <2>7. run' \in {"recover", "exit", "wild"}
      BY <1>5 DEF Raise
    <2>8. ASequence(stack') /\ Len(stack') <= STACK_SIZE
      BY <1>2, <1>5 DEF ASequence, Range
    <2>9. /\ narg' \in Nat /\ errtop' \in Nat \cup {Unset} /\ errtop' <= Len(stack')
      BY <1>1, <1>2, <1>5, HostStack
    <2> QED
      BY <1>5, <2>6, <2>7, <2>8, <2>9, HostStepInv
  <1> QED
    BY <1>3, <1>4, <1>5 DEF HostCallNative

LEMMA SetErrorStep == IInv /\ SetError => IInv'
  <1> SUFFICES ASSUME IInv, SetError PROVE IInv'
    OBVIOUS
  <1>1. /\ run = "host" /\ errtop' = Len(stack)
        /\ UNCHANGED <<run, stack, frames, pc, func, narg, globals, call>>
    BY DEF SetError
  <1>2. /\ ASequence(stack') /\ Len(stack') <= STACK_SIZE
        /\ ASequence(frames') /\ FramesTyped(frames') /\ Len(frames') <= MAX_CALLS
    BY <1>1, HostStack DEF ASequence, FramesTyped, Range
  <1> QED
    BY <1>1, <1>2, HostStack, HostStepInv

LEMMA RecoverStep == IInv /\ Recover => IInv'
  <1> SUFFICES ASSUME IInv, Recover PROVE IInv'
    OBVIOUS
  <1>1. /\ run = "recover" /\ run' = "host" /\ stack' = SubSeq(stack, 1, errtop)
        /\ UNCHANGED <<frames, pc, func, narg, errtop, globals, call>>
    BY DEF Recover
  <1>2. /\ ASequence(stack) /\ Len(stack) \in Nat /\ Len(stack) <= STACK_SIZE
        /\ errtop \in Nat \cup {Unset} /\ errtop <= Len(stack) /\ narg \in Nat
    BY <1>1, LenProperties DEF IInv, TypeOK, MarkKept, Unset, ASequence
  <1>3. ASequence(stack') /\ Len(stack') <= STACK_SIZE /\ errtop <= Len(stack')
    <2>1. CASE errtop \in Nat
      <3>1. ASequence(stack') /\ Len(stack') = errtop
        BY <1>1, <1>2, <2>1, Cut
      <3> QED
        BY <1>2, <2>1, <3>1
    <2>2. CASE errtop = Unset
      <3>1. stack' = <<>>
        BY <1>1, <2>2, SubSeqEmpty DEF Unset
      <3>2. ASequence(<<>>) /\ Len(<<>>) = 0
        BY OwnRange, EmptySeq
      <3> QED
        BY <2>2, <3>1, <3>2 DEF Unset
    <2> QED
      BY <1>2, <2>1, <2>2
  <1>4. ASequence(frames') /\ FramesTyped(frames') /\ Len(frames') <= MAX_CALLS
    BY <1>1 DEF IInv, TypeOK, ASequence, FramesTyped, Range
  <1> QED
    BY <1>1, <1>2, <1>3, <1>4, HostStepInv
-----------------------------------------------------------------------------
(***************************************************************************)
(* The invariant.                                                          *)
(***************************************************************************)

LEMMA InitIInv == Init => IInv
  <1> SUFFICES ASSUME Init PROVE IInv
    OBVIOUS
  <1>1. ASequence(<<>>) /\ Len(<<>>) = 0
    BY OwnRange, EmptySeq
  <1>2. TypeOK
    BY <1>1, LibraryAssumption DEF Init, TypeOK, FramesTyped, EXIT, Unset
  <1> QED
    BY <1>1, <1>2 DEF Init, IInv, StackExact, MarkKept, Unset

LEMMA NextIInv == IInv /\ [Next]_vars => IInv'
  <1> SUFFICES ASSUME IInv, [Next]_vars PROVE IInv'
    OBVIOUS
  <1>1. CASE Compute
    BY <1>1, ComputeStep
  <1>2. CASE OpCall
    BY <1>2, CallStep
  <1>3. CASE OpTailCall
    BY <1>3, TailCallStep
  <1>4. CASE OpReturn
    BY <1>4, ReturnStep
  <1>5. CASE Finish
    BY <1>5, FinishStep
  <1>6. CASE HostStep
    <2>1. ASSUME NEW v, HostPush(v) PROVE IInv'
      BY <2>1, HostPushStep
    <2>2. ASSUME NEW p \in Chunks, Load(p) PROVE IInv'
      BY <2>1, <2>2 DEF Load
    <2> QED
      BY <1>6, <2>1, <2>2, HostPopStep, HostCallStep, HostCallNativeStep, SetErrorStep,
         RecoverStep DEF HostStep
  <1>7. CASE UNCHANGED vars
    BY <1>7 DEF vars, IInv, TypeOK, StackExact, MarkKept, Chain, ASequence, FramesTyped,
                Range
  <1> QED
    BY <1>1, <1>2, <1>3, <1>4, <1>5, <1>6, <1>7 DEF Next

THEOREM Invariance == Spec => []IInv
  <1> QED
    BY InitIInv, NextIInv, PTL DEF Spec

\* The two arrays keep within their lengths, whatever the programs do.
THEOREM TypeCorrect == Spec => []TypeOK
  <1>1. IInv => TypeOK
    BY DEF IInv
  <1> QED
    BY Invariance, <1>1, PTL

\* Calls, tail calls, natives and returns keep the stack accounted for to the
\* last slot: an instruction finds its operands, an activation its arguments.
THEOREM StackExactCorrect == Spec => []StackExact
  <1>1. IInv => StackExact
    BY DEF IInv
  <1> QED
    BY Invariance, <1>1, PTL

\* When an error comes back, the host's operands below its mark are still there.
THEOREM MarkKeptCorrect == Spec => []MarkKept
  <1>1. IInv => MarkKept
    BY DEF IInv
  <1> QED
    BY Invariance, <1>1, PTL

-----------------------------------------------------------------------------
(***************************************************************************)
(* The refinement.  First, more about sequences; the sizes of the stack    *)
(* and the frames do not matter from here on.                              *)
(***************************************************************************)

HIDE SizesAssumption

\* A function from 1 .. n is a sequence.
LEMMA Listed ==
  ASSUME NEW n \in Nat, NEW R, NEW s \in [1 .. n -> R]
  PROVE  ASequence(s) /\ Len(s) = n
  <1>1. s \in Seq(R)
    BY SeqDef
  <1>2. Len(s) = n
    BY <1>1, LenProperties
  <1> QED
    BY <1>1, <1>2, OwnRange

LEMMA SameSequence ==
  ASSUME NEW s, ASequence(s), NEW t, ASequence(t), Len(s) = Len(t),
         \A i \in 1 .. Len(s) : s[i] = t[i]
  PROVE  s = t
  <1> DEFINE S == Range(s) \cup Range(t)
  <1>1. s \in Seq(S) /\ t \in Seq(S)
    BY SeqMonotonic DEF ASequence
  <1> HIDE DEF S
  <1> QED
    BY <1>1, SeqEqual

LEMMA Front ==
  ASSUME NEW s, ASequence(s), NEW n \in Nat, n <= Len(s)
  PROVE  ASequence(SubSeq(s, 1, n)) /\ Len(SubSeq(s, 1, n)) = n
  <1>1. Len(s) \in Nat
    BY LenProperties DEF ASequence
  <1> QED
    BY <1>1, Cut

\* A cut of a cut.
LEMMA CutAgain ==
  ASSUME NEW s, ASequence(s), NEW n \in Nat, n <= Len(s),
         NEW a \in Nat, a >= 1, NEW b \in Nat, b <= n
  PROVE  SubSeq(SubSeq(s, 1, n), a, b) = SubSeq(s, a, b)
  <1> DEFINE t == SubSeq(s, 1, n)
  <1>1. Len(s) \in Nat
    BY LenProperties DEF ASequence
  <1>2. ASequence(t) /\ Len(t) = n /\ \A i \in 1 .. n : t[i] = s[i]
    BY <1>1, Cut
  <1> HIDE DEF t
  <1>a. b <= Len(s) /\ b <= Len(t)
    BY <1>1, <1>2
  <1>b. /\ ASequence(SubSeq(s, a, b))
        /\ Len(SubSeq(s, a, b)) = IF a <= b THEN b - a + 1 ELSE 0
        /\ \A i \in 1 .. b - a + 1 : SubSeq(s, a, b)[i] = s[a + i - 1]
    BY <1>a, Cut
  <1>c. /\ ASequence(SubSeq(t, a, b))
        /\ Len(SubSeq(t, a, b)) = IF a <= b THEN b - a + 1 ELSE 0
        /\ \A i \in 1 .. b - a + 1 : SubSeq(t, a, b)[i] = t[a + i - 1]
    BY <1>a, <1>2, Cut
  <1>3. /\ ASequence(SubSeq(s, a, b)) /\ ASequence(SubSeq(t, a, b))
        /\ Len(SubSeq(s, a, b)) = IF a <= b THEN b - a + 1 ELSE 0
        /\ Len(SubSeq(t, a, b)) = IF a <= b THEN b - a + 1 ELSE 0
        /\ \A i \in 1 .. b - a + 1 : SubSeq(s, a, b)[i] = s[a + i - 1]
        /\ \A i \in 1 .. b - a + 1 : SubSeq(t, a, b)[i] = t[a + i - 1]
    BY <1>b, <1>c
  <1>4. \A i \in 1 .. Len(SubSeq(s, a, b)) : SubSeq(s, a, b)[i] = SubSeq(t, a, b)[i]
    BY <1>2, <1>3
  <1> QED
    BY <1>3, <1>4, SameSequence DEF t

\* A cut of the newest part.
LEMMA CutNewest ==
  ASSUME NEW s, ASequence(s), NEW a \in Nat, NEW i \in Nat, i >= 1,
         NEW n \in Nat, a + n <= Len(s)
  PROVE  SubSeq(SubSeq(s, a + 1, Len(s)), i, n) = SubSeq(s, a + i, a + n)
  <1> DEFINE t == SubSeq(s, a + 1, Len(s))
             x == SubSeq(t, i, n)
             y == SubSeq(s, a + i, a + n)
             l == IF i <= n THEN n - i + 1 ELSE 0
  <1>1. Len(s) \in Nat /\ l \in Nat
    BY LenProperties DEF ASequence
  <1>2. /\ ASequence(t) /\ Len(t) = Len(s) - a
        /\ \A k \in 1 .. Len(s) - a : t[k] = s[a + k]
    <2>1. /\ ASequence(t) /\ Len(t) = IF a + 1 <= Len(s) THEN Len(s) - (a + 1) + 1 ELSE 0
          /\ \A k \in 1 .. Len(s) - (a + 1) + 1 : t[k] = s[a + 1 + k - 1]
      BY <1>1, Cut
    <2>2. \A k \in 1 .. Len(s) - a : a + 1 + k - 1 = a + k
      BY <1>1
    <2> QED
      BY <1>1, <2>1, <2>2
  <1> HIDE DEF t
  <1>3. ASequence(x) /\ Len(x) = l /\ \A k \in 1 .. n - i + 1 : x[k] = t[i + k - 1]
    <2>1. n <= Len(t)
      BY <1>1, <1>2
    <2> QED
      BY <1>2, <2>1, Cut
  <1>4. ASequence(y) /\ Len(y) = l /\ \A k \in 1 .. n - i + 1 : y[k] = s[a + i + k - 1]
    <2>1. /\ ASequence(y) /\ Len(y) = IF a + i <= a + n THEN a + n - (a + i) + 1 ELSE 0
          /\ \A k \in 1 .. a + n - (a + i) + 1 : y[k] = s[a + i + k - 1]
      BY <1>1, Cut
    <2>2. a + n - (a + i) + 1 = n - i + 1
      OBVIOUS
    <2> HIDE DEF y
    <2> QED
      BY <2>1, <2>2
  <1> HIDE DEF x, y
  <1>5. ASSUME NEW k \in 1 .. l PROVE x[k] = y[k]
    <2>1. /\ k \in 1 .. n - i + 1 /\ i + k - 1 \in 1 .. Len(s) - a
          /\ a + (i + k - 1) = a + i + k - 1
      BY <1>1
    <2> QED
      BY <1>2, <1>3, <1>4, <2>1
  <1> HIDE DEF l
  <1> QED
    BY <1>3, <1>4, <1>5, SameSequence DEF t, x, y

LEMMA CutNewestFront ==
  ASSUME NEW s, ASequence(s), NEW a \in Nat, NEW n \in Nat, a + n <= Len(s)
  PROVE  SubSeq(SubSeq(s, a + 1, Len(s)), 1, n) = SubSeq(s, a + 1, a + n)
  <1> DEFINE i == 1
  <1>1. i \in Nat /\ i >= 1
    OBVIOUS
  <1> HIDE DEF i
  <1>2. SubSeq(SubSeq(s, a + 1, Len(s)), i, n) = SubSeq(s, a + i, a + n)
    BY <1>1, CutNewest
  <1> QED
    BY <1>2 DEF i

\* t is what s has above a.
IsPart(t, s, a) == /\ ASequence(t) /\ Len(t) = Len(s) - a
                   /\ \A k \in 1 .. Len(t) : t[k] = s[a + k]

LEMMA NewestPart ==
  ASSUME NEW s, ASequence(s), NEW a \in Nat, a <= Len(s)
  PROVE  IsPart(SubSeq(s, a + 1, Len(s)), s, a)
  <1> DEFINE t == SubSeq(s, a + 1, Len(s))
  <1>1. Len(s) \in Nat
    BY LenProperties DEF ASequence
  <1>2. /\ ASequence(t) /\ Len(t) = IF a + 1 <= Len(s) THEN Len(s) - (a + 1) + 1 ELSE 0
        /\ \A k \in 1 .. Len(s) - (a + 1) + 1 : t[k] = s[a + 1 + k - 1]
    BY <1>1, Cut
  <1>3. \A k \in 1 .. Len(s) - a : a + 1 + k - 1 = a + k
    BY <1>1
  <1> HIDE DEF t
  <1>4. IsPart(t, s, a)
    BY <1>1, <1>2, <1>3 DEF IsPart
  <1> QED
    BY <1>4 DEF t

\* The newest values are those of the newest part.
LEMMA NewestOfNewest ==
  ASSUME NEW s, ASequence(s), NEW a \in Nat, NEW n \in Nat, a + n <= Len(s),
         NEW t, t = SubSeq(s, a + 1, Len(s))
  PROVE  /\ Newest(t, n) = Newest(s, n)
         /\ Keep(t, n) = SubSeq(s, a + 1, Len(s) - n)
  <1>1. Len(s) \in Nat
    BY LenProperties DEF ASequence
  <1>2. ASequence(t) /\ Len(t) = Len(s) - a
    <2>1. a <= Len(s)
      BY <1>1
    <2>2. IsPart(t, s, a)
      BY <2>1, NewestPart
    <2> QED
      BY <2>2 DEF IsPart
  <1>3. Newest(t, n) = Newest(s, n)
    <2> DEFINE i == Len(s) - a - n + 1
               m == Len(s) - a
    <2>1. /\ i \in Nat /\ i >= 1 /\ m \in Nat /\ a + m <= Len(s)
          /\ a + i = Len(s) - n + 1 /\ a + m = Len(s)
      BY <1>1
    <2> HIDE DEF i, m
    <2>2. SubSeq(SubSeq(s, a + 1, Len(s)), i, m) = SubSeq(s, a + i, a + m)
      BY <2>1, CutNewest
    <2>3. Newest(t, n) = SubSeq(t, i, m)
      BY <1>2 DEF Newest, i, m
    <2> QED
      BY <2>1, <2>2, <2>3 DEF Newest
  <1>4. Keep(t, n) = SubSeq(s, a + 1, Len(s) - n)
    <2> DEFINE m == Len(s) - a - n
    <2>1. m \in Nat /\ a + m <= Len(s) /\ a + m = Len(s) - n
      BY <1>1
    <2> HIDE DEF m
    <2>2. SubSeq(SubSeq(s, a + 1, Len(s)), 1, m) = SubSeq(s, a + 1, a + m)
      BY <2>1, CutNewestFront
    <2>3. Keep(t, n) = SubSeq(t, 1, m)
      BY <1>2 DEF Keep, m
    <2> QED
      BY <2>1, <2>2, <2>3
  <1> QED
    BY <1>2, <1>3, <1>4

LEMMA NewestStays ==
  ASSUME NEW s, ASequence(s), NEW a \in Nat, NEW n \in Nat, a + n <= Len(s)
  PROVE  Newest(SubSeq(s, a + 1, Len(s)), n) = Newest(s, n)
  BY NewestOfNewest

\* A sequence is its older and its newest part.
LEMMA TwoParts ==
  ASSUME NEW s, ASequence(s), NEW n \in Nat, n <= Len(s)
  PROVE  s = Keep(s, n) \o Newest(s, n)
  <1> DEFINE k == Keep(s, n)
             w == Newest(s, n)
             u == k \o w
             S == Range(k) \cup Range(w)
  <1>1. /\ Len(s) \in Nat /\ ASequence(k) /\ Len(k) = Len(s) - n
        /\ \A i \in 1 .. Len(s) - n : k[i] = s[i]
    BY KeepLength, LenProperties DEF ASequence
  <1>2. /\ ASequence(w) /\ Len(w) = n /\ \A i \in 1 .. n : w[i] = s[Len(s) - n + i]
    <2> DEFINE a == Len(s) - n
    <2>1. a \in Nat /\ w = SubSeq(s, a + 1, Len(s)) /\ Len(s) - a = n /\ a <= Len(s)
      BY <1>1 DEF Newest
    <2> HIDE DEF a, w
    <2>2. ASequence(w) /\ Len(w) = Len(s) - a /\ \A i \in 1 .. Len(w) : w[i] = s[a + i]
      BY <2>1, NewestPart DEF IsPart
    <2> QED
      BY <2>1, <2>2 DEF a
  <1> HIDE DEF k, w
  <1>3. k \in Seq(S) /\ w \in Seq(S)
    BY <1>1, <1>2, SeqMonotonic DEF ASequence
  <1> HIDE DEF S
  <1>4. /\ Len(u) = Len(k) + Len(w)
        /\ \A i \in 1 .. Len(k) + Len(w) : u[i] = IF i <= Len(k) THEN k[i] ELSE w[i - Len(k)]
    BY <1>3, ConcatProperties
  <1>5. ASequence(u)
    BY <1>1, <1>2, JoinLength
  <1> HIDE DEF u
  <1>6. ASSUME NEW i \in 1 .. Len(s) PROVE s[i] = u[i]
    <2>1. CASE i <= Len(s) - n
      BY <1>1, <1>2, <1>4, <2>1
    <2>2. CASE ~(i <= Len(s) - n)
      <3>1. /\ i - (Len(s) - n) \in 1 .. n /\ Len(s) - n + (i - (Len(s) - n)) = i
            /\ i \in 1 .. Len(k) + Len(w) /\ ~(i <= Len(k))
        BY <1>1, <1>2, <2>2
      <3> QED
        BY <1>1, <1>2, <1>4, <3>1
    <2> QED
      BY <2>1, <2>2
  <1>7. Len(u) = Len(s)
    BY <1>1, <1>2, <1>4
  <1> QED
    BY <1>5, <1>6, <1>7, SameSequence DEF u, k, w

\* Sequences that agree up to n have the same cuts up to there.
LEMMA CutAlike ==
  ASSUME NEW s, ASequence(s), NEW t, ASequence(t),
         NEW n \in Nat, n <= Len(s), n <= Len(t), SubSeq(s, 1, n) = SubSeq(t, 1, n),
         NEW a \in Nat, a >= 1, NEW b \in Nat, b <= n
  PROVE  SubSeq(s, a, b) = SubSeq(t, a, b)
  <1>1. SubSeq(SubSeq(s, 1, n), a, b) = SubSeq(s, a, b)
    BY CutAgain
  <1>2. SubSeq(SubSeq(t, 1, n), a, b) = SubSeq(t, a, b)
    BY CutAgain
  <1> QED
    BY <1>1, <1>2

\* The first part of a sequence that grows.
LEMMA JoinCut ==
  ASSUME NEW s, ASequence(s), NEW t, ASequence(t)
  PROVE  /\ SubSeq(s \o t, 1, Len(s)) = s
         /\ SubSeq(s \o t, Len(s) + 1, Len(s \o t)) = t
  <1> DEFINE S == Range(s) \cup Range(t)
             u == s \o t
  <1>1. s \in Seq(S) /\ t \in Seq(S)
    BY SeqMonotonic DEF ASequence
  <1> HIDE DEF S
  <1>2. /\ Len(s) \in Nat /\ Len(t) \in Nat
        /\ ASequence(u) /\ Len(u) = Len(s) + Len(t)
        /\ \A i \in 1 .. Len(s) + Len(t) : u[i] = IF i <= Len(s) THEN s[i] ELSE t[i - Len(s)]
    BY <1>1, ConcatProperties, LenProperties, JoinLength
  <1> HIDE DEF u
  <1>3. SubSeq(u, 1, Len(s)) = s
    <2>1. /\ ASequence(SubSeq(u, 1, Len(s))) /\ Len(SubSeq(u, 1, Len(s))) = Len(s)
          /\ \A i \in 1 .. Len(s) : SubSeq(u, 1, Len(s))[i] = u[i]
      BY <1>2, Cut
    <2>2. \A i \in 1 .. Len(s) : SubSeq(u, 1, Len(s))[i] = s[i]
      BY <1>2, <2>1
    <2> QED
      BY <2>1, <2>2, SameSequence
  <1>4. SubSeq(u, Len(s) + 1, Len(u)) = t
    <2> DEFINE w == SubSeq(u, Len(s) + 1, Len(u))
    <2>1. /\ ASequence(w) /\ Len(w) = Len(t)
          /\ \A i \in 1 .. Len(t) : w[i] = u[Len(s) + 1 + i - 1]
      <3>1. /\ ASequence(w)
            /\ Len(w) = IF Len(s) + 1 <= Len(u) THEN Len(u) - (Len(s) + 1) + 1 ELSE 0
            /\ \A i \in 1 .. Len(u) - (Len(s) + 1) + 1 : w[i] = u[Len(s) + 1 + i - 1]
        BY <1>2, Cut
      <3> QED
        BY <1>2, <3>1
    <2> HIDE DEF w
    <2>2. ASSUME NEW i \in 1 .. Len(w) PROVE w[i] = t[i]
      <3>1. /\ Len(s) + 1 + i - 1 = Len(s) + i /\ Len(s) + i - Len(s) = i
            /\ Len(s) + i \in 1 .. Len(s) + Len(t) /\ ~(Len(s) + i <= Len(s))
        BY <1>2, <2>1
      <3> QED
        BY <1>2, <2>1, <3>1
    <2> QED
      BY <2>1, <2>2, SameSequence DEF w
  <1> QED
    BY <1>3, <1>4 DEF u

LEMMA Pair ==
  ASSUME NEW x, NEW y
  PROVE  <<x>> \o <<y>> = <<x, y>>
  <1> DEFINE S == {x, y}
  <1>0. x \in S /\ y \in S /\ <<x>> \in Seq(S) /\ <<y>> \in Seq(S)
    OBVIOUS
  <1> HIDE DEF S
  <1> DEFINE u == <<x>> \o <<y>>
             w == <<x, y>>
  <1>1. /\ u \in Seq(S) /\ Len(u) = 2
        /\ \A i \in 1 .. 2 : u[i] = IF i <= 1 THEN x ELSE y
    <2>1. /\ Len(<<x>>) = 1 /\ Len(<<y>>) = 1 /\ <<x>>[1] = x /\ <<y>>[1] = y
      OBVIOUS
    <2>2. /\ u \in Seq(S) /\ Len(u) = 1 + 1
          /\ \A i \in 1 .. 1 + 1 : u[i] = IF i <= 1 THEN <<x>>[i] ELSE <<y>>[i - 1]
      BY <1>0, <2>1, ConcatProperties
    <2> HIDE DEF u
    <2>3. \A i \in 1 .. 2 : i = 1 \/ i = 2
      OBVIOUS
    <2> QED
      BY <2>1, <2>2, <2>3
  <1>2. w \in Seq(S) /\ Len(w) = 2 /\ w[1] = x /\ w[2] = y
    BY <1>0
  <1> HIDE DEF u, w
  <1>3. \A i \in 1 .. Len(u) : u[i] = w[i]
    BY <1>1, <1>2
  <1>4. u = w
    BY <1>1, <1>2, <1>3, SeqEqual
  <1> QED
    BY <1>4 DEF u, w

LEMMA PushTwo ==
  ASSUME NEW s, ASequence(s), NEW x, NEW y
  PROVE  Append(Append(s, x), y) = s \o <<x, y>>
  <1> DEFINE S == Range(s) \cup {x, y}
  <1>1. s \in Seq(S) /\ x \in S /\ y \in S
    BY SeqMonotonic DEF ASequence
  <1> HIDE DEF S
  <1>2. Append(s, x) \in Seq(S) /\ <<x>> \in Seq(S) /\ <<y>> \in Seq(S)
    BY <1>1, AppendProperties
  <1>3. Append(Append(s, x), y) = (s \o <<x>>) \o <<y>>
    BY <1>1, <1>2, AppendIsConcat
  <1>4. (s \o <<x>>) \o <<y>> = s \o (<<x>> \o <<y>>)
    BY <1>1, <1>2, ConcatAssociative
  <1>5. <<x>> \o <<y>> = <<x, y>>
    BY Pair
  <1> QED
    BY <1>3, <1>4, <1>5

LEMMA PushCut ==
  ASSUME NEW s, ASequence(s), NEW v
  PROVE  /\ SubSeq(Append(s, v), 1, Len(s)) = s
         /\ Keep(Append(s, v), 1) = s
  <1>1. /\ ASequence(Append(s, v)) /\ Len(Append(s, v)) = Len(s) + 1 /\ Len(s) \in Nat
        /\ \A i \in 1 .. Len(s) : Append(s, v)[i] = s[i]
    BY PushLength, LenProperties DEF ASequence
  <1> DEFINE u == Append(s, v)
  <1>2. ASequence(u) /\ Len(s) <= Len(u)
    BY <1>1
  <1> HIDE DEF u
  <1>3. /\ ASequence(SubSeq(u, 1, Len(s))) /\ Len(SubSeq(u, 1, Len(s))) = Len(s)
        /\ \A i \in 1 .. Len(s) : SubSeq(u, 1, Len(s))[i] = u[i]
    BY <1>1, <1>2, Cut
  <1>4. SubSeq(u, 1, Len(s)) = s
    BY <1>1, <1>3, SameSequence DEF u
  <1> QED
    BY <1>1, <1>4 DEF Keep, u

\* A nonempty set of numbers up to n has a greatest one.
LEMMA Greatest ==
  ASSUME NEW n \in Nat, NEW B, B \subseteq 0 .. n, B # {}
  PROVE  \E k \in B : \A j \in B : j <= k
  <1> DEFINE D == {d \in 0 .. n : n - d \in B}
  <1>1. D \subseteq Nat /\ D # {}
    <2>1. PICK k \in B : TRUE
      OBVIOUS
    <2>2. n - k \in 0 .. n /\ n - (n - k) = k
      OBVIOUS
    <2>3. n - k \in D
      BY <2>2
    <2>4. 0 .. n \subseteq Nat
      OBVIOUS
    <2> QED
      BY <2>3, <2>4
  <1>2. PICK x \in D : \A y \in D : <<y, x>> \notin OpToRel(<, Nat)
    BY <1>1, WFMin, NatLessThanWellFounded
  <1>3. \A y \in D : ~(y < x)
    BY <1>1, <1>2 DEF OpToRel
  <1>4. n - x \in B /\ x \in 0 .. n
    OBVIOUS
  <1>5. ASSUME NEW j \in B PROVE j <= n - x
    <2>1. n - j \in 0 .. n /\ n - (n - j) = j /\ j \in 0 .. n
      OBVIOUS
    <2>2. n - j \in D
      BY <2>1
    <2>3. ~(n - j < x)
      BY <1>3, <2>2
    <2> QED
      BY <1>4, <2>1, <2>3
  <1> QED
    BY <1>4, <1>5

\* Pushing on a stack is pushing on its newest part.
LEMMA PushNewest ==
  ASSUME NEW s, ASequence(s), NEW v, NEW n \in Nat, n <= Len(s)
  PROVE  SubSeq(Append(s, v), n + 1, Len(Append(s, v))) = Append(SubSeq(s, n + 1, Len(s)), v)
  <1> DEFINE w == Append(s, v)
             t == SubSeq(s, n + 1, Len(s))
             x == SubSeq(w, n + 1, Len(w))
             y == Append(t, v)
  <1>1. /\ Len(s) \in Nat /\ ASequence(w) /\ Len(w) = Len(s) + 1
        /\ \A i \in 1 .. Len(s) : w[i] = s[i]
        /\ w[Len(s) + 1] = v
    BY PushLength, LenProperties DEF ASequence
  <1> HIDE DEF w
  <1>2. /\ ASequence(t) /\ Len(t) = Len(s) - n
        /\ \A i \in 1 .. Len(s) - n : t[i] = s[n + i]
    <2>1. /\ ASequence(t) /\ Len(t) = IF n + 1 <= Len(s) THEN Len(s) - (n + 1) + 1 ELSE 0
          /\ \A i \in 1 .. Len(s) - (n + 1) + 1 : t[i] = s[n + 1 + i - 1]
      BY <1>1, Cut
    <2>2. \A i \in 1 .. Len(s) - n : n + 1 + i - 1 = n + i
      BY <1>1
    <2> QED
      BY <1>1, <2>1, <2>2
  <1>3. /\ ASequence(x) /\ Len(x) = Len(s) - n + 1
        /\ \A i \in 1 .. Len(s) - n + 1 : x[i] = w[n + i]
    <2>1. /\ ASequence(x) /\ Len(x) = IF n + 1 <= Len(w) THEN Len(w) - (n + 1) + 1 ELSE 0
          /\ \A i \in 1 .. Len(w) - (n + 1) + 1 : x[i] = w[n + 1 + i - 1]
      BY <1>1, Cut
    <2>2. \A i \in 1 .. Len(s) - n + 1 : n + 1 + i - 1 = n + i
      BY <1>1
    <2> QED
      BY SMTT(60), <1>1, <2>1, <2>2
  <1> HIDE DEF t, x
  <1>4. /\ ASequence(y) /\ Len(y) = Len(s) - n + 1
        /\ \A i \in 1 .. Len(s) - n : y[i] = t[i]
        /\ y[Len(s) - n + 1] = v
    BY <1>2, PushLength
  <1> HIDE DEF y
  <1>5. ASSUME NEW i \in 1 .. Len(s) - n + 1 PROVE x[i] = y[i]
    <2>1. CASE i = Len(s) - n + 1
      <3>1. n + i = Len(s) + 1
        BY <1>1, <2>1
      <3> QED
        BY <1>1, <1>3, <1>4, <2>1, <3>1
    <2>2. CASE i # Len(s) - n + 1
      <3>1. i \in 1 .. Len(s) - n /\ n + i \in 1 .. Len(s)
        BY <1>1, <2>2
      <3> QED
        BY <1>1, <1>2, <1>3, <1>4, <3>1
    <2> QED
      BY <2>1, <2>2
  <1> QED
    BY <1>3, <1>4, <1>5, SameSequence DEF x, y, t, w
-----------------------------------------------------------------------------
(***************************************************************************)
(* The activations that a stack and frames stand for.  They are stated for *)
(* any stack s, frames frs, running function f and place q in it, so that  *)
(* they can be compared before and after a step.                           *)
(***************************************************************************)

Act(who, at, ops) == [who |-> who, pc |-> at, ops |-> ops]

\* An activation with other operands, and one that receives a value.
Holding(act, ops) == [act EXCEPT !.ops = ops]
Given(act, v) == [act EXCEPT !.ops = Append(@, v)]

LEMMA Holds ==
  ASSUME NEW who, NEW at, NEW ops, NEW new
  PROVE  Holding(Act(who, at, ops), new) = Act(who, at, new)
  BY DEF Holding, Act

LEMMA Receives ==
  ASSUME NEW who, NEW at, NEW ops, NEW v
  PROVE  Given(Act(who, at, ops), v) = Act(who, at, Append(ops, v))
  <1> DEFINE act == Act(who, at, ops)
  <1>1. act.ops = ops
    BY DEF Act
  <1> HIDE DEF act
  <1>2. Given(act, v) = Holding(act, Append(ops, v))
    BY <1>1 DEF Given, Holding
  <1> QED
    BY <1>2, Holds DEF act

ActOf(s, frs, f, q, k) ==
  [who |-> IF k = Len(frs) THEN f ELSE frs[k + 1].func,
   pc  |-> IF k = Len(frs) THEN q ELSE frs[k + 1].ret_addr,
   ops |-> SubSeq(s, frs[k].stack_top + 1,
                  IF k = Len(frs) THEN Len(s) ELSE frs[k + 1].stack_top)]

\* What the host has on the stack: all of it once no call is left.
HostOps(c, s, frs) == IF Len(frs) = c.frame THEN s ELSE SubSeq(s, 1, c.top)

ActsOf(c, s, frs, f, q) ==
  [i \in 1 .. Len(frs) - c.frame + 1 |->
     IF i = 1 THEN HostAct(HostOps(c, s, frs)) ELSE ActOf(s, frs, f, q, c.frame + i - 1)]

\* Every activation starts above the host's operands, and below the youngest one.
Ordered(c, frs) ==
  \A k \in c.frame + 1 .. Len(frs) :
    c.top <= frs[k].stack_top /\ frs[k].stack_top <= frs[Len(frs)].stack_top

\* Where Chain relates neighbours, Ordered relates any two.
LEMMA ChainOrdered ==
  ASSUME NEW c, c.frame \in Nat, c.top \in Nat,
         NEW frs, ASequence(frs), FramesTyped(frs),
         NEW f, NEW q, NEW lim \in Int, Chain(c, frs, f, q, lim)
  PROVE  Ordered(c, frs)
  <1> DEFINE last == frs[Len(frs)].stack_top
             B    == {k \in c.frame + 1 .. Len(frs) : ~(frs[k].stack_top <= last)}
  <1>1. /\ Len(frs) \in Nat
        /\ \A k \in c.frame + 1 .. Len(frs) : frs[k].stack_top \in Nat /\ c.top <= frs[k].stack_top
    <2>1. Len(frs) \in Nat
      BY LenProperties DEF ASequence
    <2>2. ASSUME NEW k \in c.frame + 1 .. Len(frs)
          PROVE  frs[k].stack_top \in Nat /\ c.top <= frs[k].stack_top
      <3>1. k \in 1 .. Len(frs)
        BY <2>1
      <3>2. frs[k].stack_top \in Nat
        BY <3>1 DEF FramesTyped
      <3>3. frs[k].stack_top >= c.top
        BY DEF Chain
      <3> QED
        BY <3>2, <3>3
    <2> QED
      BY <2>1, <2>2
  <1>2. B = {}
    <2> SUFFICES ASSUME B # {} PROVE FALSE
      OBVIOUS
    <2>1. B \subseteq 0 .. Len(frs)
      BY <1>1
    <2>2. PICK k \in B : \A j \in B : j <= k
      BY <1>1, <2>1, Greatest, Zenon
    <2>3. k \in c.frame + 1 .. Len(frs) /\ ~(frs[k].stack_top <= last)
      OBVIOUS
    <2>4. k # Len(frs)
      BY <1>1, <2>3
    <2>5. k + 1 \in c.frame + 1 .. Len(frs)
      BY <1>1, <2>3, <2>4
    <2>6. frs[k + 1].stack_top <= last
      <3>1. k + 1 \notin B
        BY <1>1, <2>2, <2>3
      <3> QED
        BY <2>5, <3>1
    <2>7. frs[k].stack_top <= frs[k + 1].stack_top
      <3>1. /\ IsFunction(frs[k + 1].func)
            /\ frs[k + 1].ret_addr \in PcOf(frs[k + 1].func.prot)
            /\ frs[k + 1].stack_top + 1
                 = frs[k].stack_top + Extent(frs[k + 1].func.prot, frs[k + 1].ret_addr)
        BY <2>3, <2>4, <2>5 DEF Chain
      <3>2. Extent(frs[k + 1].func.prot, frs[k + 1].ret_addr) \in Nat \ {0}
        BY <3>1, Sizes DEF IsFunction
      <3> QED
        BY SMTT(60), <1>1, <2>3, <2>5, <3>1, <3>2
    <2> QED
      BY SMTT(60), <1>1, <2>3, <2>5, <2>6, <2>7
  <1> QED
    BY <1>1, <1>2 DEF Ordered

\* The host and an activation for each frame.
OneEach(A, c, s, frs, f, q) ==
  /\ ASequence(A)
  /\ Len(A) = Len(frs) - c.frame + 1
  /\ A[1] = HostAct(HostOps(c, s, frs))
  /\ \A i \in 2 .. Len(frs) - c.frame + 1 : A[i] = ActOf(s, frs, f, q, c.frame + i - 1)

LEMMA ActsLength ==
  ASSUME NEW c, c.frame \in Nat, NEW s, NEW frs, ASequence(frs), NEW f, NEW q,
         c.frame <= Len(frs)
  PROVE  OneEach(ActsOf(c, s, frs, f, q), c, s, frs, f, q)
  <1> DEFINE n == Len(frs) - c.frame + 1
             A == ActsOf(c, s, frs, f, q)
             e(i) == IF i = 1 THEN HostAct(HostOps(c, s, frs))
                              ELSE ActOf(s, frs, f, q, c.frame + i - 1)
             R == {e(i) : i \in 1 .. n}
  <1>1. n \in Nat /\ 1 \in 1 .. n
    BY LenProperties DEF ASequence
  <1>2. A = [i \in 1 .. n |-> e(i)]
    BY DEF ActsOf
  <1>3. A \in [1 .. n -> R]
    BY <1>2
  <1>4. \A i \in 1 .. n : A[i] = e(i)
    BY <1>2
  <1> HIDE DEF A, R
  <1>5. ASequence(A) /\ Len(A) = n
    BY <1>1, <1>3, Listed
  <1> QED
    BY <1>1, <1>4, <1>5 DEF OneEach, A

\* A is n activations P and one more, t.
OnTop(A, P, t, n) == A = Append(P, t) /\ ASequence(P) /\ Len(P) = n

LEMMA Tops ==
  ASSUME NEW A, NEW P, NEW t, NEW n \in Nat, OnTop(A, P, t, n)
  PROVE  /\ ASequence(A) /\ Len(A) = n + 1 /\ A[n + 1] = t /\ Keep(A, 1) = P
         /\ n >= 1 => A[1] = P[1] /\ A[n] = P[n] /\ Keep(A, 2) = Keep(P, 1)
  <1>1. A = Append(P, t) /\ ASequence(P) /\ Len(P) = n
    BY DEF OnTop
  <1>2. /\ ASequence(A) /\ Len(A) = n + 1 /\ A[n + 1] = t
        /\ \A i \in 1 .. n : A[i] = P[i]
    BY <1>1, PushLength
  <1>3. Keep(A, 1) = P
    BY <1>1, PushCut
  <1>4. ASSUME n >= 1 PROVE Keep(A, 2) = Keep(P, 1)
    <2>1. P = SubSeq(A, 1, n)
      BY <1>2, <1>3 DEF Keep
    <2>2. Keep(A, 2) = SubSeq(A, 1, n - 1) /\ Keep(P, 1) = SubSeq(P, 1, n - 1)
      <3>1. n + 1 - 2 = n - 1
        OBVIOUS
      <3> QED
        BY <1>1, <1>2, <3>1 DEF Keep
    <2>3. n - 1 \in Nat /\ n - 1 <= n /\ n <= Len(A)
      BY <1>2, <1>4
    <2>4. SubSeq(SubSeq(A, 1, n), 1, n - 1) = SubSeq(A, 1, n - 1)
      BY <1>2, <2>3, CutAgain
    <2> QED
      BY <2>1, <2>2, <2>4
  <1> QED
    BY <1>2, <1>3, <1>4

\* The youngest activation on top of what it was called from: what every step
\* looks at or changes, and what it leaves alone.
LEMMA Unstack ==
  ASSUME NEW c, c.frame \in Nat, c.top \in Nat,
         NEW s, ASequence(s),
         NEW frs, ASequence(frs), FramesTyped(frs), Len(frs) > c.frame,
         Ordered(c, frs), frs[c.frame + 1].stack_top = c.top,
         NEW f, NEW q,
         NEW fr, fr = frs[Len(frs)], fr.stack_top <= Len(s)
  PROVE  OnTop(ActsOf(c, s, frs, f, q),
               ActsOf(c, SubSeq(s, 1, fr.stack_top), Keep(frs, 1), fr.func, fr.ret_addr),
               Act(f, q, SubSeq(s, fr.stack_top + 1, Len(s))), Len(frs) - c.frame)
  <1> DEFINE m   == Len(frs)
             st  == fr.stack_top
             old == Keep(frs, 1)
             p   == SubSeq(s, 1, st)
             A   == ActsOf(c, s, frs, f, q)
             P   == ActsOf(c, p, old, fr.func, fr.ret_addr)
             t   == Act(f, q, SubSeq(s, st + 1, Len(s)))
             B   == Append(P, t)
  <1>1. /\ m \in Nat /\ m >= 1 /\ m > c.frame /\ Len(s) \in Nat
        /\ m \in c.frame + 1 .. m /\ m \in 1 .. m
    BY LenProperties DEF ASequence
  <1>2. /\ st \in Nat /\ st <= Len(s) /\ c.top <= st
        /\ \A k \in c.frame + 1 .. m : frs[k].stack_top \in Nat /\ frs[k].stack_top <= st
    <2>1. \A k \in c.frame + 1 .. m : k \in 1 .. m
      BY <1>1
    <2>2. \A k \in c.frame + 1 .. m : frs[k].stack_top \in Nat /\ frs[k].stack_top <= st
      BY <2>1 DEF FramesTyped, Ordered
    <2>3. c.top <= st
      BY <1>1 DEF Ordered
    <2> QED
      BY <1>1, <2>2, <2>3
  <1>3. /\ ASequence(old) /\ Len(old) = m - 1 /\ c.frame <= Len(old)
        /\ \A i \in 1 .. m - 1 : old[i] = frs[i]
    <2>1. 1 \in Nat /\ 1 <= Len(frs)
      BY <1>1
    <2>2. /\ ASequence(old) /\ Len(old) = m - 1
          /\ \A i \in 1 .. m - 1 : old[i] = frs[i]
      BY <2>1, KeepLength, Zenon
    <2> QED
      BY <1>1, <2>2
  <1>4. ASequence(p) /\ Len(p) = st
    BY <1>1, <1>2, Cut
  <1>5. \A a, b \in Nat : a >= 1 /\ b <= st => SubSeq(p, a, b) = SubSeq(s, a, b)
    BY <1>1, <1>2, CutAgain
  <1>6. /\ ASequence(A) /\ Len(A) = m - c.frame + 1
        /\ A[1] = HostAct(HostOps(c, s, frs))
        /\ \A i \in 2 .. m - c.frame + 1 : A[i] = ActOf(s, frs, f, q, c.frame + i - 1)
    <2>1. c.frame <= Len(frs)
      BY <1>1
    <2>2. OneEach(A, c, s, frs, f, q)
      BY <2>1, ActsLength
    <2> HIDE DEF A
    <2> QED
      BY <2>2 DEF OneEach
  <1>7. /\ ASequence(P) /\ Len(P) = m - c.frame
        /\ P[1] = HostAct(HostOps(c, p, old))
        /\ \A i \in 2 .. m - c.frame :
             P[i] = ActOf(p, old, fr.func, fr.ret_addr, c.frame + i - 1)
    <2>0. OneEach(P, c, p, old, fr.func, fr.ret_addr)
      BY <1>3, ActsLength
    <2> HIDE DEF P
    <2>1. /\ ASequence(P) /\ Len(P) = Len(old) - c.frame + 1
          /\ P[1] = HostAct(HostOps(c, p, old))
          /\ \A i \in 2 .. Len(old) - c.frame + 1 :
               P[i] = ActOf(p, old, fr.func, fr.ret_addr, c.frame + i - 1)
      BY <2>0 DEF OneEach
    <2>2. Len(old) - c.frame + 1 = m - c.frame
      BY <1>1, <1>3
    <2> QED
      BY <2>1, <2>2
  <1> HIDE DEF A, P, p, old, t
  <1>8. /\ ASequence(B) /\ Len(B) = m - c.frame + 1
        /\ \A i \in 1 .. m - c.frame : B[i] = P[i]
        /\ B[m - c.frame + 1] = t
    <2>1. ASequence(P)
      BY <1>7
    <2>2. /\ ASequence(B) /\ Len(B) = Len(P) + 1
          /\ \A i \in 1 .. Len(P) : B[i] = P[i]
          /\ B[Len(P) + 1] = t
      BY <2>1, PushLength
    <2>3. Len(P) = m - c.frame
      BY <1>7
    <2> HIDE DEF B
    <2> QED
      BY <2>2, <2>3
  <1> HIDE DEF B
  <1>9. ASSUME NEW i \in 1 .. m - c.frame + 1 PROVE A[i] = B[i]
    <2>1. CASE i = 1
      <3>1. HostOps(c, s, frs) = SubSeq(s, 1, c.top)
        BY <1>1 DEF HostOps
      <3>2. HostOps(c, p, old) = SubSeq(s, 1, c.top)
        <4>1. CASE Len(old) = c.frame
          <5>1. m = c.frame + 1
            BY <1>1, <1>3, <4>1
          <5> QED
            BY <4>1, <5>1 DEF HostOps, p
        <4>2. CASE Len(old) # c.frame
          <5>1. 1 \in Nat /\ 1 >= 1
            OBVIOUS
          <5>2. SubSeq(p, 1, c.top) = SubSeq(s, 1, c.top)
            BY <1>2, <1>5, <5>1
          <5> QED
            BY <4>2, <5>2 DEF HostOps
        <4> QED
          BY <4>1, <4>2
      <3>3. 1 \in 1 .. m - c.frame
        BY <1>1
      <3> QED
        BY <1>6, <1>7, <1>8, <2>1, <3>1, <3>2, <3>3
    <2>2. CASE i = m - c.frame + 1
      <3>1. i \in 2 .. m - c.frame + 1 /\ c.frame + i - 1 = m
        BY SMTT(60), <1>1, <2>2
      <3>2. ActOf(s, frs, f, q, m) = t
        BY DEF ActOf, Act, t
      <3> QED
        BY <1>6, <1>8, <2>2, <3>1, <3>2
    <2>3. CASE i # 1 /\ i # m - c.frame + 1
      <3> DEFINE k == c.frame + i - 1
      <3>1. /\ i \in 2 .. m - c.frame + 1 /\ i \in 2 .. m - c.frame /\ i \in 1 .. m - c.frame
            /\ k \in c.frame + 1 .. m /\ k \in 1 .. m - 1 /\ k + 1 \in c.frame + 1 .. m /\ k # m
        <4> DEFINE n == c.frame
        <4>1. n \in Nat /\ m \in Nat /\ m > n /\ i \in 1 .. m - n + 1 /\ i # 1 /\ i # m - n + 1
          BY <1>1, <2>3
        <4> HIDE DEF n, m
        <4>2. /\ i \in 2 .. m - n + 1 /\ i \in 2 .. m - n /\ i \in 1 .. m - n
              /\ n + i - 1 \in n + 1 .. m /\ n + i - 1 \in 1 .. m - 1
              /\ n + i - 1 + 1 \in n + 1 .. m /\ n + i - 1 # m
          BY <4>1
        <4> QED
          BY <4>2 DEF n
      <3>2. A[i] = ActOf(s, frs, f, q, k) /\ B[i] = ActOf(p, old, fr.func, fr.ret_addr, k)
        BY <1>6, <1>7, <1>8, <3>1
      <3> HIDE DEF k
      <3>3. /\ old[k] = frs[k] /\ frs[k].stack_top + 1 \in Nat /\ frs[k].stack_top + 1 >= 1
            /\ frs[k + 1].stack_top \in Nat /\ frs[k + 1].stack_top <= st
        <4>1. old[k] = frs[k]
          BY <1>3, <3>1
        <4>2. frs[k].stack_top \in Nat /\ frs[k + 1].stack_top \in Nat /\ frs[k + 1].stack_top <= st
          BY <1>2, <3>1
        <4> DEFINE x == frs[k].stack_top
        <4>3. x \in Nat
          BY <4>2
        <4> HIDE DEF x
        <4>4. x + 1 \in Nat /\ x + 1 >= 1
          BY <4>3
        <4> QED
          BY <4>1, <4>2, <4>4 DEF x
      <3>4. SubSeq(p, frs[k].stack_top + 1, frs[k + 1].stack_top)
              = SubSeq(s, frs[k].stack_top + 1, frs[k + 1].stack_top)
        BY <1>5, <3>3
      <3>5. ActOf(s, frs, f, q, k)
              = [who |-> frs[k + 1].func, pc |-> frs[k + 1].ret_addr,
                 ops |-> SubSeq(s, frs[k].stack_top + 1, frs[k + 1].stack_top)]
        BY <3>1 DEF ActOf
      <3>6. CASE k = Len(old)
        <4>1. k + 1 = m
          BY <1>1, <1>3, <3>1, <3>6
        <4>2. fr = frs[k + 1]
          BY <4>1
        <4>3. ActOf(p, old, fr.func, fr.ret_addr, k)
                = [who |-> fr.func, pc |-> fr.ret_addr,
                   ops |-> SubSeq(p, frs[k].stack_top + 1, st)]
          BY <1>4, <3>3, <3>6 DEF ActOf
        <4> QED
          BY <3>2, <3>4, <3>5, <4>2, <4>3
      <3>7. CASE k # Len(old)
        <4>1. k + 1 \in 1 .. m - 1
          BY <1>1, <1>3, <3>1, <3>7
        <4>2. old[k + 1] = frs[k + 1]
          BY <1>3, <4>1
        <4>3. ActOf(p, old, fr.func, fr.ret_addr, k)
                = [who |-> frs[k + 1].func, pc |-> frs[k + 1].ret_addr,
                   ops |-> SubSeq(p, frs[k].stack_top + 1, frs[k + 1].stack_top)]
          BY <3>3, <3>7, <4>2 DEF ActOf
        <4> QED
          BY <3>2, <3>4, <3>5, <4>3
      <3> QED
        BY <3>6, <3>7
    <2> QED
      BY <2>1, <2>2, <2>3
  <1>10. A = B
    BY <1>6, <1>8, <1>9, SameSequence
  <1> QED
    BY <1>7, <1>10 DEF OnTop, A, B, P, p, old, t

\* B is A when the youngest activation has received v.
Delivered(A, B, v) == B = Append(Keep(A, 1), Given(A[Len(A)], v))

\* A result that comes to the youngest activation.
LEMMA Result ==
  ASSUME NEW c, c.frame \in Nat, c.top \in Nat,
         NEW s, ASequence(s), NEW v,
         NEW frs, ASequence(frs), FramesTyped(frs), c.frame <= Len(frs),
         Ordered(c, frs),
         Len(frs) > c.frame => /\ frs[c.frame + 1].stack_top = c.top
                               /\ frs[Len(frs)].stack_top <= Len(s),
         NEW f, NEW q
  PROVE  Delivered(ActsOf(c, s, frs, f, q), ActsOf(c, Append(s, v), frs, f, q), v)
  <1> DEFINE w == Append(s, v)
             A == ActsOf(c, s, frs, f, q)
             B == ActsOf(c, w, frs, f, q)
  <1>1. Len(frs) \in Nat /\ Len(s) \in Nat
    BY LenProperties DEF ASequence
  <1>2. /\ ASequence(w) /\ Len(w) = Len(s) + 1 /\ SubSeq(w, 1, Len(s)) = s
    BY PushLength, PushCut
  <1>3. CASE Len(frs) = c.frame
    <2>1. /\ A = [i \in 1 .. 1 |-> HostAct(s)] /\ B = [i \in 1 .. 1 |-> HostAct(w)]
      BY <1>1, <1>3 DEF ActsOf, HostOps
    <2>2. A = <<HostAct(s)>> /\ B = <<HostAct(w)>> /\ A[Len(A)] = HostAct(s)
      BY <2>1
    <2>3. Keep(A, 1) = <<>>
      BY <2>2, SubSeqEmpty DEF Keep
    <2>4. Given(HostAct(s), v) = HostAct(w)
      BY Receives DEF HostAct, Act
    <2>5. \A x : Append(<<>>, x) = <<x>>
      OBVIOUS
    <2> HIDE DEF w
    <2> QED
      BY <2>2, <2>3, <2>4, <2>5 DEF w, Delivered
  <1>4. CASE Len(frs) > c.frame
    <2> DEFINE fr == frs[Len(frs)]
               st == fr.stack_top
               P  == ActsOf(c, SubSeq(s, 1, st), Keep(frs, 1), fr.func, fr.ret_addr)
    <2>1. st \in Nat /\ st <= Len(s) /\ st <= Len(w)
      <3>1. Len(frs) \in 1 .. Len(frs)
        BY <1>1, <1>4
      <3>2. st \in Nat
        BY <3>1 DEF FramesTyped
      <3> QED
        BY <1>1, <1>2, <1>4, <3>2
    <2> DEFINE t(z) == Act(f, q, SubSeq(z, st + 1, Len(z)))
    <2>2. OnTop(A, P, t(s), Len(frs) - c.frame)
      BY <1>4, <2>1, Unstack
    <2>3. SubSeq(w, 1, st) = SubSeq(s, 1, st)
      BY <1>1, <1>2, <2>1, CutAgain, SubSeqFull
    <2>4. OnTop(B, P, t(w), Len(frs) - c.frame)
      <3>1. OnTop(B, ActsOf(c, SubSeq(w, 1, st), Keep(frs, 1), fr.func, fr.ret_addr), t(w),
                  Len(frs) - c.frame)
        BY <1>2, <1>4, <2>1, Unstack
      <3> QED
        BY <2>3, <3>1
    <2>5. SubSeq(w, st + 1, Len(w)) = Append(SubSeq(s, st + 1, Len(s)), v)
      BY <1>1, <2>1, PushNewest
    <2> HIDE DEF P, t, st, fr, w
    <2>6. Keep(A, 1) = P /\ A[Len(A)] = t(s) /\ B = Append(P, t(w))
      BY <2>2, <2>4, PushCut, PushLength DEF OnTop
    <2>7. Given(t(s), v) = t(w)
      <3>1. /\ t(s) = Act(f, q, SubSeq(s, st + 1, Len(s)))
            /\ t(w) = Act(f, q, Append(SubSeq(s, st + 1, Len(s)), v))
        BY <2>5 DEF t
      <3> QED
        BY <3>1, Receives
    <2> QED
      BY <2>6, <2>7 DEF w, Delivered
  <1> QED
    BY <1>1, <1>3, <1>4
-----------------------------------------------------------------------------
(***************************************************************************)
(* What CallContract sees before and after a step.                         *)
(***************************************************************************)

LEMMA Joined ==
  ASSUME NEW c, c.frame \in Nat, NEW s, NEW frs, ASequence(frs), NEW f, NEW q,
         Len(frs) > c.frame
  PROVE  <<HostAct(SubSeq(s, 1, c.top))>>
           \o [k \in 1 .. Len(frs) - c.frame |-> ActOf(s, frs, f, q, c.frame + k)]
           = ActsOf(c, s, frs, f, q)
  <1> DEFINE n == Len(frs) - c.frame
             h == HostAct(SubSeq(s, 1, c.top))
             e(k) == ActOf(s, frs, f, q, k)
             x == <<h>>
             y == [k \in 1 .. n |-> e(c.frame + k)]
             A == ActsOf(c, s, frs, f, q)
  <1>1. n \in Nat /\ n >= 1 /\ Len(frs) \in Nat /\ c.frame <= Len(frs)
    BY LenProperties DEF ASequence
  <1>2. /\ ASequence(A) /\ Len(A) = n + 1 /\ A[1] = h
        /\ \A i \in 2 .. n + 1 : A[i] = e(c.frame + i - 1)
    <2>1. OneEach(A, c, s, frs, f, q)
      BY <1>1, ActsLength
    <2>2. HostAct(HostOps(c, s, frs)) = h
      BY DEF HostOps
    <2> HIDE DEF A
    <2> QED
      BY <1>1, <2>1, <2>2 DEF OneEach
  <1>3. ASequence(x) /\ Len(x) = 1 /\ x[1] = h
    <2>1. x \in Seq({h}) /\ Len(x) = 1 /\ x[1] = h
      OBVIOUS
    <2> QED
      BY <2>1, OwnRange
  <1>4. ASequence(y) /\ Len(y) = n /\ \A k \in 1 .. n : y[k] = e(c.frame + k)
    <2> DEFINE R == {e(c.frame + k) : k \in 1 .. n}
    <2>1. y \in [1 .. n -> R] /\ \A k \in 1 .. n : y[k] = e(c.frame + k)
      OBVIOUS
    <2> HIDE DEF y, R, n, e
    <2> QED
      BY <1>1, <2>1, Listed
  <1> HIDE DEF x, y, A, h, n, e
  <1>5. /\ ASequence(x \o y) /\ Len(x \o y) = n + 1
        /\ \A i \in 1 .. n + 1 : (x \o y)[i] = IF i <= 1 THEN x[i] ELSE y[i - 1]
    <2> DEFINE S == Range(x) \cup Range(y)
    <2>1. x \in Seq(S) /\ y \in Seq(S)
      BY <1>3, <1>4, SeqMonotonic DEF ASequence
    <2> HIDE DEF S
    <2>4. /\ Len(x \o y) = Len(x) + Len(y)
          /\ \A i \in 1 .. Len(x) + Len(y) :
               (x \o y)[i] = IF i <= Len(x) THEN x[i] ELSE y[i - Len(x)]
      BY <2>1, ConcatProperties
    <2>2. /\ Len(x \o y) = 1 + n
          /\ \A i \in 1 .. 1 + n : (x \o y)[i] = IF i <= 1 THEN x[i] ELSE y[i - 1]
      BY <1>3, <1>4, <2>4
    <2>3. ASequence(x \o y)
      BY <1>3, <1>4, JoinLength
    <2> QED
      BY <1>1, <2>2, <2>3
  <1>6. ASSUME NEW i \in 1 .. n + 1 PROVE (x \o y)[i] = A[i]
    <2>1. CASE i = 1
      BY <1>2, <1>3, <1>5, <2>1
    <2>2. CASE i # 1
      <3>1. i - 1 \in 1 .. n /\ i \in 2 .. n + 1 /\ ~(i <= 1) /\ c.frame + (i - 1) = c.frame + i - 1
        BY <1>1, <2>2
      <3> QED
        BY <1>2, <1>4, <1>5, <3>1
    <2> QED
      BY <2>1, <2>2
  <1>7. x \o y = A
    BY <1>2, <1>5, <1>6, SameSequence
  <1> QED
    BY <1>7 DEF x, y, A, h, n, e

LEMMA Alone ==
  ASSUME NEW c, NEW s, NEW frs, NEW f, NEW q, c.frame \in Nat, Len(frs) = c.frame
  PROVE  ActsOf(c, s, frs, f, q) = <<HostAct(s)>>
  <1>1. Len(frs) - c.frame + 1 = 1
    OBVIOUS
  <1>2. ActsOf(c, s, frs, f, q) = [i \in 1 .. 1 |-> HostAct(s)]
    BY <1>1 DEF ActsOf, HostOps
  <1> QED
    BY <1>2

\* The loop runs.
LEMMA Running ==
  ASSUME IInv, run = "loop"
  PROVE  Acts = ActsOf(call, stack, frames, func, pc)
  <1>1. ASequence(frames) /\ call.frame \in Nat /\ call.frame <= Len(frames) /\ Len(frames) \in Nat
    BY LenProperties DEF IInv, TypeOK, StackExact, Chain, ASequence
  <1>2. CASE Len(frames) = call.frame
    <2>1. Acts = <<HostAct(stack)>>
      BY <1>1, <1>2 DEF Acts, Live, Dead
    <2> QED
      BY <1>1, <1>2, <2>1, Alone
  <1>3. CASE Len(frames) > call.frame
    <2>1. Acts = <<HostAct(SubSeq(stack, 1, call.top))>>
                   \o [k \in 1 .. Len(frames) - call.frame |-> ActOf(stack, frames, func, pc, call.frame + k)]
      BY SMTT(60), <1>1, <1>3 DEF Acts, Live, Dead, Activation, ActOf
    <2> QED
      BY <1>1, <1>3, <2>1, Joined
  <1> QED
    BY <1>1, <1>2, <1>3

LEMMA RunningNext ==
  ASSUME IInv', run' = "loop"
  PROVE  Acts' = ActsOf(call', stack', frames', func', pc')
  <1>1. ASequence(frames') /\ call'.frame \in Nat /\ call'.frame <= Len(frames') /\ Len(frames') \in Nat
    BY LenProperties DEF IInv, TypeOK, StackExact, Chain, ASequence
  <1>2. CASE Len(frames') = call'.frame
    <2>1. Acts' = <<HostAct(stack')>>
      BY <1>1, <1>2 DEF Acts, Live, Dead, HostAct
    <2> QED
      BY <1>1, <1>2, <2>1, Alone
  <1>3. CASE Len(frames') > call'.frame
    <2>1. Acts' = <<HostAct(SubSeq(stack', 1, call'.top))>>
                   \o [k \in 1 .. Len(frames') - call'.frame |->
                         ActOf(stack', frames', func', pc', call'.frame + k)]
      BY SMTT(60), <1>1, <1>3 DEF Acts, Live, Dead, Activation, ActOf, HostAct
    <2> QED
      BY <1>1, <1>3, <2>1, Joined
  <1> QED
    BY <1>1, <1>2, <1>3

\* At an instruction: the youngest activation on top of the rest.
Own  == SubSeq(stack, FRAME.stack_top + 1, Len(stack))
Rest == ActsOf(call, SubSeq(stack, 1, FRAME.stack_top), Keep(frames, 1),
               FRAME.func, FRAME.ret_addr)
High == Len(frames) - call.frame

LEMMA Frames ==
  ASSUME IInv, NEW op, At(op)
  PROVE  /\ ASequence(stack) /\ ASequence(frames) /\ FramesTyped(frames)
         /\ call.frame \in Nat /\ call.top \in Nat
         /\ High \in Nat /\ High >= 1 /\ Len(frames) > call.frame
         /\ Ordered(call, frames) /\ frames[call.frame + 1].stack_top = call.top
         /\ FRAME.stack_top \in Nat /\ FRAME.stack_top <= Len(stack) /\ Len(stack) \in Nat
         /\ call.top <= FRAME.stack_top
  <1>1. /\ run = "loop" /\ Len(frames) \in Nat /\ Len(frames) > call.frame
        /\ FRAME.stack_top \in Nat /\ FRAME.stack_top >= call.top
        /\ Slots(func.prot) \in Nat /\ Depth[func.prot][pc] \in Nat
        /\ Len(stack) \in Nat
        /\ Len(stack) = FRAME.stack_top + 1 + Slots(func.prot) + Depth[func.prot][pc]
    BY Here
  <1>2. /\ Chain(call, frames, func, pc, Len(stack) - 1)
        /\ ASequence(stack) /\ ASequence(frames) /\ FramesTyped(frames)
        /\ call.frame \in Nat /\ call.top \in Nat
    BY <1>1 DEF IInv, TypeOK, StackExact
  <1>3. High \in Nat /\ High >= 1
    BY <1>1, <1>2 DEF High
  <1>4. frames[call.frame + 1].stack_top = call.top
    BY <1>1, <1>2 DEF Chain
  <1>5. Ordered(call, frames)
    <2> DEFINE lim == Len(stack) - 1
    <2>1. lim \in Int /\ Chain(call, frames, func, pc, lim)
      BY <1>1, <1>2
    <2> HIDE DEF lim
    <2> QED
      BY <1>2, <2>1, ChainOrdered
  <1>6. FRAME.stack_top <= Len(stack) /\ call.top <= FRAME.stack_top
    <2> DEFINE st == FRAME.stack_top
               sl == Slots(func.prot)
               d  == Depth[func.prot][pc]
    <2>1. st \in Nat /\ sl \in Nat /\ d \in Nat /\ Len(stack) = st + 1 + sl + d /\ st >= call.top
      BY <1>1
    <2> HIDE DEF st, sl, d
    <2>2. st <= Len(stack) /\ call.top <= st
      BY <1>2, <2>1
    <2> QED
      BY <2>2 DEF st
  <1> QED
    BY <1>1, <1>2, <1>3, <1>4, <1>5, <1>6

LEMMA Now ==
  ASSUME IInv, NEW op, At(op)
  PROVE  OnTop(Acts, Rest, Act(func, pc, Own), High)
  <1>1. Acts = ActsOf(call, stack, frames, func, pc)
    BY Running, Here
  <1>2. FRAME = frames[Len(frames)]
    BY DEF FRAME
  <1>3. OnTop(ActsOf(call, stack, frames, func, pc), Rest, Act(func, pc, Own), High)
    BY <1>2, Frames, Unstack DEF Rest, Own, High
  <1> QED
    BY <1>1, <1>3

\* Afterwards, if the frames are as they were and so is the stack below.
LEMMA Later ==
  ASSUME IInv, NEW op, At(op), IInv', run' = "loop",
         UNCHANGED <<frames, func, call>>,
         FRAME.stack_top <= Len(stack'),
         SubSeq(stack', 1, FRAME.stack_top) = SubSeq(stack, 1, FRAME.stack_top)
  PROVE  OnTop(Acts', Rest, Act(func, pc', SubSeq(stack', FRAME.stack_top + 1, Len(stack'))), High)
  <1> DEFINE s == stack'
             q == pc'
  <1>1. Acts' = ActsOf(call, s, frames, func, q)
    BY RunningNext
  <1>2. ASequence(s)
    BY DEF IInv, TypeOK
  <1>3. FRAME = frames[Len(frames)]
    BY DEF FRAME
  <1> HIDE DEF s, q
  <1>4. OnTop(ActsOf(call, s, frames, func, q),
              ActsOf(call, SubSeq(s, 1, FRAME.stack_top), Keep(frames, 1), FRAME.func, FRAME.ret_addr),
              Act(func, q, SubSeq(s, FRAME.stack_top + 1, Len(s))), High)
    <2>1. FRAME.stack_top <= Len(s)
      BY DEF s
    <2> QED
      BY <1>2, <1>3, <2>1, Frames, Unstack DEF High
  <1> QED
    BY <1>1, <1>4 DEF Rest, s, q
-----------------------------------------------------------------------------
(***************************************************************************)
(* Steps.                                                                  *)
(***************************************************************************)

\* The youngest activation keeps the stack up to m and puts at most one value
\* on top of that.
LEMMA WorkStep ==
  ASSUME IInv, NEW op, At(op), op \notin {"RETURN", "TCALL"}, IInv', run' = "loop",
         UNCHANGED <<frames, func, errtop, call>>,
         NEW STATE m, m \in Nat, FRAME.stack_top <= m, m <= Len(stack), m <= Len(stack'),
         Len(stack') <= m + 1, SubSeq(stack', 1, m) = SubSeq(stack, 1, m)
  PROVE  Contract!Work
  <1> DEFINE st == FRAME.stack_top
             s  == stack'
             own == SubSeq(s, st + 1, Len(s))
             A  == Acts
             B  == Acts'
             t  == Act(func, pc, Own)
             u  == Act(func, pc', own)
  <1>1. /\ ASequence(stack) /\ Len(stack) \in Nat /\ st \in Nat
        /\ High \in Nat /\ High >= 1
    BY Frames
  <1>2. ASequence(s) /\ Len(s) \in Nat
    BY LenProperties DEF IInv, TypeOK, ASequence
  <1>3. \A a, b \in Nat : a >= 1 /\ b <= m => SubSeq(s, a, b) = SubSeq(stack, a, b)
    BY <1>1, <1>2, CutAlike
  <1>4. st <= Len(s) /\ SubSeq(s, 1, st) = SubSeq(stack, 1, st)
    <2>1. 1 \in Nat /\ 1 >= 1 /\ st <= Len(s)
      BY <1>1, <1>2
    <2> QED
      BY <1>1, <1>3, <2>1
  <1>5. OnTop(A, Rest, t, High)
    BY Now
  <1>6. OnTop(B, Rest, u, High)
    BY <1>4, Later
  <1>7. /\ Len(A) = High + 1 /\ A[High + 1] = t /\ Keep(A, 1) = Rest
        /\ Len(B) = High + 1 /\ B[High + 1] = u /\ Keep(B, 1) = Rest
    BY <1>1, <1>5, <1>6, Tops
  <1>8. /\ t.who = func /\ t.pc = pc /\ t.ops = Own
        /\ u.who = func /\ u.ops = own
    BY DEF Act
  <1>9. InstAt(t.who, t.pc).op \notin {"RETURN", "TCALL"}
    <2>1. Inst.op = op
      BY Here
    <2> HIDE DEF t
    <2> QED
      BY <1>8, <2>1 DEF InstAt, Inst
  <1>10. \E n \in 0 .. Len(Own) : SubSeq(own, 1, n) = SubSeq(Own, 1, n) /\ Len(own) <= n + 1
    <2> DEFINE n == m - st
    <2>1. /\ n \in Nat /\ st + n = m /\ st + n <= Len(stack) /\ st + n <= Len(s)
      BY <1>1, <1>2
    <2>2. Len(Own) = Len(stack) - st /\ Len(own) = Len(s) - st
      <3>1. Len(SubSeq(stack, st + 1, Len(stack)))
              = IF st + 1 <= Len(stack) THEN Len(stack) - (st + 1) + 1 ELSE 0
        BY <1>1, Cut
      <3>2. Len(own) = IF st + 1 <= Len(s) THEN Len(s) - (st + 1) + 1 ELSE 0
        BY <1>1, <1>2, Cut
      <3>3. Own = SubSeq(stack, st + 1, Len(stack))
        BY DEF Own
      <3> HIDE DEF own, st, s
      <3> QED
        BY <1>1, <1>2, <1>4, <2>1, <3>1, <3>2, <3>3
    <2>3. SubSeq(Own, 1, n) = SubSeq(stack, st + 1, st + n)
      BY <1>1, <2>1, CutNewestFront DEF Own
    <2>4. SubSeq(own, 1, n) = SubSeq(s, st + 1, st + n)
      BY <1>1, <1>2, <2>1, CutNewestFront
    <2>5. SubSeq(s, st + 1, st + n) = SubSeq(stack, st + 1, st + n)
      <3>1. st + 1 \in Nat /\ st + 1 >= 1 /\ st + n \in Nat /\ st + n <= m
        BY <1>1, <2>1
      <3> QED
        BY <1>3, <3>1
    <2>6. n \in 0 .. Len(Own) /\ Len(own) <= n + 1
      <3> HIDE DEF own, st, s
      <3> QED
        BY <1>1, <1>2, <2>1, <2>2 DEF s
    <2> QED
      BY <2>3, <2>4, <2>5, <2>6
  <1> HIDE DEF A, B, t, u, own, s
  <1>11. /\ A[Len(A)].who = t.who /\ A[Len(A)].pc = t.pc /\ A[Len(A)].ops = Own
         /\ B[Len(B)].who = t.who /\ B[Len(B)].ops = own
    BY <1>7, <1>8
  <1>12. /\ Len(A) > 0 /\ Len(B) = Len(A) /\ SubSeq(B, 1, Len(B) - 1) = SubSeq(A, 1, Len(A) - 1)
    BY <1>1, <1>7 DEF Keep
  <1>13. errtop' = errtop
    OBVIOUS
  <1> QED
    BY <1>9, <1>10, <1>11, <1>12, <1>13
    DEF Contract!Work, Contract!InCode, Contract!Height, Contract!Op, Contract!Top,
        Contract!Below, Contract!Keep, A, B

\* The process ends.
LEMMA DieStep ==
  ASSUME run' \in Dead, errtop' = errtop
  PROVE  Contract!Die
  <1>1. Acts' = <<>>
    BY DEF Acts
  <1> QED
    BY <1>1 DEF Contract!Die

\* An error comes back to the host.
LEMMA FailStep ==
  ASSUME run' = "recover", errtop' = errtop, errtop \in Nat,
         ASequence(stack'),
         Acts # <<>>, NEW STATE o, ASequence(o), Acts[1] = HostAct(o),
         NEW STATE n, n \in Nat, errtop <= n, n <= Len(o), n <= Len(stack'),
         SubSeq(stack', 1, n) = SubSeq(o, 1, n)
  PROVE  Contract!Fail
  <1> DEFINE s == stack'
             A == Acts
             B == Acts'
  <1>1. B = <<HostAct(SubSeq(s, 1, errtop))>>
    BY DEF Acts, Dead, HostAct
  <1>2. SubSeq(s, 1, errtop) = SubSeq(o, 1, errtop)
    <2>1. 1 \in Nat /\ 1 >= 1
      OBVIOUS
    <2> HIDE DEF s
    <2>2. ASequence(s) /\ n <= Len(s) /\ SubSeq(s, 1, n) = SubSeq(o, 1, n)
      BY DEF s
    <2> QED
      BY <2>1, <2>2, CutAlike
  <1>3. [A[1] EXCEPT !.ops = SubSeq(@, 1, errtop)] = HostAct(SubSeq(o, 1, errtop))
    <2> DEFINE act == HostAct(o)
    <2>1. act.ops = o
      BY DEF HostAct
    <2>2. Holding(act, SubSeq(o, 1, errtop)) = HostAct(SubSeq(o, 1, errtop))
      BY Holds DEF HostAct, Act
    <2> HIDE DEF act
    <2>3. A[1] = act
      BY DEF act
    <2> HIDE DEF A
    <2> QED
      BY <2>1, <2>2, <2>3 DEF Holding
  <1>4. errtop # Unset
    BY DEF Unset
  <1> HIDE DEF A, B, s
  <1>5. B = <<[A[1] EXCEPT !.ops = SubSeq(@, 1, errtop)]>>
    BY <1>1, <1>2, <1>3
  <1> QED
    BY <1>4, <1>5 DEF Contract!Fail, A, B

\* An error ends the program, or what the host had called.
Stops == /\ errtop' = errtop
         /\ run' \in Dead \/ (run' = "recover" /\ errtop # Unset)

\* An instruction raises an error: its own operands may be gone, the host's are not.
LEMMA RaiseStep ==
  ASSUME IInv, NEW op, At(op), IInv', Stops,
         call.top <= Len(stack'), SubSeq(stack', 1, call.top) = SubSeq(stack, 1, call.top)
  PROVE  Contract!Fail \/ Contract!Die
  <1>1. run' \in Dead \/ (run' = "recover" /\ errtop # Unset)
    BY DEF Stops
  <1>2. CASE run' \in Dead
    BY <1>2, DieStep DEF Stops
  <1>3. CASE run' = "recover" /\ errtop # Unset
    <2> DEFINE o == SubSeq(stack, 1, call.top)
               n == call.top
    <2>1. /\ ASequence(stack) /\ Len(stack) \in Nat /\ call.top \in Nat /\ call.top <= Len(stack)
          /\ ASequence(frames) /\ call.frame \in Nat /\ Len(frames) > call.frame
          /\ call.frame <= Len(frames)
      <3>1. /\ ASequence(stack) /\ Len(stack) \in Nat /\ call.top \in Nat
            /\ call.top <= FRAME.stack_top /\ FRAME.stack_top <= Len(stack) /\ FRAME.stack_top \in Nat
            /\ ASequence(frames) /\ call.frame \in Nat /\ Len(frames) > call.frame
        BY Frames
      <3>2. Len(frames) \in Nat
        BY <3>1, LenProperties DEF ASequence
      <3> QED
        BY <3>1, <3>2
    <2>2. ASequence(o) /\ Len(o) = call.top
      <3> HIDE DEF n
      <3>1. n \in Nat /\ n <= Len(stack)
        BY <2>1 DEF n
      <3> QED
        BY <2>1, <3>1, Front
    <2>3. Acts # <<>> /\ Acts[1] = HostAct(o)
      <3> DEFINE A == ActsOf(call, stack, frames, func, pc)
      <3>1. OneEach(A, call, stack, frames, func, pc)
        BY <2>1, ActsLength
      <3>2. HostOps(call, stack, frames) = o
        BY <2>1 DEF HostOps
      <3>3. Acts = A
        BY Running, Here
      <3> HIDE DEF A
      <3>4. A[1] = HostAct(o) /\ Len(A) = Len(frames) - call.frame + 1
        BY <3>1, <3>2 DEF OneEach
      <3>5. A # <<>>
        <4>1. Len(frames) \in Nat
          BY <2>1, LenProperties DEF ASequence
        <4>2. Len(A) # 0
          BY <2>1, <3>4, <4>1
        <4> QED
          BY <4>2
      <3> QED
        BY <3>3, <3>4, <3>5
    <2>4. ASequence(stack') /\ errtop \in Nat /\ errtop <= call.top
      BY <1>3, Here DEF IInv, TypeOK, MarkKept
    <2>5. SubSeq(stack', 1, n) = SubSeq(o, 1, n)
      <3>1. ASequence(SubSeq(stack, 1, call.top)) /\ Len(SubSeq(stack, 1, call.top)) = call.top
        BY <2>2
      <3>2. SubSeq(o, 1, n) = o
        BY <2>2, SubSeqFull DEF ASequence
      <3> QED
        BY <3>2
    <2> HIDE DEF o
    <2>6. n \in Nat /\ errtop <= n /\ n <= Len(o) /\ n <= Len(stack')
      BY <2>1, <2>2, <2>4
    <2> HIDE DEF n
    <2> QED
      BY <1>3, <2>2, <2>3, <2>4, <2>5, <2>6, FailStep DEF Stops
  <1> QED
    BY <1>1, <1>2, <1>3

\* What most instructions do to their activation.
Inside == Contract!Work \/ Contract!Fail \/ Contract!Die

\* An instruction that has n operands fewer than before, and perhaps one more.
LEMMA DropWork ==
  ASSUME IInv, NEW op, At(op), op \notin {"RETURN", "TCALL"}, IInv',
         NEW n \in Nat, NEW STATE v, n <= Depth[func.prot][pc],
         stack' = Keep(stack, n) \/ stack' = Append(Keep(stack, n), v),
         UNCHANGED <<run, frames, func, errtop, call>>
  PROVE  Inside
  <1> DEFINE m  == Len(stack) - n
             k  == Keep(stack, n)
  <1>1. /\ ASequence(stack) /\ Len(stack) \in Nat /\ run = "loop"
        /\ m \in Nat /\ FRAME.stack_top <= m /\ m <= Len(stack) /\ n <= Len(stack)
    <2> DEFINE st == FRAME.stack_top
               sl == Slots(func.prot)
               d  == Depth[func.prot][pc]
    <2>1. /\ st \in Nat /\ sl \in Nat /\ d \in Nat /\ Len(stack) = st + 1 + sl + d /\ n <= d
          /\ run = "loop" /\ Len(stack) \in Nat
      BY Here
    <2>2. ASequence(stack)
      BY Frames
    <2> HIDE DEF st, sl, d
    <2>3. m \in Nat /\ st <= m /\ m <= Len(stack) /\ n <= Len(stack)
      BY <2>1
    <2> QED
      BY <2>1, <2>2, <2>3 DEF st
  <1>2. k = SubSeq(stack, 1, m) /\ ASequence(k) /\ Len(k) = m
    BY <1>1, KeepLength DEF Keep
  <1> HIDE DEF k, m
  <1>3. m <= Len(stack') /\ Len(stack') <= m + 1 /\ SubSeq(stack', 1, m) = SubSeq(stack, 1, m)
    <2>1. CASE stack' = k
      BY <1>1, <1>2, <2>1, SubSeqFull DEF ASequence
    <2>2. CASE stack' = Append(k, v)
      BY <1>1, <1>2, <2>2, PushCut, PushLength
    <2> QED
      BY <2>1, <2>2 DEF k
  <1>4. run' = "loop" /\ UNCHANGED <<frames, func, errtop, call>>
    BY <1>1
  <1>5. Contract!Work
    BY <1>1, <1>3, <1>4, WorkStep
  <1> QED
    BY <1>5 DEF Inside

LEMMA StopInside ==
  ASSUME IInv, NEW op, At(op), IInv', RaiseHere \/ Die("abort") \/ Die("wild")
  PROVE  Inside
  <1>1. CASE RaiseHere
    <2>1. Stops /\ stack' = stack
      BY <1>1 DEF RaiseHere, Raise, Stops, Dead
    <2>2. call.top <= Len(stack)
      BY Frames
    <2>3. Contract!Fail \/ Contract!Die
      BY <2>1, <2>2, RaiseStep
    <2> QED
      BY <2>3 DEF Inside
  <1>2. CASE Die("abort") \/ Die("wild")
    <2>1. run' \in Dead /\ errtop' = errtop
      BY <1>2 DEF Die, Dead
    <2> QED
      BY <2>1, DieStep DEF Inside
  <1> QED
    BY <1>1, <1>2

LEMMA ReplaceInside ==
  ASSUME IInv, NEW op, At(op), op \in Ops, op \notin {"RETURN", "TCALL"}, IInv',
         NEW n \in Nat, NEW STATE v, n <= Depth[func.prot][pc], Replace(n, v)
  PROVE  Inside
  <1>1. /\ stack' = Append(Keep(stack, n), v)
        /\ UNCHANGED <<run, frames, func, errtop, call>>
    BY DEF Replace, Goto
  <1> QED
    BY <1>1, DropWork

LEMMA PushInside ==
  ASSUME IInv, NEW op \in PushOps, At(op), IInv', NEW STATE v, PushValue(v)
  PROVE  Inside
  <1>1. op \in Ops /\ op \notin {"RETURN", "TCALL"}
    BY DEF PushOps, Ops
  <1>2. 0 \in Nat /\ 0 <= Depth[func.prot][pc]
    BY Here
  <1>3. CASE Len(stack) < STACK_SIZE
    BY <1>1, <1>2, <1>3, ReplaceInside DEF PushValue
  <1>4. CASE ~(Len(stack) < STACK_SIZE)
    BY <1>4, StopInside DEF PushValue
  <1> QED
    BY <1>3, <1>4

LEMMA UnaryInside ==
  ASSUME IInv, NEW op \in UnaryOps, At(op), IInv', NEW STATE v, Replace(1, v)
  PROVE  Inside
  <1>1. op \in Ops /\ op \notin {"RETURN", "TCALL"}
    BY DEF UnaryOps, Ops
  <1>2. Inst.op = op /\ func.prot \in Protos /\ pc \in PcOf(func.prot)
    BY Here
  <1>3. 1 \in Nat /\ 1 <= Depth[func.prot][pc]
    BY <1>2, EvenUse, Here DEF Inst
  <1> QED
    BY <1>1, <1>3, ReplaceInside

LEMMA BinaryInside ==
  ASSUME IInv, NEW op \in BinaryOps, At(op), IInv', NEW STATE v, Replace(2, v)
  PROVE  Inside
  <1>1. op \in Ops /\ op \notin {"RETURN", "TCALL"}
    BY DEF BinaryOps, Ops, ArithOps, CompareOps
  <1>2. Inst.op = op /\ func.prot \in Protos /\ pc \in PcOf(func.prot)
    BY Here
  <1>3. 2 \in Nat /\ 2 <= Depth[func.prot][pc]
    BY <1>2, EvenUse, Here DEF Inst
  <1> QED
    BY <1>1, <1>3, ReplaceInside

LEMMA ComputeInside == IInv /\ IInv' /\ Compute => Inside
  <1> SUFFICES ASSUME IInv, IInv', Compute PROVE Inside
    OBVIOUS
  <1>0. /\ "PUSH" \in PushOps /\ "LOAD" \in PushOps /\ "COPY" \in PushOps
        /\ "LAMBDA" \in PushOps /\ "GETGLOBAL" \in PushOps
        /\ "UNM" \in UnaryOps /\ "NOT" \in UnaryOps
        /\ "EQ" \in BinaryOps /\ "AND" \in BinaryOps /\ "OR" \in BinaryOps
        /\ ArithOps \subseteq BinaryOps /\ CompareOps \subseteq BinaryOps
    BY DEF PushOps, UnaryOps, BinaryOps
  <1>a. ASSUME NEW op, At(op)
        PROVE  /\ Inst.op = op /\ run = "loop"
               /\ func.prot \in Protos /\ pc \in PcOf(func.prot)
               /\ Depth[func.prot][pc] \in Nat
               /\ Inst = Code[func.prot][pc + 1]
    BY <1>a, Here DEF Inst
  \* The stack as it is.
  <1>b. ASSUME NEW op, At(op), op \notin {"RETURN", "TCALL"}, stack' = stack,
               UNCHANGED <<run, frames, func, errtop, call>>
        PROVE  Inside
    <2>1. 0 \in Nat /\ 0 <= Depth[func.prot][pc]
      BY <1>a, <1>b
    <2>2. stack' = Keep(stack, 0)
      <3>1. ASequence(stack) /\ Len(stack) \in Nat
        BY <1>b, Frames
      <3>2. Len(stack) - 0 = Len(stack)
        BY <3>1
      <3>3. SubSeq(stack, 1, Len(stack)) = stack
        BY <3>1, SubSeqFull DEF ASequence
      <3> QED
        BY <1>b, <3>2, <3>3 DEF Keep
    <2> QED
      BY <1>b, <2>1, <2>2, DropWork
  <1>1. CASE OpPush
    BY <1>0, <1>1, PushInside DEF OpPush
  <1>2. CASE OpPop
    <2>1. At("POP") /\ Goto(Keep(stack, Inst.a), pc + 1)
      BY <1>2 DEF OpPop
    <2> DEFINE n == Inst.a
    <2>2. n \in Nat /\ n <= Depth[func.prot][pc]
      <3>1. /\ Inst.op = "POP" /\ func.prot \in Protos /\ pc \in PcOf(func.prot)
            /\ Inst = Code[func.prot][pc + 1] /\ Depth[func.prot][pc] \in Nat
        BY <1>a, <2>1
      <3>2. Inst.a \in Nat /\ Depth[func.prot][pc] >= Inst.a
        BY <3>1, EvenUse
      <3> QED
        BY <3>1, <3>2
    <2>3. stack' = Keep(stack, n) /\ UNCHANGED <<run, frames, func, errtop, call>>
      BY <2>1 DEF Goto
    <2>4. "POP" \notin {"RETURN", "TCALL"}
      OBVIOUS
    <2> HIDE DEF n
    <2> QED
      BY <2>1, <2>2, <2>3, <2>4, DropWork
  <1>3. CASE OpLoad
    BY <1>0, <1>3, PushInside DEF OpLoad
  <1>4. CASE OpCopy
    <2>1. CASE Len(stack) < STACK_SIZE
      BY <1>0, <1>4, <2>1, PushInside DEF OpCopy, PushValue
    <2>2. CASE ~(Len(stack) < STACK_SIZE)
      BY <1>4, <2>2, StopInside DEF OpCopy
    <2> QED
      BY <2>1, <2>2
  <1>5. CASE OpArith
    <2>1. PICK op \in ArithOps : At(op)
      BY <1>5 DEF OpArith
    <2>2. Replace(2, Number) \/ RaiseHere
      BY <1>5 DEF OpArith
    <2> QED
      BY <1>0, <2>1, <2>2, BinaryInside, StopInside
  <1>6. CASE OpModByZero
    BY <1>6, StopInside DEF OpModByZero
  <1>7. CASE OpMinus
    <2>1. At("UNM") /\ (Replace(1, Number) \/ RaiseHere)
      BY <1>7 DEF OpMinus
    <2> QED
      BY <1>0, <2>1, UnaryInside, StopInside
  <1>8. CASE OpCompare
    <2>1. PICK op \in CompareOps : At(op)
      BY <1>8 DEF OpCompare
    <2>2. (\E b \in BOOLEAN : Replace(2, Bool(b))) \/ RaiseHere
      BY <1>8 DEF OpCompare
    <2> QED
      BY <1>0, <2>1, <2>2, BinaryInside, StopInside
  <1>9. CASE OpEqual
    <2>1. At("EQ") /\ \E b \in BOOLEAN : Replace(2, Bool(b))
      BY <1>9 DEF OpEqual
    <2> QED
      BY <1>0, <2>1, BinaryInside
  <1>10. CASE OpNot
    <2>1. At("NOT") /\ \E v \in {Bool(IF STK(-1).kind = "boolean" THEN ~STK(-1).b
                                      ELSE STK(-1).kind # "nil")} : Replace(1, v)
      BY <1>10 DEF OpNot
    <2> QED
      BY <1>0, <2>1, UnaryInside
  <1>11. CASE OpAnd
    BY <1>0, <1>11, BinaryInside DEF OpAnd
  <1>12. CASE OpOr
    BY <1>0, <1>12, BinaryInside DEF OpOr
  <1>13. CASE OpTest
    <2>1. At("TEST") /\ stack' = Keep(stack, 1) /\ UNCHANGED <<run, frames, func, errtop, call>>
      BY <1>13 DEF OpTest, Goto
    <2>2. 1 \in Nat /\ 1 <= Depth[func.prot][pc]
      BY <1>a, <2>1, EvenUse
    <2>3. "TEST" \notin {"RETURN", "TCALL"}
      OBVIOUS
    <2> QED
      BY <2>1, <2>2, <2>3, DropWork
  <1>14. CASE OpJump
    <2>1. At("JMP") /\ stack' = stack /\ UNCHANGED <<run, frames, func, errtop, call>>
      BY <1>14 DEF OpJump, Goto
    <2> QED
      BY <1>b, <2>1
  <1>15. CASE OpLambda
    <2>1. At("LAMBDA") /\ ((\E v : PushValue(v)) \/ Die("wild"))
      BY <1>15 DEF OpLambda
    <2> QED
      BY SMTT(60), <1>0, <2>1, PushInside, StopInside
  <1>16. CASE OpGetGlobal
    BY <1>0, <1>16, PushInside, StopInside DEF OpGetGlobal
  <1>17. CASE OpSetGlobal
    <2>1. At("SETGLOBAL")
      BY <1>17 DEF OpSetGlobal
    <2>2. CASE globals[Inst.name] # Inv
      BY <1>17, <2>1, <2>2, StopInside DEF OpSetGlobal
    <2>3. CASE globals[Inst.name] = Inv
      <3>1. stack' = stack /\ UNCHANGED <<run, frames, func, errtop, call>>
        BY <1>17, <2>3 DEF OpSetGlobal
      <3> QED
        BY <1>b, <2>1, <3>1
    <2> QED
      BY <2>2, <2>3
  <1> QED
    BY <1>1, <1>2, <1>3, <1>4, <1>5, <1>6, <1>7, <1>8, <1>9, <1>10, <1>11, <1>12,
       <1>13, <1>14, <1>15, <1>16, <1>17 DEF Compute
-----------------------------------------------------------------------------
(***************************************************************************)
(* Calls.                                                                  *)
(***************************************************************************)

\* What comes of a call: an error, a result, or a new activation.
Over(s, frs, f, ret, n) ==
  ~IsFunction(CalleeOf(s, n)) /\ \E v : Resume(s, frs, f, ret, n, v)

Entered(s, frs, f, ret, n) ==
  LET g == CalleeOf(s, n)
      e == Entry(g, Newest(s, n))
  IN /\ IsFunction(g) /\ ASequence(e)
     /\ stack' = Keep(s, n + 1) \o e
     /\ frames' = Append(frs, [func |-> f, stack_top |-> Len(s) - n - 1, ret_addr |-> ret])
     /\ func' = g /\ pc' = 0
     /\ UNCHANGED <<run, errtop, call>>

LEMMA Outcome ==
  ASSUME NEW STATE s, ASequence(s), NEW STATE frs, NEW STATE f, NEW STATE ret,
         NEW STATE n, n \in Nat, n <= Len(s), Invoke(s, frs, f, ret, n)
  PROVE  \/ Die("abort") \/ (Stops /\ stack' = s)
         \/ Over(s, frs, f, ret, n) \/ Entered(s, frs, f, ret, n)
  <1>1. ASSUME NEW x, RaiseFrom(s, frs, x) PROVE Stops /\ stack' = s
    BY <1>1 DEF RaiseFrom, Raise, Stops, Dead
  <1>2. CASE EnterFunction(s, frs, f, ret, n)
    <2> DEFINE g     == CalleeOf(s, n)
               args  == Newest(s, n)
               e     == Entry(g, args)
               frame == [func |-> f, stack_top |-> Len(s) - n - 1, ret_addr |-> ret]
               bad   == Arity[g.prot] >= 0 /\ Arity[g.prot] # n
    <2>1. IsFunction(g)
      BY <1>2 DEF EnterFunction
    <2>2. \/ Die("abort")
          \/ stack' = s /\ Raise(frames') /\ errtop' = errtop
          \/ /\ ~bad /\ stack' = Keep(s, n + 1) \o e
             /\ frames' = Append(frs, frame)
             /\ func' = g /\ pc' = 0
             /\ UNCHANGED <<run, errtop, call>>
      BY <1>2 DEF EnterFunction
    <2>3. CASE stack' = s /\ Raise(frames') /\ errtop' = errtop
      BY <2>3 DEF Raise, Stops, Dead
    <2>4. CASE /\ ~bad /\ stack' = Keep(s, n + 1) \o e
               /\ frames' = Append(frs, frame)
               /\ func' = g /\ pc' = 0
               /\ UNCHANGED <<run, errtop, call>>
      <3>1. ASequence(args) /\ Len(args) = n
        BY NewestLength
      <3>2. Arity[g.prot] \in Int
        BY <2>1, Sizes DEF IsFunction
      <3> HIDE DEF g, args
      <3>3. Arity[g.prot] < 0 \/ Len(args) = Arity[g.prot]
        BY <2>4, <3>1, <3>2
      <3>4. ASequence(e)
        BY <2>1, <3>1, <3>3, EntryLength
      <3> QED
        BY <2>1, <2>4, <3>4 DEF Entered, g, args
    <2> QED
      BY <2>2, <2>3, <2>4
  <1>3. CASE CallNative(s, frs, f, ret, n)
    BY <1>1, <1>3 DEF CallNative, IsFunction, Over
  <1>4. CASE CallIndexed(s, frs, f, ret, n)
    BY <1>1, <1>4 DEF CallIndexed, IsFunction, Over, Indexed
  <1>5. CASE CallOther(s, frs, f, ret, n)
    BY <1>1, <1>5 DEF CallOther
  <1> QED
    BY <1>2, <1>3, <1>4, <1>5 DEF Invoke

\* A new activation e on top of those that k and frs stand for.
LEMMA Above ==
  ASSUME IInv', run' = "loop",
         NEW STATE k, ASequence(k), NEW STATE e, ASequence(e), stack' = k \o e,
         NEW STATE frs, ASequence(frs), NEW STATE fr, frames' = Append(frs, fr),
         fr.stack_top = Len(k), call'.frame <= Len(frs)
  PROVE  OnTop(Acts', ActsOf(call', k, frs, fr.func, fr.ret_addr),
               Act(func', pc', e), Len(frs) - call'.frame + 1)
  <1> DEFINE c == call'
             s == stack'
             F == frames'
             g == func'
             q == pc'
             lim == Len(s) - 1
  <1>1. Acts' = ActsOf(c, s, F, g, q)
    BY RunningNext
  <1>2. /\ ASequence(s) /\ ASequence(F) /\ FramesTyped(F)
        /\ c.frame \in Nat /\ c.top \in Nat /\ Chain(c, F, g, q, lim)
    BY DEF IInv, TypeOK, StackExact
  <1>3. /\ s = k \o e /\ F = Append(frs, fr) /\ c.frame <= Len(frs)
    OBVIOUS
  <1> HIDE DEF c, s, F, g, q
  <1>4. /\ Len(k) \in Nat /\ Len(e) \in Nat /\ Len(frs) \in Nat
        /\ Len(s) = Len(k) + Len(e) /\ lim \in Int
    <2>1. /\ Len(k) \in Nat /\ Len(e) \in Nat /\ Len(frs) \in Nat
      BY LenProperties DEF ASequence
    <2> QED
      BY <1>3, <2>1, JoinLength
  <1>5. Len(F) = Len(frs) + 1 /\ F[Len(frs) + 1] = fr /\ Keep(F, 1) = frs
    BY <1>3, PushLength, PushCut
  <1> HIDE DEF lim
  <1>6. Ordered(c, F)
    BY <1>2, <1>4, ChainOrdered
  <1>7. Len(F) > c.frame /\ F[c.frame + 1].stack_top = c.top
    <2>1. Len(F) > c.frame
      BY <1>2, <1>3, <1>4, <1>5
    <2> QED
      BY <1>2, <2>1 DEF Chain
  <1>8. fr = F[Len(F)] /\ fr.stack_top <= Len(s)
    BY <1>4, <1>5
  <1>9. OnTop(ActsOf(c, s, F, g, q),
              ActsOf(c, SubSeq(s, 1, fr.stack_top), Keep(F, 1), fr.func, fr.ret_addr),
              Act(g, q, SubSeq(s, fr.stack_top + 1, Len(s))), Len(F) - c.frame)
    BY <1>2, <1>6, <1>7, <1>8, Unstack
  <1>10. SubSeq(s, 1, fr.stack_top) = k /\ SubSeq(s, fr.stack_top + 1, Len(s)) = e
    BY <1>3, JoinCut
  <1>11. Len(F) - c.frame = Len(frs) - c.frame + 1
    <2>1. /\ c.frame \in Nat /\ Len(frs) \in Nat /\ Len(F) = Len(frs) + 1
      BY <1>2, <1>4, <1>5
    <2> HIDE DEF F
    <2> QED
      BY <2>1
  <1> QED
    BY <1>1, <1>5, <1>9, <1>10, <1>11 DEF c, s, F, g, q

\* The callee and its n arguments, as the activation that calls sees them: k is
\* what is left of the stack without them.
Arguments(n, k, st) ==
  /\ st \in Nat /\ n + 1 \in Nat /\ n + 1 <= Len(stack)
  /\ st <= Len(stack) - (n + 1)
  /\ ASequence(k) /\ Len(k) = Len(stack) - (n + 1)
  /\ SubSeq(k, 1, st) = SubSeq(stack, 1, st)
  /\ SubSeq(k, st + 1, Len(k)) = Keep(Own, n + 1)
  /\ Newest(Own, n) = Newest(stack, n)
  /\ Own[Len(Own) - n] = CalleeOf(stack, n)

LEMMA Operands ==
  ASSUME IInv, NEW op, At(op), NEW n \in Nat, n < Depth[func.prot][pc],
         NEW k, k = Keep(stack, n + 1), NEW st, st = FRAME.stack_top
  PROVE  Arguments(n, k, st)
  <1>1. ASequence(stack) /\ Len(stack) \in Nat /\ st \in Nat
    BY Frames
  <1>2. n + 1 \in Nat /\ n + 1 <= Len(stack) /\ st + (n + 1) <= Len(stack)
    <2> DEFINE sl  == Slots(func.prot)
               d   == Depth[func.prot][pc]
               len == Len(stack)
    <2>1. sl \in Nat /\ d \in Nat /\ d > n /\ len = st + 1 + sl + d
      BY Here
    <2> HIDE DEF sl, d, len
    <2>2. n + 1 <= len /\ st + n + 2 <= len
      BY <1>1, <2>1, CalleeFits
    <2>3. len \in Nat
      BY <1>1 DEF len
    <2>4. n + 1 \in Nat /\ st + (n + 1) <= len
      BY <1>1, <2>2, <2>3
    <2> QED
      BY <2>2, <2>4 DEF len
  <1>3. ASequence(k) /\ Len(k) = Len(stack) - (n + 1) /\ k = SubSeq(stack, 1, Len(stack) - (n + 1))
    BY <1>1, <1>2, KeepLength DEF Keep
  <1> DEFINE m == Len(stack) - (n + 1)
  <1>4. m \in Nat /\ m <= Len(stack) /\ st <= m
    BY <1>1, <1>2
  <1> HIDE DEF m
  <1>5. \A a, b \in Nat : a >= 1 /\ b <= m => SubSeq(SubSeq(stack, 1, m), a, b) = SubSeq(stack, a, b)
    BY <1>1, <1>4, CutAgain
  <1>6. k = SubSeq(stack, 1, m) /\ Len(k) = m
    BY <1>3 DEF m
  <1>7. SubSeq(k, 1, st) = SubSeq(stack, 1, st)
    <2>1. 1 \in Nat /\ 1 >= 1
      OBVIOUS
    <2> QED
      BY <1>1, <1>4, <1>5, <1>6, <2>1
  <1>8. Own = SubSeq(stack, st + 1, Len(stack))
    BY DEF Own
  <1>9. Keep(Own, n + 1) = SubSeq(stack, st + 1, Len(stack) - (n + 1))
    BY ZenonT(60), <1>1, <1>2, <1>8, NewestOfNewest
  <1>10. SubSeq(k, st + 1, Len(k)) = Keep(Own, n + 1)
    <2>1. st + 1 \in Nat /\ st + 1 >= 1
      BY <1>1
    <2>2. SubSeq(k, st + 1, m) = SubSeq(stack, st + 1, m)
      BY SMTT(60), <1>4, <1>5, <1>6, <2>1
    <2> QED
      BY <1>6, <1>9, <2>2 DEF m
  <1>11. Newest(Own, n) = Newest(stack, n)
    <2> DEFINE t == Own
               u == stack
    <2>1. /\ n \in Nat /\ st \in Nat /\ st + n <= Len(u)
          /\ ASequence(u) /\ t = SubSeq(u, st + 1, Len(u))
      BY <1>1, <1>2, <1>8
    <2> HIDE DEF t, u
    <2>2. Newest(SubSeq(u, st + 1, Len(u)), n) = Newest(u, n)
      BY <2>1, NewestStays
    <2> QED
      BY <2>1, <2>2 DEF t, u
  <1>12. Own[Len(Own) - n] = stack[Len(stack) - n]
    <2>1. st <= Len(stack)
      BY <1>1, <1>2
    <2>2. IsPart(Own, stack, st)
      BY <1>1, <1>8, <2>1, NewestPart
    <2>3. Len(Own) = Len(stack) - st /\ \A i \in 1 .. Len(Own) : Own[i] = stack[st + i]
      BY <2>2 DEF IsPart
    <2>4. Len(Own) - n \in 1 .. Len(Own) /\ st + (Len(Own) - n) = Len(stack) - n
      BY <1>1, <1>2, <2>3
    <2> QED
      BY <2>3, <2>4
  <1> QED
    BY <1>1, <1>2, <1>3, <1>4, <1>7, <1>10, <1>11, <1>12 DEF CalleeOf, Arguments, m

\* What CallContract looks at in the youngest activation.
LEMMA Youngest ==
  ASSUME IInv, NEW op, At(op)
  PROVE  /\ Contract!Height = High + 1 /\ Contract!InCode
         /\ Contract!Top = Act(func, pc, Own) /\ Contract!Below = Rest
         /\ Contract!Op = Inst /\ Inst.op = op
  <1> DEFINE A == Acts
             t == Act(func, pc, Own)
  <1>1. High \in Nat /\ High >= 1
    BY Frames
  <1>2. OnTop(A, Rest, t, High)
    BY Now
  <1>3. Len(A) = High + 1 /\ A[High + 1] = t /\ Keep(A, 1) = Rest
    BY <1>1, <1>2, Tops
  <1>4. t.who = func /\ t.pc = pc
    BY DEF Act
  <1>5. InstAt(func, pc) = Inst
    BY DEF InstAt, Inst
  <1>6. Inst.op = op
    BY Here
  <1> HIDE DEF A, t
  <1>7. High + 1 > 1
    BY <1>1
  <1>8. A[Len(A)] = t /\ SubSeq(A, 1, Len(A) - 1) = Rest /\ InstAt(A[Len(A)].who, A[Len(A)].pc) = Inst
    BY <1>3, <1>4, <1>5 DEF Keep
  <1>9. Contract!Height = High + 1 /\ Contract!InCode
    BY <1>3, <1>7 DEF Contract!Height, Contract!InCode, A
  <1>10. Contract!Top = t /\ Contract!Below = Rest /\ Contract!Op = Inst
    BY <1>8 DEF Contract!Height, Contract!Top, Contract!Below, Contract!Keep, Contract!Op, A
  <1> QED
    BY <1>6, <1>9, <1>10 DEF t

\* The same for the callee and its arguments.
LEMMA Called ==
  ASSUME IInv, NEW op, At(op), NEW n \in Nat, n = Inst.a, n < Depth[func.prot][pc]
  PROVE  /\ Contract!Callee = CalleeOf(stack, n)
         /\ Contract!Args = Newest(stack, n)
  <1>1. Contract!Top.ops = Own
    <2>1. Contract!Top = Act(func, pc, Own)
      BY Youngest
    <2> QED
      BY <2>1 DEF Act
  <1>2. Contract!Op.a = n
    BY Youngest
  <1>3. Newest(Own, n) = Newest(stack, n) /\ Own[Len(Own) - n] = CalleeOf(stack, n)
    BY Operands DEF Arguments
  <1>4. Contract!Callee = Own[Len(Own) - n]
    BY <1>1, <1>2 DEF Contract!Callee
  <1>5. Contract!Args = Newest(Own, n)
    BY <1>1, <1>2 DEF Contract!Args, Contract!Newest, Newest
  <1> QED
    BY <1>3, <1>4, <1>5

\* An activation that waits for the result of a call.
Waiting(act, ops, at) == [act EXCEPT !.ops = ops, !.pc = at]

LEMMA Waits ==
  ASSUME NEW who, NEW at, NEW ops, NEW new, NEW next
  PROVE  Waiting(Act(who, at, ops), new, next) = Act(who, next, new)
  <1> DEFINE a == Act(who, at, ops)
             b == [a EXCEPT !.ops = new]
  <1>1. b = Act(who, at, new)
    BY DEF Act
  <1>2. [b EXCEPT !.pc = next] = Act(who, next, new)
    <2> HIDE DEF b
    <2> QED
      BY <1>1 DEF Act
  <1>3. Waiting(a, new, next) = [b EXCEPT !.pc = next]
    <2> HIDE DEF a
    <2> QED
      BY DEF Waiting
  <1> QED
    BY <1>2, <1>3

LEMMA CallRefines ==
  ASSUME IInv, IInv', OpCall
  PROVE  Inside \/ Contract!Call
  <1> DEFINE n  == Inst.a
             st == FRAME.stack_top
             k  == Keep(stack, n + 1)
             g  == CalleeOf(stack, n)
             e  == Entry(g, Newest(stack, n))
             q  == pc + 1
  <1>1. At("CALL") /\ Invoke(stack, frames, func, q, n)
    BY DEF OpCall
  <1>2. /\ run = "loop" /\ Inst.op = "CALL"
        /\ func.prot \in Protos /\ pc \in PcOf(func.prot)
        /\ Depth[func.prot][pc] \in Nat
    BY <1>1, Here
  <1>3. n \in Nat /\ n < Depth[func.prot][pc]
    <2>1. n \in Nat /\ Depth[func.prot][pc] > n
      BY <1>2, EvenUse DEF Inst
    <2> QED
      BY <1>2, <2>1
  <1>4. /\ ASequence(stack) /\ Len(stack) \in Nat /\ ASequence(frames) /\ FramesTyped(frames)
        /\ call.frame \in Nat /\ call.top \in Nat /\ Len(frames) > call.frame
        /\ Ordered(call, frames) /\ frames[call.frame + 1].stack_top = call.top
        /\ High \in Nat /\ High >= 1
    BY <1>1, Frames
  <1>5. /\ st \in Nat /\ n + 1 \in Nat /\ n + 1 <= Len(stack)
        /\ st <= Len(stack) - (n + 1)
        /\ ASequence(k) /\ Len(k) = Len(stack) - (n + 1)
        /\ SubSeq(k, 1, st) = SubSeq(stack, 1, st)
        /\ SubSeq(k, st + 1, Len(k)) = Keep(Own, n + 1)
    <2>1. k = Keep(stack, n + 1) /\ st = FRAME.stack_top
      OBVIOUS
    <2> HIDE DEF n, k, st
    <2>2. Arguments(n, k, st)
      BY <1>1, <1>3, <2>1, Operands
    <2> QED
      BY <2>2 DEF Arguments
  <1>6. n <= Len(stack) /\ Len(stack) - n - 1 = Len(stack) - (n + 1)
    BY SMTT(60), <1>3, <1>4, <1>5
  <1> HIDE DEF n
  <1>7. \/ Die("abort") \/ (Stops /\ stack' = stack)
        \/ Over(stack, frames, func, q, n) \/ Entered(stack, frames, func, q, n)
    BY <1>1, <1>3, <1>4, <1>6, Outcome
  <1>8. CASE Die("abort")
    BY <1>1, <1>8, StopInside
  <1>9. CASE Stops /\ stack' = stack
    <2>1. call.top <= Len(stack) /\ SubSeq(stack', 1, call.top) = SubSeq(stack, 1, call.top)
      BY <1>1, <1>9, Frames
    <2> QED
      BY <1>1, <1>9, <2>1, RaiseStep DEF Inside
  <1>10. CASE Over(stack, frames, func, q, n)
    <2>1. PICK v : Resume(stack, frames, func, q, n, v)
      BY <1>10 DEF Over
    <2>2. /\ stack' = Append(Keep(stack, n + 1), v)
          /\ UNCHANGED <<run, frames, func, errtop, call>>
      BY <2>1 DEF Resume
    <2>3. n + 1 <= Depth[func.prot][pc] /\ "CALL" \notin {"RETURN", "TCALL"}
      BY <1>2, <1>3
    <2>4. \E w \in {v} : stack' = Append(Keep(stack, n + 1), w)
      BY <2>2
    <2> QED
      BY <1>1, <1>5, <2>2, <2>3, DropWork
  <1>11. CASE Entered(stack, frames, func, q, n)
    <2> DEFINE fr == [func |-> func, stack_top |-> Len(stack) - n - 1, ret_addr |-> q]
               P  == ActsOf(call, k, frames, func, q)
               t  == Act(func, q, Keep(Own, n + 1))
               u  == Act(g, 0, e)
    <2>1. /\ IsFunction(g) /\ ASequence(e) /\ stack' = k \o e /\ frames' = Append(frames, fr)
          /\ func' = g /\ pc' = 0 /\ UNCHANGED <<run, errtop, call>>
      BY <1>11 DEF Entered
    <2>2. OnTop(Acts', P, u, High + 1)
      <3>1. fr.func = func /\ fr.ret_addr = q /\ fr.stack_top = Len(k)
        BY <1>5, <1>6
      <3>2. call'.frame <= Len(frames) /\ Len(frames) - call'.frame + 1 = High + 1 /\ run' = "loop"
        BY <1>2, <1>4, <2>1 DEF High
      <3> HIDE DEF fr, k, e, g, q
      <3>3. OnTop(Acts', ActsOf(call', k, frames, fr.func, fr.ret_addr),
                  Act(func', pc', e), Len(frames) - call'.frame + 1)
        BY <1>4, <1>5, <2>1, <3>1, <3>2, Above
      <3> QED
        BY <2>1, <3>1, <3>2, <3>3 DEF e
    <2>3. OnTop(P, Rest, t, High)
      <3>1. st <= Len(k) /\ FRAME = frames[Len(frames)]
        BY <1>5 DEF FRAME
      <3> HIDE DEF k, q
      <3>2. OnTop(P, ActsOf(call, SubSeq(k, 1, st), Keep(frames, 1), FRAME.func, FRAME.ret_addr),
                  Act(func, q, SubSeq(k, st + 1, Len(k))), Len(frames) - call.frame)
        BY <1>4, <1>5, <3>1, Unstack
      <3> QED
        BY <1>5, <3>2 DEF Rest, High, k
    <2>4. Acts' = Rest \o <<t, u>>
      BY ZenonT(60), <2>2, <2>3, PushTwo DEF OnTop
    <2>5. Contract!Below = Rest /\ Contract!Top = Act(func, pc, Own) /\ Contract!Op = Inst
          /\ Contract!InCode
      BY <1>1, Youngest
    <2>6. Contract!Callee = g /\ Contract!Args = Newest(stack, n)
      BY <1>1, <1>3, Called DEF n
    <2>7. Contract!Top.ops = Own /\ Contract!Top.pc = pc /\ Contract!Op.a = n
      BY <2>5 DEF Act, n
    <2>8. [Contract!Top EXCEPT !.ops = Contract!Keep(Contract!Top.ops, Contract!Op.a + 1),
                               !.pc = Contract!Top.pc + 1] = t
      <3>1. Contract!Keep(Contract!Top.ops, Contract!Op.a + 1) = Keep(Own, n + 1)
        BY <2>7 DEF Contract!Keep, Keep
      <3>2. Waiting(Contract!Top, Keep(Own, n + 1), q) = t
        BY <2>5, Waits
      <3> QED
        BY <2>7, <3>1, <3>2 DEF Waiting
    <2>9. [who |-> Contract!Callee, pc |-> 0, ops |-> Entry(Contract!Callee, Contract!Args)] = u
      BY <2>6 DEF Act
    <2> HIDE DEF t, u
    <2>10. Acts' = Contract!Below
                    \o << [Contract!Top EXCEPT !.ops = Contract!Keep(Contract!Top.ops, Contract!Op.a + 1),
                                               !.pc = Contract!Top.pc + 1],
                          [who |-> Contract!Callee, pc |-> 0,
                           ops |-> Entry(Contract!Callee, Contract!Args)] >>
      BY <2>4, <2>5, <2>8, <2>9
    <2>11. Contract!Op.op = "CALL" /\ IsFunction(Contract!Callee) /\ UNCHANGED errtop
      BY <1>2, <2>1, <2>5, <2>6
    <2> QED
      BY <2>5, <2>10, <2>11 DEF Contract!Call
  <1> QED
    BY <1>7, <1>8, <1>9, <1>10, <1>11

\* The youngest activation is over, and its caller has the result v.
LEMMA Back ==
  ASSUME IInv, NEW op, At(op), IInv', run' = "loop", NEW STATE v,
         stack' = Append(SubSeq(stack, 1, FRAME.stack_top), v),
         frames' = Keep(frames, 1), func' = FRAME.func, pc' = FRAME.ret_addr,
         call' = call
  PROVE  /\ Acts' = Append(Keep(Acts, 2), Given(Acts[High], v))
         /\ Len(Acts') = High
         /\ Acts'[High].ops[Len(Acts'[High].ops)] = v
  <1> DEFINE st  == FRAME.stack_top
             p   == SubSeq(stack, 1, st)
             old == Keep(frames, 1)
             f   == FRAME.func
             q   == FRAME.ret_addr
             R   == Rest
  <1>1. /\ ASequence(stack) /\ Len(stack) \in Nat /\ ASequence(frames) /\ FramesTyped(frames)
        /\ call.frame \in Nat /\ call.top \in Nat /\ Len(frames) > call.frame
        /\ Ordered(call, frames) /\ High \in Nat /\ High >= 1
        /\ st \in Nat /\ st <= Len(stack)
    BY Frames
  <1>2. Chain(call, old, f, q, st) /\ ASequence(old) /\ FramesTyped(old)
    BY LeaveFrame
  <1>3. /\ Len(frames) \in Nat /\ Len(old) = Len(frames) - 1 /\ Len(old) = call.frame + (High - 1)
        /\ \A i \in 1 .. Len(frames) - 1 : old[i] = frames[i]
    <2>1. Len(frames) \in Nat
      BY <1>1, LenProperties DEF ASequence
    <2>2. 1 \in Nat /\ 1 <= Len(frames)
      BY <1>1, <2>1
    <2>3. Len(old) = Len(frames) - 1 /\ \A i \in 1 .. Len(frames) - 1 : old[i] = frames[i]
      BY <1>1, <2>2, KeepLength, Zenon
    <2>4. Len(old) = call.frame + (High - 1)
      BY SMTT(60), <1>1, <2>1, <2>3 DEF High
    <2> QED
      BY <2>1, <2>3, <2>4
  <1>4. ASequence(p) /\ Len(p) = st
    BY <1>1, Front
  <1>5. R = ActsOf(call, p, old, f, q)
    BY DEF Rest
  <1>6. Acts' = ActsOf(call, Append(p, v), old, f, q)
    <2>1. Acts' = ActsOf(call', stack', frames', func', pc')
      BY RunningNext
    <2> QED
      BY <2>1
  <1>7. Ordered(call, old)
    <2>1. st \in Int
      BY <1>1
    <2> HIDE DEF st, old, f, q
    <2> QED
      BY <1>1, <1>2, <2>1, ChainOrdered
  <1>8. call.frame <= Len(old)
    BY <1>1, <1>3
  <1>9. ASSUME Len(old) > call.frame
        PROVE  old[call.frame + 1].stack_top = call.top /\ old[Len(old)].stack_top <= Len(p)
    <2>1. old[call.frame + 1].stack_top = call.top
      BY <1>2, <1>9 DEF Chain
    <2>2. Len(old) \in 1 .. Len(frames) - 1 /\ Len(old) \in call.frame + 1 .. Len(frames)
      BY <1>1, <1>3, <1>9
    <2>3. old[Len(old)] = frames[Len(old)]
      BY <1>3, <2>2
    <2>4. frames[Len(old)].stack_top <= frames[Len(frames)].stack_top
      BY <1>1, <2>2 DEF Ordered
    <2> QED
      BY <1>4, <2>1, <2>3, <2>4 DEF FRAME
  <1> HIDE DEF p, old, f, q, st, R
  <1>10. ActsOf(call, Append(p, v), old, f, q) = Append(Keep(R, 1), Given(R[Len(R)], v))
    <2> DEFINE c == call
    <2>1. /\ c.frame \in Nat /\ c.top \in Nat /\ ASequence(p)
          /\ ASequence(old) /\ FramesTyped(old) /\ c.frame <= Len(old)
          /\ Ordered(c, old)
      BY <1>1, <1>2, <1>4, <1>7, <1>8
    <2>2. Len(old) > c.frame => /\ old[c.frame + 1].stack_top = c.top
                                /\ old[Len(old)].stack_top <= Len(p)
      BY <1>9
    <2>3. R = ActsOf(c, p, old, f, q)
      BY <1>5
    <2> HIDE DEF c
    <2>4. Delivered(ActsOf(c, p, old, f, q), ActsOf(c, Append(p, v), old, f, q), v)
      BY <2>1, <2>2, Result
    <2> QED
      BY <2>3, <2>4 DEF c, Delivered
  \* The caller.
  <1>11. /\ ASequence(R) /\ Len(R) = High
         /\ \E who, at, ops : R[High] = Act(who, at, ops) /\ ASequence(ops)
    <2>1. OneEach(R, call, p, old, f, q)
      BY <1>1, <1>2, <1>5, <1>8, ActsLength
    <2>2. ASequence(R) /\ Len(R) = High
      BY SMTT(60), <1>1, <1>3, <2>1 DEF OneEach
    <2>3. CASE High = 1
      <3>1. R[High] = HostAct(p)
        BY <1>1, <1>3, <2>1, <2>3 DEF OneEach, HostOps
      <3>2. HostAct(p) = Act([kind |-> "host"], 0, p)
        BY DEF HostAct, Act
      <3> QED
        BY <1>4, <2>2, <3>1, <3>2
    <2>4. CASE High # 1
      <3>1. High \in 2 .. Len(old) - call.frame + 1 /\ call.frame + High - 1 = Len(old)
            /\ Len(old) > call.frame /\ Len(old) \in 1 .. Len(old)
        <4> DEFINE h == High
                   b == call.frame
                   m == Len(old)
        <4>1. h \in Nat /\ h >= 1 /\ h # 1 /\ b \in Nat /\ m = b + (h - 1)
          BY <1>1, <1>3, <2>4
        <4> HIDE DEF h, b, m
        <4>2. h \in 2 .. m - b + 1 /\ b + h - 1 = m /\ m > b /\ m \in 1 .. m
          BY <4>1
        <4> QED
          BY <4>2 DEF h, b, m
      <3>2. R[High] = ActOf(p, old, f, q, Len(old))
        BY <2>1, <3>1 DEF OneEach
      <3> DEFINE o == old[Len(old)].stack_top
                 w == SubSeq(p, o + 1, Len(p))
      <3>3. ActOf(p, old, f, q, Len(old)) = Act(f, q, w)
        BY DEF ActOf, Act
      <3>4. o \in Nat
        BY <1>2, <3>1 DEF FramesTyped
      <3>5. o <= Len(p)
        BY <1>9, <3>1
      <3> HIDE DEF o
      <3>6. IsPart(SubSeq(p, o + 1, Len(p)), p, o)
        BY <1>4, <3>4, <3>5, NewestPart
      <3>7. ASequence(w)
        BY <3>6 DEF IsPart
      <3> HIDE DEF w
      <3> QED
        BY <2>2, <3>2, <3>3, <3>7
    <2> QED
      BY <2>3, <2>4
  <1>12. Keep(Acts, 2) = Keep(R, 1) /\ Acts[High] = R[High]
    <2> DEFINE A == Acts
               t == Act(func, pc, Own)
    <2>1. OnTop(A, R, t, High)
      BY Now DEF R
    <2> HIDE DEF A, t
    <2>2. Keep(A, 2) = Keep(R, 1) /\ A[High] = R[High]
      BY <1>1, <2>1, Tops
    <2> QED
      BY <2>2 DEF A
  <1>13. Acts' = Append(Keep(Acts, 2), Given(Acts[High], v))
    BY <1>6, <1>10, <1>11, <1>12
  <1>14. PICK who, at, ops : Acts[High] = Act(who, at, ops) /\ ASequence(ops)
    BY <1>11, <1>12
  <1> DEFINE B == Acts'
             k == Keep(Acts, 2)
             y == Act(who, at, Append(ops, v))
  <1>15. B = Append(k, y)
    BY <1>13, <1>14, Receives
  <1>16. ASequence(k) /\ Len(k) = High - 1
    <2>1. 1 \in Nat /\ 1 <= Len(R)
      BY <1>1, <1>11
    <2>2. ASequence(Keep(R, 1)) /\ Len(Keep(R, 1)) = Len(R) - 1
      BY <1>11, <2>1, KeepLength, Zenon
    <2> QED
      BY <1>11, <1>12, <2>2
  <1>17. y.ops = Append(ops, v)
    BY DEF Act
  <1> HIDE DEF B, k, y
  <1>18. Len(B) = High /\ B[High] = y
    <2>1. Len(B) = High - 1 + 1 /\ B[High - 1 + 1] = y
      BY <1>15, <1>16, PushLength
    <2>2. High - 1 + 1 = High
      BY <1>1
    <2> QED
      BY <2>1, <2>2
  <1>19. Len(Append(ops, v)) = Len(ops) + 1 /\ Append(ops, v)[Len(ops) + 1] = v
    BY <1>14, PushLength
  <1>20. B[High].ops[Len(B[High].ops)] = v
    BY <1>17, <1>18, <1>19
  <1> QED
    BY <1>13, <1>18, <1>20 DEF B

\* The same, as CallContract says it.
LEMMA BackLeaves ==
  ASSUME IInv, NEW op, At(op), IInv', run' = "loop", NEW STATE v,
         stack' = Append(SubSeq(stack, 1, FRAME.stack_top), v),
         frames' = Keep(frames, 1), func' = FRAME.func, pc' = FRAME.ret_addr,
         call' = call
  PROVE  /\ Contract!Leave(v)
         /\ Len(Acts') = Contract!Height - 1
         /\ Contract!Top'.ops[Len(Contract!Top'.ops)] = v
  <1> DEFINE A == Acts
             B == Acts'
  <1>1. /\ B = Append(Keep(A, 2), Given(A[High], v))
        /\ Len(B) = High /\ B[High].ops[Len(B[High].ops)] = v
    BY Back
  <1>2. Contract!Height = High + 1 /\ High \in Nat
    BY Youngest, Frames
  <1>3. Contract!Height - 1 = High
    BY <1>2
  <1>4. Given(A[High], v) = [A[High] EXCEPT !.ops = Append(@, v)]
    BY DEF Given
  <1>5. Contract!Leave(v) <=> B = Append(Contract!Keep(A, 2), [A[Contract!Height - 1] EXCEPT !.ops = Append(@, v)])
    BY DEF Contract!Leave
  <1>6. Contract!Keep(A, 2) = Keep(A, 2)
    BY DEF Contract!Keep, Keep
  <1>7. Contract!Top' = B[Len(B)]
    BY DEF Contract!Top, Contract!Height
  <1> HIDE DEF A, B
  <1>8. Contract!Leave(v)
    BY <1>1, <1>3, <1>4, <1>5, <1>6
  <1>9. Len(B) = Contract!Height - 1
    BY <1>1, <1>3
  <1>10. Contract!Top'.ops[Len(Contract!Top'.ops)] = v
    BY <1>1, <1>7
  <1> QED
    BY <1>8, <1>9, <1>10 DEF B

LEMMA ReturnRefines ==
  ASSUME IInv, IInv', OpReturn
  PROVE  Contract!Return
  <1>1. At("RETURN")
    BY DEF OpReturn
  <1> DEFINE v == STK(-1)
  <1>2. /\ stack' = Append(SubSeq(stack, 1, FRAME.stack_top), v)
        /\ frames' = Keep(frames, 1) /\ func' = FRAME.func /\ pc' = FRAME.ret_addr
        /\ call' = call /\ UNCHANGED <<run, errtop>>
    BY DEF OpReturn
  <1>3. run = "loop"
    BY <1>1, Here
  <1>4. Own[Len(Own)] = v
    <2>1. ASequence(stack) /\ Len(stack) \in Nat /\ FRAME.stack_top \in Nat
          /\ FRAME.stack_top <= Len(stack)
      BY <1>1, Frames
    <2>2. FRAME.stack_top < Len(stack)
      <3> DEFINE st  == FRAME.stack_top
                 sl  == Slots(func.prot)
                 d   == Depth[func.prot][pc]
                 len == Len(stack)
      <3>1. st \in Nat /\ sl \in Nat /\ d \in Nat /\ len = st + 1 + sl + d
        BY <1>1, Here
      <3> HIDE DEF st, sl, d, len
      <3>2. st < len
        BY <3>1
      <3> QED
        BY <3>2 DEF st, len
    <2>3. IsPart(Own, stack, FRAME.stack_top)
      BY <2>1, NewestPart DEF Own
    <2>4. Len(Own) = Len(stack) - FRAME.stack_top
          /\ \A i \in 1 .. Len(Own) : Own[i] = stack[FRAME.stack_top + i]
      BY <2>3 DEF IsPart
    <2>5. Len(Own) \in 1 .. Len(Own) /\ FRAME.stack_top + Len(Own) = Len(stack)
          /\ Len(stack) + (-1) + 1 = Len(stack)
      BY <2>1, <2>2, <2>4
    <2> QED
      BY <2>4, <2>5 DEF STK
  <1>5. Contract!Top.ops = Own /\ Contract!Op = Inst /\ Contract!InCode /\ Inst.op = "RETURN"
    <2>1. Contract!Top = Act(func, pc, Own) /\ Contract!Op = Inst /\ Contract!InCode
          /\ Inst.op = "RETURN"
      BY <1>1, Youngest
    <2> QED
      BY <2>1 DEF Act
  <1> HIDE DEF v
  <1>6. Contract!Leave(v)
    BY <1>1, <1>2, <1>3, BackLeaves
  <1>7. Contract!Leave(Contract!Top.ops[Len(Contract!Top.ops)])
    BY <1>4, <1>5, <1>6
  <1> QED
    BY <1>2, <1>5, <1>7 DEF Contract!Return

\* What a tail call leaves of the stack: the callee and its arguments on top of
\* what the frame began with.
LEMMA Lowers ==
  ASSUME NEW st \in Nat, NEW n \in Nat, ASequence(stack), st <= Len(stack),
         n + 1 <= Len(stack), NEW u,
         u = SubSeq(stack, 1, st) \o Newest(stack, n + 1)
  PROVE  /\ ASequence(u) /\ Len(u) = st + (n + 1)
         /\ Keep(u, n + 1) = SubSeq(stack, 1, st)
         /\ Newest(u, n) = Newest(stack, n)
         /\ CalleeOf(u, n) = CalleeOf(stack, n)
  <1> DEFINE p == SubSeq(stack, 1, st)
             w == Newest(stack, n + 1)
             a == Len(stack) - (n + 1)
  <1>1. Len(stack) \in Nat /\ n + 1 \in Nat /\ a \in Nat /\ a <= Len(stack)
    BY LenProperties DEF ASequence
  <1>2. ASequence(p) /\ Len(p) = st
    BY <1>1, Front
  <1>3. ASequence(w) /\ Len(w) = n + 1
    BY <1>1, NewestLength
  <1>4. w = SubSeq(stack, a + 1, Len(stack))
    BY DEF Newest
  <1>5. u = p \o w
    OBVIOUS
  <1>6. a + n <= Len(stack) /\ a + 1 = Len(stack) - n
    BY <1>1
  <1> HIDE DEF p, w, a
  <1>7. ASequence(u) /\ Len(u) = st + (n + 1)
    BY <1>2, <1>3, <1>5, JoinLength
  <1>8. SubSeq(u, 1, st) = p /\ SubSeq(u, st + 1, Len(u)) = w
    BY ZenonT(60), <1>2, <1>3, <1>5, JoinCut
  <1>9. st + (n + 1) - (n + 1) = st /\ st + n <= Len(u) /\ st <= Len(u)
        /\ st + (n + 1) - n = st + 1
    BY <1>7
  <1>10. Keep(u, n + 1) = p
    BY <1>7, <1>8, <1>9 DEF Keep
  <1>11. Newest(w, n) = Newest(u, n)
    <2>1. Newest(SubSeq(u, st + 1, Len(u)), n) = Newest(u, n)
      BY <1>7, <1>9, NewestStays
    <2> QED
      BY <1>8, <2>1
  <1>12. Newest(w, n) = Newest(stack, n)
    <2>1. Newest(SubSeq(stack, a + 1, Len(stack)), n) = Newest(stack, n)
      BY <1>1, <1>6, NewestStays
    <2> QED
      BY <1>4, <2>1
  <1>13. u[Len(u) - n] = stack[Len(stack) - n]
    <2>1. IsPart(SubSeq(u, st + 1, Len(u)), u, st)
      BY <1>7, <1>9, NewestPart
    <2>2. IsPart(SubSeq(stack, a + 1, Len(stack)), stack, a)
      BY <1>1, NewestPart
    <2>3. IsPart(w, u, st) /\ IsPart(w, stack, a)
      BY <1>4, <1>8, <2>1, <2>2
    <2>4. 1 \in 1 .. Len(w)
      BY <1>3
    <2>5. w[1] = u[st + 1] /\ w[1] = stack[a + 1]
      BY <2>3, <2>4 DEF IsPart
    <2> QED
      BY <1>6, <1>7, <1>9, <2>5
  <1> QED
    BY <1>7, <1>10, <1>11, <1>12, <1>13 DEF CalleeOf, p

LEMMA TailCallRefines ==
  ASSUME IInv, IInv', OpTailCall
  PROVE  Inside \/ Contract!TailCall \/ Contract!TailApply
  <1> DEFINE n   == Inst.a
             st  == FRAME.stack_top
             u   == Lowered(n)
             p   == SubSeq(stack, 1, st)
             old == Keep(frames, 1)
             g   == CalleeOf(stack, n)
             e   == Entry(g, Newest(stack, n))
  <1>1. At("TCALL") /\ Invoke(u, old, FRAME.func, FRAME.ret_addr, n)
    BY DEF OpTailCall
  <1>2. /\ run = "loop" /\ Inst.op = "TCALL"
        /\ func.prot \in Protos /\ pc \in PcOf(func.prot)
        /\ Depth[func.prot][pc] \in Nat
    BY <1>1, Here
  <1>3. n \in Nat /\ n < Depth[func.prot][pc]
    <2>1. n \in Nat /\ Depth[func.prot][pc] > n
      BY <1>2, EvenUse DEF Inst
    <2> QED
      BY <1>2, <2>1
  <1>4. /\ ASequence(stack) /\ Len(stack) \in Nat /\ ASequence(frames)
        /\ call.frame \in Nat /\ call.top \in Nat /\ Len(frames) > call.frame
        /\ st \in Nat /\ st <= Len(stack) /\ call.top <= st
        /\ High \in Nat /\ High >= 1
    BY <1>1, Frames
  <1>5. n + 1 \in Nat /\ n + 1 <= Len(stack)
    <2> DEFINE k == Keep(stack, n + 1)
    <2>1. k = Keep(stack, n + 1) /\ st = FRAME.stack_top
      OBVIOUS
    <2> HIDE DEF n, k, st
    <2>2. Arguments(n, k, st)
      BY <1>1, <1>3, <2>1, Operands
    <2> QED
      BY <2>2 DEF Arguments
  <1>6. u = SubSeq(stack, 1, st) \o Newest(stack, n + 1)
    BY DEF Lowered
  <1>7. /\ ASequence(old) /\ Len(old) = Len(frames) - 1
    <2>1. Len(frames) \in Nat
      BY <1>4, LenProperties DEF ASequence
    <2>2. 1 \in Nat /\ 1 <= Len(frames)
      BY <1>4, <2>1
    <2> QED
      BY <1>4, <2>2, KeepLength, Zenon
  <1>8. /\ Contract!InCode /\ Contract!Op.op = "TCALL"
        /\ Contract!Below = Rest /\ Contract!Callee = g /\ Contract!Args = Newest(stack, n)
    BY <1>1, <1>2, <1>3, Youngest, Called
  <1> HIDE DEF n, u
  <1>9. /\ ASequence(u) /\ Len(u) = st + (n + 1) /\ Keep(u, n + 1) = p
        /\ Newest(u, n) = Newest(stack, n) /\ CalleeOf(u, n) = g
    <2> HIDE DEF st
    <2> QED
      BY <1>3, <1>4, <1>5, <1>6, Lowers
  <1>10. n <= Len(u) /\ Len(u) - n - 1 = st
    BY <1>3, <1>4, <1>9
  <1>11. \/ Die("abort") \/ (Stops /\ stack' = u)
         \/ Over(u, old, FRAME.func, FRAME.ret_addr, n)
         \/ Entered(u, old, FRAME.func, FRAME.ret_addr, n)
    <2> HIDE DEF old, st
    <2> QED
      BY <1>1, <1>3, <1>9, <1>10, Outcome
  <1>12. CASE Die("abort")
    BY <1>1, <1>12, StopInside
  <1>13. CASE Stops /\ stack' = u
    <2>1. call.top <= Len(u) /\ SubSeq(u, 1, call.top) = SubSeq(stack, 1, call.top)
      <3>1. SubSeq(u, 1, st) = p
        <4> HIDE DEF st
        <4>1. Len(u) - (n + 1) = st
          BY <1>3, <1>4, <1>9
        <4> QED
          BY <1>9, <4>1 DEF Keep
      <3>2. st <= Len(u) /\ call.top <= Len(u)
        <4> DEFINE x == st
                   y == call.top
                   z == Len(u)
        <4>1. x \in Nat /\ y \in Nat /\ y <= x /\ z = x + (n + 1)
          BY <1>4, <1>9
        <4> HIDE DEF x, y, z
        <4>2. x <= z /\ y <= z
          BY <1>3, <4>1
        <4> QED
          BY <4>2 DEF x, y, z
      <3>3. 1 \in Nat /\ 1 >= 1
        OBVIOUS
      <3> HIDE DEF st
      <3> QED
        BY <1>4, <1>9, <3>1, <3>2, <3>3, CutAlike
    <2>2. call.top <= Len(stack') /\ SubSeq(stack', 1, call.top) = SubSeq(stack, 1, call.top)
      BY <1>13, <2>1
    <2> QED
      BY <1>1, <1>13, <2>2, RaiseStep DEF Inside
  <1>14. CASE Over(u, old, FRAME.func, FRAME.ret_addr, n)
    <2>1. PICK v : Resume(u, old, FRAME.func, FRAME.ret_addr, n, v)
      BY <1>14 DEF Over
    <2>2. ~IsFunction(g)
      BY <1>9, <1>14 DEF Over
    <2>3. /\ stack' = Append(p, v) /\ frames' = old /\ func' = FRAME.func
          /\ pc' = FRAME.ret_addr /\ UNCHANGED <<run, errtop, call>>
      BY <1>9, <2>1 DEF Resume
    <2>4. /\ Contract!Leave(v) /\ Len(Acts') = Contract!Height - 1
          /\ Contract!Top'.ops[Len(Contract!Top'.ops)] = v
      BY <1>1, <1>2, <2>3, BackLeaves
    <2>5. Contract!TailApply
      BY <1>8, <2>2, <2>3, <2>4 DEF Contract!TailApply
    <2> QED
      BY <2>5
  <1>15. CASE Entered(u, old, FRAME.func, FRAME.ret_addr, n)
    <2> DEFINE fr == [func |-> FRAME.func, stack_top |-> Len(u) - n - 1, ret_addr |-> FRAME.ret_addr]
               t  == Act(g, 0, e)
    <2>1. /\ IsFunction(g) /\ ASequence(e) /\ stack' = p \o e /\ frames' = Append(old, fr)
          /\ func' = g /\ pc' = 0 /\ UNCHANGED <<run, errtop, call>>
      BY <1>9, <1>15 DEF Entered
    <2>2. OnTop(Acts', Rest, t, High)
      <3>1. ASequence(p) /\ Len(p) = st
        BY <1>4, Front
      <3>2. fr.func = FRAME.func /\ fr.ret_addr = FRAME.ret_addr /\ fr.stack_top = Len(p)
        BY <1>10, <3>1
      <3>3. call'.frame <= Len(old) /\ Len(old) - call'.frame + 1 = High /\ run' = "loop"
        <4>1. Len(frames) \in Nat
          BY <1>4, LenProperties DEF ASequence
        <4>2. call.frame <= Len(frames) - 1 /\ Len(frames) - 1 - call.frame + 1 = High
          BY <1>4, <4>1 DEF High
        <4> QED
          BY <1>2, <1>7, <2>1, <4>2
      <3>4. Rest = ActsOf(call, p, old, FRAME.func, FRAME.ret_addr)
        BY DEF Rest
      <3> HIDE DEF fr, p, e, g, old, st
      <3>5. OnTop(Acts', ActsOf(call', p, old, fr.func, fr.ret_addr),
                  Act(func', pc', e), Len(old) - call'.frame + 1)
        BY <1>7, <2>1, <3>1, <3>2, <3>3, Above
      <3> QED
        BY <2>1, <3>2, <3>3, <3>4, <3>5 DEF e
    <2>3. Acts' = Append(Rest, t)
      BY <2>2 DEF OnTop
    <2>4. [who |-> Contract!Callee, pc |-> 0, ops |-> Entry(Contract!Callee, Contract!Args)] = t
      BY <1>8 DEF Act
    <2> HIDE DEF t, e
    <2>5. Acts' = Append(Contract!Below, [who |-> Contract!Callee, pc |-> 0,
                                          ops |-> Entry(Contract!Callee, Contract!Args)])
      BY <1>8, <2>3, <2>4
    <2> QED
      BY <1>8, <2>1, <2>5 DEF Contract!TailCall
  <1> QED
    BY <1>11, <1>12, <1>13, <1>14, <1>15
-----------------------------------------------------------------------------
(***************************************************************************)
(* The host.                                                               *)
(***************************************************************************)

LEMMA HostNow ==
  ASSUME Acts = <<HostAct(stack)>>
  PROVE  /\ Contract!Height = 1 /\ ~Contract!InCode /\ Contract!HostOnly
         /\ Contract!Top = HostAct(stack) /\ Contract!Top.ops = stack
         /\ Contract!Below = <<>>
  <1> DEFINE A == Acts
             h == HostAct(stack)
  <1>1. Len(A) = 1 /\ A[1] = h
    OBVIOUS
  <1>2. h.ops = stack
    BY DEF HostAct
  <1>3. SubSeq(A, 1, 0) = <<>>
    BY SubSeqEmpty
  <1> HIDE DEF A, h
  <1> QED
    BY <1>1, <1>2, <1>3
    DEF Contract!Height, Contract!InCode, Contract!HostOnly, Contract!Top, Contract!Below,
        Contract!Keep, A, h

\* The host alone keeps its stack up to n and has at most one value more.
LEMMA HostWork ==
  ASSUME Acts = <<HostAct(stack)>>, Acts' = <<HostAct(stack')>>, errtop' = errtop,
         NEW STATE n, n \in 0 .. Len(stack),
         SubSeq(stack', 1, n) = SubSeq(stack, 1, n), Len(stack') <= n + 1
  PROVE  Contract!Work
  <1>1. /\ Contract!Height = 1 /\ ~Contract!InCode
        /\ Contract!Top = HostAct(stack) /\ Contract!Top.ops = stack
        /\ Contract!Below = <<>>
    BY HostNow
  <1> DEFINE B == Acts'
             h == HostAct(stack')
  <1>2. Len(B) = 1 /\ B[1] = h
    OBVIOUS
  <1>3. h.ops = stack' /\ h.who = HostAct(stack).who
    BY DEF HostAct
  <1>4. SubSeq(B, 1, 0) = <<>>
    BY SubSeqEmpty
  <1> HIDE DEF B, h
  <1>5. Contract!Top' = h /\ Contract!Below' = <<>>
    BY <1>2, <1>4 DEF Contract!Height, Contract!Top, Contract!Below, Contract!Keep, B, h
  <1>6. Len(Acts') = 1
    BY <1>2 DEF B
  <1>7. Contract!Top'.ops = stack' /\ Contract!Top'.who = Contract!Top.who
    BY <1>1, <1>3, <1>5
  <1>8. \E k \in 0 .. Len(Contract!Top.ops) :
           /\ SubSeq(Contract!Top'.ops, 1, k) = SubSeq(Contract!Top.ops, 1, k)
           /\ Len(Contract!Top'.ops) <= k + 1
    BY <1>1, <1>7
  <1> QED
    BY <1>1, <1>5, <1>6, <1>7, <1>8 DEF Contract!Work

LEMMA FinishRefines ==
  ASSUME IInv, IInv', Finish
  PROVE  Contract!Work
  <1>1. /\ run = "loop" /\ pc >= Len(Code[func.prot]) /\ run' = "host"
        /\ stack' = IF call.nret = 0 THEN Keep(stack, 1) ELSE stack
        /\ errtop' = errtop
    BY DEF Finish
  <1>2. /\ ASequence(stack) /\ Len(stack) \in Nat /\ Len(stack) >= 1
        /\ ASequence(frames) /\ FramesTyped(frames)
        /\ call.frame \in Nat /\ call.top \in Nat /\ pc \in Nat
        /\ Chain(call, frames, func, pc, Len(stack) - 1)
    <2>1. /\ ASequence(stack) /\ ASequence(frames) /\ FramesTyped(frames) /\ pc \in Nat
          /\ call.frame \in Nat /\ call.top \in Nat /\ call.top < Len(stack)
          /\ Chain(call, frames, func, pc, Len(stack) - 1)
      BY <1>1 DEF IInv, TypeOK, StackExact, MarkKept
    <2>2. Len(stack) \in Nat
      BY <2>1, LenProperties DEF ASequence
    <2> QED
      BY <2>1, <2>2
  \* The function that the host called has returned.
  <1>3. Len(frames) = call.frame
    <2> DEFINE lim == Len(stack) - 1
    <2>1. lim \in Int /\ Chain(call, frames, func, pc, lim)
      BY <1>2
    <2> HIDE DEF lim
    <2>2. /\ func.prot \in Protos /\ Len(frames) \in Nat /\ call.frame <= Len(frames)
          /\ Len(frames) > call.frame => pc \in PcOf(func.prot)
      BY <1>2, <2>1, ChainTop
    <2>3. pc \notin PcOf(func.prot)
      <3>1. Len(Code[func.prot]) \in Nat
        <4>1. Len(Code[func.prot]) \in 1 .. EXIT
          BY <2>2, Sizes
        <4>2. 1 .. EXIT \subseteq Nat
          BY DEF EXIT
        <4> QED
          BY <4>1, <4>2
      <3> QED
        BY <1>1, <1>2, <3>1 DEF PcOf
    <2> QED
      BY <1>2, <2>2, <2>3
  <1>4. Acts = <<HostAct(stack)>>
    <2>1. Acts = ActsOf(call, stack, frames, func, pc)
      BY <1>1, Running
    <2> QED
      BY <1>2, <1>3, <2>1, Alone
  <1>5. Acts' = <<HostAct(stack')>>
    BY <1>1 DEF Acts, Dead, HostAct
  <1>6. CASE call.nret = 0
    <2> DEFINE n == Len(stack) - 1
    <2>1. 1 \in Nat /\ 1 <= Len(stack)
      BY <1>2
    <2>2. stack' = Keep(stack, 1)
      BY <1>1, <1>6
    <2>3. ASequence(stack') /\ Len(stack') = n
      BY <1>2, <2>1, <2>2, KeepLength
    <2>4. n \in 0 .. Len(stack) /\ stack' = SubSeq(stack, 1, n)
      BY <1>2, <2>2 DEF Keep
    <2> HIDE DEF n
    <2>5. SubSeq(stack', 1, n) = stack'
      BY <2>3, SubSeqFull DEF ASequence
    <2>6. Len(stack') <= n + 1
      BY <2>3, <2>4
    <2> QED
      BY <1>1, <1>4, <1>5, <2>4, <2>5, <2>6, HostWork
  <1>7. CASE call.nret # 0
    <2> DEFINE n == Len(stack)
    <2>1. n \in 0 .. Len(stack) /\ Len(stack') <= n + 1 /\ stack' = stack
      BY <1>1, <1>2, <1>7
    <2> HIDE DEF n
    <2> QED
      BY <1>1, <1>4, <1>5, <2>1, HostWork
  <1> QED
    BY <1>6, <1>7

LEMMA HostPushRefines ==
  ASSUME IInv, NEW STATE v, HostPush(v)
  PROVE  Contract!Work
  <1>1. run = "host" /\ run' = "host" /\ stack' = Append(stack, v) /\ errtop' = errtop
    BY DEF HostPush
  <1>2. ASequence(stack) /\ Len(stack) \in Nat
    BY <1>1, HostStack
  <1>3. Acts = <<HostAct(stack)>> /\ Acts' = <<HostAct(stack')>>
    BY <1>1 DEF Acts, Dead, HostAct
  <1> DEFINE n == Len(stack)
  <1>4. n \in 0 .. Len(stack) /\ Len(stack') <= n + 1
    <2>1. Len(stack') = Len(stack) + 1
      BY <1>1, <1>2, PushLength
    <2> QED
      BY <1>2, <2>1
  <1>5. SubSeq(stack', 1, n) = SubSeq(stack, 1, n)
    BY <1>1, <1>2, PushCut, SubSeqFull DEF ASequence
  <1> HIDE DEF n
  <1> QED
    BY <1>1, <1>3, <1>4, <1>5, HostWork

LEMMA HostPopRefines ==
  ASSUME IInv, NEW k \in 1 .. Len(stack), HostPop(k)
  PROVE  Contract!Work
  <1>1. run = "host" /\ run' = "host" /\ stack' = Keep(stack, k) /\ errtop' = errtop
    BY DEF HostPop
  <1>2. ASequence(stack) /\ Len(stack) \in Nat
    BY <1>1, HostStack
  <1>3. Acts = <<HostAct(stack)>> /\ Acts' = <<HostAct(stack')>>
    BY <1>1 DEF Acts, Dead, HostAct
  <1> DEFINE n == Len(stack) - k
  <1>4. n \in 0 .. Len(stack) /\ ASequence(stack') /\ Len(stack') = n /\ Len(stack') <= n + 1
        /\ stack' = SubSeq(stack, 1, n)
    <2>1. k \in Nat /\ k <= Len(stack)
      BY <1>2
    <2>2. ASequence(stack') /\ Len(stack') = Len(stack) - k
      BY <1>1, <1>2, <2>1, KeepLength
    <2>3. n \in 0 .. Len(stack) /\ n <= n + 1
      BY <1>2, <2>1
    <2> QED
      BY <1>1, <2>2, <2>3 DEF Keep
  <1> HIDE DEF n
  <1>5. SubSeq(stack', 1, n) = SubSeq(stack, 1, n)
    BY <1>4, SubSeqFull DEF ASequence
  <1> QED
    BY <1>1, <1>3, <1>4, <1>5, HostWork

LEMMA HostCallRefines ==
  ASSUME IInv, IInv', NEW nret \in 0 .. 1, HostCall(nret)
  PROVE  Contract!Die \/ Contract!HostCalls(1)
  <1> DEFINE top == Len(stack) - 2
             f   == stack[top + 1]
             fr  == [func |-> f, stack_top |-> top, ret_addr |-> EXIT]
             k   == Keep(stack, 2)
             e   == Newest(stack, 2)
             t   == Act(f, 0, e)
  <1>1. run = "host" /\ Mine >= 2 /\ IsFunction(f)
    BY DEF HostCall
  <1>2. /\ ASequence(stack) /\ Len(stack) \in Nat /\ 2 <= Len(stack) /\ ASequence(frames)
        /\ Len(frames) \in Nat
    BY <1>1, HostStack
  <1>3. CASE Full(frames)
    <2>1. run' \in Dead /\ errtop' = errtop
      BY <1>3 DEF HostCall, Die, Dead
    <2> QED
      BY <2>1, DieStep
  <1>4. CASE ~Full(frames)
    <2>1. /\ call' = [top |-> top, frame |-> Len(frames), nret |-> nret, tmp |-> narg]
          /\ frames' = Append(frames, fr) /\ func' = f /\ pc' = 0 /\ run' = "loop"
          /\ UNCHANGED <<stack, errtop>>
      BY <1>4 DEF HostCall
    <2>2. /\ ASequence(k) /\ Len(k) = top /\ ASequence(e)
      BY <1>2, KeepLength, NewestLength
    <2>3. stack' = k \o e
      <3>1. 2 \in Nat
        OBVIOUS
      <3>2. stack = k \o e
        BY <1>2, <3>1, TwoParts
      <3> QED
        BY <2>1, <3>2
    <2>4. fr.func = f /\ fr.ret_addr = EXIT /\ fr.stack_top = Len(k)
      BY <2>2
    <2>5. call'.frame = Len(frames) /\ call'.frame <= Len(frames)
          /\ Len(frames) - call'.frame + 1 = 1
      BY <1>2, <2>1
    <2> HIDE DEF k, e, fr, f
    <2>6. OnTop(Acts', ActsOf(call', k, frames, fr.func, fr.ret_addr), t, 1)
      <3>1. OnTop(Acts', ActsOf(call', k, frames, fr.func, fr.ret_addr),
                  Act(func', pc', e), Len(frames) - call'.frame + 1)
        BY <1>2, <2>1, <2>2, <2>3, <2>4, <2>5, Above
      <3> QED
        BY <2>1, <2>5, <3>1
    <2>7. ActsOf(call', k, frames, fr.func, fr.ret_addr) = <<HostAct(k)>>
      <3> DEFINE c == call'
      <3>1. c.frame \in Nat /\ Len(frames) = c.frame
        BY <1>2, <2>5
      <3> HIDE DEF c
      <3>2. ActsOf(c, k, frames, fr.func, fr.ret_addr) = <<HostAct(k)>>
        BY <3>1, Alone
      <3> QED
        BY <3>2 DEF c
    <2>8. Acts' = <<HostAct(k), t>>
      <3>1. Acts' = Append(<<HostAct(k)>>, t)
        BY <2>6, <2>7 DEF OnTop
      <3>2. \A x, y : Append(<<x>>, y) = <<x, y>>
        <4>1. ASSUME NEW x, NEW y PROVE Append(<<x>>, y) = <<x, y>>
          <5>1. <<x>> \in Seq({x, y}) /\ y \in {x, y}
            OBVIOUS
          <5>2. Append(<<x>>, y) = <<x>> \o <<y>>
            BY <5>1, AppendIsConcat
          <5> QED
            BY <5>2, Pair
        <4> QED
          BY <4>1
      <3> HIDE DEF t
      <3> QED
        BY <3>1, <3>2
    <2>9. /\ Contract!HostOnly /\ Contract!Top = HostAct(stack) /\ Contract!Top.ops = stack
      <3>1. Acts = <<HostAct(stack)>>
        BY <1>1 DEF Acts, Dead
      <3> QED
        BY <3>1, HostNow
    <2>10. [Contract!Top EXCEPT !.ops = k] = HostAct(k)
      <3>1. HostAct(stack) = Act([kind |-> "host"], 0, stack)
            /\ HostAct(k) = Act([kind |-> "host"], 0, k)
        BY DEF HostAct, Act
      <3>2. Holding(HostAct(stack), k) = HostAct(k)
        BY <3>1, Holds
      <3> QED
        BY <2>9, <3>2 DEF Holding
    <2>11. Contract!Keep(stack, 2) = k /\ Contract!Newest(stack, 2) = e
      BY DEF Contract!Keep, Contract!Newest, Keep, Newest, k, e
    <2>12. 1 < Len(stack) /\ stack[Len(stack) - 1] = f
      <3>1. 1 < Len(stack) /\ Len(stack) - 1 = top + 1
        BY <1>2
      <3> QED
        BY <3>1 DEF f
    <2>13. [who |-> f, pc |-> 0, ops |-> e] = t
      BY DEF Act
    <2> HIDE DEF t
    <2>14. 1 + 1 = 2
      OBVIOUS
    <2>15. Contract!HostCalls(1)
      BY <1>1, <2>1, <2>8, <2>9, <2>10, <2>11, <2>12, <2>13, <2>14 DEF Contract!HostCalls, f
    <2> QED
      BY <2>15
  <1> QED
    BY <1>3, <1>4

LEMMA HostCallNativeRefines ==
  ASSUME IInv, IInv', NEW n \in 0 .. Len(stack), HostCallNative(n, 0)
  PROVE  Inside
  <1> DEFINE top == Len(stack) - n - 1
             frs == Append(frames, [func |-> stack[top + 1], stack_top |-> top, ret_addr |-> EXIT])
  <1>1. run = "host" /\ n < Mine
    BY DEF HostCallNative
  <1>2. /\ ASequence(stack) /\ Len(stack) \in Nat /\ top \in 0 .. Len(stack) /\ errtop <= Len(stack)
        /\ errtop \in Nat \cup {Unset} /\ top \in Nat /\ top <= Len(stack)
    BY <1>1, HostStack
  <1>3. Acts = <<HostAct(stack)>>
    BY <1>1 DEF Acts, Dead
  <1>4. CASE Full(frames)
    <2>1. run' \in Dead /\ errtop' = errtop
      BY <1>4 DEF HostCallNative, Die, Dead
    <2> QED
      BY <2>1, DieStep DEF Inside
  <1>5. CASE stack' = SubSeq(stack, 1, top) /\ UNCHANGED <<run, errtop>>
    <2> HIDE DEF top
    <2>1. Len(stack') = top /\ ASequence(stack')
      BY <1>2, <1>5, Front
    <2>2. SubSeq(stack', 1, top) = SubSeq(stack, 1, top)
      BY <1>5, <2>1, SubSeqFull DEF ASequence
    <2>3. Len(stack') <= top + 1
      BY <1>2, <2>1
    <2>4. Acts' = <<HostAct(stack')>>
      BY <1>1, <1>5 DEF Acts, Dead, HostAct
    <2>5. Contract!Work
      BY <1>2, <1>3, <1>5, <2>2, <2>3, <2>4, HostWork
    <2> QED
      BY <2>5 DEF Inside
  <1>6. CASE Raise(frs) /\ UNCHANGED <<stack, errtop>>
    <2>1. Stops
      BY <1>6 DEF Raise, Stops, Dead
    <2>2. CASE run' \in Dead
      BY <2>1, <2>2, DieStep DEF Stops, Inside
    <2>3. CASE run' = "recover" /\ errtop # Unset
      <3> DEFINE o == stack
                 m == Len(stack)
      <3>1. /\ errtop \in Nat /\ ASequence(stack') /\ Acts # <<>> /\ Acts[1] = HostAct(o)
            /\ ASequence(o) /\ m \in Nat /\ errtop <= m /\ m <= Len(o) /\ m <= Len(stack')
            /\ SubSeq(stack', 1, m) = SubSeq(o, 1, m)
        BY <1>2, <1>3, <1>6, <2>3
      <3> HIDE DEF o, m
      <3>2. Contract!Fail
        BY <1>6, <2>3, <3>1, FailStep
      <3> QED
        BY <3>2 DEF Inside
    <2> QED
      BY <2>1, <2>2, <2>3 DEF Stops
  <1> QED
    BY <1>4, <1>5, <1>6 DEF HostCallNative

LEMMA SetErrorRefines ==
  ASSUME IInv, SetError
  PROVE  Contract!Mark
  <1>1. run = "host" /\ run' = "host" /\ stack' = stack /\ errtop' = Len(stack)
    BY DEF SetError
  <1>2. Acts = <<HostAct(stack)>> /\ Acts' = Acts
    BY <1>1 DEF Acts, Dead, HostAct
  <1>3. Contract!HostOnly /\ Contract!Top.ops = stack
    BY <1>2, HostNow
  <1> QED
    BY <1>1, <1>2, <1>3 DEF Contract!Mark

LEMMA RecoverStutters ==
  ASSUME Recover
  PROVE  UNCHANGED Contract!vars
  <1>1. run = "recover" /\ run' = "host" /\ stack' = SubSeq(stack, 1, errtop) /\ errtop' = errtop
    BY DEF Recover
  <1>2. Acts' = Acts
    BY <1>1 DEF Acts, Dead, HostAct
  <1> QED
    BY <1>1, <1>2 DEF Contract!vars
-----------------------------------------------------------------------------
LEMMA InitRefines == Init => Contract!Init
  <1> SUFFICES ASSUME Init PROVE Contract!Init
    OBVIOUS
  <1>1. Acts = <<HostAct(<<>>)>> /\ errtop = Unset
    BY DEF Init, Acts, Dead
  <1> QED
    BY <1>1 DEF Contract!Init, HostAct

LEMMA NextRefines ==
  ASSUME NativeRets \subseteq {0}, IInv, IInv', [Next]_vars
  PROVE  [Contract!Next]_(Contract!vars)
  <1>1. Inside => Contract!Next
    BY DEF Inside, Contract!Next
  <1>2. CASE Compute
    BY <1>1, <1>2, ComputeInside
  <1>3. CASE OpCall
    BY <1>1, <1>3, CallRefines DEF Contract!Next
  <1>4. CASE OpTailCall
    BY <1>1, <1>4, TailCallRefines DEF Contract!Next
  <1>5. CASE OpReturn
    BY <1>5, ReturnRefines DEF Contract!Next
  <1>6. CASE Finish
    BY <1>6, FinishRefines DEF Contract!Next
  <1>7. CASE HostStep
    <2>1. ASSUME NEW v, HostPush(v) PROVE Contract!Next
      BY <2>1, HostPushRefines DEF Contract!Next
    <2>2. ASSUME NEW p \in Chunks, Load(p) PROVE Contract!Next
      BY <2>1, <2>2 DEF Load
    <2>3. ASSUME NEW n \in 1 .. Len(stack), HostPop(n) PROVE Contract!Next
      BY <2>3, HostPopRefines DEF Contract!Next
    <2>4. ASSUME NEW r \in 0 .. 1, HostCall(r) PROVE Contract!Next
      <3>1. Contract!Die \/ Contract!HostCalls(1)
        BY <2>4, HostCallRefines
      <3>2. ASSUME Contract!HostCalls(1) PROVE \E n \in 0 .. Len(Contract!Top.ops) : Contract!HostCalls(n)
        <4>1. run = "host"
          BY <2>4 DEF HostCall
        <4>2. Contract!Top.ops = stack
          <5>1. Acts = <<HostAct(stack)>>
            BY <4>1 DEF Acts, Dead
          <5> QED
            BY <5>1, HostNow
        <4>3. 1 < Len(Contract!Top.ops)
          BY <3>2 DEF Contract!HostCalls
        <4>4. Len(stack) \in Nat
          BY <4>1, HostStack
        <4>5. 1 \in 0 .. Len(Contract!Top.ops)
          BY <4>2, <4>3, <4>4
        <4> QED
          BY <3>2, <4>5
      <3> QED
        BY <3>1, <3>2 DEF Contract!Next
    <2>5. ASSUME NEW n \in 0 .. Len(stack), NEW r \in NativeRets, HostCallNative(n, r)
          PROVE  Contract!Next
      <3>1. r = 0
        OBVIOUS
      <3>2. Inside
        BY <2>5, <3>1, HostCallNativeRefines
      <3> QED
        BY <1>1, <3>2
    <2>6. CASE SetError
      BY <2>6, SetErrorRefines DEF Contract!Next
    <2>7. CASE Recover
      BY <2>7, RecoverStutters
    <2> QED
      BY <1>7, <2>1, <2>2, <2>3, <2>4, <2>5, <2>6, <2>7 DEF HostStep
  <1>8. CASE UNCHANGED vars
    <2>1. UNCHANGED <<run, stack, frames, pc, func, narg, errtop, globals, call>>
      BY <1>8 DEF vars
    <2>2. Acts' = Acts
      BY <2>1 DEF Acts, Dead, HostAct, Live, Activation
    <2> QED
      BY <2>1, <2>2 DEF Contract!vars
  <1> QED
    BY <1>2, <1>3, <1>4, <1>5, <1>6, <1>7, <1>8 DEF Next

\* The stack that all functions share and the frames on top of each other
\* (core.c:991-1128) behave as activations with operands of their own: a call, a
\* tail call, a return and an error do to them what CallContract allows, and
\* nothing else does, for every program that uses the stack evenly.  The host
\* calls natives without asking for their result (nret = 0): with nret = 1 one
\* value too many stays on the stack.
THEOREM ImplementsContract == NativeRets \subseteq {0} => (Spec => Implements)
  <1> SUFFICES ASSUME NativeRets \subseteq {0} PROVE Spec => Implements
    OBVIOUS
  <1>1. IInv /\ IInv' /\ [Next]_vars => [Contract!Next]_(Contract!vars)
    BY NextRefines
  <1> QED
    BY Invariance, InitRefines, <1>1, PTL DEF Spec, Implements, Contract!Spec
=============================================================================
