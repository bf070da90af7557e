----------------------------- MODULE LuaGCProofs -----------------------------
(***************************************************************************)
(* That a userdata with a finalizer is freed only once it was called, and  *)
(* it is called once; that what the program can reach is never freed; and  *)
(* that every cycle of the collector leaves all objects white: for any     *)
(* number of objects and any program.                                      *)
(***************************************************************************)
EXTENDS LuaGC, SequenceTheorems, TLAPS

Types == {"free", "table", "function", "upval", "userdata", "thread", "string"}
Colors == {"white", "dead", "gray", "black"}

Typed ==
  /\ tt \in [Thread -> Types]
  /\ color \in [Thread -> Colors]
  /\ mode \in [Thread -> SUBSET {"k", "v", "gc"}]

\* What is marked as finalized is a userdata that has no finalizer, waits for it
\* or had it called.
Separated ==
  /\ called \subseteq finalized /\ tmudata \subseteq finalized \ called
  /\ finalized \subseteq Obj
  /\ \A u \in finalized : tt[u] = "userdata" /\ ("gc" \in mode[u] => u \in tmudata \union called)

\* Userdata are dead only while the sweep has yet to come to them, and none is
\* that was not separated.
DeadFinalized ==
  \A u \in Obj : tt[u] = "userdata" /\ isdead(u) =>
    /\ gcstate \in {"sweepstring", "sweep"}
    /\ u \in unswept /\ u \in finalized \ tmudata

\* Nor is one going to die with the next flip.
WhiteFinalized ==
  gcstate = "preserve" =>
    \A u \in Obj : tt[u] = "userdata" /\ color[u] \in White => u \in finalized \ tmudata

IInv == Typed /\ Separated /\ DeadFinalized /\ WhiteFinalized

\* What a step must not do (FinalizedOnce).
Once ==
  \A u \in Obj :
    /\ (tt[u] = "userdata" /\ tt'[u] = "free" /\ "gc" \in mode[u]) => u \in called
    /\ (u \in called /\ tt'[u] = tt[u]) => u \notin tmudata'

-----------------------------------------------------------------------------
LEMMA InitInv == Init => IInv
  BY DEF Init, IInv, Typed, Types, Colors, Separated, DeadFinalized, WhiteFinalized, Thread, isdead

\* Painting makes nothing white or dead, and what it paints neither.
LEMMA PaintedColors ==
  ASSUME NEW c \in [Thread -> Colors], NEW M
  PROVE  /\ Painted(c, M) \in [Thread -> Colors]
         /\ \A o \in Thread : Painted(c, M)[o] \in White => o \notin M /\ Painted(c, M)[o] = c[o]
  BY DEF Painted, Colors, White

LEMMA MadeWhite ==
  ASSUME NEW c \in [Thread -> Colors], NEW S
  PROVE  /\ makewhite(c, S) \in [Thread -> Colors]
         /\ \A o \in Thread : makewhite(c, S)[o] = IF o \in S THEN "white" ELSE c[o]
  BY DEF makewhite, Colors

\* What most steps do to userdata: none is freed, dies or, after the separation,
\* turns white.
Tame ==
  /\ Typed'
  /\ \A u \in Obj : tt[u] = "userdata" => tt'[u] = "userdata" /\ mode'[u] = mode[u]
  /\ \A u \in Obj : tt'[u] = "userdata" /\ color'[u] = "dead" => tt[u] = "userdata" /\ color[u] = "dead"
  /\ gcstate = "preserve" =>
       \A u \in Obj : tt'[u] = "userdata" /\ color'[u] \in White => tt[u] = "userdata" /\ color[u] \in White

\* Such a step keeps the invariant if it leaves the lists of userdata alone.
LEMMA Harmless ==
  ASSUME IInv, Tame, UNCHANGED <<finalized, called, tmudata, unswept, gcstate>>
  PROVE  IInv' /\ Once
  <1> USE DEF Tame
  <1>1. Separated'
    BY DEF IInv, Separated
  <1>2. DeadFinalized'
    BY DEF IInv, DeadFinalized, isdead
  <1>3. WhiteFinalized'
    BY DEF IInv, WhiteFinalized
  <1>4. Once
    BY DEF IInv, Separated, Once
  <1> QED  BY <1>1, <1>2, <1>3, <1>4 DEF IInv

\* Objects that are not userdata are freed, and upvalues closed.
LEMMA FreedOthers ==
  ASSUME IInv, NEW F, NEW C, \A o \in F : tt[o] # "userdata", Freed(F, C)
  PROVE  /\ tt' \in [Thread -> Types] /\ mode' \in [Thread -> SUBSET {"k", "v", "gc"}]
         /\ \A u \in Obj : tt[u] = "userdata" => tt'[u] = "userdata" /\ mode'[u] = mode[u]
         /\ \A u \in Obj : tt'[u] = "userdata" => tt[u] = "userdata"
         /\ finalized' = finalized /\ called' = called
  <1>1. F \intersect finalized = {}
    BY DEF IInv, Separated
  <1>2. called \subseteq finalized
    BY DEF IInv, Separated
  <1> QED  BY <1>1, <1>2 DEF Freed, IInv, Typed, Types, Thread

-----------------------------------------------------------------------------
(* The program *)

LEMMA Unpainted ==
  ASSUME IInv, UNCHANGED heap, color' \in [Thread -> Colors],
         \A o \in Obj : color'[o] \in White => color'[o] = color[o]
  PROVE  Tame
  BY DEF IInv, Typed, Tame, heap, White

LEMMA LinkTame ==
  ASSUME IInv, gcstate \notin Atomic, NEW o \in Obj, NEW type \in Types \ {"free"}, NEW k, NEW v,
         NEW m \in SUBSET {"k", "v", "gc"}, luaC_link(o, type, k, v, m)
  PROVE  Tame
  <1>1. o \in Thread
    BY DEF Thread
  <1>2. color \in [Thread -> Colors]
    BY DEF IInv, Typed
  <1>3. /\ color' \in [Thread -> Colors]
        /\ \A x \in Thread : color'[x] = IF x = o THEN "white" ELSE color[x]
    BY <1>2, MadeWhite DEF luaC_link
  <1>4. /\ tt[o] = "free" /\ tt' = [tt EXCEPT ![o] = type] /\ mode' = [mode EXCEPT ![o] = m]
    BY DEF luaC_link
  <1>5. Typed'
    BY <1>1, <1>3, <1>4 DEF IInv, Typed
  <1> QED  BY <1>3, <1>4, <1>5 DEF IInv, Typed, Tame, Atomic, Thread

LEMMA BarrierColors ==
  ASSUME IInv, gcstate \notin Atomic, NEW o, NEW v, Barrier(o, v, color)
  PROVE  /\ color' \in [Thread -> Colors]
         /\ \A x \in Thread : color'[x] = "dead" => color[x] = "dead"
  <1> color \in [Thread -> Colors]
    BY DEF IInv, Typed
  <1>1. \/ \E M : color' = Painted(color, M)
        \/ color' = makewhite(color, {o})
        \/ color' = color
    BY DEF Barrier, luaC_barrierf
  <1> QED  BY <1>1, PaintedColors, MadeWhite DEF White

LEMMA NewStep == ASSUME IInv, gcstate \notin Atomic, New PROVE Tame
  <1> PICK o \in Obj : \/ luaC_link(o, "table", Nil, Nil, {})
                      \/ luaC_link(o, "thread", Nil, Nil, {})
                      \/ \E m \in {{}, {"gc"}} : luaC_link(o, "userdata", Nil, Nil, m)
    BY DEF New
  <1> {"table", "thread", "userdata"} \subseteq Types \ {"free"}
    BY DEF Types
  <1> QED  BY LinkTame

LEMMA StringStep == ASSUME IInv, gcstate \notin Atomic, luaS_newlstr PROVE Tame
  <1>1. CASE \E s \in Texts, o \in Obj : luaC_link(o, "string", s, Nil, {})
    <2> "string" \in Types \ {"free"}
      BY DEF Types
    <2> QED  BY <1>1, LinkTame
  <1>2. CASE UNCHANGED heap /\ \E o \in Obj : color' = makewhite(color, {o}) \/ color' = color
    <2>1. /\ color' \in [Thread -> Colors]
          /\ \A x \in Thread : color'[x] = "dead" => color[x] = "dead"
      BY <1>2, MadeWhite DEF IInv, Typed
    <2> QED  BY <1>2, <2>1 DEF IInv, Typed, Tame, heap, Atomic, Thread
  <1> QED  BY <1>1, <1>2 DEF luaS_newlstr, Allocated

LEMMA SetTableStep == ASSUME IInv, gcstate \notin Atomic, SetTable PROVE Tame
  <1>1. UNCHANGED <<tt, mode>>
    BY DEF SetTable
  <1>2. \E t : color' = color \/ color' = [color EXCEPT ![t] = "gray"]
    BY DEF SetTable, luaC_barrierback
  <1>3. /\ color' \in [Thread -> Colors]
        /\ \A x \in Thread : color'[x] = "dead" => color[x] = "dead"
    BY <1>2 DEF IInv, Typed, Colors
  <1> QED  BY <1>1, <1>3 DEF IInv, Typed, Tame, Atomic, Thread

LEMMA SetModeStep == ASSUME IInv, gcstate \notin Atomic, SetMode PROVE Tame
  <1> PICK t \in Reach, m \in Modes : tt[t] = "table" /\ mode' = [mode EXCEPT ![t] = m]
    BY DEF SetMode
  <1> m \in SUBSET {"k", "v", "gc"}
    BY GCAssumption
  <1> QED  BY DEF SetMode, IInv, Typed, Tame, Atomic, Thread

LEMMA BarrierStep == ASSUME IInv, gcstate \notin Atomic, SetEnv \/ SetUpval PROVE Tame
  <1>1. UNCHANGED <<tt, mode>> /\ \E o, v : Barrier(o, v, color)
    BY DEF SetEnv, SetUpval
  <1> QED  BY <1>1, BarrierColors DEF IInv, Typed, Tame, Atomic, Thread

LEMMA CaptureStep == ASSUME IInv, gcstate \notin Atomic, Capture PROVE Tame
  <1> PICK f \in Obj, i \in DOMAIN stack[running] : tt[f] = "free" /\ luaF_findupval(i, f)
    BY DEF Capture
  <1>1. /\ mode' = mode
        /\ \E S : color' = makewhite(color, S)
        /\ \/ tt' = [tt EXCEPT ![f] = "function"]
           \/ \E u \in Obj \ {f} : tt[u] = "free" /\ tt' = [tt EXCEPT ![f] = "function", ![u] = "upval"]
    BY DEF Capture, luaF_findupval
  <1>2. /\ color' \in [Thread -> Colors]
        /\ \A x \in Thread : color'[x] = "dead" => color[x] = "dead"
    BY <1>1, MadeWhite DEF IInv, Typed
  <1>3. tt' \in [Thread -> Types] /\ \A u \in Obj : tt'[u] = "userdata" <=> tt[u] = "userdata"
    BY <1>1 DEF IInv, Typed, Types, Thread
  <1> QED  BY <1>1, <1>2, <1>3 DEF IInv, Typed, Tame, Atomic, Thread

LEMMA ShareStep == ASSUME IInv, gcstate \notin Atomic, Share PROVE Tame
  <1> PICK f \in Obj : \E k : luaC_link(f, "function", k, Nil, {})
    BY DEF Share
  <1> "function" \in Types \ {"free"}
    BY DEF Types
  <1> QED  BY LinkTame

LEMMA LeaveStep == ASSUME IInv, gcstate \notin Atomic, Leave PROVE IInv' /\ Once
  <1> PICK F, C : /\ \A u \in F \union C : u \in Obj /\ IsOpen(u)
                  /\ Freed(F, C) /\ luaC_linkupval(C)
    BY DEF Leave, OpenOf
  <1>1. \A u \in F : tt[u] # "userdata"
    BY DEF IsOpen
  <1>2. \/ \E c, M : c = [o \in Thread |-> IF o \in {u \in C : color[u] = "gray"} THEN "black" ELSE color[o]]
                     /\ color' = Painted(c, M)
        \/ \E S : color' = makewhite(color, S)
    BY DEF luaC_linkupval
  <1>3. /\ color' \in [Thread -> Colors]
        /\ \A x \in Thread : color'[x] = "dead" => color[x] = "dead"
    <2> color \in [Thread -> Colors]
      BY DEF IInv, Typed
    <2>1. CASE \E S : color' = makewhite(color, S)
      BY <2>1, MadeWhite
    <2>2. ASSUME NEW c, NEW M,
                 c = [o \in Thread |-> IF o \in {u \in C : color[u] = "gray"} THEN "black" ELSE color[o]],
                 color' = Painted(c, M)
          PROVE  /\ color' \in [Thread -> Colors]
                 /\ \A x \in Thread : color'[x] = "dead" => color[x] = "dead"
      <3>1. c \in [Thread -> Colors] /\ \A x \in Thread : c[x] = "dead" => color[x] = "dead"
        BY <2>2 DEF Colors
      <3> QED  BY <3>1, <2>2, PaintedColors DEF White
    <2> QED  BY <1>2, <2>1, <2>2
  <1>4. Tame /\ UNCHANGED <<finalized, called>>
    BY <1>1, <1>3, FreedOthers DEF Typed, Tame, Atomic, Thread
  <1>5. UNCHANGED <<tmudata, unswept, gcstate>>
    BY DEF Leave, phase
  <1> QED  BY <1>4, <1>5, Harmless

LEMMA MutateStep == ASSUME IInv, Mutate PROVE IInv' /\ Once
  <1>1. gcstate \notin Atomic
    BY DEF Mutate, ProgramRuns
  <1>2. CASE Leave
    BY <1>1, <1>2, LeaveStep
  <1>3. CASE ~Leave
    <2>1. UNCHANGED <<finalized, called, tmudata, unswept, gcstate>>
      BY <1>3 DEF Mutate, phase
    <2>2. CASE GetTable \/ GetEnv \/ GetUpval \/ Resume \/ Yield
      <3>1. UNCHANGED <<heap, color>>
        BY <2>2 DEF GetTable, GetEnv, GetUpval, Resume, Yield
      <3> QED  BY <2>1, <3>1, Unpainted, Harmless DEF IInv, Typed
    <2>3. CASE New \/ luaS_newlstr \/ SetTable \/ SetMode
      BY <1>1, <2>1, <2>3, NewStep, StringStep, SetTableStep, SetModeStep, Harmless
    <2>4. CASE SetEnv \/ SetUpval \/ Capture \/ Share
      BY <1>1, <2>1, <2>4, BarrierStep, CaptureStep, ShareStep, Harmless
    <2> QED  BY <1>3, <2>2, <2>3, <2>4 DEF Mutate
  <1> QED  BY <1>2, <1>3

-----------------------------------------------------------------------------
(* The collector *)

\* The collector paints what it finds, and the object that it traverses.
LEMMA MarkStep ==
  ASSUME IInv, UNCHANGED heap,
         \/ \E M : color' = Painted(color, M)
         \/ \E M, o, b : b \in {"gray", "black"} /\ color' = [Painted(color, M) EXCEPT ![o] = b]
  PROVE  Tame
  <1> color \in [Thread -> Colors]
    BY DEF IInv, Typed
  <1>1. /\ color' \in [Thread -> Colors]
        /\ \A o \in Thread : color'[o] \in White => color'[o] = color[o]
    <2>1. CASE \E M : color' = Painted(color, M)
      BY <2>1, PaintedColors
    <2>2. ASSUME NEW M, NEW o, NEW b \in {"gray", "black"}, color' = [Painted(color, M) EXCEPT ![o] = b]
          PROVE  /\ color' \in [Thread -> Colors]
                 /\ \A x \in Thread : color'[x] \in White => color'[x] = color[x]
      <3> DEFINE p == Painted(color, M)
      <3>1. /\ p \in [Thread -> Colors]
            /\ \A x \in Thread : p[x] \in White => p[x] = color[x]
        BY PaintedColors
      <3>2. color' = [p EXCEPT ![o] = b] /\ b \in Colors \ White
        BY <2>2 DEF Colors, White
      <3> HIDE DEF p
      <3> QED  BY <3>1, <3>2
    <2> QED  BY <2>1, <2>2
  <1> QED  BY <1>1, Unpainted DEF Thread

\* Outside of the sweep no userdata is dead, so that the lists it goes through and
\* the phase may change.
LEMMA NewPhase ==
  ASSUME IInv, Tame, UNCHANGED <<finalized, called, tmudata>>,
         gcstate \notin {"sweepstring", "sweep"}, gcstate' # "preserve"
  PROVE  IInv' /\ Once
  <1>1. Separated'
    BY DEF IInv, Separated, Tame
  <1>2. DeadFinalized'
    BY DEF IInv, DeadFinalized, isdead, Tame
  <1>3. WhiteFinalized'
    BY DEF WhiteFinalized
  <1>4. Once
    BY DEF IInv, Separated, Once, Tame
  <1> QED  BY <1>1, <1>2, <1>3, <1>4 DEF IInv, Tame

LEMMA MarkingStep ==
  ASSUME IInv, MarkRoot \/ Propagate \/ StartAtomic \/ RemarkWeak \/ RemarkAgain \/ RestartFull
  PROVE  IInv' /\ Once
  <1>1. CASE Propagate
    <2>1. UNCHANGED <<heap, finalized, called, tmudata, unswept, gcstate>>
      BY <1>1 DEF Propagate, phase
    <2>2. \E M, o, b : b \in {"gray", "black"} /\ color' = [Painted(color, M) EXCEPT ![o] = b]
      BY <1>1 DEF Propagate, propagatemark
    <2> QED  BY <2>1, <2>2, MarkStep, Harmless
  <1>2. CASE RemarkAgain
    <2>1. /\ UNCHANGED <<heap, color, finalized, called, tmudata>>
          /\ gcstate = "reweak" /\ gcstate' = "again"
      BY <1>2 DEF RemarkAgain
    <2> QED  BY <2>1, Unpainted, NewPhase DEF IInv, Typed
  <1>3. CASE MarkRoot \/ StartAtomic \/ RemarkWeak \/ RestartFull
    <2>1. /\ UNCHANGED <<heap, finalized, called, tmudata>>
          /\ gcstate \notin {"sweepstring", "sweep"} /\ gcstate' # "preserve"
      BY <1>3 DEF MarkRoot, StartAtomic, RemarkWeak, RestartFull, markroot
    <2>2. \E M : color' = Painted(color, M)
      BY <1>3 DEF MarkRoot, StartAtomic, RemarkWeak, RestartFull, markroot
    <2> QED  BY <2>1, <2>2, MarkStep, NewPhase
  <1> QED  BY <1>1, <1>2, <1>3

\* After the separation every userdata that is white was separated before.
LEMMA PreserveStep == ASSUME IInv, Preserve PROVE IInv' /\ Once
  <1> DEFINE c == makewhite(color, tmudata')
             M == reallymark(c, tmudata')
             new == luaC_separateudata
  <1>1. /\ gcstate = "again" /\ gcstate' = "preserve"
        /\ finalized' = finalized \union new
        /\ tmudata' = tmudata \union {u \in new : "gc" \in mode[u]}
        /\ color' = Painted(c, M)
        /\ UNCHANGED <<tt, mode, called>>
    BY DEF Preserve, heap
  <1>2. new = {u \in Obj \ (tmudata \union finalized) : tt[u] = "userdata" /\ color[u] \in White}
    BY DEF luaC_separateudata
  <1>3. /\ c \in [Thread -> Colors]
        /\ \A o \in Thread : c[o] = IF o \in tmudata' THEN "white" ELSE color[o]
    BY MadeWhite DEF IInv, Typed
  <1>4. tmudata' \subseteq Obj
    BY <1>1, <1>2 DEF IInv, Separated
  <1>5. tmudata' \subseteq M
    BY <1>3, <1>4, GCAssumption DEF reallymark, WhiteOf, White, Thread
  <1>6. /\ color' \in [Thread -> Colors]
        /\ \A o \in Thread : color'[o] \in White => o \notin tmudata' /\ color'[o] = color[o]
    <2> HIDE DEF c, M
    <2> QED  BY <1>1, <1>3, <1>5, PaintedColors
  <1>7. Typed'
    BY <1>1, <1>6 DEF IInv, Typed
  <1>8. Separated'
    BY <1>1, <1>2 DEF IInv, Separated
  <1>9. DeadFinalized'
    BY <1>1, <1>6 DEF IInv, DeadFinalized, isdead, White, Thread
  <1>10. WhiteFinalized'
    BY <1>1, <1>2, <1>6 DEF IInv, WhiteFinalized, Thread
  <1>11. Once
    BY <1>1, <1>2 DEF IInv, Typed, Separated, Once
  <1> QED  BY <1>7, <1>8, <1>9, <1>10, <1>11 DEF IInv

LEMMA OtherWhite ==
  ASSUME NEW c \in White
  PROVE  (CHOOSE w \in White : w # c) \in White \ {c}
  <1> \E w \in White : w # c
    BY DEF White
  <1> QED  OBVIOUS

\* What is white when atomic() ends is dead: if it is a userdata, its finalizer
\* was called, or it has none.
LEMMA FlipStep == ASSUME IInv, Flip PROVE IInv' /\ Once
  <1>1. /\ gcstate = "preserve" /\ gcstate' = "sweepstring"
        /\ UNCHANGED <<tt, mode, finalized, called, tmudata>>
        /\ unswept' = Linked(tmudata)
    BY DEF Flip
  <1>2. color' = [o \in Thread |-> IF color[o] \notin White \/ tt[o] = "free" THEN color[o]
                                   ELSE IF o \in KeptStrings THEN "gray"
                                   ELSE CHOOSE w \in White : w # color[o]]
    BY DEF Flip
  <1>3. /\ color' \in [Thread -> Colors]
        /\ \A u \in Obj : tt[u] = "userdata" /\ color'[u] = "dead" => color[u] \in White
    <2>1. \A x \in White : (CHOOSE w \in White : w # x) \in White
      BY OtherWhite
    <2>2. White \subseteq Colors /\ "gray" \in Colors
      BY DEF White, Colors
    <2>3. color' \in [Thread -> Colors]
      BY <1>2, <2>1, <2>2 DEF IInv, Typed
    <2>4. \A u \in Obj : color[u] \notin White => color'[u] = color[u]
      BY <1>2 DEF Thread
    <2> QED  BY <2>3, <2>4 DEF White
  <1>4. \A u \in Obj : tt[u] = "userdata" /\ u \notin tmudata => u \in unswept'
    BY <1>1 DEF Linked, Allocated, IsOpen
  <1>5. Typed' /\ Separated'
    BY <1>1, <1>3 DEF IInv, Typed, Separated
  <1>6. DeadFinalized'
    BY <1>1, <1>3, <1>4 DEF IInv, DeadFinalized, WhiteFinalized, isdead
  <1>7. WhiteFinalized' /\ Once
    BY <1>1 DEF IInv, Separated, WhiteFinalized, Once
  <1> QED  BY <1>5, <1>6, <1>7 DEF IInv

\* The sweep comes to o: what dies is dead and, but for o, no userdata; the
\* others are white.
LEMMA Swept ==
  ASSUME IInv, gcstate \in {"sweepstring", "sweep"}, UNCHANGED <<gcstate, tmudata>>,
         NEW o, NEW F, NEW C, NEW S, o \in S, \A x \in F : isdead(x) /\ (x = o \/ tt[x] # "userdata"),
         Freed(F, C), color' = makewhite(color, S), unswept' = unswept \ {o}
  PROVE  IInv' /\ Once
  <1>1. /\ color' \in [Thread -> Colors]
        /\ \A x \in Thread : color'[x] = IF x \in S THEN "white" ELSE color[x]
    BY MadeWhite DEF IInv, Typed
  <1>2. /\ tt' = [x \in Thread |-> IF x \in F THEN "free" ELSE tt[x]]
        /\ mode' = [x \in Thread |-> IF x \in F THEN {} ELSE mode[x]]
        /\ finalized' = finalized \ F /\ called' = called \ F
    BY DEF Freed
  <1>3. \A u \in Obj \intersect F : tt[u] = "userdata" => u \in finalized \ tmudata
    BY DEF IInv, DeadFinalized
  <1>4. F \intersect tmudata = {}
    BY <1>3 DEF IInv, Separated
  <1>5. Typed'
    BY <1>1, <1>2 DEF IInv, Typed, Types
  <1>6. Separated'
    BY <1>2, <1>4 DEF IInv, Separated, Thread
  <1>7. DeadFinalized'
    BY <1>1, <1>2 DEF IInv, DeadFinalized, isdead, Thread
  <1>8. WhiteFinalized'
    BY DEF WhiteFinalized
  <1>9. Once
    BY <1>2, <1>3 DEF IInv, Separated, Once, Thread
  <1> QED  BY <1>5, <1>6, <1>7, <1>8, <1>9 DEF IInv

LEMMA SweepStep == ASSUME IInv, SweepString \/ Sweep PROVE IInv' /\ Once
  <1>1. gcstate \in {"sweepstring", "sweep"} /\ UNCHANGED tmudata
    BY DEF SweepString, Sweep
  <1>2. CASE UNCHANGED <<heap, color, finalized, called, unswept>>
    <2>1. gcstate' \in {"sweepstring", "sweep"} \/ (gcstate' = "finalize" /\ unswept = {}) \/ gcstate' = gcstate
      BY DEF SweepString, Sweep
    <2> QED  BY <1>1, <1>2, <2>1 DEF IInv, Typed, Separated, DeadFinalized, WhiteFinalized, isdead, Once, heap
  <1>3. ASSUME NEW o \in unswept, Freed(IF isdead(o) THEN {o} ELSE {}, {}), color' = makewhite(color, {o}),
               unswept' = unswept \ {o}, UNCHANGED gcstate
        PROVE  IInv' /\ Once
    BY <1>1, <1>3, Swept
  <1>4. ASSUME NEW o \in unswept, sweeplist(o), unswept' = unswept \ {o}, UNCHANGED gcstate
        PROVE  IInv' /\ Once
    <2> DEFINE S == OpenOf(o) \union {o}
               F == {x \in S : isdead(x)}
    <2>1. \A x \in F : isdead(x) /\ (x = o \/ tt[x] # "userdata")
      BY DEF OpenOf, IsOpen
    <2>2. (\E C : Freed(F, C)) /\ color' = makewhite(color, S)
      BY <1>4 DEF sweeplist
    <2> HIDE DEF F
    <2> QED  BY <1>1, <1>4, <2>1, <2>2, Swept
  <1> QED  BY <1>2, <1>3, <1>4 DEF SweepString, Sweep

LEMMA FinalizerStep == ASSUME IInv, NEW u \in Obj, GCTM(u) PROVE IInv' /\ Once
  <1>1. /\ gcstate = "finalize" /\ u \in tmudata
        /\ tmudata' = tmudata \ {u} /\ called' = called \union {u}
        /\ color' = makewhite(color, {u})
        /\ UNCHANGED <<tt, mode, finalized, gcstate, unswept>>
    BY DEF GCTM, heap
  <1>2. /\ color' \in [Thread -> Colors]
        /\ \A x \in Thread : color'[x] = "dead" => color[x] = "dead"
    BY <1>1, MadeWhite DEF IInv, Typed
  <1>3. Typed'
    BY <1>1, <1>2 DEF IInv, Typed
  <1>4. Separated'
    BY <1>1 DEF IInv, Separated
  <1>5. DeadFinalized' /\ WhiteFinalized'
    BY <1>1, <1>2 DEF IInv, DeadFinalized, WhiteFinalized, isdead, Thread
  <1>6. Once
    BY <1>1 DEF IInv, Separated, Once
  <1> QED  BY <1>3, <1>4, <1>5, <1>6 DEF IInv

LEMMA PhaseStep == ASSUME IInv, FinalizerReturns \/ EndCycle \/ luaC_fullgc PROVE IInv' /\ Once
  <1>1. UNCHANGED <<heap, color, finalized, called, tmudata>>
    BY DEF FinalizerReturns, EndCycle, luaC_fullgc
  <1>2. Tame
    BY <1>1, Unpainted DEF IInv, Typed
  <1>3. \/ UNCHANGED <<unswept, gcstate>>
        \/ gcstate \notin {"sweepstring", "sweep"} /\ gcstate' # "preserve"
    BY DEF FinalizerReturns, EndCycle, luaC_fullgc
  <1> QED  BY <1>1, <1>2, <1>3, Harmless, NewPhase

-----------------------------------------------------------------------------
LEMMA StepInv == ASSUME IInv, [Next]_vars PROVE IInv' /\ (Once \/ UNCHANGED vars)
  <1>1. CASE UNCHANGED vars
    BY <1>1 DEF IInv, Typed, Separated, DeadFinalized, WhiteFinalized, isdead, vars, heap, phase
  <1>2. CASE Next
    BY <1>2, MutateStep, MarkingStep, PreserveStep, FlipStep, SweepStep, FinalizerStep, PhaseStep DEF Next, Collect
  <1> QED  BY <1>1, <1>2

\* A userdata with a finalizer is freed only once that was called, and it is never
\* called again, for any number of objects, of values on a stack and of threads
\* (luaC_separateudata and GCTM, lgc.c:128-155, 445-471).
THEOREM FinalizersRunOnce == Spec => FinalizedOnce
  <1>1. IInv /\ [Next]_vars => IInv' /\ [Once]_vars
    BY StepInv
  <1> QED  BY <1>1, InitInv, PTL DEF Spec, FinalizedOnce, Once

-----------------------------------------------------------------------------
(* What the program can reach is never freed, and a cycle leaves all white *)

Value == Thread \union {Nil}
Marking == {"propagate"} \union Atomic
Sweeping == {"sweepstring", "sweep"}

Shaped ==
  /\ key \in [Thread -> Value \union Texts] /\ val \in [Thread -> Value]
  /\ home \in [Thread -> Value] /\ level \in [Thread -> Nat]
  /\ stack \in [Thread -> Seq(Value)] /\ running \in Thread
  /\ \A o \in Thread : tt[o] # "thread" => stack[o] = <<>>

\* What a variable of the program, or an upvalue, may refer to.
IsValue(x) ==
  x = Nil \/ (x \in Thread /\ tt[x] \in {"table", "function", "userdata", "thread", "string"} /\ ~isdead(x))
IsUpval(x) == x \in Thread /\ tt[x] = "upval" /\ ~isdead(x)

\* Whatever is not dead refers to what is not dead.
Sound(o) ==
  /\ tt[o] = "table" => IsValue(key[o]) /\ IsValue(val[o]) /\ (val[o] = Nil => key[o] = Nil)
  /\ tt[o] = "userdata" => val[o] = Nil \/ (IsValue(val[o]) /\ tt[val[o]] = "table")
  /\ tt[o] = "function" => IsUpval(key[o])
  /\ tt[o] = "upval" => IsValue(ValueOf(o))
  /\ tt[o] = "thread" => \A i \in DOMAIN stack[o] : IsValue(stack[o][i])
AllSound ==
  /\ \A o \in Thread : tt[o] # "free" /\ ~isdead(o) => Sound(o)
  /\ tt[running] = "thread" /\ ~isdead(running)
  /\ tt[Main] = "thread" /\ ~isdead(Main)

\* An open upvalue stands for a slot that there is.
Placed ==
  \A u \in Thread : IsOpen(u) =>
    home[u] \in Thread /\ tt[home[u]] = "thread" /\ level[u] \in DOMAIN stack[home[u]]

\* Outside of the marking what is not white is waiting: for the sweep, or for its finalizer.
Waiting(o) ==
  \/ o \in tmudata
  \/ gcstate \in Sweeping /\ (o \in unswept \/ (IsOpen(o) /\ home[o] \in unswept))
Clean == gcstate \notin Marking =>
  \A o \in Thread : tt[o] # "free" /\ color[o] # "white" => Waiting(o)

Marked(x) == x = Nil \/ color[x] \notin White

\* What is black refers to what is marked, but for userdata of an earlier cycle.
Black(o) ==
  /\ tt[o] = "table" => Marked(key[o]) /\ Marked(val[o])
  /\ tt[o] = "userdata" => Marked(val[o]) \/ (o \in tmudata /\ gcstate # "preserve")
  /\ tt[o] = "function" => Marked(key[o])
  /\ tt[o] = "upval" => ~IsOpen(o) /\ Marked(val[o])
  /\ tt[o] \notin {"thread", "string"}

\* What is gray is in a list, a string or an open upvalue.
Gray(o) ==
  /\ tt[o] \in Listable => o \in gray \union grayagain \union weak
  /\ tt[o] = "upval" => IsOpen(o)

Colored ==
  /\ \A o \in Thread : (tt[o] = "userdata" => color[o] # "gray") /\ (IsOpen(o) => color[o] # "black")
  /\ gcstate \in Marking =>
       /\ color[Main] \notin White
       /\ \A o \in Thread : tt[o] # "free" =>
            /\ ~isdead(o)
            /\ color[o] = "black" => Black(o)
            /\ color[o] = "gray" => Gray(o)
       /\ \A o \in gray \union grayagain : o \in Thread /\ tt[o] \in Listable
       /\ \A o \in weak : o \in Thread /\ tt[o] = "table"

\* What atomic() has done so far.
UpvalsDone == gcstate \in Atomic =>
  \A u \in Thread : IsOpen(u) /\ color[u] = "gray" => Marked(ValueOf(u))
WeakDone == gcstate \in {"reweak", "again", "preserve"} =>
  /\ color[running] \notin White
  /\ \A o \in weak : /\ mode[o] # {}
                     /\ o \notin gray => /\ "k" \notin mode[o] => Marked(key[o])
                                         /\ "v" \notin mode[o] => Marked(val[o])
ThreadsDone == gcstate \in {"again", "preserve"} =>
  \A o \in grayagain : /\ tt[o] = "thread"
                       /\ o \notin gray => \A i \in DOMAIN stack[o] : Marked(stack[o][i])

SInv == Shaped /\ AllSound /\ Placed /\ Clean /\ Colored /\ UpvalsDone /\ WeakDone /\ ThreadsDone

-----------------------------------------------------------------------------
(* Marking *)

\* No object is dead, so that everything refers to what it may.
AllLive == \A o \in Thread : tt[o] # "free" => ~isdead(o) /\ Sound(o)

LEMMA ValueTyped == ASSUME Shaped, Placed, NEW u \in Thread PROVE ValueOf(u) \in Value
  <1>1. CASE IsOpen(u)
    <2>1. home[u] \in Thread /\ level[u] \in DOMAIN stack[home[u]]
      BY <1>1 DEF Placed
    <2>2. stack[home[u]] \in Seq(Value)
      BY <2>1 DEF Shaped
    <2> QED  BY <1>1, <2>1, <2>2 DEF ValueOf
  <1>2. CASE ~IsOpen(u)
    BY <1>2 DEF ValueOf, Shaped
  <1> QED  BY <1>1, <1>2

\* M is painted, which makes p of the colours c: nothing but what was white changes,
\* all of S is marked, and so is what hangs on userdata and upvalues.
Paints(c, S, M, p) ==
  /\ p \in [Thread -> Colors]
  /\ \A x \in S : x = Nil \/ p[x] \notin White
  /\ \A x \in M : x \in Thread /\ tt[x] # "free" /\ c[x] \in White /\ p[x] \in {"gray", "black"}
  /\ \A x \in Thread : x \notin M => p[x] = c[x]
  /\ \A x \in M : tt[x] = "userdata" => p[x] = "black" /\ (val[x] = Nil \/ p[val[x]] \notin White)
  /\ \A x \in M : tt[x] = "upval" => (IsOpen(x) <=> p[x] = "gray") /\ (ValueOf(x) = Nil \/ p[ValueOf(x)] \notin White)
  /\ \A x \in M : tt[x] \notin {"userdata", "upval"} => p[x] = "gray"
  /\ \A x \in M : tt[x] = "upval" => x \in S

\* That is what reallymark() finds.
LEMMA Marks ==
  ASSUME AllLive, NEW c \in [Thread -> Colors], NEW S, \A x \in S : IsValue(x) \/ IsUpval(x),
         NEW M, M = reallymark(c, S), NEW p, p = Painted(c, M)
  PROVE  Paints(c, S, M, p)
  <1> DEFINE s0 == WhiteOf(c, S)
             s1 == WhiteOf(c, Inner(s0))
             s2 == WhiteOf(c, Inner(s1))
  <1>1. M = s0 \union s1 \union s2
    BY DEF reallymark
  <1>2. \A x \in s0 : x \in S /\ x \in Thread /\ tt[x] # "free" /\ c[x] \in White /\ x # Nil
    BY DEF WhiteOf, IsValue, IsUpval
  <1>3. \A x \in Inner(s0) : IsValue(x)
    BY <1>2 DEF Inner, AllLive, Sound, IsValue
  <1>4. \A x \in s1 : x \in Inner(s0) /\ x \in Thread /\ tt[x] \notin {"free", "upval"} /\ c[x] \in White /\ x # Nil
    BY <1>3 DEF WhiteOf, IsValue
  <1>5. \A x \in Inner(s1) : x = Nil \/ (x \in Thread /\ tt[x] = "table")
    BY ZenonT(60), <1>4 DEF Inner, AllLive, Sound, IsValue
  <1>6. \A x \in s2 : x \in Inner(s1) /\ x \in Thread /\ tt[x] = "table" /\ c[x] \in White /\ x # Nil
    BY <1>5 DEF WhiteOf
  <1>7. \A x \in Thread : x \notin M => p[x] = c[x]
    BY DEF Painted
  <1>8. \A x \in M : /\ x \in Thread
                     /\ p[x] = IF tt[x] = "userdata" \/ (tt[x] = "upval" /\ ~IsOpen(x)) THEN "black" ELSE "gray"
    <2>1. M \subseteq Thread
      BY <1>1, <1>2, <1>4, <1>6
    <2> QED  BY <2>1 DEF Painted
  <1>9. \A x \in Thread : x \in M \/ c[x] \notin White => p[x] \notin White
    BY <1>7, <1>8 DEF White
  <1>10. \A x \in S \union Inner(s0) \union Inner(s1) : x = Nil \/ (x \in Thread /\ (x \in M \/ c[x] \notin White))
    <2>1. \A x \in S : x = Nil \/ x \in s0 \/ (x \in Thread /\ c[x] \notin White)
      BY DEF WhiteOf, IsValue, IsUpval
    <2>2. \A x \in Inner(s0) : x = Nil \/ x \in s1 \/ (x \in Thread /\ c[x] \notin White)
      BY <1>3 DEF WhiteOf, IsValue
    <2>3. \A x \in Inner(s1) : x = Nil \/ x \in s2 \/ (x \in Thread /\ c[x] \notin White)
      BY <1>5 DEF WhiteOf
    <2> QED  BY <2>1, <2>2, <2>3, <1>1, <1>2, <1>4, <1>6
  <1>11. p \in [Thread -> Colors]
    BY PaintedColors
  <1>12. \A x \in M : tt[x] = "userdata" => val[x] \in Inner(s0) \union Inner(s1)
    BY <1>1, <1>6 DEF Inner
  <1>13. \A x \in M : tt[x] = "upval" => ValueOf(x) \in Inner(s0)
    BY <1>1, <1>4, <1>6 DEF Inner
  <1>14. \A x \in M : tt[x] # "free" /\ c[x] \in White /\ (tt[x] = "upval" => x \in S)
    BY <1>1, <1>2, <1>4, <1>6
  <1> HIDE DEF s0, s1, s2
  <1> QED  BY <1>7, <1>8, <1>9, <1>10, <1>11, <1>12, <1>13, <1>14 DEF Paints

\* A step that changes colours only, and makes nothing dead or alive again.
LEMMA Recolored ==
  ASSUME Shaped, AllSound, Placed, UNCHANGED <<heap, threads>>,
         \A o \in Thread : tt[o] # "free" => (color'[o] = "dead" <=> color[o] = "dead")
  PROVE  Shaped' /\ AllSound' /\ Placed'
  <1>1. UNCHANGED <<tt, key, val, mode, home, level, stack, running>>
    BY DEF heap, threads
  <1>2. Shaped' /\ Placed'
    BY <1>1 DEF Shaped, Placed, IsOpen
  <1>3. \A x : IsValue(x) => IsValue(x)'
    BY <1>1 DEF IsValue, isdead
  <1>4. \A x : IsUpval(x) => IsUpval(x)'
    BY <1>1 DEF IsUpval, isdead
  <1>5. \A o \in Thread : Sound(o) => Sound(o)'
    BY <1>1, <1>3, <1>4 DEF Sound, ValueOf, IsOpen
  <1>6. AllSound'
    BY <1>1, <1>5, GCAssumption DEF AllSound, isdead, Thread, Shaped
  <1> QED  BY <1>2, <1>6

-----------------------------------------------------------------------------
(* The steps of the marking *)

LEMMA LiveMarking == ASSUME AllSound, Colored, gcstate \in Marking PROVE AllLive
  BY DEF AllSound, Colored, AllLive

LEMMA LiveClean ==
  ASSUME IInv, AllSound, Clean, gcstate \notin Marking \union Sweeping
  PROVE  AllLive /\ \A o \in Thread : tt[o] # "free" /\ o \notin tmudata => color[o] = "white"
  <1>1. \A o \in Thread : tt[o] # "free" /\ o \notin tmudata => color[o] = "white"
    BY DEF Clean, Waiting
  <1>2. \A o \in tmudata : ~isdead(o)
    BY DEF IInv, Separated, DeadFinalized
  <1> QED  BY <1>1, <1>2 DEF AllSound, AllLive, isdead

\* What has been marked stays so.
LEMMA StaysMarked ==
  ASSUME Shaped, Placed, UNCHANGED <<heap, threads>>,
         \A x \in Thread : color[x] \notin White => color'[x] \notin White
  PROVE  /\ \A o \in Thread : tt[o] = "upval" => (Marked(ValueOf(o)) => Marked(ValueOf(o))')
         /\ \A o \in Thread : Marked(key[o]) /\ key[o] \in Value => Marked(key[o])'
         /\ \A o \in Thread : Marked(val[o]) => Marked(val[o])'
         /\ \A o \in Thread : \A i \in DOMAIN stack[o] : Marked(stack[o][i]) => Marked(stack[o][i])'
  <1>1. UNCHANGED <<tt, key, val, mode, home, level, stack, running>>
    BY DEF heap, threads
  <1>2. \A x \in Value : Marked(x) => (x = Nil \/ color'[x] \notin White)
    BY DEF Marked, Value
  <1>3. \A o \in Thread : ValueOf(o)' = ValueOf(o)
    BY <1>1 DEF ValueOf, IsOpen
  <1>4. \A o \in Thread : val[o] \in Value /\ \A i \in DOMAIN stack[o] : stack[o][i] \in Value
    BY DEF Shaped
  <1> QED  BY <1>1, <1>2, <1>3, <1>4, ValueTyped DEF Marked

LEMMA MarkRootStep ==
  ASSUME IInv, SInv, MarkRoot \/ RestartFull
  PROVE  SInv'
  <1> DEFINE M == reallymark(color, {Main})
             p == Painted(color, M)
  <1>1. /\ UNCHANGED <<heap, threads, tmudata>>
        /\ gcstate \in {"pause", "finalize"} /\ gcstate' = "propagate"
        /\ color' = p /\ gray' = Listed(M) /\ grayagain' = {} /\ weak' = {}
    BY DEF MarkRoot, RestartFull, markroot
  <1>2. AllLive /\ \A o \in Thread : tt[o] # "free" /\ o \notin tmudata => color[o] = "white"
    BY <1>1, LiveClean DEF SInv, Marking, Sweeping, Atomic
  <1>3. \A x \in {Main} : IsValue(x) \/ IsUpval(x)
    BY DEF SInv, AllSound, IsValue, Thread
  <1>4. color \in [Thread -> Colors]
    BY DEF IInv, Typed
  <1>5. Paints(color, {Main}, M, p)
    BY <1>2, <1>3, <1>4, Marks
  <1> HIDE DEF M, p
  <1> USE DEF Paints
  <1>6. \A o \in Thread : tt[o] # "free" => ~isdead(o) /\ color'[o] # "dead"
    BY <1>1, <1>2, <1>5 DEF AllLive, isdead, White
  <1>7. Shaped' /\ AllSound' /\ Placed'
    BY <1>1, <1>6, Recolored DEF SInv, isdead
  <1>8. UNCHANGED <<tt, key, val, mode, home, level, stack, running>>
    BY <1>1 DEF heap, threads
  <1>9. \A o \in Thread : tt[o] = "userdata" => color'[o] # "gray"
    BY <1>1, <1>5 DEF SInv, Colored
  <1>10. \A o \in Thread : tt[o] # "free" /\ color'[o] = "black" => Black(o)'
    <2> SUFFICES ASSUME NEW o \in Thread, tt[o] # "free", color'[o] = "black" PROVE Black(o)'
      OBVIOUS
    <2>1. CASE o \in M
      BY <1>1, <1>5, <1>8, <2>1 DEF Black, Marked, ValueOf, IsOpen
    <2>2. CASE o \notin M
      <3>1. o \in tmudata
        BY <1>1, <1>2, <1>5, <2>2
      <3>2. tt[o] = "userdata"
        BY <3>1 DEF IInv, Separated
      <3> QED  BY <1>1, <1>8, <3>1, <3>2 DEF Black
    <2> QED  BY <2>1, <2>2
  <1>11. \A o \in Thread : tt[o] # "free" /\ color'[o] = "gray" => Gray(o)'
    <2> SUFFICES ASSUME NEW o \in Thread, tt[o] # "free", color'[o] = "gray" PROVE Gray(o)'
      OBVIOUS
    <2>1. o \in M
      <3>1. CASE o \in tmudata
        <4>1. tt[o] = "userdata"
          BY <3>1 DEF IInv, Separated
        <4> QED  BY <1>9, <4>1
      <3> QED  BY <1>1, <1>2, <1>5, <3>1
    <2> QED  BY <1>1, <1>5, <1>8, <2>1 DEF Gray, Listed, IsOpen
  <1>12. Colored'
    <2>1. color'[Main] \notin White
      BY <1>1, <1>5, GCAssumption
    <2>2. \A o \in gray' \union grayagain' : o \in Thread /\ tt'[o] \in Listable
      BY <1>1, <1>5, <1>8 DEF Listed
    <2> QED  BY <1>1, <1>6, <1>8, <1>9, <1>10, <1>11, <2>1, <2>2 DEF Colored, Black, IsOpen, isdead
  <1>13. Clean' /\ UpvalsDone' /\ WeakDone' /\ ThreadsDone'
    BY <1>1 DEF Clean, Marking, UpvalsDone, WeakDone, ThreadsDone, Atomic
  <1> QED  BY <1>7, <1>12, <1>13 DEF SInv

\* Painting what is found while the lists are passed on keeps the colours right.
LEMMA Painting ==
  ASSUME IInv, SInv, gcstate \in Marking, gcstate' \in Marking, gcstate' = "preserve" <=> gcstate = "preserve",
         NEW S, NEW M, Paints(color, S, M, color'), UNCHANGED <<heap, threads, tmudata>>,
         gray' \union grayagain' \union weak' = gray \union grayagain \union weak \union Listed(M),
         weak' \subseteq weak
  PROVE  /\ Shaped' /\ AllSound' /\ Placed' /\ Clean' /\ Colored'
         /\ \A x \in Thread : color[x] \notin White => color'[x] \notin White
  <1> USE DEF Paints
  <1>1. UNCHANGED <<tt, key, val, mode, home, level, stack, running>>
    BY DEF heap, threads
  <1>2. AllLive
    BY LiveMarking DEF SInv
  <1>3. \A x \in Thread : color[x] \notin White => color'[x] \notin White
    BY DEF White
  <1>4. \A o \in Thread : tt[o] # "free" => ~isdead(o) /\ color'[o] # "dead"
    BY <1>2 DEF AllLive, isdead
  <1>5. Shaped' /\ AllSound' /\ Placed'
    BY <1>4, Recolored DEF SInv, isdead
  <1>6. \A o \in Thread : tt[o] # "free" /\ color'[o] = "black" => Black(o)'
    <2> SUFFICES ASSUME NEW o \in Thread, tt[o] # "free", color'[o] = "black" PROVE Black(o)'
      OBVIOUS
    <2>1. CASE o \in M
      BY <1>1, <2>1 DEF Black, Marked, ValueOf, IsOpen
    <2>2. CASE o \notin M
      <3>1. Black(o)
        BY <2>2 DEF SInv, Colored
      <3>2. tt[o] = "table" => key[o] \in Value
        BY <1>2 DEF AllLive, Sound, IsValue, Value
      <3>3. tt[o] = "function" => key[o] \in Value
        BY <1>2 DEF AllLive, Sound, IsUpval, Value
      <3> QED  BY <1>1, <1>3, <3>1, <3>2, <3>3, StaysMarked DEF SInv, Black, IsOpen
    <2> QED  BY <2>1, <2>2
  <1>7. \A o \in Thread : tt[o] # "free" /\ color'[o] = "gray" => Gray(o)'
    <2> SUFFICES ASSUME NEW o \in Thread, tt[o] # "free", color'[o] = "gray" PROVE Gray(o)'
      OBVIOUS
    <2>1. CASE o \in M
      BY <1>1, <2>1 DEF Gray, Listed, IsOpen
    <2>2. CASE o \notin M
      <3>1. Gray(o)
        BY <2>2 DEF SInv, Colored
      <3> QED  BY <1>1, <3>1 DEF Gray, IsOpen
    <2> QED  BY <2>1, <2>2
  <1>8. Colored'
    <2>1. color'[Main] \notin White
      BY <1>3 DEF SInv, Colored, Thread
    <2>2. \A o \in Thread : tt[o] = "userdata" => color'[o] # "gray"
      BY DEF SInv, Colored
    <2>3. \A o \in gray \union grayagain \union weak \union Listed(M) : o \in Thread /\ tt[o] \in Listable
      BY DEF SInv, Colored, Listed, Listable
    <2> QED  BY <1>1, <1>4, <1>6, <1>7, <2>1, <2>2, <2>3 DEF SInv, Colored, Black, IsOpen, isdead
  <1>9. Clean'
    BY DEF Clean, Marking, Atomic
  <1> QED  BY <1>3, <1>5, <1>8, <1>9

LEMMA StartAtomicStep == ASSUME IInv, SInv, StartAtomic PROVE SInv'
  <1> DEFINE M == reallymark(color, remarkupvals)
  <1>1. /\ gcstate = "propagate" /\ gcstate' = "remark" /\ gray = {} /\ gray' = Listed(M)
        /\ color' = Painted(color, M) /\ UNCHANGED <<heap, threads, tmudata, grayagain, weak>>
    BY DEF StartAtomic
  <1>2. AllLive
    BY <1>1, LiveMarking DEF SInv, Marking
  <1>3. \A x \in remarkupvals : IsValue(x)
    BY <1>2 DEF remarkupvals, AllLive, Sound, IsOpen, Thread
  <1>4. Paints(color, remarkupvals, M, color')
    BY <1>1, <1>2, <1>3, Marks DEF IInv, Typed
  <1> HIDE DEF M
  <1>5. /\ Shaped' /\ AllSound' /\ Placed' /\ Clean' /\ Colored'
        /\ \A x \in Thread : color[x] \notin White => color'[x] \notin White
    BY <1>1, <1>4, Painting DEF Marking, Atomic
  <1>6. UpvalsDone'
    <2> SUFFICES ASSUME NEW u \in Thread, IsOpen(u)', color'[u] = "gray" PROVE Marked(ValueOf(u))'
      BY DEF UpvalsDone
    <2>1. IsOpen(u) /\ ValueOf(u)' = ValueOf(u)
      BY <1>1 DEF heap, threads, IsOpen, ValueOf
    <2>2. CASE u \in M
      BY <1>4, <2>1, <2>2 DEF Paints, Marked, IsOpen
    <2>3. CASE u \notin M
      <3>1. color[u] = "gray"
        BY <1>4, <2>3 DEF Paints
      <3>2. u \in Obj
        BY <2>1 DEF SInv, AllSound, IsOpen, Thread
      <3>3. ValueOf(u) \in remarkupvals
        BY <2>1, <3>1, <3>2 DEF remarkupvals
      <3> QED  BY <1>4, <2>1, <3>3 DEF Paints, Marked
    <2> QED  BY <2>2, <2>3
  <1>7. WeakDone' /\ ThreadsDone'
    BY <1>1 DEF WeakDone, ThreadsDone
  <1> QED  BY <1>5, <1>6, <1>7 DEF SInv

\* The upvalues that are marked stay done with, and those that are found are.
LEMMA StayDone ==
  ASSUME IInv, SInv, gcstate \in Atomic, NEW S, NEW M, Paints(color, S, M, color'),
         UNCHANGED <<heap, threads>>, \A x \in Thread : color[x] \notin White => color'[x] \notin White
  PROVE  UpvalsDone'
  <1> SUFFICES ASSUME NEW u \in Thread, IsOpen(u)', color'[u] = "gray" PROVE Marked(ValueOf(u))'
    BY DEF UpvalsDone
  <1>1. IsOpen(u) /\ ValueOf(u)' = ValueOf(u)
    BY DEF heap, threads, IsOpen, ValueOf
  <1>2. CASE u \in M
    BY <1>1, <1>2 DEF Paints, Marked, IsOpen
  <1>3. CASE u \notin M
    <2>1. Marked(ValueOf(u))
      BY <1>1, <1>3 DEF Paints, SInv, UpvalsDone
    <2> QED  BY <1>1, <2>1, StaysMarked DEF SInv, IsOpen
  <1> QED  BY <1>2, <1>3

LEMMA RemarkWeakStep == ASSUME IInv, SInv, RemarkWeak PROVE SInv'
  <1> DEFINE M == reallymark(color, {running})
  <1>1. /\ gcstate = "remark" /\ gcstate' = "reweak" /\ gray = {} /\ gray' = weak \union Listed(M) /\ weak' = {}
        /\ color' = Painted(color, M) /\ UNCHANGED <<heap, threads, tmudata, grayagain>>
    BY DEF RemarkWeak
  <1>2. AllLive
    BY <1>1, LiveMarking DEF SInv, Marking, Atomic
  <1>3. running \in Thread /\ IsValue(running)
    BY DEF SInv, Shaped, AllSound, IsValue
  <1>4. Paints(color, {running}, M, color')
    BY <1>1, <1>2, <1>3, Marks DEF IInv, Typed
  <1> HIDE DEF M
  <1>5. /\ Shaped' /\ AllSound' /\ Placed' /\ Clean' /\ Colored'
        /\ \A x \in Thread : color[x] \notin White => color'[x] \notin White
    BY <1>1, <1>4, Painting DEF Marking, Atomic
  <1>6. UpvalsDone'
    BY <1>1, <1>4, <1>5, StayDone DEF Atomic
  <1>7. WeakDone'
    <2>1. running # Nil
      BY <1>3, GCAssumption DEF Thread
    <2> QED  BY <1>1, <1>3, <1>4, <2>1 DEF WeakDone, Paints, threads
  <1>8. ThreadsDone'
    BY <1>1 DEF ThreadsDone
  <1> QED  BY <1>5, <1>6, <1>7, <1>8 DEF SInv

LEMMA RemarkAgainStep == ASSUME IInv, SInv, RemarkAgain PROVE SInv'
  <1>1. /\ gcstate = "reweak" /\ gcstate' = "again" /\ gray = {} /\ gray' = grayagain /\ grayagain' = {}
        /\ UNCHANGED <<heap, color, threads, tmudata, weak>>
    BY DEF RemarkAgain
  <1>2. Paints(color, {}, {}, color')
    BY <1>1 DEF Paints, IInv, Typed
  <1>3. Listed({}) = {}
    BY DEF Listed
  <1>4. Shaped' /\ AllSound' /\ Placed' /\ Clean' /\ Colored'
    BY <1>1, <1>2, <1>3, Painting DEF Marking, Atomic
  <1>5. UpvalsDone'
    BY <1>1, <1>2, StayDone DEF Atomic
  <1>6. WeakDone'
    BY <1>1 DEF SInv, WeakDone, Marked, heap, threads
  <1>7. ThreadsDone'
    BY <1>1 DEF ThreadsDone
  <1> QED  BY <1>4, <1>5, <1>6, <1>7 DEF SInv

LEMMA SafePropagate == ASSUME IInv, SInv, Propagate PROVE SInv'
  <1>1. PICK o \in gray : propagatemark(o)
    BY DEF Propagate
  <1> DEFINE M == reallymark(color, Traversed(o))
             p == Painted(color, M)
             new == IF IsWeak(o) \/ tt[o] = "thread" THEN "gray" ELSE "black"
  <1>2. /\ gcstate \in Marking /\ UNCHANGED <<heap, threads, tmudata, gcstate>>
        /\ color' = [p EXCEPT ![o] = new]
        /\ gray' = (gray \ {o}) \union Listed(M)
        /\ weak' = IF IsWeak(o) THEN weak \union {o} ELSE weak
        /\ grayagain' = IF tt[o] = "thread" THEN grayagain \union {o} ELSE grayagain
    BY <1>1 DEF Propagate, propagatemark, phase, Marking
  <1>3. AllLive
    BY <1>2, LiveMarking DEF SInv
  <1>4. o \in Thread /\ tt[o] \in Listable
    BY <1>2 DEF SInv, Colored
  <1>5. \A x \in Traversed(o) : IsValue(x) \/ IsUpval(x)
    <2>1. Sound(o)
      BY <1>3, <1>4 DEF AllLive, Listable
    <2> QED  BY <1>4, <2>1 DEF Sound, Traversed, traversetable, traverseclosure, traversestack, Elements, Listable
  <1>6. Paints(color, Traversed(o), M, p)
    BY <1>3, <1>5, Marks DEF IInv, Typed
  <1> HIDE DEF M, p
  <1> USE DEF Paints
  <1>7. UNCHANGED <<tt, key, val, mode, home, level, stack, running>>
    BY <1>2 DEF heap, threads
  <1>8. /\ \A x \in Thread : x # o => color'[x] = p[x]
        /\ color'[o] = new
    BY <1>2, <1>4, <1>6
  <1>9. /\ \A x \in Thread : color[x] \notin White => color'[x] \notin White
        /\ \A x \in Thread : p[x] \notin White => color'[x] \notin White
    BY <1>6, <1>8 DEF White
  <1>10. \A x \in Thread : tt[x] # "free" => ~isdead(x) /\ color'[x] # "dead"
    BY <1>3, <1>6, <1>8 DEF AllLive, isdead
  <1>11. Shaped' /\ AllSound' /\ Placed'
    BY <1>2, <1>10, Recolored DEF SInv, isdead
  <1>12. \A x \in Traversed(o) : Marked(x)'
    BY <1>5, <1>6, <1>9 DEF Marked, IsValue, IsUpval
  <1>13. \A x \in Thread : tt[x] # "free" /\ color'[x] = "black" => Black(x)'
    <2> SUFFICES ASSUME NEW x \in Thread, tt[x] # "free", color'[x] = "black" PROVE Black(x)'
      OBVIOUS
    <2>1. CASE x = o
      <3>1. tt[o] \in {"table", "function"} /\ (tt[o] = "table" => mode[o] = {})
        BY <1>4, <1>8, <2>1 DEF Listable, IsWeak
      <3>2. tt[o] = "table" => key[o] \in Traversed(o) /\ val[o] \in Traversed(o)
        BY <3>1 DEF Traversed, traversetable
      <3>3. tt[o] = "function" => key[o] \in Traversed(o)
        BY DEF Traversed, traverseclosure
      <3> QED  BY <1>7, <1>12, <2>1, <3>1, <3>2, <3>3 DEF Black, Marked
    <2>2. CASE x # o /\ x \in M
      BY <1>6, <1>7, <1>8, <1>9, <1>3, <2>2 DEF Black, Marked, ValueOf, IsOpen, AllLive, Sound, IsValue, Thread
    <2>3. CASE x # o /\ x \notin M
      <3>1. Black(x)
        BY <1>2, <1>6, <1>8, <2>3 DEF SInv, Colored
      <3>2. tt[x] = "table" => key[x] \in Value
        BY <1>3 DEF AllLive, Sound, IsValue, Value
      <3>3. tt[x] = "function" => key[x] \in Value
        BY <1>3 DEF AllLive, Sound, IsUpval, Value
      <3> QED  BY <1>2, <1>7, <1>9, <3>1, <3>2, <3>3, StaysMarked DEF SInv, Black, IsOpen
    <2> QED  BY <2>1, <2>2, <2>3
  <1>14. \A x \in Thread : tt[x] # "free" /\ color'[x] = "gray" => Gray(x)'
    <2> SUFFICES ASSUME NEW x \in Thread, tt[x] # "free", color'[x] = "gray" PROVE Gray(x)'
      OBVIOUS
    <2>1. CASE x = o
      <3>1. x \in grayagain' \union weak'
        BY <1>2, <1>8, <2>1
      <3> QED  BY <1>4, <1>7, <2>1, <3>1 DEF Gray, Listable
    <2>2. CASE x # o /\ x \in M
      BY <1>2, <1>6, <1>7, <1>8, <2>2 DEF Gray, Listed, IsOpen
    <2>3. CASE x # o /\ x \notin M
      <3>1. Gray(x)
        BY <1>2, <1>6, <1>8, <2>3 DEF SInv, Colored
      <3> QED  BY <1>2, <1>7, <2>3, <3>1 DEF Gray, IsOpen
    <2> QED  BY <2>1, <2>2, <2>3
  <1>15. Colored'
    <2>1. color'[Main] \notin White
      BY <1>2, <1>9 DEF SInv, Colored, Thread
    <2>2. \A x \in Thread : tt[x] = "userdata" => color'[x] # "gray"
      BY <1>4, <1>6, <1>8 DEF SInv, Colored, Listable
    <2>3. \A x \in gray' \union grayagain' : x \in Thread /\ tt[x] \in Listable
      BY <1>2, <1>4, <1>6 DEF SInv, Colored, Listed
    <2>4. \A x \in weak' : x \in Thread /\ tt[x] = "table"
      BY <1>2, <1>4 DEF SInv, Colored, IsWeak
    <2> QED  BY <1>7, <1>10, <1>13, <1>14, <2>1, <2>2, <2>3, <2>4 DEF Colored, Black, IsOpen, isdead
  <1>16. Clean'
    BY <1>2 DEF Clean
  <1>17. UpvalsDone'
    <2> SUFFICES ASSUME gcstate \in Atomic, NEW u \in Thread, IsOpen(u)', color'[u] = "gray" PROVE Marked(ValueOf(u))'
      BY <1>2 DEF UpvalsDone
    <2>1. IsOpen(u) /\ ValueOf(u)' = ValueOf(u) /\ u # o
      BY <1>4, <1>7 DEF IsOpen, ValueOf, Listable
    <2>2. CASE u \in M
      <3>1. ValueOf(u) \in Value
        BY ValueTyped DEF SInv
      <3> QED  BY <1>6, <1>9, <2>1, <2>2, <3>1 DEF Marked, IsOpen, Value
    <2>3. CASE u \notin M
      <3>1. Marked(ValueOf(u))
        BY <1>6, <1>8, <2>1, <2>3 DEF SInv, UpvalsDone
      <3> QED  BY <1>2, <1>9, <2>1, <3>1, StaysMarked DEF SInv, IsOpen
    <2> QED  BY <2>2, <2>3
  <1>18. WeakDone'
    <2> SUFFICES ASSUME gcstate \in {"reweak", "again", "preserve"} PROVE WeakDone'
      BY <1>2 DEF WeakDone
    <2>1. color'[running] \notin White
      BY <1>9 DEF SInv, WeakDone, Shaped
    <2>2. ASSUME NEW x \in weak', x \notin gray'
          PROVE  /\ mode[x] # {}
                 /\ "k" \notin mode[x] => Marked(key[x])'
                 /\ "v" \notin mode[x] => Marked(val[x])'
      <3>1. CASE x = o
        <4>1. mode[o] # {} /\ tt[o] = "table"
          BY <1>2, <2>2, <3>1 DEF IsWeak, SInv, WeakDone, Colored
        <4>2. /\ "k" \notin mode[o] => key[o] \in Traversed(o)
              /\ "v" \notin mode[o] => val[o] \in Traversed(o)
          BY <4>1 DEF Traversed, traversetable
        <4> QED  BY <1>7, <1>12, <3>1, <4>1, <4>2 DEF Marked
      <3>2. CASE x # o
        <4>1. x \in weak /\ x \notin gray
          BY <1>2, <2>2, <3>2
        <4>2. x \in Thread /\ tt[x] = "table"
          BY <1>2, <4>1 DEF SInv, Colored
        <4>3. key[x] \in Value
          BY <1>3, <4>2 DEF AllLive, Sound, IsValue, Value
        <4> QED  BY <1>2, <1>9, <4>1, <4>2, <4>3, StaysMarked DEF SInv, WeakDone
      <3> QED  BY <3>1, <3>2
    <2>3. \A x \in weak' : mode[x] # {}
      BY <1>2 DEF IsWeak, SInv, WeakDone
    <2> QED  BY <1>7, <2>1, <2>2, <2>3 DEF WeakDone
  <1>19. ThreadsDone'
    <2> SUFFICES ASSUME gcstate \in {"again", "preserve"}, NEW x \in grayagain'
                 PROVE  tt[x] = "thread" /\ (x \notin gray' => \A i \in DOMAIN stack[x] : Marked(stack[x][i])')
      BY <1>2, <1>7 DEF ThreadsDone
    <2>1. CASE x = o
      <3>1. tt[o] = "thread"
        BY <1>2, <2>1 DEF SInv, ThreadsDone
      <3>2. \A i \in DOMAIN stack[o] : stack[o][i] \in Traversed(o)
        BY <3>1 DEF Traversed, traversestack, Elements
      <3> QED  BY <1>7, <1>12, <2>1, <3>1, <3>2 DEF Marked
    <2>2. CASE x # o
      <3>1. x \in grayagain /\ (x \notin gray' => x \notin gray)
        BY <1>2, <2>2
      <3>2. x \in Thread
        BY <1>2, <3>1 DEF SInv, Colored
      <3> QED  BY <1>2, <1>9, <3>1, <3>2, StaysMarked DEF SInv, ThreadsDone
    <2> QED  BY <2>1, <2>2
  <1> QED  BY <1>11, <1>15, <1>16, <1>17, <1>18, <1>19 DEF SInv

LEMMA SafePreserve == ASSUME IInv, SInv, Preserve PROVE SInv'
  <1> DEFINE c == makewhite(color, tmudata')
             M == reallymark(c, tmudata')
  <1>1. /\ gcstate = "again" /\ gcstate' = "preserve" /\ gray = {} /\ gray' = Listed(M)
        /\ color' = Painted(c, M) /\ UNCHANGED <<heap, threads, grayagain, weak>>
        /\ tmudata' = tmudata \union {u \in luaC_separateudata : "gc" \in mode[u]}
    BY DEF Preserve
  <1>2. AllLive
    BY <1>1, LiveMarking DEF SInv, Marking, Atomic
  <1>3. tmudata \subseteq tmudata' /\ \A x \in tmudata' : x \in Thread /\ tt[x] = "userdata" /\ x # Nil
    <2>1. \A x \in tmudata : x \in Obj /\ tt[x] = "userdata"
      BY DEF IInv, Separated
    <2>2. \A x \in luaC_separateudata : x \in Obj /\ tt[x] = "userdata"
      BY DEF luaC_separateudata
    <2> QED  BY <1>1, <2>1, <2>2, GCAssumption DEF Thread
  <1>4. \A x \in tmudata' : IsValue(x)
    BY <1>2, <1>3 DEF IsValue, AllLive
  <1>5. c \in [Thread -> Colors] /\ \A x \in Thread : c[x] = IF x \in tmudata' THEN "white" ELSE color[x]
    BY MadeWhite DEF IInv, Typed
  <1> HIDE DEF c
  <1>6. Paints(c, tmudata', M, color')
    BY <1>1, <1>2, <1>4, <1>5, Marks
  <1> HIDE DEF M
  <1> USE DEF Paints
  <1>7. UNCHANGED <<tt, key, val, mode, home, level, stack, running>>
    BY <1>1 DEF heap, threads
  <1>8. \A x \in tmudata' : x \in M /\ color'[x] \notin White
    BY <1>3, <1>5, <1>6 DEF White
  <1>9. \A x \in Thread : color[x] \notin White => color'[x] \notin White
    BY <1>5, <1>6, <1>8 DEF White
  <1>10. \A x \in Thread : tt[x] # "free" => ~isdead(x) /\ color'[x] # "dead"
    BY <1>2, <1>5, <1>6 DEF AllLive, isdead
  <1>11. \A x \in Thread : x \notin M => color'[x] = color[x] /\ x \notin tmudata'
    BY <1>5, <1>6, <1>8
  <1>12. Shaped' /\ AllSound' /\ Placed'
    BY <1>1, <1>10, Recolored DEF SInv, isdead
  <1>13. \A x \in Thread : tt[x] # "free" /\ color'[x] = "black" => Black(x)'
    <2> SUFFICES ASSUME NEW x \in Thread, tt[x] # "free", color'[x] = "black" PROVE Black(x)'
      OBVIOUS
    <2>1. CASE x \in M
      BY <1>6, <1>7, <2>1 DEF Black, Marked, ValueOf, IsOpen
    <2>2. CASE x \notin M
      <3>1. Black(x) /\ x \notin tmudata
        BY <1>1, <1>3, <1>11, <2>2 DEF SInv, Colored, Marking, Atomic
      <3>2. tt[x] = "table" => key[x] \in Value
        BY <1>2 DEF AllLive, Sound, IsValue, Value
      <3>3. tt[x] = "function" => key[x] \in Value
        BY <1>2 DEF AllLive, Sound, IsUpval, Value
      <3> QED  BY <1>1, <1>7, <1>9, <3>1, <3>2, <3>3, StaysMarked DEF SInv, Black, IsOpen
    <2> QED  BY <2>1, <2>2
  <1>14. \A x \in Thread : tt[x] # "free" /\ color'[x] = "gray" => Gray(x)'
    <2> SUFFICES ASSUME NEW x \in Thread, tt[x] # "free", color'[x] = "gray" PROVE Gray(x)'
      OBVIOUS
    <2>1. CASE x \in M
      BY <1>1, <1>6, <1>7, <2>1 DEF Gray, Listed, IsOpen
    <2>2. CASE x \notin M
      <3>1. Gray(x)
        BY <1>1, <1>11, <2>2 DEF SInv, Colored, Marking, Atomic
      <3> QED  BY <1>1, <1>7, <3>1 DEF Gray, IsOpen
    <2> QED  BY <2>1, <2>2
  <1>15. Colored'
    <2>1. color'[Main] \notin White
      BY <1>1, <1>9 DEF SInv, Colored, Thread, Marking, Atomic
    <2>2. \A x \in Thread : tt[x] = "userdata" => color'[x] # "gray"
      BY <1>6, <1>11 DEF SInv, Colored
    <2>3. \A x \in gray' \union grayagain' : x \in Thread /\ tt[x] \in Listable
      BY <1>1, <1>6 DEF SInv, Colored, Listed, Marking, Atomic
    <2>4. \A x \in weak' : x \in Thread /\ tt[x] = "table"
      BY <1>1 DEF SInv, Colored, Marking, Atomic
    <2> QED  BY <1>7, <1>10, <1>13, <1>14, <2>1, <2>2, <2>3, <2>4 DEF Colored, Black, IsOpen, isdead
  <1>16. Clean'
    BY <1>1 DEF Clean, Marking, Atomic
  <1>17. UpvalsDone'
    <2> SUFFICES ASSUME NEW u \in Thread, IsOpen(u)', color'[u] = "gray" PROVE Marked(ValueOf(u))'
      BY DEF UpvalsDone
    <2>1. IsOpen(u) /\ ValueOf(u)' = ValueOf(u)
      BY <1>7 DEF IsOpen, ValueOf
    <2>2. CASE u \in M
      BY <1>6, <2>1, <2>2 DEF Marked, IsOpen
    <2>3. CASE u \notin M
      <3>1. Marked(ValueOf(u))
        BY <1>1, <1>11, <2>1, <2>3 DEF SInv, UpvalsDone, Atomic
      <3> QED  BY <1>1, <1>9, <2>1, <3>1, StaysMarked DEF SInv, IsOpen
    <2> QED  BY <2>2, <2>3
  <1>18. WeakDone'
    <2>1. color'[running] \notin White
      BY <1>1, <1>9 DEF SInv, WeakDone, Shaped
    <2>2. ASSUME NEW x \in weak
          PROVE  /\ mode[x] # {}
                 /\ "k" \notin mode[x] => Marked(key[x])'
                 /\ "v" \notin mode[x] => Marked(val[x])'
      <3>1. x \in Thread /\ tt[x] = "table"
        BY <1>1 DEF SInv, Colored, Marking, Atomic
      <3>2. key[x] \in Value
        BY <1>2, <3>1 DEF AllLive, Sound, IsValue, Value
      <3> QED  BY <1>1, <1>9, <3>1, <3>2, StaysMarked DEF SInv, WeakDone
    <2> QED  BY <1>1, <1>7, <2>1, <2>2 DEF WeakDone
  <1>19. ThreadsDone'
    <2> SUFFICES ASSUME NEW x \in grayagain PROVE tt[x] = "thread" /\ \A i \in DOMAIN stack[x] : Marked(stack[x][i])'
      BY <1>1, <1>7 DEF ThreadsDone
    <2>1. x \in Thread
      BY <1>1 DEF SInv, Colored, Marking, Atomic
    <2> QED  BY <1>1, <1>9, <2>1, StaysMarked DEF SInv, ThreadsDone
  <1> QED  BY <1>12, <1>15, <1>16, <1>17, <1>18, <1>19 DEF SInv

-----------------------------------------------------------------------------
(* The flip *)

\* A sweep that starts comes to all objects, or to the threads of open upvalues,
\* but for the userdata that wait for their finalizers.
LEMMA AllLinked ==
  ASSUME IInv, Placed, AllSound, gcstate' \in Sweeping, unswept' = Linked(tmudata), UNCHANGED <<tt, home, tmudata>>
  PROVE  Clean'
  <1> SUFFICES ASSUME NEW o \in Thread, tt[o] # "free" PROVE Waiting(o)'
    BY DEF Clean
  <1>1. \A x \in tmudata : tt[x] = "userdata"
    BY DEF IInv, Separated
  <1>2. CASE IsOpen(o)
    <2>1. home[o] \in Thread /\ tt[home[o]] = "thread"
      BY <1>2 DEF Placed
    <2>2. home[o] \in Linked(tmudata)
      BY <1>1, <2>1 DEF Linked, Allocated, IsOpen, Thread
    <2> QED  BY <1>2, <2>2 DEF Waiting, IsOpen
  <1>3. CASE ~IsOpen(o)
    <2>1. o \in tmudata \/ o \in Linked(tmudata)
      BY <1>3 DEF Linked, Allocated, Thread
    <2> QED  BY <2>1 DEF Waiting
  <1> QED  BY <1>2, <1>3

\* What is not marked is dead now, unless it is a string that a weak table keeps.
LEMMA Flipped ==
  ASSUME IInv, SInv, Flip, NEW x \in Thread, tt[x] # "free"
  PROVE  /\ color[x] \notin White => color'[x] = color[x]
         /\ x \in KeptStrings => color'[x] # "dead"
         /\ color[x] \in White => color'[x] = IF x \in KeptStrings THEN "gray" ELSE "dead"
  <1>1. gcstate \in Marking
    BY DEF Flip, Marking, Atomic
  <1>2. color[x] # "dead"
    BY <1>1 DEF SInv, Colored, isdead
  <1>3. color'[x] = IF color[x] \notin White THEN color[x] ELSE IF x \in KeptStrings THEN "gray" ELSE CHOOSE w \in White : w # color[x]
    BY DEF Flip
  <1>4. color[x] = "white" => (CHOOSE w \in White : w # color[x]) = "dead"
    BY DEF White
  <1> QED  BY <1>2, <1>3, <1>4 DEF White

LEMMA SafeFlip == ASSUME IInv, SInv, Flip PROVE SInv'
  <1>1. /\ gcstate = "preserve" /\ gcstate' = "sweepstring" /\ gray = {}
        /\ key' = [o \in Thread |-> IF o \in cleartable THEN Nil ELSE key[o]]
        /\ val' = [o \in Thread |-> IF o \in cleartable THEN Nil ELSE val[o]]
        /\ unswept' = Linked(tmudata)
        /\ UNCHANGED <<tt, mode, home, level, stack, running, tmudata>>
    BY DEF Flip, threads
  <1>2. AllLive
    BY <1>1, LiveMarking DEF SInv, Marking, Atomic
  <1>3. \A x \in Thread : tt[x] # "free" /\ (color[x] \notin White \/ x \in KeptStrings) => color'[x] # "dead"
    BY <1>2, Flipped DEF White, AllLive, isdead
  <1>4. \A x \in Thread : tt[x] # "free" /\ color[x] \in White /\ x \notin KeptStrings => color'[x] = "dead"
    BY Flipped
  <1>5. \A o \in cleartable : o \in Thread /\ tt[o] = "table"
    BY <1>1 DEF cleartable, SInv, Colored, Marking, Atomic
  <1>6. \A o \in Thread : IsOpen(o)' = IsOpen(o) /\ (tt[o] # "table" => ValueOf(o)' = ValueOf(o))
    BY <1>1, <1>5 DEF IsOpen, ValueOf
  <1>7. \A x : IsValue(x) /\ (Marked(x) \/ x \in KeptStrings) => IsValue(x)'
    BY <1>1, <1>3 DEF IsValue, Marked, isdead
  <1>8. \A x : IsUpval(x) /\ Marked(x) => IsUpval(x)'
    BY <1>1, <1>3, GCAssumption DEF IsUpval, Marked, isdead, Thread
  <1>9. Shaped' /\ Placed'
    BY <1>1, <1>6 DEF SInv, Shaped, Placed, Value
  <1>10. \A o \in Thread : tt[o] # "free" => /\ color[o] = "black" => Black(o)
                                             /\ color[o] = "gray" => Gray(o)
    BY <1>1 DEF SInv, Colored, Marking, Atomic
  <1>11. /\ \A o \in grayagain : tt[o] = "thread" /\ \A i \in DOMAIN stack[o] : Marked(stack[o][i])
         /\ \A o \in weak : /\ o \in Thread /\ tt[o] = "table" /\ mode[o] # {}
                            /\ "k" \notin mode[o] => Marked(key[o])
                            /\ "v" \notin mode[o] => Marked(val[o])
    BY <1>1 DEF SInv, Colored, Marking, Atomic, ThreadsDone, WeakDone
  <1>12. \A o \in Thread : tt[o] # "free" /\ color'[o] # "dead" => Sound(o)'
    <2> SUFFICES ASSUME NEW o \in Thread, tt[o] # "free", color'[o] # "dead" PROVE Sound(o)'
      OBVIOUS
    <2>1. Sound(o)
      BY <1>2 DEF AllLive
    <2>2. color[o] \notin White \/ tt[o] = "string"
      BY <1>4 DEF KeptStrings
    <2>3. CASE tt[o] = "table" /\ o \in cleartable
      BY <1>1, <2>3 DEF Sound, IsValue
    <2>4. CASE tt[o] = "table" /\ o \notin cleartable
      <3>1. key'[o] = key[o] /\ val'[o] = val[o]
        BY <1>1, <2>4
      <3>2. CASE color[o] = "black"
        <4>1. Marked(key[o]) /\ Marked(val[o])
          BY <1>10, <2>4, <3>2 DEF Black
        <4> QED  BY <1>1, <1>7, <2>1, <2>4, <3>1, <4>1 DEF Sound
      <3>3. CASE color[o] = "gray"
        <4>1. o \in weak
          BY <1>1, <1>10, <1>11, <2>4, <3>3 DEF Gray, Listable
        <4>2. val[o] # Nil => Marked(key[o]) \/ key[o] \in KeptStrings
          <5> SUFFICES ASSUME val[o] # Nil, key[o] # Nil PROVE Marked(key[o]) \/ key[o] \in KeptStrings
            BY DEF Marked
          <5>1. IsValue(key[o])
            BY <2>1, <2>4 DEF Sound
          <5>2. ~iscleared(key[o], TRUE)
            BY <2>4, <4>1 DEF cleartable
          <5>3. tt[key[o]] = "string" => key[o] \in Obj
            BY <5>1 DEF SInv, AllSound, IsValue, Thread
          <5>4. tt[key[o]] = "string" => key[o] \in KeptStrings
            BY <2>4, <4>1, <5>3 DEF KeptStrings
          <5> QED  BY <5>2, <5>4 DEF iscleared, Marked
        <4>3. val[o] # Nil => Marked(val[o]) \/ val[o] \in KeptStrings
          <5> SUFFICES ASSUME val[o] # Nil PROVE Marked(val[o]) \/ val[o] \in KeptStrings
            OBVIOUS
          <5>1. IsValue(val[o])
            BY <2>1, <2>4 DEF Sound
          <5>2. Marked(val[o]) \/ ~iscleared(val[o], FALSE)
            BY <1>11, <2>4, <4>1 DEF cleartable
          <5>3. tt[val[o]] = "string" => val[o] \in Obj
            BY <5>1 DEF SInv, AllSound, IsValue, Thread
          <5>4. tt[val[o]] = "string" => val[o] \in KeptStrings
            BY <2>4, <4>1, <5>3 DEF KeptStrings
          <5> QED  BY <5>2, <5>4 DEF iscleared, Marked
        <4>4. val[o] = Nil => key[o] = Nil
          BY <2>1, <2>4 DEF Sound
        <4>5. \A x \in {key[o], val[o]} : IsValue(x) /\ (Marked(x) \/ x \in KeptStrings)
          BY <2>1, <2>4, <4>2, <4>3, <4>4 DEF Sound, Marked
        <4>6. \A x \in {key[o], val[o]} : IsValue(x)'
          BY <1>7, <4>5
        <4> QED  BY <1>1, <2>4, <3>1, <4>4, <4>6 DEF Sound
      <3> QED  BY <2>2, <2>4, <3>2, <3>3 DEF IInv, Typed, Colors, White
    <2>5. CASE tt[o] = "userdata"
      <3>1. color[o] = "black"
        BY <2>2, <2>5 DEF SInv, Colored, IInv, Typed, Colors, White
      <3>2. Marked(val[o])
        BY <1>1, <1>10, <2>5, <3>1 DEF Black
      <3> QED  BY <1>1, <1>5, <1>7, <2>1, <2>5, <3>2 DEF Sound
    <2>6. CASE tt[o] = "function"
      <3>1. color[o] = "black"
        BY <1>1, <1>10, <1>11, <2>2, <2>6 DEF Gray, Listable, IInv, Typed, Colors, White
      <3>2. Marked(key[o])
        BY <1>10, <2>6, <3>1 DEF Black
      <3> QED  BY <1>1, <1>5, <1>8, <2>1, <2>6, <3>2 DEF Sound
    <2>7. CASE tt[o] = "upval"
      <3>1. Marked(ValueOf(o))
        <4>1. CASE color[o] = "black"
          BY <1>10, <2>7, <4>1 DEF Black, ValueOf
        <4>2. CASE color[o] = "gray"
          BY <1>1, <1>10, <2>7, <4>2 DEF Gray, SInv, UpvalsDone, Atomic
        <4> QED  BY <2>2, <2>7, <4>1, <4>2 DEF IInv, Typed, Colors, White
      <3> QED  BY <1>1, <1>6, <1>7, <2>1, <2>7, <3>1 DEF Sound
    <2>8. CASE tt[o] = "thread"
      <3>1. o \in grayagain
        BY <1>1, <1>10, <1>11, <2>2, <2>8 DEF Black, Gray, Listable, IInv, Typed, Colors, White
      <3> QED  BY <1>1, <1>7, <1>11, <2>1, <2>8, <3>1 DEF Sound
    <2>9. CASE tt[o] = "string"
      BY <1>1, <2>9 DEF Sound
    <2> QED  BY <2>3, <2>4, <2>5, <2>6, <2>7, <2>8, <2>9 DEF IInv, Typed, Types
  <1>13. AllSound'
    <2>1. color[running] \notin White /\ color[Main] \notin White
      BY <1>1 DEF SInv, Colored, WeakDone, Marking, Atomic
    <2>2. running \in Thread /\ tt[running] = "thread" /\ Main \in Thread /\ tt[Main] = "thread"
      BY DEF SInv, Shaped, AllSound, Thread
    <2> QED  BY <1>1, <1>3, <1>12, <2>1, <2>2 DEF AllSound, isdead
  <1>14. Clean'
    BY <1>1, AllLinked DEF SInv, Sweeping
  <1>15. Colored'
    <2>1. \A x \in Thread : (tt[x] = "userdata" => color'[x] # "gray") /\ (IsOpen(x) => color'[x] # "black")
      BY Flipped DEF KeptStrings, SInv, Colored, IsOpen
    <2> QED  BY <1>1, <1>6, <2>1 DEF Colored, Marking, Atomic
  <1>16. UpvalsDone' /\ WeakDone' /\ ThreadsDone'
    BY <1>1 DEF UpvalsDone, WeakDone, ThreadsDone, Atomic
  <1> QED  BY <1>9, <1>13, <1>14, <1>15, <1>16 DEF SInv

-----------------------------------------------------------------------------
(* The sweep and the finalizers *)

\* The sweep comes to o and to its open upvalues: what is dead of them is freed,
\* and the upvalues of a dead thread that live are closed.
LEMMA SafeSwept ==
  ASSUME IInv, SInv, gcstate \in Sweeping, UNCHANGED <<gcstate, tmudata, running>>,
         NEW o \in unswept, NEW F, NEW C, NEW S, S = OpenOf(o) \union {o},
         F = {x \in S : isdead(x)}, C = IF isdead(o) THEN OpenOf(o) \ F ELSE {},
         Freed(F, C), color' = makewhite(color, S), unswept' = unswept \ {o},
         stack' = IF isdead(o) THEN [stack EXCEPT ![o] = <<>>] ELSE stack
  PROVE  SInv'
  <1>1. \A x \in Thread : /\ tt'[x] = IF x \in F THEN "free" ELSE tt[x]
                          /\ key'[x] = IF x \in F THEN Nil ELSE key[x]
                          /\ val'[x] = IF x \in F THEN Nil ELSE IF x \in C THEN ValueOf(x) ELSE val[x]
                          /\ home'[x] = IF x \in F \union C THEN Nil ELSE home[x]
                          /\ level'[x] = IF x \in F \union C THEN 0 ELSE level[x]
    BY DEF Freed
  <1>2. \A x \in Thread : color'[x] = IF x \in S THEN "white" ELSE color[x]
    BY MadeWhite DEF IInv, Typed
  <1>3. \A x \in Thread : x \in OpenOf(o) <=> IsOpen(x) /\ home[x] = o
    BY DEF OpenOf, SInv, AllSound, IsOpen, Thread
  <1>4. \A x \in Thread : tt[x] = "upval" /\ home[x] # Nil <=> IsOpen(x)
    BY DEF IsOpen
  <1>5. \A x \in F : isdead(x) /\ (x = o \/ tt[x] = "upval")
    BY <1>4 DEF OpenOf, IsOpen
  <1>6. \A x \in C : tt[x] = "upval" /\ IsOpen(x) /\ x \in S /\ x \notin F /\ x \in Thread
    BY DEF OpenOf, IsOpen, Thread
  <1>7. \A x \in Thread : IsOpen(x) /\ x \notin F \union C => home[x] # o \/ ~isdead(o)
    BY <1>3
  <1>8. \A x \in Thread : x # o \/ ~isdead(o) => stack'[x] = stack[x]
    BY DEF SInv, Shaped
  <1>9. \A x \in Thread : tt[x] # "free" /\ ~isdead(x) => tt'[x] = tt[x] /\ color'[x] # "dead"
    BY <1>1, <1>2, <1>5 DEF isdead
  <1>10. \A x \in Thread : tt'[x] # "free" /\ color'[x] # "dead" => tt'[x] = tt[x] /\ ~isdead(x) /\ x \notin F
    BY <1>1, <1>2 DEF isdead
  <1>11. \A x : IsValue(x) => IsValue(x)'
    BY <1>9 DEF IsValue, isdead
  <1>12. \A x : IsUpval(x) => IsUpval(x)'
    BY <1>9 DEF IsUpval, isdead
  <1>13. \A x \in Thread : tt'[x] = "upval" => /\ x \in C => ~IsOpen(x)' /\ val'[x] = ValueOf(x)
                                               /\ x \notin C => IsOpen(x)' = IsOpen(x)
    BY <1>1, <1>6 DEF IsOpen
  <1>14. Placed'
    <2> SUFFICES ASSUME NEW u \in Thread, IsOpen(u)'
                 PROVE  home'[u] \in Thread /\ tt'[home'[u]] = "thread" /\ level'[u] \in DOMAIN stack'[home'[u]]
      BY DEF Placed
    <2>1. IsOpen(u) /\ u \notin F \union C /\ home'[u] = home[u] /\ level'[u] = level[u]
      BY <1>1 DEF IsOpen
    <2>2. home[u] \in Thread /\ tt[home[u]] = "thread" /\ level[u] \in DOMAIN stack[home[u]]
      BY <2>1 DEF SInv, Placed
    <2>3. home[u] # o \/ ~isdead(o)
      BY <1>7, <2>1
    <2>4. home[u] \notin F
      BY <1>5, <2>2, <2>3
    <2> QED  BY <1>1, <1>8, <2>1, <2>2, <2>3, <2>4
  <1>15. Shaped'
    <2>1. \A x \in Thread : ValueOf(x) \in Value
      BY ValueTyped DEF SInv
    <2>2. stack' \in [Thread -> Seq(Value)]
      <3>1. <<>> \in Seq(Value)
        OBVIOUS
      <3> QED  BY <3>1 DEF SInv, Shaped
    <2>3. key' \in [Thread -> Value \union Texts] /\ val' \in [Thread -> Value]
      BY <2>1 DEF Freed, SInv, Shaped, Value
    <2>4. home' \in [Thread -> Value] /\ level' \in [Thread -> Nat]
      BY DEF Freed, SInv, Shaped, Value
    <2>5. \A x \in Thread : tt'[x] # "thread" => stack'[x] = <<>>
      <3>1. \A x \in Thread : tt[x] # "thread" => stack[x] = <<>>
        BY DEF SInv, Shaped
      <3>2. \A x \in Thread : tt'[x] = tt[x] \/ x \in F
        BY <1>1
      <3>3. \A x \in Thread : stack'[x] = stack[x] \/ stack'[x] = <<>>
        BY DEF SInv, Shaped
      <3>4. \A x \in Thread \intersect F : stack'[x] = <<>>
        BY <1>5, <3>1, <3>3 DEF SInv, Shaped
      <3> QED  BY <3>1, <3>2, <3>3, <3>4
    <2> QED  BY <2>2, <2>3, <2>4, <2>5 DEF SInv, Shaped
  <1>16. \A x \in Thread : tt'[x] # "free" /\ color'[x] # "dead" => Sound(x)'
    <2> SUFFICES ASSUME NEW x \in Thread, tt'[x] # "free", color'[x] # "dead" PROVE Sound(x)'
      OBVIOUS
    <2>1. tt'[x] = tt[x] /\ ~isdead(x) /\ x \notin F /\ key'[x] = key[x] /\ Sound(x)
      BY <1>1, <1>10 DEF SInv, AllSound
    <2>2. tt[x] # "upval" => val'[x] = val[x]
      BY <1>1, <1>6, <2>1
    <2>3. tt[x] = "upval" => ValueOf(x)' = ValueOf(x)
      <3>1. CASE x \in C
        BY <1>13, <2>1, <3>1 DEF ValueOf
      <3>2. CASE x \notin C /\ IsOpen(x)
        <4>1. home[x] # o \/ ~isdead(o)
          BY <1>7, <2>1, <3>2
        <4>2. home[x] \in Thread
          BY <3>2 DEF SInv, Placed
        <4> QED  BY <1>1, <1>8, <2>1, <3>2, <4>1, <4>2 DEF ValueOf, IsOpen
      <3>3. CASE x \notin C /\ ~IsOpen(x)
        BY <1>1, <2>1, <3>3 DEF ValueOf, IsOpen
      <3> QED  BY <3>1, <3>2, <3>3
    <2>4. tt[x] = "thread" => stack'[x] = stack[x]
      BY <1>8, <2>1
    <2>5. tt[x] = "userdata" /\ val[x] # Nil => tt'[val[x]] = "table"
      BY <1>9, <2>1 DEF Sound, IsValue
    <2> QED  BY <1>11, <1>12, <2>1, <2>2, <2>3, <2>4, <2>5 DEF Sound
  <1>17. AllSound'
    <2>1. /\ running \in Thread /\ tt[running] = "thread" /\ ~isdead(running)
          /\ Main \in Thread /\ tt[Main] = "thread" /\ ~isdead(Main)
      BY DEF SInv, Shaped, AllSound, Thread
    <2> QED  BY <1>9, <1>16, <2>1 DEF AllSound, isdead
  <1>18. Clean'
    <2> SUFFICES ASSUME NEW x \in Thread, tt'[x] # "free", color'[x] # "white" PROVE Waiting(x)'
      BY DEF Clean
    <2>1. x \notin S /\ color[x] # "white" /\ tt[x] # "free"
      BY <1>1, <1>2
    <2>2. Waiting(x)
      BY <2>1 DEF SInv, Clean, Marking, Sweeping, Atomic
    <2>3. CASE IsOpen(x) /\ home[x] \in unswept
      <3>1. x \notin C /\ x \notin F /\ home[x] # o
        BY <1>3, <1>6, <2>1, <2>3
      <3> QED  BY <1>1, <2>3, <3>1 DEF Waiting, IsOpen
    <2> QED  BY <2>1, <2>2, <2>3 DEF Waiting
  <1>19. Colored'
    <2>1. \A x \in Thread : (tt'[x] = "userdata" => color'[x] # "gray") /\ (IsOpen(x)' => color'[x] # "black")
      BY ZenonT(60), <1>1, <1>2 DEF SInv, Colored, IsOpen
    <2> QED  BY <2>1 DEF Colored, Marking, Sweeping, Atomic
  <1>20. UpvalsDone' /\ WeakDone' /\ ThreadsDone'
    BY DEF UpvalsDone, WeakDone, ThreadsDone, Atomic, Sweeping
  <1> QED  BY <1>14, <1>15, <1>17, <1>18, <1>19, <1>20 DEF SInv

LEMMA SafeSweep == ASSUME IInv, SInv, SweepString \/ Sweep PROVE SInv'
  <1>1. gcstate \in Sweeping /\ UNCHANGED <<tmudata, running>>
    BY DEF SweepString, Sweep, Sweeping, threads
  <1>2. CASE UNCHANGED <<heap, color, stack, unswept>> /\ (gcstate' = "sweep" \/ (gcstate' = "finalize" /\ unswept = {}))
    <2>1. Shaped' /\ AllSound' /\ Placed'
      BY <1>1, <1>2, Recolored DEF SInv, threads
    <2>2. Clean'
      BY <1>1, <1>2 DEF SInv, Clean, Waiting, Sweeping, Marking, Atomic, heap, IsOpen
    <2>3. Colored' /\ UpvalsDone' /\ WeakDone' /\ ThreadsDone'
      BY <1>2 DEF SInv, Colored, UpvalsDone, WeakDone, ThreadsDone, Marking, Atomic, heap, IsOpen
    <2> QED  BY <2>1, <2>2, <2>3 DEF SInv
  <1>3. ASSUME NEW o \in unswept, tt[o] = "string", Freed(IF isdead(o) THEN {o} ELSE {}, {}),
               color' = makewhite(color, {o}), unswept' = unswept \ {o}, UNCHANGED <<gcstate, stack>>
        PROVE  SInv'
    <2>1. OpenOf(o) = {}
      BY <1>3, GCAssumption DEF OpenOf, SInv, Placed, Thread
    <2> DEFINE S == OpenOf(o) \union {o}
               F == {x \in S : isdead(x)}
               C == IF isdead(o) THEN OpenOf(o) \ F ELSE {}
    <2>2. F = (IF isdead(o) THEN {o} ELSE {}) /\ C = {} /\ S = {o}
      BY <2>1
    <2>3. Freed(F, C) /\ color' = makewhite(color, S)
      BY <1>3, <2>2
    <2> HIDE DEF S, F, C
    <2>4. S = OpenOf(o) \union {o} /\ F = {x \in S : isdead(x)} /\ C = IF isdead(o) THEN OpenOf(o) \ F ELSE {}
      BY DEF S, F, C
    <2>5. stack' = IF isdead(o) THEN [stack EXCEPT ![o] = <<>>] ELSE stack
      <3>1. (o \in Thread => stack[o] = <<>>) /\ stack \in [Thread -> Seq(Value)]
        BY <1>3 DEF SInv, Shaped
      <3> QED  BY <1>3, <3>1
    <2> QED  BY <1>1, <1>3, <2>3, <2>4, <2>5, SafeSwept
  <1>4. ASSUME NEW o \in unswept, sweeplist(o), unswept' = unswept \ {o}, UNCHANGED gcstate
        PROVE  SInv'
    <2> DEFINE S == OpenOf(o) \union {o}
               F == {x \in S : isdead(x)}
               C == IF isdead(o) THEN OpenOf(o) \ F ELSE {}
    <2>1. /\ Freed(F, C) /\ color' = makewhite(color, S)
          /\ stack' = IF isdead(o) THEN [stack EXCEPT ![o] = <<>>] ELSE stack
      BY <1>4 DEF sweeplist
    <2>2. S = OpenOf(o) \union {o} /\ F = {x \in S : isdead(x)} /\ C = IF isdead(o) THEN OpenOf(o) \ F ELSE {}
      OBVIOUS
    <2> HIDE DEF S, F, C
    <2> QED  BY <1>1, <1>4, <2>1, <2>2, SafeSwept
  <1>5. CASE SweepString
    <2>1. UNCHANGED stack
      BY <1>5 DEF SweepString, threads
    <2> QED  BY <1>2, <1>3, <1>5, <2>1 DEF SweepString
  <1>6. CASE Sweep
    BY <1>2, <1>4, <1>6 DEF Sweep
  <1> QED  BY <1>5, <1>6

\* Outside of the atomic phase there is nothing to say of what that has done.
LEMMA Between ==
  ASSUME Shaped', AllSound', Placed', Clean', Colored', gcstate' \notin Atomic
  PROVE  SInv'
  BY DEF SInv, UpvalsDone, WeakDone, ThreadsDone, Atomic

\* A value is pushed on a stack.
LEMMA Pushed ==
  ASSUME IInv, SInv, UNCHANGED heap, color' \in [Thread -> Colors],
         \A x \in Thread : tt[x] # "free" /\ color'[x] = "dead" => isdead(x),
         \A x \in Thread : tt[x] # "free" /\ isdead(x) /\ color'[x] # "dead" => tt[x] = "string",
         NEW t \in Thread, tt[t] = "thread", NEW v, IsValue(v), stack' = [stack EXCEPT ![t] = Append(@, v)],
         running' \in Thread, tt[running'] = "thread", ~isdead(running')
  PROVE  Shaped' /\ AllSound' /\ Placed'
  <1>1. UNCHANGED <<tt, key, val, mode, home, level>>
    BY DEF heap
  <1>2. v \in Value
    BY DEF IsValue, Value
  <1>3. \A x : IsValue(x) => IsValue(x)'
    BY <1>1 DEF IsValue, isdead
  <1>4. \A x : IsUpval(x) => IsUpval(x)'
    BY <1>1 DEF IsUpval, isdead
  <1>5. \A x \in Thread : /\ stack[x] \in Seq(Value)
                          /\ stack'[x] = IF x = t THEN Append(stack[x], v) ELSE stack[x]
    BY DEF SInv, Shaped
  <1>6. \A x \in Thread : \A i \in DOMAIN stack[x] : i \in DOMAIN stack'[x] /\ stack'[x][i] = stack[x][i]
    BY <1>2, <1>5
  <1>7. \A x \in Thread : \A i \in DOMAIN stack'[x] : i \in DOMAIN stack[x] \/ (x = t /\ stack'[x][i] = v)
    BY <1>2, <1>5
  <1>8. Placed'
    BY <1>1, <1>6 DEF SInv, Placed, IsOpen
  <1>9. Shaped'
    BY <1>1, <1>2, <1>5 DEF SInv, Shaped
  <1>10. \A x \in Thread : tt[x] = "upval" => ValueOf(x)' = ValueOf(x)
    BY <1>1, <1>6 DEF SInv, Placed, ValueOf, IsOpen
  <1>11. \A x \in Thread : tt[x] # "free" /\ color'[x] # "dead" => Sound(x)'
    <2> SUFFICES ASSUME NEW x \in Thread, tt[x] # "free", color'[x] # "dead", tt[x] # "string" PROVE Sound(x)'
      BY <1>1 DEF Sound
    <2>1. Sound(x)
      BY DEF SInv, AllSound
    <2>2. tt[x] = "thread" => \A i \in DOMAIN stack'[x] : IsValue(stack'[x][i])
      BY <1>6, <1>7, <2>1 DEF Sound
    <2>3. tt[x] = "thread" => \A i \in DOMAIN stack'[x] : \E y : y = stack'[x][i] /\ IsValue(y)'
      BY <1>3, <2>2
    <2> QED  BY <1>1, <1>3, <1>4, <1>10, <2>1, <2>3 DEF Sound
  <1>12. AllSound'
    BY <1>1, <1>11 DEF SInv, AllSound, isdead, Thread
  <1> QED  BY <1>8, <1>9, <1>12

LEMMA SafeFinalizer == ASSUME IInv, SInv, NEW u \in Obj, GCTM(u) PROVE SInv'
  <1>1. /\ gcstate = "finalize" /\ u \in tmudata /\ UNCHANGED <<heap, running, gcstate>>
        /\ tmudata' = tmudata \ {u} /\ color' = makewhite(color, {u})
        /\ stack' = [stack EXCEPT ![running] = Append(@, u)]
    BY DEF GCTM
  <1>2. color' \in [Thread -> Colors] /\ \A x \in Thread : color'[x] = IF x = u THEN "white" ELSE color[x]
    BY <1>1, MadeWhite DEF IInv, Typed
  <1>3. /\ AllLive
        /\ \A x \in Thread : tt[x] # "free" /\ x \notin tmudata => color[x] = "white"
    BY <1>1, LiveClean DEF SInv, Marking, Sweeping, Atomic
  <1>4. u \in Thread /\ tt[u] = "userdata" /\ IsValue(u)
    BY <1>1, <1>3 DEF IInv, Separated, AllLive, IsValue, Thread
  <1>5. running \in Thread /\ tt[running] = "thread" /\ ~isdead(running)
    BY DEF SInv, Shaped, AllSound
  <1>6. Shaped' /\ AllSound' /\ Placed'
    BY <1>1, <1>2, <1>3, <1>4, <1>5, Pushed DEF AllLive, isdead
  <1>7. Clean'
    BY <1>1, <1>2, <1>3 DEF Clean, Waiting, heap
  <1>8. Colored'
    BY <1>1, <1>2 DEF SInv, Colored, Marking, Atomic, heap, IsOpen
  <1> QED  BY <1>1, <1>6, <1>7, <1>8, Between DEF Atomic

LEMMA SafePhase == ASSUME IInv, SInv, FinalizerReturns \/ EndCycle \/ luaC_fullgc PROVE SInv'
  <1>1. UNCHANGED <<heap, color, threads, tmudata>>
    BY DEF FinalizerReturns, EndCycle, luaC_fullgc
  <1>2. Shaped' /\ AllSound' /\ Placed'
    BY <1>1, Recolored DEF SInv
  <1>3. CASE UNCHANGED <<gcstate, unswept, lists>>
    BY <1>1, <1>3 DEF SInv, Shaped, AllSound, Sound, IsValue, IsUpval, Placed, Clean, Waiting, Colored, Black, Gray,
       UpvalsDone, WeakDone, ThreadsDone, Marked, ValueOf, IsOpen, isdead, heap, threads, lists
  <1>4. CASE gcstate = "finalize" /\ gcstate' = "pause"
    <2>1. Clean' /\ Colored'
      BY <1>1, <1>4 DEF SInv, Clean, Waiting, Colored, Sweeping, Marking, Atomic, heap, IsOpen
    <2> QED  BY <1>2, <1>4, <2>1, Between DEF Atomic
  <1>5. CASE gcstate' = "sweepstring" /\ unswept' = Linked(tmudata)
    <2>1. Clean'
      BY <1>1, <1>5, AllLinked DEF SInv, Sweeping, heap
    <2>2. Colored'
      BY <1>1, <1>5 DEF SInv, Colored, Marking, Atomic, heap, IsOpen
    <2> QED  BY <1>2, <1>5, <2>1, <2>2, Between DEF Atomic
  <1>6. (luaC_fullgc \/ EndCycle \/ FinalizerReturns) =>
            \/ UNCHANGED <<gcstate, unswept, lists>>
            \/ gcstate = "finalize" /\ gcstate' = "pause"
            \/ gcstate' = "sweepstring" /\ unswept' = Linked(tmudata)
    BY DEF FinalizerReturns, EndCycle, luaC_fullgc
  <1> QED  BY <1>3, <1>4, <1>5, <1>6

-----------------------------------------------------------------------------
(* The program *)

LEMMA ReachLive ==
  ASSUME IInv, SInv, NEW x \in Reach
  PROVE  x \in Thread /\ x # Nil /\ IsValue(x) /\ tt[x] \notin {"free", "upval"} /\ ~isdead(x) /\ Sound(x)
  <1>1. running \in Thread /\ tt[running] = "thread" /\ ~isdead(running)
    BY DEF SInv, Shaped, AllSound
  <1>2. \A i \in DOMAIN stack[running] : IsValue(stack[running][i])
    BY <1>1 DEF SInv, AllSound, Sound
  <1>3. IsValue(x) /\ x # Nil
    BY <1>2 DEF Reach, Elements
  <1> QED  BY <1>3 DEF IsValue, SInv, AllSound

\* Colours matter to the heap and to the lists, not to the stacks.
LEMMA Quiet ==
  ASSUME SInv, UNCHANGED <<heap, color, lists, gcstate, tmudata, unswept>>
  PROVE  Clean' /\ Colored'
  BY DEF SInv, Clean, Waiting, Colored, Black, Gray, Marked, IsOpen, isdead, heap, lists

LEMMA SafePush ==
  ASSUME IInv, SInv, gcstate \notin Atomic, UNCHANGED <<phase, tmudata, unswept>>,
         GetTable \/ GetEnv \/ GetUpval \/ Resume \/ Yield
  PROVE  SInv'
  <1>1. UNCHANGED <<heap, color, lists, gcstate, tmudata, unswept>>
    BY DEF GetTable, GetEnv, GetUpval, Resume, Yield, phase
  <1>2. Clean' /\ Colored'
    BY <1>1, Quiet
  <1>3. running \in Thread /\ tt[running] = "thread" /\ ~isdead(running)
    BY DEF SInv, Shaped, AllSound
  <1>4. Main \in Thread /\ tt[Main] = "thread" /\ ~isdead(Main)
    BY DEF SInv, AllSound, Thread
  <1>5. ASSUME NEW t \in Thread, tt[t] = "thread", NEW v, IsValue(v), stack' = [stack EXCEPT ![t] = Append(@, v)],
               running' \in Thread, tt[running'] = "thread", ~isdead(running')
        PROVE  Shaped' /\ AllSound' /\ Placed'
    BY <1>1, <1>5, Pushed DEF IInv, Typed, isdead
  <1>6. CASE GetTable
    <2>1. PICK t \in Reach : tt[t] = "table" /\ \E x \in {key[t], val[t]} \ {Nil} : Push(x)
      BY <1>6 DEF GetTable
    <2>2. PICK x \in {key[t], val[t]} : Push(x)
      BY <2>1
    <2>3. IsValue(x)
      BY <2>1, <2>2, ReachLive DEF Sound
    <2> QED  BY <1>1, <1>2, <1>3, <1>5, <1>6, <2>2, <2>3, Between DEF GetTable, Push
  <1>7. CASE GetEnv
    <2>1. PICK u \in Reach : tt[u] = "userdata" /\ val[u] # Nil /\ Push(val[u])
      BY <1>7 DEF GetEnv
    <2>2. IsValue(val[u])
      BY <2>1, ReachLive DEF Sound
    <2> QED  BY <1>1, <1>2, <1>3, <1>5, <1>7, <2>1, <2>2, Between DEF GetEnv, Push
  <1>8. CASE GetUpval
    <2>1. PICK f \in Reach : tt[f] = "function" /\ Push(ValueOf(key[f]))
      BY <1>8 DEF GetUpval
    <2>2. IsUpval(key[f])
      BY <2>1, ReachLive DEF Sound
    <2>3. IsValue(ValueOf(key[f]))
      BY <2>2 DEF IsUpval, SInv, AllSound, Sound
    <2> QED  BY <1>1, <1>2, <1>3, <1>5, <1>8, <2>1, <2>3, Between DEF GetUpval, Push
  <1>9. CASE Resume
    <2>1. PICK t \in Reach, v \in Reach \union {Nil} :
            tt[t] = "thread" /\ running' = t /\ stack' = [stack EXCEPT ![t] = Append(@, v)]
      BY <1>9 DEF Resume
    <2>2. t \in Thread /\ ~isdead(t) /\ IsValue(v)
      BY <2>1, ReachLive DEF IsValue
    <2> QED  BY <1>1, <1>2, <1>5, <2>1, <2>2, Between
  <1>10. CASE Yield /\ UNCHANGED stack
    <2>1. UNCHANGED <<tt, key, val, mode, home, level, stack, color>>
      BY <1>1, <1>10 DEF heap
    <2>2. running' = Main
      BY <1>10 DEF Yield
    <2>3. Shaped' /\ AllSound' /\ Placed'
      BY <1>4, <2>1, <2>2 DEF SInv, Shaped, AllSound, Sound, IsValue, IsUpval, Placed, ValueOf, IsOpen, isdead
    <2> QED  BY <1>1, <1>2, <2>3, Between
  <1>11. CASE Yield /\ ~UNCHANGED stack
    <2>1. PICK v \in Reach : stack' = [stack EXCEPT ![Main] = Append(@, v)]
      BY <1>11 DEF Yield
    <2>2. running' = Main /\ IsValue(v)
      BY <1>11, <2>1, ReachLive DEF Yield
    <2> QED  BY <1>1, <1>2, <1>4, <1>5, <2>1, <2>2, Between
  <1> QED  BY <1>6, <1>7, <1>8, <1>9, <1>10, <1>11

\* Objects are made at free addresses, others that were dead are found (W), and
\* one of them is pushed.
LEMMA Born ==
  ASSUME IInv, SInv, gcstate \notin Atomic, UNCHANGED <<phase, tmudata, unswept, lists, running>>,
         NEW B \in SUBSET Obj, \A x \in B : tt[x] = "free",
         NEW W, B \subseteq W, \A x \in W \ B : x \in Thread /\ tt[x] # "free" /\ isdead(x),
         color' = makewhite(color, W),
         \A x \in Thread \ B : tt'[x] = tt[x] /\ key'[x] = key[x] /\ val'[x] = val[x] /\ home'[x] = home[x]
                               /\ level'[x] = level[x],
         key' \in [Thread -> Value \union Texts], val' \in [Thread -> Value],
         home' \in [Thread -> Value], level' \in [Thread -> Nat],
         NEW f \in Obj, stack' = [stack EXCEPT ![running] = Append(@, f)],
         IsValue(f)', \A x \in W : Sound(x)',
         \A x \in B : IsOpen(x)' => home'[x] = running /\ level'[x] \in DOMAIN stack[running]
  PROVE  SInv'
  <1>1. \A x \in Thread : color'[x] = IF x \in W THEN "white" ELSE color[x]
    BY MadeWhite DEF IInv, Typed
  <1>2. \A x \in Thread : tt[x] # "free" => x \notin B /\ tt'[x] = tt[x] /\ (~isdead(x) => x \notin W /\ color'[x] = color[x])
    BY <1>1
  <1>3. \A x : IsValue(x) => IsValue(x)'
    BY <1>2 DEF IsValue, isdead
  <1>4. \A x : IsUpval(x) => IsUpval(x)'
    BY <1>2 DEF IsUpval, isdead
  <1>5. running \in Thread /\ tt[running] = "thread" /\ ~isdead(running)
    BY DEF SInv, Shaped, AllSound
  <1>6. \A x \in Thread : /\ stack[x] \in Seq(Value)
                          /\ stack'[x] = IF x = running THEN Append(stack[x], f) ELSE stack[x]
    BY DEF SInv, Shaped
  <1>7. f \in Value
    BY DEF Value, Thread
  <1>8. \A x \in Thread : \A i \in DOMAIN stack[x] : i \in DOMAIN stack'[x] /\ stack'[x][i] = stack[x][i]
    BY <1>6, <1>7
  <1>9. \A x \in Thread : \A i \in DOMAIN stack'[x] : i \in DOMAIN stack[x] \/ (x = running /\ stack'[x][i] = f)
    BY <1>6, <1>7
  <1>10. \A x \in Thread : tt[x] # "free" => IsOpen(x)' = IsOpen(x)
    BY <1>2 DEF IsOpen
  <1>11. Placed'
    <2> SUFFICES ASSUME NEW u \in Thread, IsOpen(u)'
                 PROVE  home'[u] \in Thread /\ tt'[home'[u]] = "thread" /\ level'[u] \in DOMAIN stack'[home'[u]]
      BY DEF Placed
    <2>1. CASE u \in B
      BY <1>2, <1>5, <1>8, <2>1
    <2>2. CASE u \notin B
      <3>1. IsOpen(u) /\ home'[u] = home[u] /\ level'[u] = level[u]
        BY <2>2 DEF IsOpen
      <3> QED  BY <1>2, <1>8, <3>1 DEF SInv, Placed
    <2> QED  BY <2>1, <2>2
  <1>12. Shaped'
    <2>1. \A x \in Thread : tt'[x] # "thread" => stack'[x] = <<>>
      <3> SUFFICES ASSUME NEW x \in Thread, tt'[x] # "thread" PROVE stack'[x] = <<>>
        OBVIOUS
      <3>1. tt[x] # "thread"
        BY <1>2
      <3>2. stack[x] = <<>> /\ x # running
        BY <1>5, <3>1 DEF SInv, Shaped
      <3> QED  BY <1>6, <3>2
    <2> QED  BY <1>5, <1>6, <1>7, <2>1 DEF SInv, Shaped
  <1>13. \A x \in Thread : tt[x] = "upval" => ValueOf(x)' = ValueOf(x)
    BY <1>2, <1>8, <1>10 DEF SInv, Placed, ValueOf, IsOpen
  <1>14. \A x \in Thread : tt'[x] # "free" /\ color'[x] # "dead" => Sound(x)'
    <2> SUFFICES ASSUME NEW x \in Thread, tt'[x] # "free", color'[x] # "dead", x \notin W PROVE Sound(x)'
      OBVIOUS
    <2>1. x \notin B /\ tt[x] # "free" /\ ~isdead(x) /\ Sound(x)
      BY <1>1 DEF SInv, AllSound, isdead
    <2>2. tt[x] = "thread" => \A i \in DOMAIN stack'[x] : IsValue(stack'[x][i]) \/ stack'[x][i] = f
      BY <1>8, <1>9, <2>1 DEF Sound
    <2>3. tt[x] = "thread" => \A i \in DOMAIN stack'[x] : \E y : y = stack'[x][i] /\ IsValue(y)'
      BY <1>3, <2>2
    <2>4. tt[x] = "userdata" /\ val[x] # Nil => tt'[val[x]] = "table"
      BY <1>2, <2>1 DEF Sound, IsValue
    <2> QED  BY <1>2, <1>3, <1>4, <1>13, <2>1, <2>3, <2>4 DEF Sound
  <1>15. AllSound'
    BY <1>2, <1>5, <1>14 DEF SInv, AllSound, Thread, isdead
  <1>16. Clean'
    <2> SUFFICES ASSUME gcstate \notin Marking, NEW x \in Thread, tt'[x] # "free", color'[x] # "white" PROVE Waiting(x)'
      BY DEF Clean, phase
    <2>1. x \notin W /\ x \notin B /\ color[x] # "white" /\ tt[x] # "free"
      BY <1>1
    <2>2. Waiting(x)
      BY <2>1 DEF SInv, Clean
    <2> QED  BY <1>10, <2>1, <2>2 DEF Waiting, phase
  <1>17. Colored'
    <2>1. \A x \in Thread : (tt'[x] = "userdata" => color'[x] # "gray") /\ (IsOpen(x)' => color'[x] # "black")
      <3> TAKE x \in Thread
      <3>1. CASE x \in W
        BY <1>1, <3>1
      <3>2. CASE x \notin W
        BY <1>1, <3>2 DEF SInv, Colored, IsOpen
      <3> QED  BY <3>1, <3>2
    <2>2. ASSUME gcstate \in Marking
          PROVE  /\ color'[Main] \notin White
                 /\ \A x \in Thread : tt'[x] # "free" =>
                      /\ color'[x] # "dead"
                      /\ color'[x] = "black" => Black(x)'
                      /\ color'[x] = "gray" => Gray(x)'
                 /\ \A x \in gray \union grayagain : x \in Thread /\ tt'[x] \in Listable
                 /\ \A x \in weak : x \in Thread /\ tt'[x] = "table"
      <3>1. AllLive
        BY <2>2, LiveMarking DEF SInv
      <3>2. \A x \in Thread : tt[x] # "free" => tt'[x] = tt[x] /\ color'[x] = color[x] /\ key'[x] = key[x] /\ val'[x] = val[x]
        BY <1>2, <3>1 DEF AllLive
      <3>3. \A x : IsValue(x) \/ IsUpval(x) => (Marked(x) => Marked(x)')
        BY <3>2 DEF IsValue, IsUpval, Marked
      <3>4. color'[Main] \notin White
        BY <2>2, <3>2 DEF SInv, Colored, AllSound, Thread
      <3>5. ASSUME NEW x \in Thread, tt'[x] # "free", color'[x] # "white"
            PROVE  color'[x] # "dead" /\ (color'[x] = "black" => Black(x)') /\ (color'[x] = "gray" => Gray(x)')
        <4>1. x \notin B /\ tt[x] # "free" /\ tt'[x] = tt[x] /\ color'[x] = color[x] /\ IsOpen(x)' = IsOpen(x)
          BY <1>1, <1>10, <3>2, <3>5
        <4>2. Sound(x) /\ ~isdead(x) /\ (color[x] = "black" => Black(x)) /\ (color[x] = "gray" => Gray(x))
          BY <2>2, <3>1, <4>1 DEF SInv, Colored, AllLive
        <4>3. color[x] = "black" => Black(x)'
          <5> SUFFICES ASSUME color[x] = "black" PROVE Black(x)'
            OBVIOUS
          <5>1. Black(x) /\ tt[x] \notin {"thread", "string"} /\ key'[x] = key[x] /\ val'[x] = val[x]
            BY <3>2, <4>1, <4>2 DEF Black
          <5>2. tt[x] = "table" => Marked(key[x])' /\ Marked(val[x])'
            BY <3>3, <4>2, <5>1 DEF Black, Sound, Marked
          <5>3. tt[x] = "userdata" => Marked(val[x])' \/ x \in tmudata
            BY <3>3, <4>2, <5>1 DEF Black, Sound, Marked
          <5>4. tt[x] = "function" => Marked(key[x])'
            BY <3>3, <4>2, <5>1 DEF Black, Sound, Marked
          <5>5. tt[x] = "upval" => ~IsOpen(x) /\ Marked(val[x])'
            BY <3>3, <4>2, <5>1 DEF Black, Sound, ValueOf, Marked
          <5> QED  BY <4>1, <5>1, <5>2, <5>3, <5>4, <5>5 DEF Black, phase, Atomic
        <4>4. color[x] = "gray" => Gray(x)'
          BY <4>1, <4>2 DEF Gray, lists
        <4> QED  BY <4>1, <4>2, <4>3, <4>4 DEF isdead
      <3>6. \A x \in gray \union grayagain \union weak : x \in Thread /\ tt'[x] = tt[x] /\ tt[x] # "free"
        BY <2>2, <3>2 DEF SInv, Colored, Listable
      <3>7. \A x \in Thread : color'[x] = "white" => color'[x] \notin {"dead", "black", "gray"}
        OBVIOUS
      <3> QED  BY <2>2, <3>4, <3>5, <3>6, <3>7 DEF SInv, Colored
    <2> QED  BY <2>1, <2>2 DEF Colored, isdead, phase, lists
  <1> QED  BY <1>11, <1>12, <1>15, <1>16, <1>17, Between DEF phase

LEMMA Linking ==
  ASSUME IInv, SInv, gcstate \notin Atomic, UNCHANGED <<phase, tmudata, unswept, lists, running>>,
         NEW o \in Obj, NEW type \in {"table", "thread", "userdata", "string", "function"},
         NEW k \in Value \union Texts, NEW m, luaC_link(o, type, k, Nil, m), Push(o),
         type = "table" => k = Nil, type = "function" => IsUpval(k)
  PROVE  SInv'
  <1> DEFINE B == {o}
  <1>1. /\ tt[o] = "free" /\ tt' = [tt EXCEPT ![o] = type] /\ color' = makewhite(color, B)
        /\ key' = [key EXCEPT ![o] = k] /\ val' = [val EXCEPT ![o] = Nil]
        /\ UNCHANGED <<home, level>>
    BY DEF luaC_link
  <1>2. o \in Thread /\ tt \in [Thread -> Types] /\ key \in [Thread -> Value \union Texts] /\ val \in [Thread -> Value]
        /\ home \in [Thread -> Value] /\ level \in [Thread -> Nat] /\ stack[o] = <<>>
    BY <1>1 DEF Thread, IInv, Typed, SInv, Shaped
  <1>3. \A x \in Thread \ B : tt'[x] = tt[x] /\ key'[x] = key[x] /\ val'[x] = val[x] /\ home'[x] = home[x] /\ level'[x] = level[x]
    BY <1>1, <1>2
  <1>4. tt'[o] = type /\ key'[o] = k /\ val'[o] = Nil /\ color'[o] = "white"
    BY <1>1, <1>2 DEF makewhite
  <1>5. key' \in [Thread -> Value \union Texts] /\ val' \in [Thread -> Value]
    BY <1>1, <1>2 DEF Value
  <1>6. IsValue(o)'
    BY <1>2, <1>4 DEF IsValue, isdead
  <1>7. o # running
    BY <1>1 DEF SInv, AllSound
  <1>8. stack' = [stack EXCEPT ![running] = Append(@, o)] /\ stack'[o] = <<>>
    BY <1>2, <1>7 DEF Push, SInv, Shaped
  <1>9. type = "function" => IsUpval(k)'
    BY <1>1, <1>3, MadeWhite DEF IsUpval, isdead, IInv, Typed
  <1>10. Sound(o)'
    BY <1>4, <1>8, <1>9 DEF Sound, IsValue
  <1>11. ~IsOpen(o)'
    BY <1>4 DEF IsOpen
  <1>12. B \in SUBSET Obj /\ B \subseteq B /\ \A x \in B \ B : x \in Thread /\ tt[x] # "free" /\ isdead(x)
    OBVIOUS
  <1>13. /\ \A x \in B : tt[x] = "free"
         /\ \A x \in B : Sound(x)'
         /\ \A x \in B : IsOpen(x)' => home'[x] = running /\ level'[x] \in DOMAIN stack[running]
    BY <1>1, <1>10, <1>11
  <1>14. UNCHANGED <<phase, tmudata, unswept, lists, running>>
    OBVIOUS
  <1> HIDE DEF B
  <1> QED  BY <1>1, <1>2, <1>3, <1>5, <1>6, <1>8, <1>12, <1>13, <1>14, Born

LEMMA SafeNew ==
  ASSUME IInv, SInv, gcstate \notin Atomic, UNCHANGED <<phase, tmudata, unswept>>, New
  PROVE  SInv'
  <1>1. PICK o \in Obj : /\ \/ luaC_link(o, "table", Nil, Nil, {})
                            \/ luaC_link(o, "thread", Nil, Nil, {})
                            \/ \E m \in {{}, {"gc"}} : luaC_link(o, "userdata", Nil, Nil, m)
                         /\ Push(o)
    BY DEF New
  <1>2. PICK type \in {"table", "thread", "userdata"}, m \in {{}, {"gc"}} : luaC_link(o, type, Nil, Nil, m)
    BY <1>1
  <1> QED  BY <1>1, <1>2, Linking DEF New, Value

LEMMA SafeString ==
  ASSUME IInv, SInv, gcstate \notin Atomic, UNCHANGED <<phase, tmudata, unswept>>, luaS_newlstr
  PROVE  SInv'
  <1>1. UNCHANGED <<running, lists>>
    BY DEF luaS_newlstr
  <1>2. CASE \E s \in Texts, o \in Obj : luaC_link(o, "string", s, Nil, {}) /\ Push(o)
    BY <1>1, <1>2, Linking
  <1>3. ASSUME NEW o \in Allocated, tt[o] = "string",
               color' = IF isdead(o) THEN makewhite(color, {o}) ELSE color, Push(o), UNCHANGED heap
        PROVE  SInv'
    <2>1. /\ color' \in [Thread -> Colors]
          /\ \A x \in Thread : color'[x] = IF x = o /\ isdead(o) THEN "white" ELSE color[x]
      BY <1>3, MadeWhite DEF IInv, Typed
    <2>2. o \in Thread
      BY DEF Allocated, Thread
    <2>3. running \in Thread /\ tt[running] = "thread" /\ ~isdead(running)
      BY DEF SInv, Shaped, AllSound
    <2>4. CASE ~isdead(o)
      <3>1. IsValue(o)
        BY <1>3, <2>2, <2>4 DEF IsValue
      <3>2. color' = color
        BY <1>3, <2>4
      <3>3. Clean' /\ Colored'
        BY <1>1, <1>3, <3>2, Quiet DEF phase
      <3> QED  BY <1>1, <1>3, <2>1, <2>3, <3>1, <3>2, <3>3, Pushed, Between DEF Push, phase, isdead
    <2>5. CASE isdead(o)
      <3> DEFINE W == {o}
      <3>1. gcstate \notin Marking
        BY <1>3, <2>2, <2>5, LiveMarking DEF SInv, AllLive
      <3>2. UNCHANGED <<tt, key, val, mode, home, level>>
        BY <1>3 DEF heap
      <3>3. IsValue(o)' /\ Sound(o)'
        BY <1>3, <2>1, <2>2, <2>5, <3>2 DEF IsValue, Sound, isdead
      <3>4. \A x \in W : x \in Thread /\ tt[x] # "free" /\ isdead(x) /\ Sound(x)'
        BY <1>3, <2>2, <2>5, <3>3
      <3>5. color' = makewhite(color, W) /\ o \in Obj /\ stack' = [stack EXCEPT ![running] = Append(@, o)]
        BY <1>3, <2>5 DEF Allocated, Push
      <3> HIDE DEF W
      <3> DEFINE B == {}
      <3>6. B \in SUBSET Obj /\ B \subseteq W /\ \A x : x \notin B
        OBVIOUS
      <3> HIDE DEF B
      <3> QED  BY <1>1, <1>3, <2>2, <2>5, <3>2, <3>3, <3>4, <3>5, <3>6, Born DEF SInv, Shaped
    <2> QED  BY <2>4, <2>5
  <1> QED  BY <1>2, <1>3 DEF luaS_newlstr

LEMMA SafeShare ==
  ASSUME IInv, SInv, gcstate \notin Atomic, UNCHANGED <<phase, tmudata, unswept>>, Share
  PROVE  SInv'
  <1>1. PICK f \in Obj, g \in Reach : tt[g] = "function" /\ luaC_link(f, "function", key[g], Nil, {}) /\ Push(f)
    BY DEF Share
  <1>2. IsUpval(key[g]) /\ key[g] \in Value
    BY <1>1, ReachLive DEF Sound, IsUpval, Value
  <1> QED  BY <1>1, <1>2, Linking DEF Share

LEMMA SafeCapture ==
  ASSUME IInv, SInv, gcstate \notin Atomic, UNCHANGED <<phase, tmudata, unswept>>, Capture
  PROVE  SInv'
  <1>1. PICK f \in Obj, i \in DOMAIN stack[running] : tt[f] = "free" /\ luaF_findupval(i, f) /\ Push(f)
    BY DEF Capture
  <1> DEFINE at == {u \in OpenOf(running) : level[u] = i}
  <1> PICK v : v = stack[running][i]
    OBVIOUS
  <1>2. running \in Thread /\ running # Nil /\ tt[running] = "thread" /\ ~isdead(running) /\ stack[running] \in Seq(Value)
    BY GCAssumption DEF SInv, Shaped, AllSound, Thread
  <1>3. IsValue(v)
    BY <1>2 DEF SInv, AllSound, Sound
  <1>4. f \in Thread /\ f # running /\ stack' = [stack EXCEPT ![running] = Append(@, f)]
    BY <1>1, <1>2 DEF Push, Thread
  <1>5. i \in DOMAIN stack'[running] /\ stack'[running][i] = v /\ i \in Nat
    <2>1. f \in Value
      BY <1>4 DEF Value
    <2> QED  BY <1>1, <1>2, <1>4, <2>1 DEF SInv, Shaped
  <1>6. /\ tt \in [Thread -> Types] /\ color \in [Thread -> Colors] /\ key \in [Thread -> Value \union Texts]
        /\ val \in [Thread -> Value] /\ home \in [Thread -> Value] /\ level \in [Thread -> Nat]
    BY DEF IInv, Typed, SInv, Shaped
  <1>7. UNCHANGED <<phase, tmudata, unswept, lists, running, val>>
    BY DEF Capture
  <1>8. \A x \in at : x \in Obj /\ x \in Thread /\ IsOpen(x) /\ tt[x] = "upval" /\ home[x] = running /\ level[x] = i /\ x # f
    BY <1>1 DEF OpenOf, IsOpen, Thread
  <1>9. ASSUME NEW u \in at, tt' = [tt EXCEPT ![f] = "function"], key' = [key EXCEPT ![f] = u],
               color' = makewhite(color, {f} \union {x \in at : isdead(x)}), UNCHANGED <<home, level>>
        PROVE  SInv'
    <2> DEFINE B == {f}
               W == {f} \union {x \in at : isdead(x)}
    <2>1. \A x \in Thread : color'[x] = IF x \in W THEN "white" ELSE color[x]
      BY <1>6, <1>9 DEF makewhite
    <2>2. \A x \in Thread \ B : tt'[x] = tt[x] /\ key'[x] = key[x] /\ val'[x] = val[x] /\ home'[x] = home[x] /\ level'[x] = level[x]
      BY <1>6, <1>7, <1>9
    <2>3. tt'[f] = "function" /\ key'[f] = u
      BY <1>4, <1>6, <1>9
    <2>4. key' \in [Thread -> Value \union Texts] /\ val' \in [Thread -> Value] /\ home' \in [Thread -> Value] /\ level' \in [Thread -> Nat]
      <3>1. u \in Value
        BY <1>8 DEF Value
      <3> QED  BY <1>6, <1>7, <1>9, <3>1
    <2>5. IsValue(f)'
      BY <1>4, <2>1, <2>3 DEF IsValue, isdead
    <2>6. IsUpval(u)'
      BY <1>8, <2>1, <2>2 DEF IsUpval, isdead
    <2>7. IsValue(v)'
      BY <1>1, <1>3, <1>8, <2>1, <2>2 DEF IsValue, isdead
    <2>8. \A x \in W : Sound(x)'
      <3> TAKE x \in W
      <3>1. CASE x = f
        BY <2>3, <2>6, <3>1 DEF Sound
      <3>2. CASE x # f
        <4>1. x \in at /\ x \notin B
          BY <3>2
        <4>2. ValueOf(x)' = v /\ tt'[x] = "upval"
          BY <1>2, <1>5, <1>8, <2>2, <4>1 DEF ValueOf, IsOpen
        <4> QED  BY <2>7, <4>2 DEF Sound
      <3> QED  BY <3>1, <3>2
    <2>9. /\ B \in SUBSET Obj /\ B \subseteq W
          /\ \A x \in B : tt[x] = "free"
          /\ \A x \in W \ B : x \in Thread /\ tt[x] # "free" /\ isdead(x)
          /\ \A x \in B : IsOpen(x)' => home'[x] = running /\ level'[x] \in DOMAIN stack[running]
      BY <1>1, <1>8, <2>3 DEF IsOpen
    <2>10. color' = makewhite(color, W)
      BY <1>9
    <2> HIDE DEF B, W
    <2> QED  BY <1>4, <1>7, <2>2, <2>4, <2>5, <2>8, <2>9, <2>10, Born
  <1>10. ASSUME NEW u \in Obj \ {f}, tt[u] = "free",
                tt' = [tt EXCEPT ![f] = "function", ![u] = "upval"], key' = [key EXCEPT ![f] = u],
                color' = makewhite(color, {f, u}),
                home' = [home EXCEPT ![u] = running], level' = [level EXCEPT ![u] = i]
         PROVE  SInv'
    <2> DEFINE B == {f, u}
    <2>1. \A x \in Thread : color'[x] = IF x \in B THEN "white" ELSE color[x]
      BY <1>6, <1>10 DEF makewhite
    <2>2. \A x \in Thread \ B : tt'[x] = tt[x] /\ key'[x] = key[x] /\ val'[x] = val[x] /\ home'[x] = home[x] /\ level'[x] = level[x]
      BY <1>6, <1>7, <1>10
    <2>3. tt'[f] = "function" /\ key'[f] = u /\ u \in Thread /\ tt'[u] = "upval" /\ home'[u] = running /\ level'[u] = i
      BY <1>4, <1>6, <1>10 DEF Thread
    <2>4. key' \in [Thread -> Value \union Texts] /\ val' \in [Thread -> Value] /\ home' \in [Thread -> Value] /\ level' \in [Thread -> Nat]
      <3>1. u \in Value /\ running \in Value
        BY <1>2, <2>3 DEF Value
      <3> QED  BY <1>5, <1>6, <1>7, <1>10, <3>1
    <2>5. IsValue(f)'
      BY <1>4, <2>1, <2>3 DEF IsValue, isdead
    <2>6. IsUpval(u)'
      BY <2>1, <2>3 DEF IsUpval, isdead
    <2>7. IsValue(v)'
      <3>1. CASE v = Nil
        BY <3>1 DEF IsValue
      <3>2. CASE v # Nil
        <4>1. v \in Thread /\ tt[v] # "free" /\ ~isdead(v)
              /\ tt[v] \in {"table", "function", "userdata", "thread", "string"}
          BY <1>3, <3>2 DEF IsValue
        <4>2. v \in Thread \ B
          BY <1>1, <1>10, <4>1
        <4>3. tt'[v] = tt[v] /\ color'[v] = color[v]
          BY <2>1, <2>2, <4>2
        <4> QED  BY <4>1, <4>3 DEF IsValue, isdead
      <3> QED  BY <3>1, <3>2
    <2>8. Sound(f)' /\ Sound(u)'
      <3>1. ValueOf(u)' = v
        BY <1>2, <1>5, <2>3 DEF ValueOf, IsOpen
      <3> QED  BY <2>3, <2>6, <2>7, <3>1 DEF Sound
    <2>9. /\ B \in SUBSET Obj /\ B \subseteq B
          /\ \A x \in B : tt[x] = "free"
          /\ \A x \in B \ B : x \in Thread /\ tt[x] # "free" /\ isdead(x)
          /\ \A x \in B : IsOpen(x)' => home'[x] = running /\ level'[x] \in DOMAIN stack[running]
          /\ \A x \in B : Sound(x)'
      BY <1>1, <1>10, <2>3, <2>8 DEF IsOpen
    <2>10. color' = makewhite(color, B)
      BY <1>10
    <2> HIDE DEF B
    <2> QED  BY <1>4, <1>7, <2>2, <2>4, <2>5, <2>9, <2>10, Born
  <1>11. \/ \E u \in at : /\ tt' = [tt EXCEPT ![f] = "function"] /\ key' = [key EXCEPT ![f] = u]
                          /\ color' = makewhite(color, {f} \union {x \in at : isdead(x)})
                          /\ UNCHANGED <<home, level>>
         \/ \E u \in Obj \ {f} :
              /\ tt[u] = "free"
              /\ tt' = [tt EXCEPT ![f] = "function", ![u] = "upval"] /\ key' = [key EXCEPT ![f] = u]
              /\ color' = makewhite(color, {f, u})
              /\ home' = [home EXCEPT ![u] = running] /\ level' = [level EXCEPT ![u] = i]
    BY <1>1 DEF luaF_findupval
  <1> HIDE DEF at
  <1> QED  BY <1>9, <1>10, <1>11

\* Colours change, but nothing dies and nothing dead lives, and all that is given
\* a reference is sound.
LEMMA Kept ==
  ASSUME UNCHANGED tt, \A x \in Thread : tt[x] # "free" => (color'[x] = "dead" <=> isdead(x))
  PROVE  /\ \A x : IsValue(x)' <=> IsValue(x)
         /\ \A x : IsUpval(x)' <=> IsUpval(x)
  BY DEF IsValue, IsUpval, isdead

LEMMA SafeSetTable ==
  ASSUME IInv, SInv, gcstate \notin Atomic, UNCHANGED <<phase, tmudata, unswept>>, SetTable
  PROVE  SInv'
  <1>1. PICK t \in Reach, k \in Reach \union {Nil}, v \in Reach \union {Nil} :
          /\ tt[t] = "table"
          /\ key' = [key EXCEPT ![t] = IF v = Nil THEN Nil ELSE k]
          /\ val' = [val EXCEPT ![t] = v]
          /\ luaC_barrierback(t, {k, v})
    BY DEF SetTable
  <1>2. UNCHANGED <<tt, home, level, stack, running, weak, gcstate, tmudata, unswept>>
    BY DEF SetTable, threads, phase
  <1>3. t \in Thread /\ IsValue(k) /\ IsValue(v) /\ k \in Value /\ v \in Value
    BY ReachLive DEF IsValue, Value
  <1>4. \/ /\ color[t] = "black" /\ color' = [color EXCEPT ![t] = "gray"]
           /\ grayagain' = grayagain \union {t} /\ gray' = gray
        \/ /\ color[t] = "black" => Marked(k) /\ Marked(v)
           /\ UNCHANGED <<color, gray, grayagain>>
    BY <1>1 DEF luaC_barrierback, WhiteOf, Marked
  <1>5. \A x \in Thread : color'[x] = color[x] \/ (x = t /\ color[t] = "black" /\ color'[t] = "gray")
    BY <1>3, <1>4 DEF IInv, Typed
  <1>6. /\ \A x \in Thread : x # t => key'[x] = key[x] /\ val'[x] = val[x]
        /\ key'[t] = (IF v = Nil THEN Nil ELSE k) /\ val'[t] = v
    BY <1>1, <1>3 DEF SInv, Shaped
  <1>7. /\ \A x : IsValue(x)' <=> IsValue(x)
        /\ \A x : IsUpval(x)' <=> IsUpval(x)
    BY <1>2, <1>5, Kept DEF isdead
  <1>8. Shaped' /\ Placed'
    BY <1>1, <1>2, <1>3 DEF SInv, Shaped, Placed, IsOpen, Value
  <1>9. \A x \in Thread : tt[x] # "free" /\ color'[x] # "dead" => Sound(x)'
    <2> SUFFICES ASSUME NEW x \in Thread, tt[x] # "free", color'[x] # "dead" PROVE Sound(x)'
      OBVIOUS
    <2>1. Sound(x)
      BY <1>5 DEF SInv, AllSound, isdead
    <2>2. CASE x = t
      BY <1>1, <1>2, <1>3, <1>6, <1>7, <2>2 DEF Sound, IsValue
    <2>3. CASE x # t
      BY <1>2, <1>6, <1>7, <2>1, <2>3 DEF Sound, ValueOf, IsOpen
    <2> QED  BY <2>2, <2>3
  <1>10. AllSound'
    BY <1>2, <1>5, <1>9 DEF SInv, AllSound, isdead, Thread, Shaped
  <1>11. Clean'
    BY <1>2, <1>5 DEF SInv, Clean, Waiting, IsOpen
  <1>12. Colored'
    <2>1. \A x \in Thread : (tt[x] = "userdata" => color'[x] # "gray") /\ (IsOpen(x)' => color'[x] # "black")
      BY <1>1, <1>2, <1>5 DEF SInv, Colored, IsOpen
    <2>2. ASSUME gcstate \in Marking, NEW x \in Thread, tt[x] # "free"
          PROVE  color'[x] # "dead" /\ (color'[x] = "black" => Black(x)') /\ (color'[x] = "gray" => Gray(x)')
      <3>1. ~isdead(x) /\ (color[x] = "black" => Black(x)) /\ (color[x] = "gray" => Gray(x))
        BY <2>2 DEF SInv, Colored
      <3>2. \A y \in Value : Marked(y) => Marked(y)'
        BY <1>5 DEF Marked, White, Value
      <3>3. color'[x] = "black" => color[x] = "black"
        BY <1>5
      <3>4. CASE x = t
        <4>1. color'[t] = "black" => Marked(k) /\ Marked(v) /\ Marked(Nil)
          BY <1>3, <1>4 DEF IInv, Typed, Marked
        <4>2. color'[t] = "black" => Black(t)'
          BY <1>1, <1>2, <1>3, <1>6, <3>2, <4>1 DEF Black, Value
        <4>3. color'[t] = "gray" => Gray(t)'
          BY <1>1, <1>2, <1>4, <3>1, <3>4 DEF Gray
        <4> QED  BY <1>5, <3>1, <3>4, <4>2, <4>3 DEF isdead
      <3>5. CASE x # t
        <4>1. color'[x] = "black" => Black(x)'
          <5>1. Sound(x) /\ val[x] \in Value
            BY <2>2, <3>1 DEF SInv, AllSound, Shaped
          <5>2. tt[x] \in {"table", "function"} => key[x] \in Value
            BY <5>1 DEF Sound, IsValue, IsUpval, Value
          <5> QED  BY <1>2, <1>6, <3>1, <3>2, <3>3, <3>5, <5>1, <5>2 DEF Black, IsOpen
        <4>2. color'[x] = "gray" => Gray(x)'
          BY <1>2, <1>4, <1>5, <3>1, <3>5 DEF Gray, IsOpen
        <4> QED  BY <1>5, <3>1, <3>5, <4>1, <4>2 DEF isdead
      <3> QED  BY <3>4, <3>5
    <2>3. gcstate \in Marking => color'[Main] \notin White
      BY <1>5 DEF SInv, Colored, White, Thread
    <2>4. gcstate \in Marking => /\ \A x \in gray' \union grayagain' : x \in Thread /\ tt[x] \in Listable
                                 /\ \A x \in weak : x \in Thread /\ tt[x] = "table"
      BY <1>1, <1>3, <1>4 DEF SInv, Colored, Listable
    <2> QED  BY <1>2, <2>1, <2>2, <2>3, <2>4 DEF Colored, isdead
  <1> QED  BY <1>2, <1>8, <1>10, <1>11, <1>12, Between

LEMMA SafeSetMode ==
  ASSUME IInv, SInv, gcstate \notin Atomic, UNCHANGED <<phase, tmudata, unswept>>, SetMode
  PROVE  SInv'
  <1>1. UNCHANGED <<tt, color, key, val, home, level, stack, running, gray, grayagain, weak, gcstate, tmudata, unswept>>
    BY DEF SetMode, threads, lists, phase
  <1>2. Shaped' /\ AllSound' /\ Placed' /\ Clean' /\ Colored'
    BY <1>1 DEF SInv, Shaped, AllSound, Sound, IsValue, IsUpval, Placed, Clean, Waiting, Colored, Black, Gray,
       Marked, ValueOf, IsOpen, isdead
  <1> QED  BY <1>1, <1>2, Between

\* The forward barrier: o refers to v from now on, itself or by the slot it stands for.
LEMMA Barriered ==
  ASSUME IInv, SInv, gcstate \notin Atomic,
         NEW o \in Thread, tt[o] \in {"userdata", "upval"}, ~isdead(o), NEW v, IsValue(v), Barrier(o, v, color),
         UNCHANGED <<tt, key, home, level, grayagain, weak, gcstate, tmudata, unswept>>,
         \A x \in Thread : x # o => val'[x] = val[x],
         IsOpen(o) => val'[o] = val[o], ~IsOpen(o) => val'[o] = v
  PROVE  /\ Clean' /\ Colored'
         /\ \A x \in Thread : tt[x] # "free" => (color'[x] = "dead" <=> isdead(x))
  <1>1. \A x \in Thread : IsOpen(x)' = IsOpen(x)
    BY DEF IsOpen
  <1>2. CASE color[o] = "black" /\ WhiteOf(color, {v}) # {} /\ gcstate # "propagate"
    <2>1. color' = makewhite(color, {o})
      BY <1>2 DEF Barrier, luaC_barrierf
    <2>2. \A x \in Thread : color'[x] = IF x = o THEN "white" ELSE color[x]
      BY <2>1 DEF makewhite
    <2>3. gcstate \notin Marking
      BY <1>2 DEF Marking
    <2>4. Clean'
      BY <1>1, <2>2 DEF SInv, Clean, Waiting
    <2>5. Colored'
      BY <1>1, <2>2, <2>3 DEF SInv, Colored
    <2> QED  BY <2>2, <2>4, <2>5 DEF isdead
  <1>3. CASE ~(color[o] = "black" /\ WhiteOf(color, {v}) # {})
    <2>1. color' = color /\ gray' = gray
      <3>1. luaC_barrierf(o, v, color) = <<color, {}>>
        BY <1>3 DEF luaC_barrierf
      <3> QED  BY <3>1 DEF Barrier
    <2>2. color[o] = "black" => Marked(v)
      BY <1>3 DEF WhiteOf, Marked
    <2>3. Clean'
      BY <1>1, <2>1 DEF SInv, Clean, Waiting
    <2>4. ASSUME gcstate \in Marking, NEW x \in Thread, tt[x] # "free", color[x] = "black" PROVE Black(x)'
      <3>1. Black(x)
        BY <2>4 DEF SInv, Colored
      <3>2. x = o => val'[x] = v /\ Marked(v)
        BY <2>2, <2>4, <3>1 DEF Black, IsOpen
      <3> QED  BY <1>1, <2>1, <3>1, <3>2 DEF Black, Marked
    <2>5. Colored'
      BY <1>1, <2>1, <2>4 DEF SInv, Colored, Gray, isdead
    <2> QED  BY <2>1, <2>3, <2>5 DEF isdead
  <1>4. CASE color[o] = "black" /\ WhiteOf(color, {v}) # {} /\ gcstate = "propagate"
    <2> DEFINE M == reallymark(color, {v})
    <2>1. color' = Painted(color, M) /\ gray' = gray \union Listed(M)
      <3>1. luaC_barrierf(o, v, color) = <<Painted(color, M), Listed(M)>>
        BY <1>4 DEF luaC_barrierf
      <3> QED  BY <3>1 DEF Barrier
    <2>2. AllLive
      BY <1>4, LiveMarking DEF SInv, Marking
    <2>3. \A x \in {v} : IsValue(x) \/ IsUpval(x)
      OBVIOUS
    <2>4. Paints(color, {v}, M, color')
      BY <2>1, <2>2, <2>3, Marks DEF IInv, Typed
    <2> HIDE DEF M
    <2> USE DEF Paints
    <2>5. \A x \in Thread : color[x] \notin White => x \notin M /\ color'[x] = color[x]
      BY <2>4
    <2>6. o \notin M
      BY <1>4, <2>5 DEF White
    <2>7. \A x \in Thread : tt[x] # "free" => ~isdead(x) /\ color'[x] # "dead"
      BY <2>2, <2>4 DEF AllLive, isdead
    <2>8. \A y \in Value : Marked(y) => Marked(y)'
      BY <2>5 DEF Marked, Value
    <2>9. ASSUME NEW x \in Thread, tt[x] # "free", color'[x] = "black" PROVE Black(x)'
      <3>1. CASE x \in M
        <4>1. val'[x] = val[x]
          BY <2>6, <3>1
        <4> QED  BY <1>1, <2>4, <2>9, <3>1, <4>1 DEF Black, Marked, ValueOf
      <3>2. CASE x \notin M
        <4>1. Black(x) /\ Sound(x) /\ val[x] \in Value
          BY ZenonT(60), <1>4, <2>2, <2>4, <2>9, <3>2 DEF SInv, Colored, AllLive, Marking, Shaped
        <4>2. tt[x] \in {"table", "function"} => key[x] \in Value
          BY <4>1 DEF Sound, IsValue, IsUpval, Value
        <4>3. Marked(v)'
          BY <2>4 DEF Marked
        <4>4. CASE x = o
          BY <1>1, <2>4, <2>8, <4>1, <4>3, <4>4 DEF Black, Marked
        <4>5. CASE x # o
          BY <1>1, <2>8, <4>1, <4>2, <4>5 DEF Black
        <4> QED  BY <4>4, <4>5
      <3> QED  BY <3>1, <3>2
    <2>10. ASSUME NEW x \in Thread, tt[x] # "free", color'[x] = "gray" PROVE Gray(x)'
      <3>1. CASE x \in M
        BY <1>1, <2>1, <2>4, <2>10, <3>1 DEF Gray, Listed
      <3>2. CASE x \notin M
        <4>1. Gray(x)
          BY <1>4, <2>4, <2>10, <3>2 DEF SInv, Colored, Marking
        <4> QED  BY <1>1, <2>1, <4>1 DEF Gray
      <3> QED  BY <3>1, <3>2
    <2>11. Colored'
      <3>1. \A x \in Thread : (tt[x] = "userdata" => color'[x] # "gray") /\ (IsOpen(x) => color'[x] # "black")
        BY <1>1, <2>4, <2>9 DEF SInv, Colored, Black, IsOpen
      <3>2. color'[Main] \notin White
        BY <1>4, <2>5 DEF SInv, Colored, Marking, Thread
      <3>3. \A x \in gray' \union grayagain' : x \in Thread /\ tt[x] \in Listable
        BY <1>4, <2>1, <2>4 DEF SInv, Colored, Marking, Listed
      <3>4. \A x \in weak' : x \in Thread /\ tt[x] = "table"
        BY <1>4 DEF SInv, Colored, Marking
      <3> QED  BY <1>1, <2>7, <2>9, <2>10, <3>1, <3>2, <3>3, <3>4 DEF Colored, isdead
    <2>12. Clean'
      BY <1>4 DEF Clean, Marking
    <2> QED  BY <2>7, <2>11, <2>12
  <1> QED  BY <1>2, <1>3, <1>4

LEMMA SafeSetEnv ==
  ASSUME IInv, SInv, gcstate \notin Atomic, UNCHANGED <<phase, tmudata, unswept>>, SetEnv
  PROVE  SInv'
  <1>1. PICK u \in Reach, t \in Reach : /\ tt[u] = "userdata" /\ tt[t] = "table"
                                        /\ val' = [val EXCEPT ![u] = t] /\ Barrier(u, t, color)
    BY DEF SetEnv
  <1>2. UNCHANGED <<tt, key, home, level, stack, running, grayagain, weak, gcstate, tmudata, unswept>>
    BY DEF SetEnv, threads, phase
  <1>3. u \in Thread /\ ~isdead(u) /\ IsValue(t) /\ t \in Value
    BY ReachLive DEF IsValue, Value
  <1>4. \A x \in Thread : val'[x] = IF x = u THEN t ELSE val[x]
    BY <1>1, <1>3 DEF SInv, Shaped
  <1>5. /\ Clean' /\ Colored'
        /\ \A x \in Thread : tt[x] # "free" => (color'[x] = "dead" <=> isdead(x))
    BY <1>1, <1>2, <1>3, <1>4, Barriered DEF IsOpen
  <1>6. /\ \A x : IsValue(x)' <=> IsValue(x)
        /\ \A x : IsUpval(x)' <=> IsUpval(x)
    BY <1>2, <1>5, Kept
  <1>7. Shaped' /\ Placed'
    BY <1>1, <1>2, <1>3 DEF SInv, Shaped, Placed, IsOpen, Value
  <1>8. \A x \in Thread : tt[x] # "free" /\ color'[x] # "dead" => Sound(x)'
    <2> SUFFICES ASSUME NEW x \in Thread, tt[x] # "free", color'[x] # "dead" PROVE Sound(x)'
      OBVIOUS
    <2>1. Sound(x)
      BY <1>5 DEF SInv, AllSound
    <2>2. CASE x = u
      BY <1>1, <1>2, <1>3, <1>4, <1>6, <2>2 DEF Sound
    <2>3. CASE x # u
      BY <1>2, <1>4, <1>6, <2>1, <2>3 DEF Sound, ValueOf, IsOpen
    <2> QED  BY <2>2, <2>3
  <1>9. AllSound'
    BY <1>2, <1>5, <1>8 DEF SInv, AllSound, isdead, Thread, Shaped
  <1> QED  BY <1>2, <1>5, <1>7, <1>9, Between

LEMMA SafeSetUpval ==
  ASSUME IInv, SInv, gcstate \notin Atomic, UNCHANGED <<phase, tmudata, unswept>>, SetUpval
  PROVE  SInv'
  <1>1. PICK f \in Reach, v \in Reach :
          /\ tt[f] = "function"
          /\ IF IsOpen(key[f]) THEN stack' = [stack EXCEPT ![home[key[f]]][level[key[f]]] = v] /\ UNCHANGED val
             ELSE val' = [val EXCEPT ![key[f]] = v] /\ UNCHANGED stack
          /\ Barrier(key[f], v, color)
    BY DEF SetUpval
  <1>2. UNCHANGED <<tt, key, home, level, running, grayagain, weak, gcstate, tmudata, unswept>>
    BY DEF SetUpval, phase
  <1>3. PICK u : u = key[f]
    OBVIOUS
  <1>4. u \in Thread /\ tt[u] = "upval" /\ ~isdead(u) /\ IsValue(v) /\ v \in Value
    BY <1>1, <1>3, ReachLive DEF Sound, IsUpval, IsValue, Value
  <1>5. \A x \in Thread : val'[x] = IF x = u /\ ~IsOpen(u) THEN v ELSE val[x]
    BY <1>1, <1>3, <1>4 DEF SInv, Shaped
  <1>6. /\ Clean' /\ Colored'
        /\ \A x \in Thread : tt[x] # "free" => (color'[x] = "dead" <=> isdead(x))
    BY <1>1, <1>2, <1>3, <1>4, <1>5, Barriered
  <1>7. /\ \A x : IsValue(x)' <=> IsValue(x)
        /\ \A x : IsUpval(x)' <=> IsUpval(x)
    BY <1>2, <1>6, Kept
  <1>8. IsOpen(u) => home[u] \in Thread /\ tt[home[u]] = "thread" /\ level[u] \in DOMAIN stack[home[u]]
    BY <1>4 DEF SInv, Placed
  <1>9. \A x \in Thread : /\ stack[x] \in Seq(Value) /\ stack'[x] \in Seq(Value)
                          /\ DOMAIN stack'[x] = DOMAIN stack[x]
                          /\ tt[x] # "thread" => stack'[x] = stack[x]
                          /\ \A i \in DOMAIN stack[x] : stack'[x][i] = stack[x][i] \/ (IsOpen(u) /\ stack'[x][i] = v)
    <2>1. CASE IsOpen(u)
      <3>1. stack' = [stack EXCEPT ![home[u]] = [stack[home[u]] EXCEPT ![level[u]] = v]]
        BY <1>1, <1>3, <1>8, <2>1 DEF SInv, Shaped
      <3>2. stack \in [Thread -> Seq(Value)]
        BY DEF SInv, Shaped
      <3> QED  BY <1>4, <1>8, <2>1, <3>1, <3>2
    <2>2. CASE ~IsOpen(u)
      BY <1>1, <1>3, <2>2 DEF SInv, Shaped
    <2> QED  BY <2>1, <2>2
  <1>10. Shaped'
    <2>1. \A x \in Thread : tt[x] # "thread" => stack'[x] = <<>>
      BY <1>9 DEF SInv, Shaped
    <2>2. stack' \in [Thread -> Seq(Value)]
      <3>1. DOMAIN stack' = Thread /\ stack' = [x \in Thread |-> stack'[x]]
        BY <1>1, <1>3 DEF SInv, Shaped
      <3> QED  BY <1>9, <3>1
    <2>3. val' \in [Thread -> Value]
      BY <1>1, <1>3, <1>4 DEF SInv, Shaped
    <2> QED  BY <1>2, <2>1, <2>2, <2>3 DEF SInv, Shaped
  <1>11. Placed'
    BY <1>2, <1>9 DEF SInv, Placed, IsOpen
  <1>12. \A x \in Thread : tt[x] = "upval" => ValueOf(x)' = ValueOf(x) \/ ValueOf(x)' = v
    BY <1>2, <1>5, <1>9 DEF SInv, Placed, ValueOf, IsOpen
  <1>13. \A x \in Thread : tt[x] # "free" /\ color'[x] # "dead" => Sound(x)'
    <2> SUFFICES ASSUME NEW x \in Thread, tt[x] # "free", color'[x] # "dead" PROVE Sound(x)'
      OBVIOUS
    <2>1. Sound(x)
      BY <1>6 DEF SInv, AllSound
    <2>2. tt[x] # "upval" => val'[x] = val[x]
      BY <1>4, <1>5
    <2>3. tt[x] = "thread" => \A i \in DOMAIN stack'[x] : \E y : y = stack'[x][i] /\ IsValue(y)'
      BY <1>4, <1>7, <1>9, <2>1 DEF Sound
    <2>4. tt[x] = "upval" => \E y : y = ValueOf(x)' /\ IsValue(y)'
      BY <1>4, <1>7, <1>12, <2>1 DEF Sound
    <2> QED  BY <1>2, <1>7, <2>1, <2>2, <2>3, <2>4 DEF Sound
  <1>14. AllSound'
    BY <1>2, <1>6, <1>13 DEF SInv, AllSound, isdead, Thread, Shaped
  <1> QED  BY <1>2, <1>6, <1>10, <1>11, <1>14, Between

\* What is left of a stack when a function returns.
Cut(s, i, r) == SubSeq(s, 1, i - 1) \o SubSeq(s, Len(s) - r + 1, Len(s))

LEMMA Returned ==
  ASSUME NEW s \in Seq(Value), NEW i \in DOMAIN s, NEW r \in {0, 1}, Len(s) - i >= r,
         NEW t, t = Cut(s, i, r)
  PROVE  /\ t \in Seq(Value)
         /\ \A j \in DOMAIN s : j < i => j \in DOMAIN t /\ t[j] = s[j]
         /\ \A j \in DOMAIN t : \E k \in DOMAIN s : t[j] = s[k]
  <1> DEFINE a == SubSeq(s, 1, i - 1)
             b == SubSeq(s, Len(s) - r + 1, Len(s))
  <1>1. Len(s) \in Nat /\ DOMAIN s = 1..Len(s) /\ i \in 1..Len(s)
    OBVIOUS
  <1>2. a \in Seq(Value) /\ Len(a) = i - 1 /\ \A j \in 1..(i - 1) : a[j] = s[j]
    BY <1>1
  <1>3. b \in Seq(Value) /\ Len(b) = r /\ \A j \in 1..r : b[j] = s[Len(s) - r + j]
    BY <1>1
  <1> HIDE DEF a, b
  <1>4. /\ a \o b \in Seq(Value) /\ Len(a \o b) = Len(a) + Len(b)
        /\ \A j \in 1..(Len(a) + Len(b)) : (a \o b)[j] = IF j <= Len(a) THEN a[j] ELSE b[j - Len(a)]
    BY <1>2, <1>3, ConcatProperties
  <1>5. t = a \o b
    BY DEF a, b, Cut
  <1>6. /\ t \in Seq(Value) /\ DOMAIN t = 1..(i - 1 + r)
        /\ \A j \in 1..(i - 1 + r) : t[j] = IF j <= i - 1 THEN a[j] ELSE b[j - (i - 1)]
    <2>1. t \in Seq(Value) /\ Len(t) = i - 1 + r
      BY <1>2, <1>3, <1>4, <1>5
    <2>2. DOMAIN t = 1..(i - 1 + r)
      BY <2>1
    <2>3. \A j \in 1..(Len(a) + Len(b)) : t[j] = IF j <= Len(a) THEN a[j] ELSE b[j - Len(a)]
      BY <1>4, <1>5
    <2>4. \A j \in 1..(i - 1 + r) : t[j] = IF j <= i - 1 THEN a[j] ELSE b[j - (i - 1)]
      BY <1>2, <1>3, <2>3
    <2> QED  BY <2>1, <2>2, <2>4
  <1>7. \A j \in 1..(i - 1) : j \in DOMAIN s /\ j \in DOMAIN t /\ t[j] = s[j]
    BY <1>1, <1>2, <1>6
  <1>8. \A j \in DOMAIN s : j < i => j \in 1..(i - 1)
    BY <1>1
  <1>9. ASSUME NEW j \in DOMAIN t PROVE \E k \in DOMAIN s : t[j] = s[k]
    <2>1. CASE j <= i - 1
      <3>1. j \in 1..(i - 1)
        BY <1>1, <1>6, <2>1
      <3> QED  BY <1>7, <3>1
    <2>2. CASE ~(j <= i - 1)
      <3>1. j \in 1..(i - 1 + r) /\ ~(j <= i - 1)
        BY <1>1, <1>6, <2>2
      <3>2. j - (i - 1) = 1 /\ r = 1
        BY <1>1, <3>1
      <3>3. t[j] = b[1]
        BY <1>6, <3>1, <3>2
      <3>4. b[1] = s[Len(s)] /\ Len(s) \in DOMAIN s
        BY <1>1, <1>3, <3>2
      <3> QED  BY <3>3, <3>4
    <2> QED  BY <2>1, <2>2
  <1> QED  BY <1>6, <1>7, <1>8, <1>9

LEMMA SafeLeave == ASSUME IInv, SInv, gcstate \notin Atomic, Leave PROVE SInv'
  <1>1. PICK i \in DOMAIN stack[running], r \in {0, 1} :
          LET upvals == {u \in OpenOf(running) : level[u] >= i}
              dead == {u \in upvals : isdead(u)}
              n == Len(stack[running])
          IN  /\ n - i >= r
              /\ Freed(dead, upvals \ dead)
              /\ luaC_linkupval(upvals \ dead)
              /\ stack' = [stack EXCEPT ![running] = SubSeq(@, 1, i - 1) \o SubSeq(@, n - r + 1, n)]
    BY DEF Leave
  <1>2. UNCHANGED <<running, grayagain, weak, gcstate, tmudata, unswept>>
    BY DEF Leave, phase
  <1> DEFINE F == {u \in OpenOf(running) : level[u] >= i /\ isdead(u)}
             C == {u \in OpenOf(running) : level[u] >= i /\ ~isdead(u)}
             G == {u \in C : color[u] = "gray"}
             c == [o \in Thread |-> IF o \in G THEN "black" ELSE color[o]]
             S == {ValueOf(u) : u \in G}
             M == reallymark(c, S)
  <1>3. /\ Freed(F, C)
        /\ IF gcstate = "propagate" THEN color' = Painted(c, M) /\ gray' = gray \union Listed(M)
           ELSE color' = makewhite(color, G) /\ gray' = gray
    <2>1. {u \in {u \in OpenOf(running) : level[u] >= i} : isdead(u)} = F
      OBVIOUS
    <2>2. {u \in OpenOf(running) : level[u] >= i} \ F = C
      OBVIOUS
    <2> HIDE DEF F, C
    <2> QED  BY <1>1, <2>1, <2>2 DEF luaC_linkupval
  <1>4. \A x \in Thread : x \in F \union C <=> IsOpen(x) /\ home[x] = running /\ level[x] >= i
    BY DEF OpenOf, SInv, AllSound, IsOpen, Thread
  <1>5. /\ \A x \in F : x \in Thread /\ tt[x] = "upval" /\ isdead(x)
        /\ \A x \in C : x \in Thread /\ IsOpen(x) /\ tt[x] = "upval" /\ ~isdead(x) /\ x \notin F
        /\ \A x \in G : x \in C /\ color[x] = "gray"
        /\ \A x \in C : color[x] = "gray" => x \in G
    BY DEF OpenOf, IsOpen, Thread
  <1>6. S = {ValueOf(u) : u \in G} /\ M = reallymark(c, S) /\ c = [o \in Thread |-> IF o \in G THEN "black" ELSE color[o]]
    OBVIOUS
  <1> HIDE DEF F, C, G, S, c, M
  <1>7. \A x \in Thread : /\ tt'[x] = IF x \in F THEN "free" ELSE tt[x]
                          /\ key'[x] = IF x \in F THEN Nil ELSE key[x]
                          /\ val'[x] = IF x \in F THEN Nil ELSE IF x \in C THEN ValueOf(x) ELSE val[x]
                          /\ home'[x] = IF x \in F \union C THEN Nil ELSE home[x]
                          /\ level'[x] = IF x \in F \union C THEN 0 ELSE level[x]
    BY <1>3 DEF Freed
  <1>8. ASSUME gcstate = "propagate"
        PROVE  /\ AllLive /\ F = {} /\ Paints(c, S, M, color')
               /\ c \in [Thread -> Colors] /\ \A x \in Thread : c[x] = IF x \in G THEN "black" ELSE color[x]
               /\ gray' = gray \union Listed(M) /\ \A x \in M : tt[x] # "upval"
               /\ \A x \in S : x \in Value
    <2>1. AllLive
      BY <1>8, LiveMarking DEF SInv, Marking
    <2>2. F = {}
      BY <1>5, <2>1 DEF AllLive
    <2>3. c \in [Thread -> Colors] /\ \A x \in Thread : c[x] = IF x \in G THEN "black" ELSE color[x]
      BY <1>6 DEF IInv, Typed, Colors
    <2>4. \A x \in S : IsValue(x) \/ IsUpval(x)
      BY <1>5, <1>6, <2>1 DEF AllLive, Sound
    <2>5. Paints(c, S, M, color')
      BY <1>3, <1>6, <1>8, <2>1, <2>3, <2>4, Marks
    <2>6. \A x \in S : IsValue(x)
      BY <1>5, <1>6, <2>1 DEF AllLive, Sound
    <2>7. \A x \in M : tt[x] # "upval"
      BY <2>5, <2>6, GCAssumption DEF Paints, IsValue, Thread
    <2> QED  BY <1>3, <1>8, <2>1, <2>2, <2>3, <2>5, <2>6, <2>7 DEF IsValue, Value
  <1>9. gcstate # "propagate" => /\ gray' = gray
                                 /\ \A x \in Thread : color'[x] = IF x \in G THEN "white" ELSE color[x]
    BY <1>3 DEF makewhite
  <1>10. \A x \in Thread : tt[x] # "free" => (color'[x] = "dead" <=> isdead(x))
    <2>1. CASE gcstate = "propagate"
      <3>1. \A x \in Thread : tt[x] # "free" => ~isdead(x)
        BY <1>8, <2>1 DEF AllLive
      <3> QED  BY <1>8, <2>1, <3>1 DEF Paints, isdead
    <2>2. CASE gcstate # "propagate"
      BY <1>5, <1>9, <2>2 DEF isdead
    <2> QED  BY <2>1, <2>2
  <1>11. \A x \in Thread : tt[x] # "free" /\ ~isdead(x) => tt'[x] = tt[x] /\ color'[x] # "dead"
    BY <1>5, <1>7, <1>10
  <1>12. \A x : IsValue(x) => IsValue(x)'
    BY <1>11 DEF IsValue, isdead
  <1>13. \A x : IsUpval(x) => IsUpval(x)'
    BY <1>11 DEF IsUpval, isdead
  <1>14. running \in Thread /\ tt[running] = "thread" /\ ~isdead(running) /\ stack[running] \in Seq(Value)
    BY DEF SInv, Shaped, AllSound
  <1>15. /\ stack'[running] \in Seq(Value)
         /\ \A j \in DOMAIN stack[running] : j < i => j \in DOMAIN stack'[running] /\ stack'[running][j] = stack[running][j]
         /\ \A j \in DOMAIN stack'[running] : \E k \in DOMAIN stack[running] : stack'[running][j] = stack[running][k]
    <2>1. stack'[running] = SubSeq(stack[running], 1, i - 1)
                              \o SubSeq(stack[running], Len(stack[running]) - r + 1, Len(stack[running]))
      BY <1>1, <1>14 DEF SInv, Shaped
    <2>2. Len(stack[running]) - i >= r
      BY <1>1
    <2>3. PICK s \in Seq(Value) : s = stack[running]
      BY <1>14
    <2>4. PICK t : t = stack'[running]
      OBVIOUS
    <2>5. i \in DOMAIN s /\ Len(s) - i >= r /\ t = Cut(s, i, r)
      BY <2>1, <2>2, <2>3, <2>4 DEF Cut
    <2>6. /\ t \in Seq(Value)
          /\ \A j \in DOMAIN s : j < i => j \in DOMAIN t /\ t[j] = s[j]
          /\ \A j \in DOMAIN t : \E k \in DOMAIN s : t[j] = s[k]
      BY <2>5, Returned
    <2> QED  BY <2>3, <2>4, <2>6
  <1>16. \A x \in Thread : x # running => stack'[x] = stack[x]
    BY <1>1 DEF SInv, Shaped
  <1>17. \A x \in Thread : x \notin C => /\ tt'[x] # "free" => IsOpen(x)' = IsOpen(x)
                                         /\ IsOpen(x)' => IsOpen(x)
    BY <1>7 DEF IsOpen
  <1>18. \A x \in C : ~IsOpen(x)' /\ val'[x] = ValueOf(x)
    BY <1>5, <1>7 DEF IsOpen
  <1>19. \A u \in Thread : IsOpen(u) /\ u \notin F \union C =>
           /\ home'[u] = home[u] /\ level'[u] = level[u]
           /\ level[u] \in DOMAIN stack'[home[u]] /\ stack'[home[u]][level[u]] = stack[home[u]][level[u]]
    <2> SUFFICES ASSUME NEW u \in Thread, IsOpen(u), u \notin F \union C
                 PROVE  level[u] \in DOMAIN stack'[home[u]] /\ stack'[home[u]][level[u]] = stack[home[u]][level[u]]
      BY <1>7
    <2>1. home[u] \in Thread /\ level[u] \in DOMAIN stack[home[u]] /\ level[u] \in Nat
      BY DEF SInv, Placed, Shaped
    <2>2. CASE home[u] = running
      <3>1. ~(level[u] >= i)
        BY <1>4, <2>2
      <3>2. i \in Nat
        BY <1>14
      <3>3. level[u] < i
        BY <2>1, <3>1, <3>2
      <3> QED  BY <1>15, <2>1, <2>2, <3>3
    <2>3. CASE home[u] # running
      BY <1>16, <2>1, <2>3
    <2> QED  BY <2>2, <2>3
  <1>20. Placed'
    <2> SUFFICES ASSUME NEW u \in Thread, IsOpen(u)'
                 PROVE  home'[u] \in Thread /\ tt'[home'[u]] = "thread" /\ level'[u] \in DOMAIN stack'[home'[u]]
      BY DEF Placed
    <2>1. IsOpen(u) /\ u \notin F \union C
      BY <1>7, <1>17, <1>18 DEF IsOpen
    <2>2. home[u] \in Thread /\ tt[home[u]] = "thread"
      BY <2>1 DEF SInv, Placed
    <2> QED  BY <1>5, <1>7, <1>19, <2>1, <2>2
  <1>21. Shaped'
    <2>1. \A x \in Thread : ValueOf(x) \in Value
      BY ValueTyped DEF SInv
    <2>2. stack' \in [Thread -> Seq(Value)]
      BY <1>1, <1>14, <1>15 DEF SInv, Shaped
    <2>3. key' \in [Thread -> Value \union Texts] /\ val' \in [Thread -> Value]
      BY <1>3, <2>1 DEF Freed, SInv, Shaped, Value
    <2>4. home' \in [Thread -> Value] /\ level' \in [Thread -> Nat]
      BY <1>3 DEF Freed, SInv, Shaped, Value
    <2>5. \A x \in Thread : tt'[x] # "thread" => stack'[x] = <<>>
      <3> SUFFICES ASSUME NEW x \in Thread, tt'[x] # "thread" PROVE stack'[x] = <<>>
        OBVIOUS
      <3>1. tt[x] # "thread"
        BY <1>5, <1>7
      <3> QED  BY <1>14, <1>16, <3>1 DEF SInv, Shaped
    <2> QED  BY <1>2, <2>2, <2>3, <2>4, <2>5 DEF SInv, Shaped
  <1>22. \A x \in Thread : tt'[x] # "free" /\ color'[x] # "dead" => Sound(x)'
    <2> SUFFICES ASSUME NEW x \in Thread, tt'[x] # "free", color'[x] # "dead" PROVE Sound(x)'
      OBVIOUS
    <2>1. x \notin F /\ tt'[x] = tt[x] /\ key'[x] = key[x] /\ Sound(x)
      BY <1>7, <1>10 DEF SInv, AllSound
    <2>2. tt[x] # "upval" => val'[x] = val[x]
      BY <1>5, <1>7, <2>1
    <2>3. tt[x] = "upval" => ValueOf(x)' = ValueOf(x)
      <3>1. CASE x \in C
        BY <1>18, <3>1 DEF ValueOf
      <3>2. CASE x \notin C /\ IsOpen(x)
        BY <1>17, <1>19, <2>1, <3>2 DEF ValueOf
      <3>3. CASE x \notin C /\ ~IsOpen(x)
        BY <1>7, <1>17, <2>1, <3>3 DEF ValueOf
      <3> QED  BY <3>1, <3>2, <3>3
    <2>4. tt[x] = "thread" => \A j \in DOMAIN stack'[x] : IsValue(stack'[x][j])
      BY <1>15, <1>16, <2>1 DEF Sound
    <2>5. tt[x] = "thread" => \A j \in DOMAIN stack'[x] : \E y : y = stack'[x][j] /\ IsValue(y)'
      BY <1>12, <2>4
    <2>6. tt[x] = "userdata" /\ val[x] # Nil => tt'[val[x]] = "table"
      BY <1>11, <2>1 DEF Sound, IsValue
    <2> QED  BY <1>12, <1>13, <2>1, <2>2, <2>3, <2>5, <2>6 DEF Sound
  <1>23. AllSound'
    <2>1. Main \in Thread /\ tt[Main] = "thread" /\ ~isdead(Main)
      BY DEF SInv, AllSound, Thread
    <2> QED  BY <1>2, <1>11, <1>14, <1>22, <2>1 DEF AllSound, isdead
  <1>24. Clean'
    <2> SUFFICES ASSUME gcstate \notin Marking, NEW x \in Thread, tt'[x] # "free", color'[x] # "white" PROVE Waiting(x)'
      BY <1>2 DEF Clean
    <2>1. x \notin G /\ color[x] # "white" /\ x \notin F /\ tt[x] # "free"
      BY <1>7, <1>9 DEF Marking
    <2>2. x \notin C
      BY <1>5, <2>1 DEF SInv, Colored, IInv, Typed, Colors, isdead
    <2>3. Waiting(x)
      BY <2>1 DEF SInv, Clean
    <2> QED  BY <1>2, <1>7, <1>17, <2>1, <2>2, <2>3 DEF Waiting
  <1>25. Colored'
    <2>1. CASE gcstate # "propagate"
      <3>1. gcstate' \notin Marking
        BY <1>2, <2>1 DEF Marking
      <3>2. \A x \in Thread : (tt'[x] = "userdata" => color'[x] # "gray") /\ (IsOpen(x)' => color'[x] # "black")
        BY <1>7, <1>9, <1>17, <1>18, <2>1 DEF SInv, Colored
      <3> QED  BY <3>1, <3>2 DEF Colored
    <2>2. CASE gcstate = "propagate"
      <3> USE <1>8, <2>2 DEF Paints
      <3>1. UNCHANGED tt /\ UNCHANGED key
        BY <1>3 DEF Freed, IInv, Typed, SInv, Shaped
      <3>2. \A x \in Thread : color[x] \notin White => color'[x] \notin White
        BY DEF White
      <3>3. \A y \in Value : Marked(y) => Marked(y)'
        BY <3>2 DEF Marked, Value
      <3>4. ASSUME NEW x \in Thread, tt[x] # "free", color'[x] = "black" PROVE Black(x)'
        <4>1. CASE x \in M
          <5>1. val'[x] = val[x] /\ tt[x] = "userdata"
            BY <1>5, <1>7, <3>4, <4>1
          <5> QED  BY <3>1, <4>1, <5>1 DEF Black, Marked
        <4>2. CASE x \in G
          <5>1. val'[x] \in S /\ tt[x] = "upval" /\ ~IsOpen(x)'
            BY <1>5, <1>6, <1>18, <4>2
          <5>2. Marked(val[x])'
            BY <5>1 DEF Marked
          <5> QED  BY <3>1, <5>1, <5>2 DEF Black
        <4>3. CASE x \notin M /\ x \notin G
          <5>1. color[x] = "black" /\ Black(x) /\ Sound(x) /\ val[x] \in Value
            BY <3>4, <4>3 DEF SInv, Colored, AllLive, Marking, Shaped
          <5>2. x \notin C
            BY <1>5, <5>1 DEF SInv, Colored
          <5>3. val'[x] = val[x] /\ IsOpen(x)' = IsOpen(x)
            BY <1>7, <1>17, <3>1, <3>4, <5>2
          <5>4. tt[x] \in {"table", "function"} => key[x] \in Value
            BY <5>1 DEF Sound, IsValue, IsUpval, Value
          <5> QED  BY <1>2, <3>1, <3>3, <5>1, <5>3, <5>4 DEF Black
        <4> QED  BY <4>1, <4>2, <4>3
      <3>5. ASSUME NEW x \in Thread, tt[x] # "free", color'[x] = "gray" PROVE Gray(x)'
        <4>1. CASE x \in M
          BY <3>1, <3>5, <4>1 DEF Gray, Listed
        <4>2. CASE x \notin M
          <5>1. color[x] = "gray" /\ Gray(x) /\ x \notin G
            BY <3>5, <4>2 DEF SInv, Colored, Marking
          <5>2. IsOpen(x)' = IsOpen(x)
            BY <1>5, <1>17, <3>1, <3>5, <5>1
          <5> QED  BY <1>2, <3>1, <5>1, <5>2 DEF Gray
        <4> QED  BY <4>1, <4>2
      <3>6. \A x \in Thread : (tt[x] = "userdata" => color'[x] # "gray") /\ (IsOpen(x)' => color'[x] # "black")
        <4>1. \A x \in Thread : tt[x] = "userdata" => color'[x] # "gray"
          BY DEF SInv, Colored
        <4>2. \A x \in Thread : IsOpen(x)' => color'[x] # "black"
          BY <3>1, <3>4 DEF Black, IsOpen
        <4> QED  BY <4>1, <4>2
      <3>7. color'[Main] \notin White
        BY <3>2 DEF SInv, Colored, Marking, Thread
      <3>8. \A x \in gray' \union grayagain' : x \in Thread /\ tt[x] \in Listable
        BY <1>2 DEF SInv, Colored, Marking, Listed
      <3>9. \A x \in weak' : x \in Thread /\ tt[x] = "table"
        BY <1>2 DEF SInv, Colored, Marking
      <3>10. \A x \in Thread : tt[x] # "free" => color'[x] # "dead"
        BY <1>10 DEF AllLive
      <3> QED  BY <3>1, <3>4, <3>5, <3>6, <3>7, <3>8, <3>9, <3>10 DEF Colored, isdead
    <2> QED  BY <2>1, <2>2
  <1> QED  BY <1>2, <1>20, <1>21, <1>23, <1>24, <1>25, Between

LEMMA SafeMutate == ASSUME IInv, SInv, Mutate PROVE SInv'
  <1>1. gcstate \notin Atomic
    BY DEF Mutate, ProgramRuns
  <1>2. CASE Leave
    BY <1>1, <1>2, SafeLeave
  <1>3. CASE ~Leave
    <2>1. UNCHANGED <<phase, tmudata, unswept>>
      BY <1>3 DEF Mutate
    <2>2. \/ New \/ luaS_newlstr \/ SetTable \/ GetTable \/ SetMode \/ SetEnv \/ GetEnv
          \/ Capture \/ Share \/ GetUpval \/ SetUpval \/ Resume \/ Yield
      BY <1>3 DEF Mutate
    <2> QED  BY <1>1, <2>1, <2>2, SafeNew, SafeString, SafeSetTable, SafePush, SafeSetMode, SafeSetEnv,
                SafeCapture, SafeShare, SafeSetUpval
  <1> QED  BY <1>2, <1>3

LEMMA SafeInit == Init => SInv
  <1> SUFFICES ASSUME Init PROVE SInv
    OBVIOUS
  <1> USE DEF Init
  <1>1. \A o \in Thread : tt[o] = IF o = Main THEN "thread" ELSE "free"
    OBVIOUS
  <1>2. Main \in Thread
    BY DEF Thread
  <1>3. Shaped
    BY <1>2 DEF Shaped, Value
  <1>4. AllSound
    BY <1>1, <1>2 DEF AllSound, Sound, isdead
  <1>5. Placed /\ Clean /\ Colored
    BY <1>1 DEF Placed, Clean, Colored, IsOpen, Marking, Atomic
  <1>6. UpvalsDone /\ WeakDone /\ ThreadsDone
    BY DEF UpvalsDone, WeakDone, ThreadsDone, Atomic
  <1> QED  BY <1>3, <1>4, <1>5, <1>6 DEF SInv

LEMMA SafeStep == ASSUME IInv, SInv, [Next]_vars PROVE SInv'
  <1>1. CASE UNCHANGED vars
    <2>1. UNCHANGED <<heap, color, lists, gcstate, tmudata, unswept>> /\ UNCHANGED threads
      BY <1>1 DEF vars, phase
    <2>2. Shaped' /\ AllSound' /\ Placed'
      BY <2>1, Recolored DEF SInv
    <2>3. UpvalsDone' /\ WeakDone' /\ ThreadsDone'
      BY <2>1 DEF SInv, UpvalsDone, WeakDone, ThreadsDone, Marked, ValueOf, IsOpen, heap, threads, lists
    <2> QED  BY <2>1, <2>2, <2>3, Quiet DEF SInv
  <1>2. CASE Collect
    BY <1>2, MarkRootStep, SafePropagate, StartAtomicStep, RemarkWeakStep, RemarkAgainStep, SafePreserve, SafeFlip,
       SafeSweep, SafeFinalizer, SafePhase DEF Collect
  <1>3. CASE FinalizerReturns \/ luaC_fullgc
    BY <1>3, SafePhase
  <1>4. CASE Mutate
    BY <1>4, SafeMutate
  <1> QED  BY <1>1, <1>2, <1>3, <1>4 DEF Next

\* What the sweep keeps is sound, and after it all is white.
LEMMA SafeNow == ASSUME IInv, SInv PROVE NoDangling /\ SweptClean
  <1>1. \A x : IsValue(x) \/ IsUpval(x) => Safe(x)
    BY DEF IsValue, IsUpval, Safe
  <1>2. ASSUME NEW o \in Allocated \union {Main}, ~isdead(o), NEW x \in Refs(o) PROVE Safe(x)
    <2>1. o \in Thread /\ tt[o] # "free"
      BY DEF Allocated, Thread, SInv, AllSound
    <2>2. Sound(o)
      BY <1>2, <2>1 DEF SInv, AllSound
    <2>3. IsValue(x) \/ IsUpval(x)
      <3>1. CASE tt[o] = "table"
        BY <1>2, <2>2, <3>1 DEF Refs, Sound
      <3>2. CASE tt[o] = "upval"
        BY <1>2, <2>2, <3>2 DEF Refs, Sound
      <3>3. CASE tt[o] = "userdata"
        BY <1>2, <2>2, <3>3 DEF Refs, Sound, IsValue
      <3>4. CASE tt[o] = "function"
        BY <1>2, <2>2, <3>4 DEF Refs, Sound
      <3>5. CASE tt[o] = "thread"
        BY <1>2, <2>2, <3>5 DEF Refs, Sound, Elements
      <3>6. CASE tt[o] = "string"
        BY <1>2, <3>6 DEF Refs
      <3> QED  BY <2>1, <3>1, <3>2, <3>3, <3>4, <3>5, <3>6 DEF IInv, Typed, Types
    <2> QED  BY <1>1, <2>3
  <1>3. Safe(running)
    BY DEF SInv, AllSound, Safe
  <1>4. \A u \in tmudata : Safe(u)
    BY DEF IInv, Separated, DeadFinalized, Safe
  <1>5. NoDangling
    BY <1>2, <1>3, <1>4 DEF NoDangling
  <1>6. SweptClean
    BY DEF SInv, Clean, Waiting, Marking, Sweeping, Atomic, SweptClean, Allocated, Thread
  <1> QED  BY <1>5, <1>6

-----------------------------------------------------------------------------
\* Whatever the program does between the steps of the collector, nothing that is
\* kept refers to what is freed: what the program can reach is never freed
\* (the barriers, lgc.c:662-683; remarkupvals, cleartable and the flip, 525-553).
THEOREM NothingDangles == Spec => []NoDangling
  <1>1. Init => IInv /\ SInv
    BY InitInv, SafeInit
  <1>2. IInv /\ SInv /\ [Next]_vars => (IInv /\ SInv)'
    BY StepInv, SafeStep
  <1>3. IInv /\ SInv => NoDangling
    BY SafeNow
  <1> QED  BY <1>1, <1>2, <1>3, PTL DEF Spec

\* When a cycle ends, all that is left of the heap is white, but for the userdata
\* that wait for their finalizers (sweeplist, lgc.c:407-428, and luaC_linkupval,
\* 695-710).
THEOREM CyclesEndClean == Spec => []SweptClean
  <1>1. Init => IInv /\ SInv
    BY InitInv, SafeInit
  <1>2. IInv /\ SInv /\ [Next]_vars => (IInv /\ SInv)'
    BY StepInv, SafeStep
  <1>3. IInv /\ SInv => SweptClean
    BY SafeNow
  <1> QED  BY <1>1, <1>2, <1>3, PTL DEF Spec
=============================================================================
