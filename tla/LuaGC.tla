-------------------------------- MODULE LuaGC --------------------------------
(***************************************************************************)
(* The incremental collector of Lua (lgc.c) and the program that runs      *)
(* between its steps: tables, weak or not, with one entry each, closures   *)
(* with one upvalue, open or closed, userdata with an environment and a    *)
(* finalizer, coroutines and strings.  What a thread has on its stack is   *)
(* what the program can reach; there are no other roots.                   *)
(*                                                                         *)
(* The collector's lists (gray, grayagain, weak, rootgc, tmudata) are sets *)
(* whose elements are taken in any order, and one object is swept at a     *)
(* time.  atomic() is split into its phases, between which the program     *)
(* does nothing.                                                           *)
(***************************************************************************)
EXTENDS Integers, Sequences, FiniteSets

CONSTANTS
  Obj,       \* the addresses of the allocator
  Main,      \* the main thread
  Nil,       \* a value that is not collectable
  Texts,     \* the texts of strings
  Modes,     \* the __mode a table may be given: subsets of {"k", "v"}
  Depth      \* the values a program keeps on a stack

ASSUME GCAssumption ==
  /\ IsFiniteSet(Obj) /\ Main \notin Obj /\ Nil \notin Obj /\ Nil # Main
  /\ Modes \subseteq SUBSET {"k", "v"} /\ {} \in Modes
  /\ Depth \in Nat

VARIABLES
  tt,            \* the type of what is at an address, or "free"
  color,         \* marked: gray, black or, of the two whites, the current one ("white")
                 \* or the other ("dead": what the sweep under way is to free)
  key,           \* a table's key (Nil: in its array), a closure's upvalue, a string's text
  val,           \* a table's value (Nil: no entry), a closed upvalue's value, an environment
  mode,          \* the __mode of a table, {"gc"} of a userdata with a finalizer
  home, level,   \* the thread and the slot an open upvalue stands for; Nil if closed
  stack,         \* the stack of every thread
  running,       \* the thread that runs
  finalized,     \* userdata that are not to be separated (again): FINALIZEDBIT
  called,        \* userdata whose finalizer was called (in no variable of the program)
  gcstate,       \* the phase; atomic() is remark, reweak, again and preserve
  full,          \* luaC_fullgc: "no", finishing the "old" cycle, in the "new" one, or in
                 \* a "call" of a finalizer at the end of the new one
  gray, grayagain, weak, tmudata,
  unswept        \* what the sweep has yet to visit: the list from sweepgc on

heap == <<tt, key, val, mode, home, level>>
threads == <<stack, running>>
lists == <<gray, grayagain, weak>>
phase == <<gcstate, full>>
vars == <<heap, color, threads, finalized, called, lists, phase, tmudata, unswept>>

Thread == Obj \union {Main}
White == {"white", "dead"}
Atomic == {"remark", "reweak", "again", "preserve"}
Listable == {"table", "function", "thread"}
Allocated == {o \in Obj : tt[o] # "free"}
isdead(o) == color[o] = "dead"
Elements(s) == {s[i] : i \in DOMAIN s}

IsOpen(u) == tt[u] = "upval" /\ home[u] # Nil
ValueOf(u) == IF IsOpen(u) THEN stack[home[u]][level[u]] ELSE val[u]
OpenOf(t) == {u \in Obj : IsOpen(u) /\ home[u] = t}

-----------------------------------------------------------------------------
(* Marking *)

makewhite(c, S) == [o \in Thread |-> IF o \in S THEN "white" ELSE c[o]]

WhiteOf(c, S) == {o \in S \ {Nil} : c[o] \in White}

\* What marking an object of S marks at once: it does not wait in a list.
Inner(S) == {ValueOf(u) : u \in {o \in S : tt[o] = "upval"}}
            \union {val[u] : u \in {o \in S : tt[o] = "userdata"}}

\* An upvalue may hold a userdata and that an environment, which is a table.
reallymark(c, S) ==
  LET s0 == WhiteOf(c, S)
      s1 == WhiteOf(c, Inner(s0))
  IN  s0 \union s1 \union WhiteOf(c, Inner(s1))

Painted(c, M) ==
  [o \in Thread |-> IF o \notin M THEN c[o]
                    ELSE IF tt[o] = "userdata" \/ (tt[o] = "upval" /\ ~IsOpen(o)) THEN "black"
                    ELSE "gray"]
Listed(M) == {o \in M : tt[o] \in Listable}

\* What the traversal of an object marks.
traversetable(o) ==
  (IF "k" \in mode[o] THEN {} ELSE {key[o]}) \union (IF "v" \in mode[o] THEN {} ELSE {val[o]})
traverseclosure(o) == {key[o]}
traversestack(o) == Elements(stack[o])
Traversed(o) ==
  CASE tt[o] = "table" -> traversetable(o)
    [] tt[o] = "function" -> traverseclosure(o)
    [] OTHER -> traversestack(o)
IsWeak(o) == tt[o] = "table" /\ mode[o] # {}

propagatemark(o) ==
  LET M == reallymark(color, Traversed(o)) IN
  /\ color' = [Painted(color, M) EXCEPT ![o] = IF IsWeak(o) \/ tt[o] = "thread" THEN "gray" ELSE "black"]
  /\ gray' = (gray \ {o}) \union Listed(M)
  /\ weak' = IF IsWeak(o) THEN weak \union {o} ELSE weak
  /\ grayagain' = IF tt[o] = "thread" THEN grayagain \union {o} ELSE grayagain

-----------------------------------------------------------------------------
(* The steps of the collector *)

\* The main thread is gray or black only while a collection marks.
markroot ==
  LET M == reallymark(color, {Main}) IN
  /\ color' = Painted(color, M)
  /\ gray' = Listed(M) /\ grayagain' = {} /\ weak' = {}
  /\ gcstate' = "propagate"

MarkRoot ==
  /\ gcstate = "pause" /\ full # "old"
  /\ markroot
  /\ UNCHANGED <<heap, threads, finalized, called, full, tmudata, unswept>>

Propagate ==
  /\ gcstate \in {"propagate"} \union Atomic
  /\ \E o \in gray : propagatemark(o)
  /\ UNCHANGED <<heap, threads, finalized, called, phase, tmudata, unswept>>

\* A mutant: upvalues are left to the threads whose slots they stand for.
ThreadsMark == {}

\* Upvalues that were marked and are open: the thread whose slot they stand
\* for may be dead, and does not mark it.
remarkupvals == {ValueOf(u) : u \in {o \in Obj : IsOpen(o) /\ color[o] = "gray"}}

StartAtomic ==
  /\ gcstate = "propagate" /\ gray = {}
  /\ LET M == reallymark(color, remarkupvals) IN color' = Painted(color, M) /\ gray' = Listed(M)
  /\ gcstate' = "remark"
  /\ UNCHANGED <<heap, threads, finalized, called, grayagain, weak, full, tmudata, unswept>>

RemarkWeak ==
  /\ gcstate = "remark" /\ gray = {}
  /\ LET M == reallymark(color, {running}) IN color' = Painted(color, M) /\ gray' = weak \union Listed(M)
  /\ weak' = {} /\ gcstate' = "reweak"
  /\ UNCHANGED <<heap, threads, finalized, called, grayagain, full, tmudata, unswept>>

RemarkAgain ==
  /\ gcstate = "reweak" /\ gray = {}
  /\ gray' = grayagain /\ grayagain' = {} /\ gcstate' = "again"
  /\ UNCHANGED <<heap, color, threads, finalized, called, weak, full, tmudata, unswept>>

\* A mutant: what has been separated may be so again.
Reseparated == {u \in Obj \ tmudata : tt[u] = "userdata" /\ color[u] \in White}

\* luaC_separateudata and marktmu: what is not reachable any more and has a
\* finalizer is kept, with all that it reaches, until it was called.
luaC_separateudata ==
  {u \in Obj \ (tmudata \union finalized) : tt[u] = "userdata" /\ color[u] \in White}

Preserve ==
  /\ gcstate = "again" /\ gray = {}
  /\ finalized' = finalized \union luaC_separateudata
  /\ tmudata' = tmudata \union {u \in luaC_separateudata : "gc" \in mode[u]}
  /\ LET c == makewhite(color, tmudata')
         M == reallymark(c, tmudata')
     IN  color' = Painted(c, M) /\ gray' = Listed(M)
  /\ gcstate' = "preserve"
  /\ UNCHANGED <<heap, threads, called, grayagain, weak, full, unswept>>

\* Strings are values: they are never removed, and are marked instead.
iscleared(x, iskey) ==
  /\ x # Nil /\ tt[x] # "string"
  /\ color[x] \in White \/ (tt[x] = "userdata" /\ ~iskey /\ x \in finalized)
cleartable ==
  {t \in weak : /\ val[t] # Nil
                /\ IF key[t] = Nil THEN "v" \in mode[t] /\ iscleared(val[t], FALSE)
                   ELSE iscleared(key[t], TRUE) \/ iscleared(val[t], FALSE)}
KeptStrings ==
  {x \in Obj : tt[x] = "string" /\ \E t \in weak \ cleartable : val[t] # Nil /\ x \in {key[t], val[t]}}

\* rootgc and the table of strings: open upvalues hang on their threads.
Linked(T) == {o \in Allocated \ T : ~IsOpen(o)} \union {Main}

Flip ==
  /\ gcstate = "preserve" /\ gray = {}
  /\ key' = [o \in Thread |-> IF o \in cleartable THEN Nil ELSE key[o]]
  /\ val' = [o \in Thread |-> IF o \in cleartable THEN Nil ELSE val[o]]
  /\ color' = [o \in Thread |-> IF color[o] \notin White \/ tt[o] = "free" THEN color[o]
                                ELSE IF o \in KeptStrings THEN "gray"
                                ELSE CHOOSE w \in White : w # color[o]]
  /\ unswept' = Linked(tmudata) /\ gcstate' = "sweepstring"
  /\ UNCHANGED <<tt, mode, home, level, threads, finalized, called, lists, full, tmudata>>

\* The addresses F are given back, the upvalues C closed.
Freed(F, C) ==
  /\ tt' = [o \in Thread |-> IF o \in F THEN "free" ELSE tt[o]]
  /\ key' = [o \in Thread |-> IF o \in F THEN Nil ELSE key[o]]
  /\ val' = [o \in Thread |-> IF o \in F THEN Nil ELSE IF o \in C THEN ValueOf(o) ELSE val[o]]
  /\ mode' = [o \in Thread |-> IF o \in F THEN {} ELSE mode[o]]
  /\ home' = [o \in Thread |-> IF o \in F \union C THEN Nil ELSE home[o]]
  /\ level' = [o \in Thread |-> IF o \in F \union C THEN 0 ELSE level[o]]
  /\ finalized' = finalized \ F /\ called' = called \ F

SweepString ==
  /\ gcstate = "sweepstring"
  /\ \/ \E o \in unswept :
          /\ tt[o] = "string"
          /\ Freed(IF isdead(o) THEN {o} ELSE {}, {})
          /\ color' = makewhite(color, {o})
          /\ unswept' = unswept \ {o} /\ UNCHANGED gcstate
     \/ /\ \A o \in unswept : tt[o] # "string"
        /\ gcstate' = "sweep" /\ UNCHANGED <<heap, color, finalized, called, unswept>>
  /\ UNCHANGED <<threads, lists, full, tmudata>>

\* A thread's open upvalues are swept with it.  If the thread is freed itself,
\* those that are left are closed (luaE_freethread).
sweeplist(o) ==
  LET dead == {x \in OpenOf(o) \union {o} : isdead(x)} IN
  /\ Freed(dead, IF isdead(o) THEN OpenOf(o) \ dead ELSE {})
  /\ color' = makewhite(color, OpenOf(o) \union {o})
  /\ stack' = IF isdead(o) THEN [stack EXCEPT ![o] = <<>>] ELSE stack

Sweep ==
  /\ gcstate = "sweep"
  /\ \/ /\ \E o \in unswept : sweeplist(o) /\ unswept' = unswept \ {o}
        /\ UNCHANGED gcstate
     \/ /\ unswept = {} /\ gcstate' = "finalize"
        /\ UNCHANGED <<heap, color, stack, finalized, called, unswept>>
  /\ UNCHANGED <<running, lists, full, tmudata>>

\* A finalizer is called with its userdata on top of the stack.
GCTM(u) ==
  /\ gcstate = "finalize" /\ full # "old" /\ u \in tmudata
  /\ tmudata' = tmudata \ {u}
  /\ color' = makewhite(color, {u})
  /\ stack' = [stack EXCEPT ![running] = Append(@, u)]
  /\ called' = called \union {u}
  /\ full' = IF full = "new" THEN "call" ELSE full
  /\ UNCHANGED <<heap, running, finalized, lists, gcstate, unswept>>

\* The finalizer that luaC_fullgc has called returns to it.
FinalizerReturns ==
  /\ full = "call" /\ full' = "new"
  /\ UNCHANGED <<heap, color, threads, finalized, called, lists, gcstate, tmudata, unswept>>

EndCycle ==
  /\ gcstate = "finalize" /\ full # "old" /\ tmudata = {}
  /\ gcstate' = "pause" /\ full' = "no"
  /\ UNCHANGED <<heap, color, threads, finalized, called, lists, tmudata, unswept>>

\* luaC_fullgc: a cycle that is marking is given up, its sweep turns
\* everything white; then a whole cycle is run.
RestartFull ==
  /\ full = "old" /\ gcstate = "finalize"
  /\ markroot /\ full' = "new"
  /\ UNCHANGED <<heap, threads, finalized, called, tmudata, unswept>>

Collect ==
  \/ MarkRoot \/ Propagate \/ StartAtomic \/ RemarkWeak \/ RemarkAgain \/ Preserve \/ Flip
  \/ SweepString \/ Sweep \/ (\E u \in Obj : GCTM(u)) \/ EndCycle \/ RestartFull

-----------------------------------------------------------------------------
(* The program *)

\* No step of the program comes between those of atomic() and of luaC_fullgc,
\* but for the finalizers that it calls.
ProgramRuns == full \in {"no", "call"} /\ gcstate \notin Atomic

Reach == Elements(stack[running]) \ {Nil}
Push(v) == stack' = [stack EXCEPT ![running] = Append(@, v)]
HasRoom == Len(stack[running]) < Depth

\* luaC_link: an object is white when it is made, of the white that the sweep
\* under way, if there is one, does not take.
luaC_link(o, type, k, v, m) ==
  /\ tt[o] = "free"
  /\ tt' = [tt EXCEPT ![o] = type] /\ color' = makewhite(color, {o})
  /\ key' = [key EXCEPT ![o] = k] /\ val' = [val EXCEPT ![o] = v] /\ mode' = [mode EXCEPT ![o] = m]
  /\ UNCHANGED <<home, level>>

New ==
  /\ HasRoom
  /\ \E o \in Obj :
       /\ \/ luaC_link(o, "table", Nil, Nil, {})
          \/ luaC_link(o, "thread", Nil, Nil, {})
          \/ \E m \in {{}, {"gc"}} : luaC_link(o, "userdata", Nil, Nil, m)
       /\ Push(o)
  /\ UNCHANGED <<running, lists>>

\* luaS_newlstr: a string that is dead and not yet swept is used again.
luaS_newlstr ==
  /\ HasRoom
  /\ \E s \in Texts :
       \/ \E o \in Allocated :
            /\ tt[o] = "string" /\ key[o] = s
            /\ color' = IF isdead(o) THEN makewhite(color, {o}) ELSE color
            /\ Push(o) /\ UNCHANGED heap
       \/ /\ ~\E o \in Allocated : tt[o] = "string" /\ key[o] = s
          /\ \E o \in Obj : luaC_link(o, "string", s, Nil, {}) /\ Push(o)
  /\ UNCHANGED <<running, lists>>

\* luaC_barrierf: o is black and refers to v from now on.
luaC_barrierf(o, v, c) ==
  IF c[o] = "black" /\ WhiteOf(c, {v}) # {}
  THEN IF gcstate = "propagate" THEN LET M == reallymark(c, {v}) IN <<Painted(c, M), Listed(M)>>
       ELSE <<makewhite(c, {o}), {}>>
  ELSE <<c, {}>>
Barrier(o, v, c) == LET b == luaC_barrierf(o, v, c) IN color' = b[1] /\ gray' = gray \union b[2]

\* A mutant: the table is put back among those to be traversed now.
GrayAtOnce(t, S) ==
  IF color[t] = "black" /\ WhiteOf(color, S) # {}
  THEN color' = [color EXCEPT ![t] = "gray"] /\ gray' = gray \union {t} /\ UNCHANGED grayagain
  ELSE UNCHANGED <<color, gray, grayagain>>

\* luaC_barrierback: a black table is traversed again.
luaC_barrierback(t, S) ==
  IF color[t] = "black" /\ WhiteOf(color, S) # {}
  THEN color' = [color EXCEPT ![t] = "gray"] /\ grayagain' = grayagain \union {t} /\ UNCHANGED gray
  ELSE UNCHANGED <<color, gray, grayagain>>

\* A table has one entry: another key is stored once the entry was removed.
SetTable ==
  /\ \E t \in Reach, k, v \in Reach \union {Nil} :
       /\ tt[t] = "table"
       /\ val[t] # Nil => key[t] = k
       /\ <<k, v>> # <<Nil, Nil>>
       /\ key' = [key EXCEPT ![t] = IF v = Nil THEN Nil ELSE k]
       /\ val' = [val EXCEPT ![t] = v]
       /\ luaC_barrierback(t, {k, v})
  /\ UNCHANGED <<tt, mode, home, level, threads, weak>>

GetTable ==
  /\ HasRoom
  /\ \E t \in Reach : tt[t] = "table" /\ \E x \in {key[t], val[t]} \ {Nil} : Push(x)
  /\ UNCHANGED <<heap, color, running, lists>>

SetMode ==
  /\ \E t \in Reach, m \in Modes : tt[t] = "table" /\ mode' = [mode EXCEPT ![t] = m]
  /\ UNCHANGED <<tt, color, key, val, home, level, threads, lists>>

SetEnv ==
  /\ \E u, t \in Reach :
       /\ tt[u] = "userdata" /\ tt[t] = "table"
       /\ val' = [val EXCEPT ![u] = t]
       /\ Barrier(u, t, color)
  /\ UNCHANGED <<tt, key, mode, home, level, threads, grayagain, weak>>

GetEnv ==
  /\ HasRoom
  /\ \E u \in Reach : tt[u] = "userdata" /\ val[u] # Nil /\ Push(val[u])
  /\ UNCHANGED <<heap, color, running, lists>>

\* A closure that captures slot i (OP_CLOSURE, luaF_findupval): the upvalue of
\* the slot, were it dead, or a new one.
luaF_findupval(i, f) ==
  LET at == {u \in OpenOf(running) : level[u] = i} IN
  \/ \E u \in at :
       /\ tt' = [tt EXCEPT ![f] = "function"] /\ key' = [key EXCEPT ![f] = u]
       /\ color' = makewhite(color, {f} \union {x \in at : isdead(x)})
       /\ UNCHANGED <<home, level>>
  \/ \E u \in Obj \ {f} :
       /\ at = {} /\ tt[u] = "free"
       /\ tt' = [tt EXCEPT ![f] = "function", ![u] = "upval"] /\ key' = [key EXCEPT ![f] = u]
       /\ color' = makewhite(color, {f, u})
       /\ home' = [home EXCEPT ![u] = running] /\ level' = [level EXCEPT ![u] = i]

Capture ==
  /\ HasRoom
  /\ \E f \in Obj : tt[f] = "free" /\ (\E i \in DOMAIN stack[running] : luaF_findupval(i, f)) /\ Push(f)
  /\ UNCHANGED <<val, mode, running, lists>>

\* A closure that takes an upvalue of the closure that makes it.
Share ==
  /\ HasRoom
  /\ \E f \in Obj, g \in Reach : tt[g] = "function" /\ luaC_link(f, "function", key[g], Nil, {}) /\ Push(f)
  /\ UNCHANGED <<running, lists>>

GetUpval ==
  /\ HasRoom
  /\ \E f \in Reach : tt[f] = "function" /\ ValueOf(key[f]) # Nil /\ Push(ValueOf(key[f]))
  /\ UNCHANGED <<heap, color, running, lists>>

SetUpval ==
  /\ \E f, v \in Reach :
       LET u == key[f] IN
       /\ tt[f] = "function"
       /\ IF IsOpen(u) THEN stack' = [stack EXCEPT ![home[u]][level[u]] = v] /\ UNCHANGED val
          ELSE val' = [val EXCEPT ![u] = v] /\ UNCHANGED stack
       /\ Barrier(u, v, color)
  /\ UNCHANGED <<tt, key, mode, home, level, running, grayagain, weak>>

\* A mutant: an upvalue keeps its colour unless something is being marked.
KeepsGray(U) ==
  LET G == {u \in U : color[u] = "gray"}
      c == [o \in Thread |-> IF o \in G THEN "black" ELSE color[o]]
      M == reallymark(c, {ValueOf(u) : u \in G})
  IN  IF gcstate = "propagate" THEN color' = Painted(c, M) /\ gray' = gray \union Listed(M)
      ELSE UNCHANGED <<color, gray>>

\* luaC_linkupval: gray upvalues that are closed become black, or are swept.
luaC_linkupval(U) ==
  LET G == {u \in U : color[u] = "gray"}
      c == [o \in Thread |-> IF o \in G THEN "black" ELSE color[o]]
      M == reallymark(c, {ValueOf(u) : u \in G})
  IN  IF gcstate = "propagate" THEN color' = Painted(c, M) /\ gray' = gray \union Listed(M)
      ELSE color' = makewhite(color, G) /\ UNCHANGED gray

\* A function returns: what is on the stack from slot i on goes, but for a
\* result, once luaF_close has closed the upvalues of these slots.
Leave ==
  /\ \E i \in DOMAIN stack[running], results \in {0, 1} :
       LET upvals == {u \in OpenOf(running) : level[u] >= i}
           dead == {u \in upvals : isdead(u)}
           n == Len(stack[running])
       IN  /\ n - i >= results
           /\ Freed(dead, upvals \ dead)
           /\ luaC_linkupval(upvals \ dead)
           /\ stack' = [stack EXCEPT ![running] = SubSeq(@, 1, i - 1) \o SubSeq(@, n - results + 1, n)]
  /\ UNCHANGED <<running, grayagain, weak, phase, tmudata, unswept>>

\* The main thread resumes a coroutine, which stays on its stack, and is
\* resumed in turn; a value goes with them.
Resume ==
  /\ running = Main
  /\ \E t \in Reach, v \in Reach \union {Nil} :
       /\ tt[t] = "thread" /\ Len(stack[t]) < Depth
       /\ running' = t /\ stack' = [stack EXCEPT ![t] = Append(@, v)]
  /\ UNCHANGED <<heap, color, lists>>

Yield ==
  /\ running # Main
  /\ running' = Main
  /\ \/ UNCHANGED stack
     \/ Len(stack[Main]) < Depth /\ \E v \in Reach : stack' = [stack EXCEPT ![Main] = Append(@, v)]
  /\ UNCHANGED <<heap, color, lists>>

\* Lists are given up in the middle of the marking only.
luaC_fullgc ==
  /\ ProgramRuns
  /\ full' = "old"
  /\ IF gcstate \in {"pause", "propagate"}
     THEN gray' = {} /\ grayagain' = {} /\ weak' = {} /\ gcstate' = "sweepstring" /\ unswept' = Linked(tmudata)
     ELSE UNCHANGED <<lists, gcstate, unswept>>
  /\ UNCHANGED <<heap, color, threads, finalized, called, tmudata>>

Mutate ==
  /\ ProgramRuns
  /\ \/ Leave
     \/ /\ \/ New \/ luaS_newlstr \/ SetTable \/ GetTable \/ SetMode \/ SetEnv \/ GetEnv
           \/ Capture \/ Share \/ GetUpval \/ SetUpval \/ Resume \/ Yield
        /\ UNCHANGED <<finalized, called, phase, tmudata, unswept>>

Next == Collect \/ FinalizerReturns \/ Mutate \/ luaC_fullgc

Init ==
  /\ tt = [o \in Thread |-> IF o = Main THEN "thread" ELSE "free"]
  /\ color = [o \in Thread |-> "white"]
  /\ key = [o \in Thread |-> Nil] /\ val = [o \in Thread |-> Nil] /\ mode = [o \in Thread |-> {}]
  /\ home = [o \in Thread |-> Nil] /\ level = [o \in Thread |-> 0]
  /\ stack = [o \in Thread |-> <<>>] /\ running = Main
  /\ finalized = {} /\ called = {} /\ tmudata = {} /\ unswept = {}
  /\ gcstate = "pause" /\ full = "no"
  /\ gray = {} /\ grayagain = {} /\ weak = {}

\* Every allocation of the program may be followed by steps of the collector
\* (luaC_checkGC); a program that goes on allocating makes it go on.
Spec == Init /\ [][Next]_vars /\ WF_vars(Collect)

-----------------------------------------------------------------------------
(* What the program relies on *)

Refs(o) ==
  CASE tt[o] = "table" -> {key[o], val[o]}
    [] tt[o] = "upval" -> {ValueOf(o)}
    [] tt[o] = "userdata" -> {val[o]}
    [] tt[o] = "function" -> {key[o]}
    [] tt[o] = "thread" -> Elements(stack[o])
    [] OTHER -> {}
Safe(x) == x = Nil \/ (tt[x] # "free" /\ ~isdead(x))

\* No object that the sweep is going to keep refers to one that it frees or has
\* freed, in any phase: what a program can reach is never freed (the barriers,
\* lgc.c:662-683; remarkupvals, cleartable and the flip, 525-553; the upvalues
\* and strings that are found dead, lfunc.c:61 and lstring.c:88).
NoDangling ==
  /\ \A o \in Allocated \union {Main} : ~isdead(o) => \A x \in Refs(o) : Safe(x)
  /\ Safe(running) /\ \A u \in tmudata : Safe(u)

\* When a cycle ends every object is white again, and not dead: an object left
\* with another colour would not be marked by the next cycle, and what it refers
\* to would be freed (sweeplist, lgc.c:407-428, and luaC_linkupval, 695-710).
SweptClean ==
  gcstate \in {"pause", "finalize"} => \A o \in Allocated \ tmudata : color[o] = "white"

\* A userdata with a finalizer is freed only once that was called, and it is
\* never called again (luaC_separateudata and GCTM, lgc.c:128-155, 445-471).
FinalizedOnce ==
  [][\A u \in Obj :
       /\ (tt[u] = "userdata" /\ tt'[u] = "free" /\ "gc" \in mode[u]) => u \in called
       /\ (u \in called /\ tt'[u] = tt[u]) => u \notin tmudata']_vars

\* Whatever the program does to the objects already traversed, a cycle comes to
\* its end, unless it is in a finalizer that luaC_fullgc calls (singlestep,
\* lgc.c:556-607: a table that the barrier puts back waits for the atomic phase).
CollectionEnds == []<>(gcstate = "pause" \/ full = "call")

\* What luaC_barrierf asserts (lgc.c:665): outside of the marking, an object that
\* is given a reference is black only while the sweep has yet to come to it.
BarrierInPhase ==
  [][\A u \in Obj :
       (tt[u] = "userdata" /\ color[u] = "black" /\ val'[u] # val[u] /\ WhiteOf(color, {val'[u]}) # {})
         => gcstate \notin {"finalize", "pause"}]_vars
=============================================================================
