------------------------------- MODULE MCLuaGC -------------------------------
(* Instances of LuaGC: in every behaviour the program makes objects of the    *)
(* kinds of one scene, and addresses are handed out in ascending order.       *)
EXTENDS LuaGC

CONSTANT Scenes

VARIABLES scene, steps

\* How many objects of each kind there are at most, in how many addresses, which
\* modes they have, how many strong tables have an entry, whether its key is an
\* object, and after how many of its steps the program stops (0: never).
Scene(most, size, modes, entries, keys, last) ==
  [most |-> most, size |-> size, modes |-> modes, entries |-> entries, keys |-> keys, last |-> last]
MCScenes == {
  Scene([table |-> 3], 3, {{}}, 2, FALSE, 0),
  Scene([table |-> 2], 2, {{}}, 1, FALSE, 0),
  Scene([table |-> 3], 3, {{}, {"k"}}, 0, TRUE, 0),
  Scene([table |-> 2, string |-> 1], 3, {{}, {"v"}}, 0, FALSE, 0),
  Scene([table |-> 1, userdata |-> 2], 3, {{}, {"gc"}}, 0, FALSE, 0),
  Scene([table |-> 1, userdata |-> 1], 2, {{}, {"gc"}, {"v"}}, 1, FALSE, 0),
  Scene([userdata |-> 2], 2, {{}, {"gc"}}, 0, FALSE, 0),
  Scene([function |-> 2, upval |-> 1, table |-> 1], 3, {{}}, 1, FALSE, 0),
  Scene([function |-> 1, upval |-> 1, table |-> 1, thread |-> 2], 4, {{}}, 0, FALSE, 5)}

\* Two userdata that share an environment, in which one of them is.
BarrierScenes == {Scene([table |-> 1, userdata |-> 2], 3, {{}, {"gc"}}, 1, FALSE, 0)}

New1 == {o \in Obj : tt[o] = "free" /\ tt'[o] # "free"}
InOrder(S, S1) == \A o \in Obj \intersect (S \ S1), p \in Obj \intersect S \intersect S1 : o < p
InScene ==
  /\ \A o \in New1 : /\ tt'[o] \in DOMAIN scene.most /\ o <= scene.size
                     /\ \A p \in Obj : p < o /\ tt[p] = "free" => p \in New1
  /\ \A k \in DOMAIN scene.most : Cardinality({o \in Obj : tt'[o] = k}) <= scene.most[k]
  /\ \A o \in Obj : mode'[o] \in scene.modes
  /\ Cardinality({o \in Obj : tt'[o] = "table" /\ mode'[o] # {}}) <= 1
  /\ scene.keys \/ \A o \in Obj : tt'[o] = "table" => key'[o] = Nil
  /\ Cardinality({o \in Obj : tt'[o] = "table" /\ mode'[o] = {} /\ val'[o] # Nil}) <= scene.entries
  /\ \A t \in Thread : Len(stack'[t]) = Cardinality(Elements(stack'[t]))
  /\ full' = "no" \/ DOMAIN scene.most = {"userdata"} \/ scene.size = 2
  /\ gcstate \in {"sweepstring", "sweep"} => InOrder(unswept, unswept')
  /\ gcstate \in Atomic => InOrder(gray, gray')

\* A coroutine (1) yielded a closure (2) that captured its only local variable (3).
Suspended ==
  /\ tt = [o \in Thread |-> CASE o \in {1, Main} -> "thread" [] o = 2 -> "function" [] o = 3 -> "upval" [] OTHER -> "free"]
  /\ key = [o \in Thread |-> IF o = 2 THEN 3 ELSE Nil]
  /\ home = [o \in Thread |-> IF o = 3 THEN 1 ELSE Nil] /\ level = [o \in Thread |-> IF o = 3 THEN 1 ELSE 0]
  /\ stack = [o \in Thread |-> CASE o = 1 -> <<Nil, 2>> [] o = Main -> <<1, 2>> [] OTHER -> <<>>]
  /\ color = [o \in Thread |-> "white"] /\ val = [o \in Thread |-> Nil] /\ mode = [o \in Thread |-> {}]
  /\ running = Main /\ finalized = {} /\ called = {} /\ tmudata = {} /\ unswept = {}
  /\ gcstate = "pause" /\ full = "no" /\ gray = {} /\ grayagain = {} /\ weak = {}

MCInit ==
  /\ scene \in Scenes /\ steps = 0
  /\ IF scene.last = 0 THEN Init ELSE Suspended
Collecting == Collect /\ UNCHANGED <<scene, steps>>
MCNext ==
  /\ \/ Collecting
     \/ /\ FinalizerReturns \/ Mutate \/ luaC_fullgc
        /\ steps' = IF scene.last = 0 THEN 0 ELSE steps + 1
        /\ steps' <= scene.last
        /\ UNCHANGED scene
  /\ InScene
MCvars == <<vars, scene, steps>>
MCSpec == MCInit /\ [][MCNext]_MCvars /\ WF_MCvars(Collecting)
=============================================================================
