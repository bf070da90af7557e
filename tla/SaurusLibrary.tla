---------------------------- MODULE SaurusLibrary ----------------------------
(***************************************************************************)
(* The native functions of libseq.c and lib.c, and the embedding API that  *)
(* they are written in.  A native finds its arguments on top of the stack, *)
(* under them the function itself, and names all of them by their distance *)
(* from the top, which moves with everything it pushes.                    *)
(*                                                                         *)
(* Vectors and maps are what VectorContract and MapContract say of them.   *)
(* A state m has the stack, the references' contents and a status:         *)
(* "running", "error" (su_error has been called) or "undefined" (a value   *)
(* was used as if it had another type).                                    *)
(***************************************************************************)
EXTENDS Integers, Sequences, FiniteSets, SequencesExt, Functions

CONSTANTS
  Starts,       \* values to start from
  Literals,     \* what other arguments are
  MaxCalls      \* bound: calls in a row

Nil        == [t |-> "nil"]
Bool(b)    == [t |-> "boolean", b |-> b]
Number(n)  == [t |-> "number", n |-> n]
String(s)  == [t |-> "string", s |-> s]             \* without its NUL
Vector(e)  == [t |-> "vector", e |-> e]
Map(f)     == [t |-> "map", f |-> f]
Local(i)   == [t |-> "reference", i |-> i]
Cell(x, r) == [t |-> "sequence", first |-> x, rest |-> r]
It(v, k)   == [t |-> "sequence", obj |-> v, idx |-> k]
Native(f)  == [t |-> "native-function", name |-> f]
IsCell(q)  == q.t = "sequence" /\ "first" \in DOMAIN q
IsIt(q)    == q.t = "sequence" /\ "obj" \in DOMAIN q

-----------------------------------------------------------------------------
(***************************************************************************)
(* The embedding API (core.c, ref.c, seq.c); i < 0 is a place on the stack.*)
(***************************************************************************)
STK(m, i) == m.stk[Len(m.stk) + 1 + i]
Is(m, i, t) == STK(m, i).t = t
Fails(m)     == [m EXCEPT !.status = "error"]
Undefined(m) == [m EXCEPT !.status = "undefined"]

push_value(m, v) == [m EXCEPT !.stk = Append(@, v)]
su_pop(m, n)     == [m EXCEPT !.stk = SubSeq(@, 1, Len(@) - n)]
su_copy(m, i)    == push_value(m, STK(m, i))
Args(m, n)       == SubSeq(m.stk, Len(m.stk) - n + 1, Len(m.stk))

su_seq(m, i) ==
  CASE Is(m, i, "vector")   -> push_value(m, IF STK(m, i).e = <<>> THEN Nil ELSE It(STK(m, i), 0))
    [] Is(m, i, "string")   -> push_value(m, IF STK(m, i).s = <<>> THEN Nil ELSE It(STK(m, i), 0))
    [] Is(m, i, "sequence") -> su_copy(m, i)
    [] OTHER                -> Fails(m)

\* An iterator of a string has the functions of an iterator of a vector.
OfVector(q) == IsIt(q) /\ q.obj.t = "vector"
su_first(m, i) ==
  CASE IsCell(STK(m, i))   -> push_value(m, STK(m, i).first)
    [] OfVector(STK(m, i)) -> push_value(m, STK(m, i).obj.e[STK(m, i).idx + 1])
    [] OTHER               -> Undefined(m)
\* Mutant: the end is noticed one element too late.
Further_Late(q) == IF q.idx = Len(q.obj.e) THEN Nil ELSE [q EXCEPT !.idx = @ + 1]
Further(q) == IF q.idx + 1 = Len(q.obj.e) THEN Nil ELSE [q EXCEPT !.idx = @ + 1]
su_rest(m, i) ==
  CASE IsCell(STK(m, i))   -> push_value(m, STK(m, i).rest)
    [] OfVector(STK(m, i)) -> push_value(m, Further(STK(m, i)))
    [] OTHER               -> Undefined(m)

su_list(m, n) == push_value(m, FoldRight(Cell, Args(m, n), Nil))
su_cons(m, i) == push_value(m, Cell(STK(m, -1), STK(m, i)))

su_vector(m, n) == push_value(m, Vector(Args(m, n)))
InBounds(v, n)  == n \in 0 .. Len(v.e) - 1
su_vector_index(m, i) ==
  IF ~Is(m, i, "vector") \/ ~Is(m, -1, "number") THEN Undefined(m)
  ELSE IF ~InBounds(STK(m, i), STK(m, -1).n) THEN Fails(m)
  ELSE push_value(su_pop(m, 1), STK(m, i).e[STK(m, -1).n + 1])
su_vector_set(m, i) ==
  IF ~Is(m, i, "vector") \/ ~Is(m, -2, "number") THEN Undefined(m)
  ELSE IF ~InBounds(STK(m, i), STK(m, -2).n) THEN Fails(m)
  ELSE push_value(su_pop(m, 2), Vector([STK(m, i).e EXCEPT ![STK(m, -2).n + 1] = STK(m, -1)]))
su_vector_push(m, i, n) ==
  IF n = 0 THEN su_copy(m, i)
  ELSE IF ~Is(m, i, "vector") THEN Undefined(m)
  ELSE push_value(m, Vector(STK(m, i).e \o Args(m, n)))
su_vector_pop(m, i, n) ==
  IF ~Is(m, n, "number") \/ ~Is(m, i, "vector") THEN Undefined(m)
  ELSE IF STK(m, n).n > Len(STK(m, i).e) THEN Fails(m)
  ELSE push_value(m, Vector(SubSeq(STK(m, i).e, 1, Len(STK(m, i).e) - STK(m, n).n)))

\* Of keys, only those whose equality is plain: value_eq() compares pointers.
IsKey(k) == k.t \in {"number", "string"}
With(f, k, v) == [x \in DOMAIN f \cup {k} |-> IF x = k THEN v ELSE f[x]]
MapOf(kvs) == FoldLeft(LAMBDA f, i : With(f, kvs[2 * i - 1], kvs[2 * i]), <<>>,
                       [i \in 1 .. Len(kvs) \div 2 |-> i])
su_map(m, n) == IF n % 2 # 0 THEN Fails(m) ELSE push_value(m, Map(MapOf(Args(m, n))))

su_map_has(m, i) == STK(m, -1) \in DOMAIN STK(m, i).f
su_map_insert(m, i) ==
  IF ~Is(m, i, "map") THEN Undefined(m)
  ELSE push_value(m, Map(With(STK(m, i).f, STK(m, -2), STK(m, -1))))
su_map_remove(m, i) ==
  IF ~Is(m, i, "map") THEN Undefined(m)
  ELSE push_value(m, Map(Restrict(STK(m, i).f, DOMAIN STK(m, i).f \ {STK(m, -1)})))

\* ref_local(), su_unref_local(), su_set_local().
su_ref_local(m, i) == push_value([m EXCEPT !.loc = Append(@, STK(m, i))], Local(Len(m.loc) + 1))
su_unref_local(m, i) == IF Is(m, i, "reference") THEN push_value(m, m.loc[STK(m, i).i])
                                                 ELSE Undefined(m)
su_set_local(m, i) ==
  IF Is(m, i, "reference") THEN su_pop([m EXCEPT !.loc[STK(m, i).i] = STK(m, -1)], 1)
                           ELSE Undefined(m)

\* su_stringify(), atof(): numbers are small; what has no text has its type for one.
Digits == <<"0", "1", "2", "3">>
Text(v) == CASE v.t = "string" -> v.s [] v.t = "number" -> <<Digits[v.n + 1]>>
             [] v.t = "boolean" -> IF v.b THEN <<"true">> ELSE <<"false">>
             [] OTHER -> <<v.t>>
Value(s) == IF s # <<>> /\ \E n \in DOMAIN Digits : Digits[n] = s[1]
            THEN (CHOOSE n \in DOMAIN Digits : Digits[n] = s[1]) - 1 ELSE 0

-----------------------------------------------------------------------------
(***************************************************************************)
(* The natives.  Each returns how many values it leaves on the stack.      *)
(***************************************************************************)
Arity == [seq |-> 1, cons |-> 2, first |-> 1, rest |-> 1, vector_length |-> 1,
          vector_index |-> 2, vector_set |-> 3, vector_pop |-> 2, map_length |-> 1,
          map_get |-> 2, map_set |-> 3, map_insert |-> 3, map_remove |-> 2, map_has |-> 2,
          type |-> 1, string |-> 1, number |-> 1, unref |-> 1, ref |-> 2, set |-> 2]
Variadic == {"list", "vector", "vector_push", "map", "print"}
Natives  == DOMAIN Arity \cup Variadic

Ret(m, n) == [m |-> m, ret |-> n]

\* Mutant: the distance of the vector before the copies are made.
vector_set_Unmoved(m) == Ret(su_vector_set(su_copy(su_copy(m, -2), -2), -3), 1)
vector_set(m) == Ret(su_vector_set(su_copy(su_copy(m, -2), -2), -5), 1)
vector_index(m) == Ret(su_vector_index(su_copy(m, -1), -3), 1)
vector_length(m) == Ret(m, 1)        \* the length is not pushed

map_length(m) == IF Is(m, -1, "map") THEN Ret(push_value(m, Number(Cardinality(DOMAIN STK(m, -1).f))), 1)
                                     ELSE Ret(Undefined(m), 1)
map_get(m) == CASE ~Is(m, -2, "map") -> Ret(Undefined(m), 0)
                [] Is(m, -2, "map") /\ su_map_has(m, -2) -> Ret(push_value(m, STK(m, -2).f[STK(m, -1)]), 1)
                [] OTHER -> Ret(m, 0)

\* su_map_has() looks for what is on top, and that is not the key.
map_insert(m) == IF Is(m, -3, "map") /\ su_map_has(m, -3) THEN Ret(Fails(m), 1)
                                                          ELSE Ret(su_map_insert(m, -3), 1)
\* The place under the map is the function's own, and the key is on top.
map_remove(m) == IF ~Is(m, -3, "map") THEN Ret(Undefined(m), 1)
                 ELSE IF ~su_map_has(m, -3) THEN Ret(Fails(m), 1)
                 ELSE Ret(su_map_remove(m, -1), 1)
map_has(m) == IF Is(m, -1, "map") THEN Ret(push_value(m, Bool(su_map_has(m, -1))), 1)
                                  ELSE Ret(Undefined(m), 1)

set(m) == Ret(su_set_local(su_copy(m, -1), -3), 1)

\* With a number of arguments of its own a native has none of their types checked.
Exactly(f, m) ==
  CASE f = "seq"    -> Ret(su_seq(m, -1), 1)
    [] f = "cons"   -> Ret(su_cons(m, -2), 1)
    [] f = "first"  -> Ret(su_first(m, -1), 1)
    [] f = "rest"   -> Ret(su_rest(m, -1), 1)
    [] f = "type"   -> Ret(push_value(m, String(<<STK(m, -1).t>>)), 1)
    [] f = "string" -> Ret(push_value(m, String(Text(STK(m, -1)))), 1)
    [] f = "number" -> IF Is(m, -1, "string") THEN Ret(push_value(m, Number(Value(STK(m, -1).s))), 1)
                                              ELSE Ret(Undefined(m), 1)
    [] f = "unref"  -> Ret(su_unref_local(m, -1), 1)
    [] f = "ref"    -> Ret(su_ref_local(m, -1), 1)
    [] f = "set"    -> set(m)
    [] f = "vector_length" -> vector_length(m)
    [] f = "vector_index"  -> vector_index(m)
    [] f = "vector_set"    -> vector_set(m)
    [] f = "vector_pop"    -> Ret(su_vector_pop(m, -2, -1), 1)
    [] f = "map_length"    -> map_length(m)
    [] f = "map_get"       -> map_get(m)
    [] f = "map_set"       -> Ret(su_map_insert(m, -3), 1)
    [] f = "map_insert"    -> map_insert(m)
    [] f = "map_remove"    -> map_remove(m)
    [] f = "map_has"       -> map_has(m)

\* print_rec() asks for the type of the top: a sequence there is printed in the place
\* of every argument.
Printed(m, n) == [k \in 1 .. n |-> IF Is(m, -1, "sequence") THEN STK(m, -1) ELSE STK(m, k - n - 1)]
RECURSIVE HasNoText(_)
HasNoText(v) == CASE IsCell(v) -> HasNoText(v.first) \/ HasNoText(v.rest)
                  [] IsIt(v)   -> ~OfVector(v)
                  [] v.t = "vector" -> \E k \in DOMAIN v.e : HasNoText(v.e[k])
                  [] OTHER     -> FALSE
print(m, n) == IF \E k \in 1 .. n : HasNoText(Printed(m, n)[k]) THEN Ret(Undefined(m), 0)
               ELSE Ret([m EXCEPT !.out = @ \o Printed(m, n)], 0)

\* check_args() with "at least one": it goes through all arguments but the last, and
\* only the first of them has a type to be compared with.
vector_push(m, n) ==
  IF n = 0 \/ (n > 1 /\ ~Is(m, -n, "vector")) THEN {Ret(Fails(m), 1)}
  ELSE {Ret(su_vector_push(m, -n, n - 1), 1)} \cup (IF n > 2 THEN {Ret(Fails(m), 1)} ELSE {})

\* What may come of a call, su_check_arguments() included.
Outcomes(f, m, n) ==
  CASE f = "list"   -> {IF n > 0 THEN Ret(su_list(m, n), 1) ELSE Ret(m, 0)}
    [] f = "vector" -> {Ret(su_vector(m, n), 1)}
    [] f = "map"    -> {Ret(su_map(m, n), 1)}
    [] f = "print"  -> {print(m, n)}
    [] f = "vector_push" -> vector_push(m, n)
    [] OTHER        -> {IF n = Arity[f] THEN Exactly(f, m) ELSE Ret(Fails(m), 1)}

\* OP_CALL of a vector or a map.
Lookup(m, n) ==
  IF n # 1 THEN Fails(m)
  ELSE IF Is(m, -2, "vector")
  THEN IF ~Is(m, -1, "number") \/ ~InBounds(STK(m, -2), STK(m, -1).n) THEN Fails(m)
       ELSE push_value(su_pop(m, 2), STK(m, -2).e[STK(m, -1).n + 1])
  ELSE IF ~su_map_has(m, -2) THEN Fails(m)
  ELSE push_value(su_pop(m, 2), STK(m, -2).f[STK(m, -1)])

\* OP_CALL of a native: its result takes its place.
Result(r) == IF r.ret = 0 THEN Nil ELSE STK(r.m, -1)

-----------------------------------------------------------------------------
VARIABLES
  value,      \* what the last call has returned
  loc,        \* the contents of references
  call        \* the last call: its function, arguments and status, and what it has printed

libraryVars == <<value, loc, call>>

Begin(f, args) == [stk |-> <<f>> \o args, loc |-> loc, status |-> "running", out |-> <<>>]
Called(f, args, m) ==
  [f |-> f, args |-> args, status |-> m.status, out |-> m.out, nr |-> call.nr + 1]

Init == /\ value \in Starts /\ loc = <<>>
        /\ call = [f |-> Nil, args |-> <<>>, status |-> "running", out |-> <<>>, nr |-> 0]

\* The first argument is what the last call has returned, the others are that or literals.
Arguments(n) == {args \in [1 .. n -> Literals \cup {value}] : n = 0 \/ args[1] = value}
Counts(f) == IF f = "vector_push" THEN 0 .. 3 ELSE IF f \in Variadic THEN 0 .. 2 ELSE {Arity[f]}
KeyPlaces(f, args) ==
  CASE f = "map" -> {k \in DOMAIN args : k % 2 = 1}
    [] f \in {"map_get", "map_set", "map_insert", "map_has", "map_remove"} -> DOMAIN args \cap {2}
    [] OTHER -> {}
Takes(f, args) == \A k \in KeyPlaces(f, args) : IsKey(args[k])
CallNative(f, args) ==
  /\ call.status = "running" /\ call.nr < MaxCalls /\ Takes(f, args)
  /\ \E r \in Outcomes(f, Begin(Native(f), args), Len(args)) :
       /\ value' = IF r.m.status = "running" THEN Result(r) ELSE Nil
       /\ loc' = r.m.loc
       /\ call' = Called(Native(f), args, r.m)
CallValue(v, args) ==
  /\ call.status = "running" /\ call.nr < MaxCalls
  /\ v.t \in {"vector", "map"} /\ (v.t = "map" => \A k \in DOMAIN args : IsKey(args[k]))
  /\ \E m \in {Lookup(Begin(v, args), Len(args))} :
       /\ value' = IF m.status = "running" THEN Last(m.stk) ELSE Nil
       /\ UNCHANGED loc
       /\ call' = Called(v, args, m)

Next == \/ \E f \in Natives : \E n \in Counts(f) : \E args \in Arguments(n) : CallNative(f, args)
        \/ \E n \in 0 .. 2 : \E args \in [1 .. n -> Literals] : CallValue(value, args)
Spec == Init /\ [][Next]_libraryVars

-----------------------------------------------------------------------------
(***************************************************************************)
(* What the library promises.  A sequence stands for its elements, however *)
(* it is kept, and nil for none.  Left out are the natives that do not     *)
(* keep any promise: vector-length gives the vector back, map-insert looks *)
(* for the value among the keys, map-remove and map-has take another place *)
(* of the stack for the map, and the sequence of a string is read as that  *)
(* of a vector.                                                            *)
(***************************************************************************)
RECURSIVE Elements(_), Proper(_)
Elements(q) == IF IsCell(q) THEN <<q.first>> \o Elements(q.rest)
               ELSE IF OfVector(q) THEN SubSeq(q.obj.e, q.idx + 1, Len(q.obj.e)) ELSE <<>>
Proper(q) == q = Nil \/ (OfVector(q) /\ q.idx < Len(q.obj.e)) \/ (IsCell(q) /\ Proper(q.rest))

Of(f) == call'.f = Native(f)
Gives(P) == call'.status = "running" /\ P
A(k) == call'.args[k]
Arg(k, t) == k \in DOMAIN call'.args /\ A(k).t = t
NArgs(n) == Len(call'.args) = n

\* seq, list, cons, first and rest give sequences of the elements they should
\* (libseq.c:27-54, seq.c:31-160).
SequencesPromised ==
  [][ /\ Of("seq") /\ NArgs(1) /\ Arg(1, "vector") => Gives(Elements(value') = A(1).e)
      /\ Of("list") /\ call'.args # <<>> => Gives(Proper(value') /\ Elements(value') = call'.args)
      /\ NArgs(2) /\ Of("cons") /\ Proper(A(1)) =>
           Gives(Proper(value') /\ Elements(value') = <<A(2)>> \o Elements(A(1)))
      /\ NArgs(1) /\ Proper(A(1)) /\ A(1) # Nil =>
           /\ Of("first") => Gives(value' = Head(Elements(A(1))))
           /\ Of("rest")  => Gives(Proper(value') /\ Elements(value') = Tail(Elements(A(1))))
    ]_libraryVars

\* The right argument is used for what it is: natives of vectors, maps, references and
\* text, and calls of vectors and maps (libseq.c:56-179, lib.c:86-177, core.c:1049-1072).
At(v, n) == IF InBounds(v, n) THEN Gives(value' = v.e[n + 1]) ELSE call'.status = "error"
DataPromised ==
  [][ /\ Of("vector") => Gives(value' = Vector(call'.args))
      /\ NArgs(2) /\ Arg(1, "vector") /\ Arg(2, "number") =>
           /\ Of("vector_index") => At(A(1), A(2).n)
           /\ Of("vector_pop") => IF A(2).n > Len(A(1).e) THEN call'.status = "error"
                                  ELSE Gives(value'.e = SubSeq(A(1).e, 1, Len(A(1).e) - A(2).n))
      /\ NArgs(3) /\ Arg(1, "vector") /\ Arg(2, "number") /\ Of("vector_set") =>
           IF InBounds(A(1), A(2).n) THEN Gives(value'.e = [A(1).e EXCEPT ![A(2).n + 1] = A(3)])
                                     ELSE call'.status = "error"
      /\ Of("vector_push") /\ Arg(1, "vector") =>
           \/ Gives(value'.e = A(1).e \o Tail(call'.args))
           \/ Len(call'.args) > 2 /\ call'.status = "error"
      /\ Of("map") /\ NArgs(2) => Gives(value'.f = [k \in {A(1)} |-> A(2)])
      /\ Arg(1, "map") /\ NArgs(1) /\ Of("map_length") =>
           Gives(value' = Number(Cardinality(DOMAIN A(1).f)))
      /\ Arg(1, "map") /\ NArgs(2) /\ Of("map_get") =>
           Gives(value' = IF A(2) \in DOMAIN A(1).f THEN A(1).f[A(2)] ELSE Nil)
      /\ Arg(1, "map") /\ NArgs(3) /\ Of("map_set") =>
           Gives(/\ value'.f[A(2)] = A(3)
                 /\ DOMAIN value'.f = DOMAIN A(1).f \cup {A(2)}
                 /\ \A k \in DOMAIN A(1).f \ {A(2)} : value'.f[k] = A(1).f[k])
      /\ NArgs(1) /\ call'.f.t = "vector" /\ Arg(1, "number") => At(call'.f, A(1).n)
      /\ NArgs(1) /\ call'.f.t = "map" =>
           IF A(1) \in DOMAIN call'.f.f THEN Gives(value' = call'.f.f[A(1)]) ELSE call'.status = "error"
      /\ Of("ref") /\ NArgs(2) => Gives(value' = Local(Len(loc) + 1) /\ loc' = Append(loc, A(2)))
      /\ NArgs(1) /\ Arg(1, "reference") /\ Of("unref") => Gives(value' = loc[A(1).i] /\ loc' = loc)
      /\ NArgs(2) /\ Arg(1, "reference") /\ Of("set") =>
           Gives(value' = A(2) /\ loc' = [loc EXCEPT ![A(1).i] = A(2)])
      /\ Of("number") /\ NArgs(1) /\ (\E n \in 0 .. 3 : A(1) = String(Text(Number(n)))) =>
           Gives(Text(value') = A(1).s)
      /\ Of("print") /\ call'.status = "running" /\ (call'.args # <<>> => Last(call'.args).t # "sequence") =>
           call'.out = call'.args
    ]_libraryVars
=============================================================================
