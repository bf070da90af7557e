------------------------------ MODULE MCReader ------------------------------
(***************************************************************************)
(* SaurusReader on every short text, and on trees that are written out in  *)
(* several layouts and have to come back, each atom and each bracket with  *)
(* the number of its line.                                                 *)
(***************************************************************************)
EXTENDS SaurusReader

\* A tree to be written: an atom, or a bracket or mark with what it holds.
Atom(chars)    == [kind |-> "atom", chars |-> chars]
Literal(chars) == [kind |-> "string", chars |-> chars]
Branch(ch, ts) == [kind |-> ch, sub |-> ts]

Closing == [ch \in Openers |-> CASE ch = "(" -> ")" [] ch = "[" -> "]" [] ch = "{" -> "}"]
NewLines(chars) == Len(SelectSeq(chars, LAMBDA ch : ch = NL))
Escaped(ch) == IF ch \in {"\"", "^"} THEN <<"^", ch>> ELSE <<ch>>

\* The text of a token and what separates it from the next.
Put(w, chars, sep) == [w EXCEPT !.text = @ \o chars \o sep,
                                !.line = @ + NewLines(chars) + NewLines(sep)]
Add(w, t) == [w EXCEPT !.data = Append(@, t)]

\* w.data is what has been written, as the reader should return it; the names that
\* the reader puts in have no line.
RECURSIVE Write(_, _, _)
WriteBranch(w, t, inside, sep) ==
  IF t.kind \in Marks
  THEN Add([inside EXCEPT !.data = w.data], Sexp(<<Symbol(Heads[t.kind], 0)>> \o inside.data, w.line))
  ELSE Add(Put([inside EXCEPT !.data = w.data], <<Closing[t.kind]>>, sep),
           Sexp((IF t.kind = "(" THEN <<>> ELSE <<Symbol(Heads[t.kind], 0)>>) \o inside.data, w.line))
WriteString(w, t, sep, end) ==
  Add(Put(w, <<"\"">> \o FlattenSeq([k \in DOMAIN t.chars |-> Escaped(t.chars[k])]) \o <<"\"">>, sep),
      Sexp(<<Symbol(<<"quote">>, 0), Symbol(t.chars, end)>>, end))
Write(w, t, sep) ==
  CASE t.kind = "atom"   -> Add(Put(w, t.chars, sep),
                                IF IsNumber(t.chars) THEN Number(t.chars, w.line)
                                                     ELSE Symbol(t.chars, w.line))
    [] t.kind = "string" -> WriteString(w, t, sep, w.line + NewLines(t.chars))
    [] OTHER -> WriteBranch(w, t,
                  FoldLeft(LAMBDA v, s : Write(v, s, sep), Put([w EXCEPT !.data = <<>>], <<t.kind>>, sep),
                           t.sub), sep)

Opening == <<Symbol(<<"l", "a", "m", "b", "d", "a">>, 1), Sexp(<<Symbol(<<".", ".", ".">>, 1)>>, 1)>>
Source(ts, sep) ==
  LET w == FoldLeft(LAMBDA v, t : Write(v, t, sep), [text |-> <<>>, line |-> 1, data |-> <<>>], ts)
  IN [text |-> w.text, tree |-> Sexp(Opening \o w.data, 1)]

Seps  == {<<" ">>, <<NL>>, <<" ", ";", "(", NL>>}
Small == {Atom(<<"a">>), Atom(<<"1", "2">>), Literal(<<"\"", NL, "^">>)}
Flat  == Small \cup {Branch(ch, ts) : ch \in Openers, ts \in {<<>>} \cup {<<a>> : a \in Small}}
               \cup {Branch(ch, <<a>>) : ch \in Marks, a \in Small}
Trees == {<<>>} \cup {<<t>> : t \in Flat}
           \cup {<<Branch(ch, <<t>>), Atom(<<"a">>)>> : ch \in Marks, t \in Flat}
           \cup {<<Branch(ch, <<t, u>>)>> : ch \in Openers, t \in Flat, u \in Small}
Written == {Source(ts, sep) : ts \in Trees, sep \in Seps}

Chars  == {"(", ")", "[", "'", ";", NL, "a", "\""}
Others == {[text |-> t, tree |-> Nil] : t \in UNION {[1 .. n -> Chars] : n \in 0 .. 4}}
Sources == Written \cup Others
NoText == [text |-> <<>>, tree |-> Nil]

VARIABLE source

\* A tree without the lines of the names that the reader puts in.
RECURSIVE Plain(_)
Plain(t) ==
  IF t.type = "SEXP" THEN [t EXCEPT !.data = [k \in DOMAIN @ |-> Plain(@[k])]]
  ELSE IF t.type = "SYMBOL" /\ t.atom \in {Heads[ch] : ch \in DOMAIN Heads} THEN [t EXCEPT !.line = 0]
  ELSE t

\* What is written is read back, in every layout, with the right lines.
ReadBack == (status # "reading" /\ source.tree # Nil) => (status = "done" /\ Plain(tree) = source.tree)
=============================================================================
