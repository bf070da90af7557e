----------------------------- MODULE LuaPattern -----------------------------
(***************************************************************************)
(* Pattern matching of the string library of Lua (lstrlib.c), with which   *)
(* the reader takes source text apart (string.find, gmatch).  A text is a  *)
(* sequence of characters, and a place in one the number of the character  *)
(* there; the place after the last is the end.  Matching tries one way     *)
(* after the other, and takes back what it noted about captures when a way *)
(* fails: ms is the list of captures, each with its place and length.      *)
(*                                                                         *)
(* A behaviour is a text and a pattern that is one piece longer at each    *)
(* step.  What a pattern means is said without trying: of all the ways to  *)
(* cut the text into what each item matches, the best is the one in which  *)
(* the first item that can have more, or less if it is lazy, has it.       *)
(***************************************************************************)
EXTENDS Integers, Sequences, SequencesExt

CONSTANTS Texts,     \* the texts
          Parts,     \* pieces of patterns: sequences of items
          MaxParts   \* bound: pieces of a pattern

VARIABLES text, parts
vars == <<text, parts>>

NUL == "NUL"    \* after the last character of a pattern
\* The characters in order, and those that are letters or space.
Alphabet == <<NUL, " ", "$", "%", "(", ")", "*", "+", "-", ".", "1", "?", "[", "]", "^", "a", "b", "c", "f">>
Code(c)  == CHOOSE n \in DOMAIN Alphabet : Alphabet[n] = c
Letters  == {"a", "b", "c", "f"}

CAP_UNFINISHED == -1
CAP_POSITION   == -2
NULL  == 0      \* no match
Error == -1     \* luaL_error

C(p, k) == IF k \in 1 .. Len(p) THEN p[k] ELSE NUL

-----------------------------------------------------------------------------
(* Classes of characters *)

\* The end of a set: where its "]" is, and one more.
RECURSIVE setend(_, _)
setend(p, k) ==
  LET n == IF C(p, k) = "%" /\ C(p, k + 1) # NUL THEN k + 2 ELSE k + 1
  IN  IF C(p, k) = NUL THEN Error ELSE IF C(p, n) = "]" THEN n + 1 ELSE setend(p, n)
classend(p, k) ==
  CASE C(p, k) = "%" -> IF C(p, k + 1) = NUL THEN Error ELSE k + 2
    [] C(p, k) = "[" -> setend(p, IF C(p, k + 1) = "^" THEN k + 2 ELSE k + 1)
    [] OTHER -> k + 1

\* %a, %s and their complements; any other character is itself.
match_class(c, cl) ==
  CASE cl = "a" -> c \in Letters   [] cl = "A" -> c \notin Letters
    [] cl = "s" -> c = " "         [] cl = "S" -> c # " "
    [] OTHER -> cl = c

RECURSIVE InSet(_, _, _, _)
InSet(c, p, k, ec) ==
  /\ k < ec
  /\ IF C(p, k) = "%" THEN match_class(c, C(p, k + 1)) \/ InSet(c, p, k + 2, ec)
     ELSE IF C(p, k + 1) = "-" /\ k + 2 < ec
     THEN Code(c) \in Code(C(p, k)) .. Code(C(p, k + 2)) \/ InSet(c, p, k + 3, ec)
     ELSE C(p, k) = c \/ InSet(c, p, k + 1, ec)
matchbracketclass(c, p, k, ec) ==
  IF C(p, k + 1) = "^" THEN ~InSet(c, p, k + 2, ec) ELSE InSet(c, p, k + 1, ec)

singlematch(c, p, k, ep) ==
  CASE C(p, k) = "." -> TRUE
    [] C(p, k) = "%" -> match_class(c, C(p, k + 1))
    [] C(p, k) = "[" -> matchbracketclass(c, p, k, ep - 1)
    [] OTHER -> C(p, k) = c

-----------------------------------------------------------------------------
(* Matching: e is where a match ends, or NULL, or Error *)

Result(e, ms) == [e |-> e, ms |-> ms]
Failed(r) == r.e = NULL

\* %b: behind the character that balances the one at s.
RECURSIVE Balance(_, _, _, _, _)
Balance(t, s, b, e, cont) ==
  IF s > Len(t) THEN NULL
  ELSE IF t[s] = e THEN IF cont = 1 THEN s + 1 ELSE Balance(t, s + 1, b, e, cont - 1)
  ELSE Balance(t, s + 1, b, e, IF t[s] = b THEN cont + 1 ELSE cont)
matchbalance(t, s, p, k) ==
  IF C(p, k) = NUL \/ C(p, k + 1) = NUL THEN Error
  ELSE IF C(t, s) # C(p, k) THEN NULL ELSE Balance(t, s + 1, C(p, k), C(p, k + 1), 1)

\* What capture number d holds, at s again.
match_capture(t, ms, s, d) ==
  IF d \notin DOMAIN ms \/ ms[d].len = CAP_UNFINISHED THEN Error
  ELSE IF ms[d].len # CAP_POSITION /\ Len(t) + 1 - s >= ms[d].len
          /\ \A n \in 0 .. ms[d].len - 1 : t[s + n] = t[ms[d].init + n]
  THEN s + ms[d].len ELSE NULL

RECURSIVE match(_, _, _, _, _)

start_capture(t, p, ms, s, k, what) ==
  LET r == match(t, p, Append(ms, [init |-> s, len |-> what]), s, k)
  IN  IF Failed(r) THEN Result(NULL, Front(r.ms)) ELSE r

capture_to_close(ms) ==
  LET open == {n \in DOMAIN ms : ms[n].len = CAP_UNFINISHED} IN IF open = {} THEN Error ELSE Max(open)
\* A capture stays closed when what follows does not match.
end_capture_Kept(t, p, ms, s, k) ==
  LET n == capture_to_close(ms)
  IN  IF n = Error THEN Result(Error, ms) ELSE match(t, p, [ms EXCEPT ![n].len = s - ms[n].init], s, k)
end_capture(t, p, ms, s, k) ==
  LET n == capture_to_close(ms)
      r == match(t, p, [ms EXCEPT ![n].len = s - ms[n].init], s, k)
  IN  IF n = Error THEN Result(Error, ms)
      ELSE IF Failed(r) THEN Result(NULL, [r.ms EXCEPT ![n].len = CAP_UNFINISHED]) ELSE r
\* As often as possible, and once less each time the rest does not match.
RECURSIVE Often(_, _, _, _, _), Less(_, _, _, _, _, _)
Often(t, p, s, k, ep) ==
  IF s <= Len(t) /\ singlematch(t[s], p, k, ep) THEN 1 + Often(t, p, s + 1, k, ep) ELSE 0
Less(t, p, ms, s, ep, i) ==
  LET r == match(t, p, ms, s + i, ep + 1)
  IN  IF Failed(r) /\ i > 0 THEN Less(t, p, r.ms, s, ep, i - 1) ELSE r
max_expand(t, p, ms, s, k, ep) == Less(t, p, ms, s, ep, Often(t, p, s, k, ep))

RECURSIVE min_expand(_, _, _, _, _, _)
min_expand(t, p, ms, s, k, ep) ==
  LET r == match(t, p, ms, s, ep + 1)
  IN  IF Failed(r) /\ s <= Len(t) /\ singlematch(t[s], p, k, ep)
      THEN min_expand(t, p, r.ms, s + 1, k, ep) ELSE r

\* What is left of the pattern at k, if the match goes on at e.
On(t, p, ms, e, k) == IF e \in {NULL, Error} THEN Result(e, ms) ELSE match(t, p, ms, e, k)

frontier(t, p, ms, s, k) ==
  LET ep == classend(p, k)
  IN  IF C(p, k) # "[" \/ ep = Error THEN Result(Error, ms)
      ELSE IF matchbracketclass(C(t, s - 1), p, k, ep - 1) \/ ~matchbracketclass(C(t, s), p, k, ep - 1)
      THEN Result(NULL, ms) ELSE match(t, p, ms, s, ep)

\* An item: a class of characters, and how often.
Item(t, p, ms, s, k) ==
  LET ep == classend(p, k)
      m  == s <= Len(t) /\ singlematch(t[s], p, k, ep)
      one == match(t, p, ms, s + 1, ep + 1)
  IN  IF ep = Error THEN Result(Error, ms)
      ELSE CASE C(p, ep) = "?" -> IF m /\ ~Failed(one) THEN one
                                  ELSE match(t, p, IF m THEN one.ms ELSE ms, s, ep + 1)
             [] C(p, ep) = "*" -> max_expand(t, p, ms, s, k, ep)
             [] C(p, ep) = "+" -> IF m THEN max_expand(t, p, ms, s + 1, k, ep) ELSE Result(NULL, ms)
             [] C(p, ep) = "-" -> min_expand(t, p, ms, s, k, ep)
             [] OTHER -> IF m THEN match(t, p, ms, s + 1, ep) ELSE Result(NULL, ms)

Digits == [c \in {"1"} |-> 1]
match(t, p, ms, s, k) ==
  CASE C(p, k) = "(" -> IF C(p, k + 1) = ")" THEN start_capture(t, p, ms, s, k + 2, CAP_POSITION)
                                             ELSE start_capture(t, p, ms, s, k + 1, CAP_UNFINISHED)
    [] C(p, k) = ")" -> end_capture(t, p, ms, s, k + 1)
    [] C(p, k) = "%" /\ C(p, k + 1) = "b" -> On(t, p, ms, matchbalance(t, s, p, k + 2), k + 4)
    [] C(p, k) = "%" /\ C(p, k + 1) = "f" -> frontier(t, p, ms, s, k + 2)
    [] C(p, k) = "%" /\ C(p, k + 1) \in DOMAIN Digits ->
         On(t, p, ms, match_capture(t, ms, s, Digits[C(p, k + 1)]), k + 2)
    [] C(p, k) = NUL -> Result(s, ms)
    [] C(p, k) = "$" /\ C(p, k + 1) = NUL -> Result(IF s = Len(t) + 1 THEN s ELSE NULL, ms)
    [] OTHER -> Item(t, p, ms, s, k)

-----------------------------------------------------------------------------
(* The functions of the library: sequences of values, or Failure *)

Failure == <<"error">>
Nothing == <<"nil">>
Place(n) == <<"place", n>>

push_onecapture(t, ms, n, s, e) ==
  IF n > Len(ms) THEN IF n = 1 THEN SubSeq(t, s, e - 1) ELSE Failure
  ELSE CASE ms[n].len = CAP_UNFINISHED -> Failure
         [] ms[n].len = CAP_POSITION   -> Place(ms[n].init)
         [] OTHER -> SubSeq(t, ms[n].init, ms[n].init + ms[n].len - 1)
\* The captures of a match, or for match, gmatch and gsub all of it if it has none.
push_captures(t, ms, whole, s, e) ==
  [n \in 1 .. (IF ms = <<>> /\ whole THEN 1 ELSE Len(ms)) |-> push_onecapture(t, ms, n, s, e)]
Given(values) == IF Failure \in Range(values) THEN Failure ELSE values

posrelat(pos, len) == IF pos < 0 THEN (IF pos + len + 1 >= 0 THEN pos + len + 1 ELSE 0) ELSE pos

\* A text s2 in s1, from k on: memchr for its first character, memcmp for the others.
RECURSIVE lmemfind(_, _, _)
lmemfind(s1, k, s2) ==
  LET first == {n \in k .. Len(s1) - Len(s2) + 1 : s1[n] = s2[1]}
  IN  IF s2 = <<>> THEN k
      ELSE IF first = {} THEN NULL
      ELSE IF SubSeq(s1, Min(first), Min(first) + Len(s2) - 1) = s2 THEN Min(first)
      ELSE lmemfind(s1, Min(first) + 1, s2)

SPECIALS == {"^", "$", "*", "+", "?", ".", "(", "[", "%", "-"}

\* The first place from s on at which the pattern matches, if it need not be at s.
RECURSIVE Search(_, _, _, _, _)
Search(t, p, s, k, anchor) ==
  LET r == match(t, p, <<>>, s, k)
  IN  IF Failed(r) /\ s <= Len(t) /\ ~anchor THEN Search(t, p, s + 1, k, anchor)
      ELSE [s |-> s, e |-> r.e, ms |-> r.ms]

\* What find and match give for a search.
FindResult(t, find, r) ==
  CASE r.e = Error -> Failure
    [] r.e = NULL  -> Nothing
    [] OTHER -> Given((IF find THEN <<Place(r.s), Place(r.e - 1)>> ELSE <<>>) \o push_captures(t, r.ms, ~find, r.s, r.e))
PlainResult(p, n) == IF n = NULL THEN Nothing ELSE <<Place(n), Place(n + Len(p) - 1)>>
str_find_aux(t, p, start, find, plain) ==
  LET pos    == posrelat(start, Len(t))
      init   == IF pos < 1 THEN 1 ELSE IF pos > Len(t) + 1 THEN Len(t) + 1 ELSE pos
      anchor == C(p, 1) = "^"
  IN  IF find /\ (plain \/ Range(p) \intersect SPECIALS = {})
      THEN PlainResult(p, lmemfind(t, init, p))
      ELSE FindResult(t, find, Search(t, p, init, IF anchor THEN 2 ELSE 1, anchor))

\* All that an iterator of gmatch gives, from s on, and from a match on.
RECURSIVE gmatch_aux(_, _, _), Following(_, _, _)
Following(t, p, r) ==
  LET values == Given(push_captures(t, r.ms, TRUE, r.s, r.e))
  IN  CASE r.e = NULL -> <<>>
        [] r.e = Error \/ values = Failure -> <<Failure>>
        [] OTHER -> <<values>> \o gmatch_aux(t, p, IF r.e = r.s THEN r.e + 1 ELSE r.e)
gmatch_aux(t, p, s) == IF s > Len(t) + 1 THEN <<>> ELSE Following(t, p, Search(t, p, s, 1, FALSE))

\* The text to put in for a match: %1 stands for a capture, %0 for all of the match.
RECURSIVE add_s(_, _, _, _, _)
add_s(t, new, ms, s, e) ==
  IF new = <<>> THEN <<>>
  ELSE IF new[1] # "%" THEN <<<<new[1]>>>> \o add_s(t, Tail(new), ms, s, e)
  ELSE <<CASE C(new, 2) = "0" -> SubSeq(t, s, e - 1)
           [] C(new, 2) \in DOMAIN Digits -> push_onecapture(t, ms, Digits[new[2]], s, e)
           [] OTHER -> <<C(new, 2)>>>> \o add_s(t, SubSeq(new, 3, Len(new)), ms, s, e)

\* gsub with a text to put in: what it makes of the text from s on, and how often.
RECURSIVE Substitute(_, _, _, _, _, _), Replace(_, _, _, _, _, _, _)
Replace(t, p, k, new, s, max, r) ==
  LET put  == add_s(t, new, r.ms, s, r.e)
      next == IF ~Failed(r) /\ r.e > s THEN r.e ELSE s + 1
      kept == IF (Failed(r) \/ r.e = s) /\ s <= Len(t) THEN <<t[s]>> ELSE <<>>
      rest == IF next > Len(t) + 1 \/ C(p, 1) = "^"
              THEN [text |-> SubSeq(t, next, Len(t)), n |-> 0]
              ELSE Substitute(t, p, k, new, next, IF Failed(r) THEN max ELSE max - 1)
  IN  IF r.e = Error \/ rest.n = Error \/ (~Failed(r) /\ Failure \in Range(put)) THEN [text |-> <<>>, n |-> Error]
      ELSE [text |-> (IF Failed(r) THEN <<>> ELSE FlattenSeq(put)) \o kept \o rest.text,
            n |-> rest.n + (IF Failed(r) THEN 0 ELSE 1)]
Substitute(t, p, k, new, s, max) ==
  IF max = 0 THEN [text |-> SubSeq(t, s, Len(t)), n |-> 0]
  ELSE Replace(t, p, k, new, s, max, match(t, p, <<>>, s, k))
str_gsub(t, p, new, max) == Substitute(t, p, IF C(p, 1) = "^" THEN 2 ELSE 1, new, 1, max)

-----------------------------------------------------------------------------
(* Patterns and texts *)

\* An item: its kind, how it is written, the characters it is about, how often.
One(src, set, rep) == [k |-> "one", src |-> src, set |-> set, rep |-> rep]
Other(k, src)      == [k |-> k, src |-> src]

Items   == FlattenSeq(parts)
Pattern == FlattenSeq([n \in DOMAIN Items |-> Items[n].src])

Init == text \in Texts /\ parts = <<>>
Next == /\ Len(parts) < MaxParts
        /\ \E x \in Parts : parts' = Append(parts, x)
        /\ UNCHANGED text
Spec == Init /\ [][Next]_vars

-----------------------------------------------------------------------------
(* The meaning of a pattern *)

Opens(n)   == Items[n].k \in {"open", "place"}
\* The item that closes the capture that item n opens, 0 if none does.
Depth(m, n) == Cardinality({x \in m .. n : Items[x].k = "open"}) - Cardinality({x \in m .. n : Items[x].k = "close"})
Closer(n)  == LET c == {x \in n .. Len(Items) : Depth(n, x) = 0} IN IF c = {} THEN 0 ELSE Min(c)

\* Every ")" closes something that is not empty, "$" is last, and %1 is behind the
\* first capture.
WellFormed ==
  \A n \in DOMAIN Items :
    /\ Depth(1, n) >= 0
    /\ Items[n].k = "end" => n = Len(Items)
    /\ Items[n].k = "close" => Items[n - 1].k # "open"
    /\ Items[n].k = "back" =>
         \E m \in 1 .. n - 1 : /\ Opens(m) /\ \A x \in 1 .. m - 1 : ~Opens(x)
                               /\ Items[m].k = "open" => Closer(m) \in 1 .. n - 1
First1 == CHOOSE m \in DOMAIN Items : Opens(m) /\ \A x \in 1 .. m - 1 : ~Opens(x)

\* Whether item n may go from q[n] to y.
Often1 == [one |-> {1}, star |-> Nat, plus |-> Nat \ {0}, lazy |-> Nat, maybe |-> {0, 1}]
Count(x, from, to) == Cardinality({z \in from .. to : text[z] = x})
Fits(n, q, y) ==
  LET it == Items[n] s == q[n] IN
  CASE it.k = "one" -> y - s \in Often1[it.rep] /\ \A z \in s .. y - 1 : text[z] \in it.set
    [] it.k \in {"open", "close", "place"} -> y = s
    [] it.k = "end" -> y = s /\ s = Len(text) + 1
    [] it.k = "back" -> /\ Items[First1].k = "open"
                        /\ SubSeq(text, s, y - 1) = SubSeq(text, q[First1], q[Closer(First1)] - 1)
    [] it.k = "balance" ->
         LET level(z) == Count(it.b, s, z) - Count(it.e, s, z)
         IN  /\ s < y /\ text[s] = it.b /\ level(y - 1) = 0
             /\ \A z \in s .. y - 2 : level(z) > 0
    [] it.k = "frontier" -> y = s /\ C(text, s - 1) \notin it.set /\ C(text, s) \in it.set

\* The ways from s through the first n items.
RECURSIVE Ways(_, _)
Ways(s, n) ==
  IF n = 0 THEN {<<s>>}
  ELSE UNION {{Append(q, y) : y \in {z \in q[n] .. Len(text) + 1 : Fits(n, q, z)}} : q \in Ways(s, n - 1)}
Lazy(n)  == Items[n].k = "one" /\ Items[n].rep = "lazy"
Better(q, r) == \E n \in DOMAIN Items : /\ \A m \in 1 .. n : q[m] = r[m]
                                        /\ IF Lazy(n) THEN q[n + 1] < r[n + 1] ELSE q[n + 1] > r[n + 1]
Best(W) == CHOOSE q \in W : \A r \in W \ {q} : Better(q, r)

Captured(q) ==
  LET opening == SetToSortSeq({n \in DOMAIN Items : Opens(n)}, <)
      value(n) == IF Items[n].k = "place" THEN Place(q[n])
                  ELSE IF Closer(n) = 0 THEN Failure ELSE SubSeq(text, q[n], q[Closer(n)] - 1)
  IN  [x \in DOMAIN opening |-> value(opening[x])]

\* The first place from s on from which there is a way, and the best way from there.
NoWay == <<>>
WayFrom(s) == LET starts == {x \in s .. Len(text) + 1 : Ways(x, Len(Items)) # {}}
              IN  IF starts = {} THEN NoWay ELSE Best(Ways(Min(starts), Len(Items)))
Whole(q)   == SubSeq(text, q[1], Last(q) - 1)
Values1(q) == IF Captured(q) = <<>> THEN <<Whole(q)>> ELSE Captured(q)
Found(q)   == IF q = NoWay THEN Nothing ELSE Given(<<Place(q[1]), Place(Last(q) - 1)>> \o Captured(q))
Matched(q) == IF q = NoWay THEN Nothing ELSE Given(Values1(q))
Anchored(q, s) == IF q # NoWay /\ q[1] = s THEN Found(q) ELSE Nothing

\* All matches from s on, each behind the one before.
RECURSIVE All(_)
All(s) == LET q == WayFrom(s)
          IN  IF q = NoWay THEN <<>>
              ELSE <<q>> \o All(IF Last(q) = q[1] THEN Last(q) + 1 ELSE Last(q))

\* A text without magic is looked for as it is.
Occurs(p, s) == {x \in s .. Len(text) - Len(p) + 1 : SubSeq(text, x, x + Len(p) - 1) = p}
FoundPlain(p, s) == IF Occurs(p, s) = {} THEN Nothing
                    ELSE <<Place(Min(Occurs(p, s))), Place(Min(Occurs(p, s)) + Len(p) - 1)>>

-----------------------------------------------------------------------------
\* Where a search begins, if it is asked to begin at x.
Start(x) == IF x < 0 THEN Max({1, Len(text) + 1 + x}) ELSE IF x = 0 THEN 1 ELSE Min({x, Len(text) + 1})

\* find and match give the best way from the first place there is one, whatever was
\* tried before it and noted in the captures, gmatch and gsub all matches one after
\* the other, none empty where the last one began (lstrlib.c:186-536, 548-572, 590-684).
Finds ==
  WellFormed =>
    /\ \A x \in {-2, 0, 3, 9} :
         LET way == WayFrom(Start(x)) IN
         /\ str_find_aux(text, Pattern, x, TRUE, FALSE) = Found(way)
         /\ str_find_aux(text, Pattern, x, FALSE, FALSE) = Matched(way)
         /\ str_find_aux(text, <<"^">> \o Pattern, x, TRUE, FALSE) = Anchored(way, Start(x))
         /\ str_find_aux(text, Pattern, x, TRUE, TRUE) = FoundPlain(Pattern, Start(x))
    /\ LET all == All(1)
           given == [n \in DOMAIN all |-> Given(Values1(all[n]))]
       IN  IF Failure \in Range(given)
           THEN gmatch_aux(text, Pattern, 1) = <<Failure>>
           ELSE /\ gmatch_aux(text, Pattern, 1) = given
                /\ str_gsub(text, Pattern, <<"%", "0">>, Len(text) + 1) = [text |-> text, n |-> Len(all)]
=============================================================================
