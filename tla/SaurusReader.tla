----------------------------- MODULE SaurusReader -----------------------------
(***************************************************************************)
(* The reader of source text: read.lua on a stream of stream.lua, which    *)
(* puts "(lambda (...) " before the text of a file and ")" behind it       *)
(* (entry.lua:34).  A step reads one token and does all that follows until *)
(* the next is wanted.  The recursion of read_sexp() and read_list() is    *)
(* the sequence calls.                                                     *)
(*                                                                         *)
(* A character is a string of length one, NL the newline; a name that the  *)
(* reader itself puts in counts as one character.  A token is a special    *)
(* character, EOF, or an element of the tree.                              *)
(***************************************************************************)
EXTENDS Integers, Sequences, SequencesExt

CONSTANTS Texts      \* sequences of characters

NL  == "\n"
EOF == "eof"
Nil == [type |-> "NIL"]
Digits  == {"0", "1", "2"}
Spaces  == {" ", NL}
Openers == {"(", "[", "{"}
Closers == {")", "]", "}"}
Marks   == {"'", ",", "@"}
SPECIAL_CHARS == Openers \cup Closers \cup Marks
STRINGBOUND_CHAR == "\""
STRINGESC_CHAR   == "^"
COMMENT_CHAR     == ";"

Prefix  == <<"(", "l", "a", "m", "b", "d", "a", " ", "(", ".", ".", ".", ")", " ">>
Postfix == <<")">>

Symbol(atom, line) == [type |-> "SYMBOL", atom |-> atom, line |-> line]
Number(atom, line) == [type |-> "NUMBER", atom |-> atom, line |-> line]
Sexp(data, line)   == [type |-> "SEXP", data |-> data, line |-> line]
Special(ch)        == [type |-> "CHAR", atom |-> ch]       \* or EOF
IsSpecial(tok, chars) == tok.type = "CHAR" /\ tok.atom \in chars

VARIABLES
  text,       \* of the file
  stream,     \* prefix, postfix: what is left of them; pos: characters read of the
              \* file; cache: <<>> or the character that was unread; line
  calls,      \* activations of read_sexp: old (oldtok), lst, entered, lv
  num_sexp,
  status,     \* "reading", "done", "error"
  tree        \* what read() has returned

vars == <<text, stream, calls, num_sexp, status, tree>>

\* read() of the stream that start() makes of a file (entry.lua:34).
Begin(file) ==
  /\ text = file
  /\ stream = [prefix |-> Prefix, postfix |-> Postfix, pos |-> 0, cache |-> <<>>, line |-> 1]
  /\ calls = <<>> /\ num_sexp = 0 /\ status = "reading" /\ tree = Nil
Init == \E file \in Texts : Begin(file)

-----------------------------------------------------------------------------
(***************************************************************************)
(* The stream.  Operators take a stream and give what was read with the    *)
(* stream after it.                                                        *)
(***************************************************************************)
Lines(ch) == IF ch = NL THEN 1 ELSE 0
Got(s, ch) == [s |-> s, ch |-> ch]

Read(s) ==
  CASE s.cache # <<>>    -> Got([s EXCEPT !.cache = <<>>, !.line = @ + Lines(s.cache[1])], s.cache[1])
    [] s.cache = <<>> /\ s.prefix # <<>> -> Got([s EXCEPT !.prefix = Tail(@)], Head(s.prefix))
    [] s.cache = <<>> /\ s.prefix = <<>> /\ s.pos < Len(text) ->
         Got([s EXCEPT !.pos = @ + 1, !.line = @ + Lines(text[s.pos + 1])], text[s.pos + 1])
    [] OTHER -> IF s.postfix = <<>> THEN Got(s, EOF)
                ELSE Got([s EXCEPT !.postfix = Tail(@)], Head(s.postfix))

\* Mutant: the line is not counted back.
Unread_Forward(s, ch) == [s EXCEPT !.cache = <<ch>>]
Unread(s, ch) == [s EXCEPT !.cache = <<ch>>, !.line = @ - Lines(ch)]

RECURSIVE ReadSpace(_), ReadComment(_), ReadAtom(_, _), ReadString(_, _, _)
AfterSpace(r)   == IF r.ch \in Spaces THEN ReadSpace(r.s) ELSE r
ReadSpace(s)    == AfterSpace(Read(s))
AfterComment(r) == IF r.ch \in {NL, EOF} THEN r.s ELSE ReadComment(r.s)
ReadComment(s)  == AfterComment(Read(s))

\* At the end of the stream nothing is returned, and what was read is dropped.
EndsAtom == SPECIAL_CHARS \cup Spaces \cup {COMMENT_CHAR, STRINGBOUND_CHAR}
\* Mutant: the character after the atom is lost.
AfterAtom_Swallow(r, str) ==
  IF r.ch = EOF THEN Got(r.s, <<>>)
  ELSE IF r.ch \in EndsAtom THEN Got(r.s, str)
  ELSE ReadAtom(r.s, Append(str, r.ch))
AfterAtom(r, str) ==
  IF r.ch = EOF THEN Got(r.s, <<>>)
  ELSE IF r.ch \in EndsAtom THEN Got(Unread(r.s, r.ch), str)
  ELSE ReadAtom(r.s, Append(str, r.ch))
ReadAtom(s, str) == AfterAtom(Read(s), str)

\* read_string_esc(); "^!" chooses the character the string ends with.
Escapes == [ch \in {"\"", "n", "r", "t", "^"} |->
              CASE ch = "n" -> NL [] ch = "r" -> "\r" [] ch = "t" -> "\t" [] OTHER -> ch]
NewBound(r, str) == IF r.ch = EOF THEN Got(r.s, EOF) ELSE ReadString(r.s, r.ch, str)
ReadStringEsc(r, bound, str) ==
  IF r.ch \in DOMAIN Escapes THEN ReadString(r.s, bound, Append(str, Escapes[r.ch]))
  ELSE IF r.ch = "!" THEN NewBound(Read(r.s), str)
  ELSE Got(r.s, EOF)
AfterString(r, bound, str) ==
  CASE r.ch = EOF              -> Got(r.s, EOF)
    [] r.ch = STRINGESC_CHAR   -> ReadStringEsc(Read(r.s), bound, str)
    [] r.ch \notin {EOF, STRINGESC_CHAR, bound} -> ReadString(r.s, bound, Append(str, r.ch))
    [] OTHER                   -> Got(r.s, str)
ReadString(s, bound, str) == AfterString(Read(s), bound, str)

\* A token and the stream after it; a string that does not end is an error.
Token(s, tok, ok) == [s |-> s, tok |-> tok, ok |-> ok]
StringToken(r) ==
  IF r.ch = EOF THEN Token(r.s, Nil, FALSE)
  ELSE Token(r.s, Sexp(<<Symbol(<<"quote">>, r.s.line), Symbol(r.ch, r.s.line)>>, r.s.line), TRUE)
IsNumber(str) == \A i \in 1 .. Len(str) : str[i] \in Digits
AtomToken(s, name) == Token(s, IF IsNumber(name) THEN Number(name, s.line) ELSE Symbol(name, s.line), TRUE)
AtomFrom(ch, r) == AtomToken(r.s, <<ch>> \o r.ch)

RECURSIVE NextToken(_)
TokenFrom(r) ==
  CASE r.ch = COMMENT_CHAR     -> NextToken(ReadComment(r.s))
    [] r.ch = STRINGBOUND_CHAR -> StringToken(ReadString(r.s, STRINGBOUND_CHAR, <<>>))
    [] r.ch \in SPECIAL_CHARS \cup {EOF} -> Token(r.s, Special(r.ch), TRUE)
    [] OTHER                   -> AtomFrom(r.ch, ReadAtom(r.s, <<>>))
NextToken(s) == TokenFrom(ReadSpace(s))

-----------------------------------------------------------------------------
(***************************************************************************)
(* The parser.  The stream's line is the one after the token.              *)
(***************************************************************************)
Heads == [ch \in {"[", "{", "'", ",", "@"} |->
            CASE ch = "[" -> <<"vector">> [] ch = "{" -> <<"map">> [] ch = "'" -> <<"quote">>
              [] ch = "," -> <<"unquote">> [] OTHER -> <<"unref">>]

Enter(ch, line) == [old |-> ch, lst |-> Sexp(<<>>, line), entered |-> FALSE, lv |-> 0]
State(st, cs, n, t) == [status |-> st, calls |-> cs, num |-> n, tree |-> t]
Failed == State("error", <<>>, num_sexp, Nil)

\* read_sexp() returns v, which may be Nil, to the youngest of cs.
RECURSIVE Return(_, _, _, _)
ReturnTo(c, older, n, v, line) ==
  CASE c.old \in Marks /\ v = Nil -> Return(older, n, Nil, line)
    [] c.old \in Marks /\ v # Nil ->
         Return(older, n, [c.lst EXCEPT !.data = <<Symbol(Heads[c.old], line), v>>], line)
    [] c.old \in Openers /\ v # Nil ->
         State("reading", Append(older, [c EXCEPT !.lst.data = Append(@, v)]), n, Nil)
    [] OTHER -> IF n = c.lv THEN Return(older, n, c.lst, line) ELSE Failed
Return(cs, n, v, line) ==
  IF cs = <<>> THEN State("done", <<>>, n, v)
  ELSE ReturnTo(Last(cs), Front(cs), n, v, line)

\* The end of read_list() by a closing bracket, of whatever kind.
Close(cs, n, line) == IF n - 1 = Last(cs).lv THEN Return(Front(cs), n - 1, Last(cs).lst, line)
                                             ELSE Failed

\* What read_sexp() does when it has its second token: num_sexp counts open brackets.
Entered(c, line) ==
  IF c.entered THEN c
  ELSE [c EXCEPT !.entered = TRUE, !.lv = num_sexp,
                 !.lst.data = IF c.old \in {"[", "{"} THEN <<Symbol(Heads[c.old], line)>> ELSE @]

First(tok, line) ==
  IF IsSpecial(tok, SPECIAL_CHARS) THEN State("reading", <<Enter(tok.atom, line)>>, num_sexp, Nil)
  ELSE State("done", <<>>, num_sexp, IF IsSpecial(tok, {EOF}) THEN Nil ELSE tok)

\* n counts the bracket that the youngest activation stands for, as num_sexp does
\* once its second token is there.
Later(tok, line, older, top, n) ==
  CASE IsSpecial(tok, {EOF}) ->
         IF top.entered THEN Return(Append(older, top), num_sexp, Nil, line)
                        ELSE Return(older, num_sexp, Nil, line)
    [] top.old \in Closers /\ ~IsSpecial(tok, {EOF}) -> Failed
    [] top.old \in Openers /\ IsSpecial(tok, Closers) ->
         Close(Append(older, Entered(top, line)), n, line)
    [] OTHER -> IF IsSpecial(tok, SPECIAL_CHARS)
                THEN State("reading", older \o <<Entered(top, line), Enter(tok.atom, line)>>, n, Nil)
                ELSE Return(Append(older, Entered(top, line)), n, tok, line)

Handle(t) ==
  IF ~t.ok THEN Failed
  ELSE IF calls = <<>> THEN First(t.tok, t.s.line)
  ELSE Later(t.tok, t.s.line, Front(calls), Last(calls),
             num_sexp + (IF Last(calls).entered \/ Last(calls).old \notin Openers THEN 0 ELSE 1))

Become(h) == status' = h.status /\ calls' = h.calls /\ num_sexp' = h.num /\ tree' = h.tree
Step == /\ status = "reading"
        /\ \E t \in {NextToken(stream)} : stream' = t.s /\ \E h \in {Handle(t)} : Become(h)
        /\ UNCHANGED text

Next == Step

-----------------------------------------------------------------------------
(***************************************************************************)
(* What a file should be read as: one pass over its characters, with the   *)
(* number of brackets that are open.  The bracket of the prefix is closed  *)
(* by the postfix, or by a closer too many in the file: then the rest of   *)
(* the file is dropped, at is where.  A mark must have something to mark.  *)
(***************************************************************************)
Judge(j, ch) ==
  IF j.end # "none" THEN j
  ELSE LET k == [j EXCEPT !.at = @ + 1]
       IN CASE j.mode = "comment" -> IF ch = NL THEN [k EXCEPT !.mode = "code"] ELSE k
            [] j.mode = "string"  -> [k EXCEPT !.mode = CASE ch = "\"" -> "code" [] ch = "^" -> "escape"
                                                          [] OTHER -> @]
            [] j.mode = "escape"  -> [k EXCEPT !.mode = "string"]
            [] ch = ";"  -> [k EXCEPT !.mode = "comment"]
            [] ch \in Spaces -> k
            [] ch \in Marks -> [k EXCEPT !.wanting = TRUE]
            [] ch \in Closers -> IF j.wanting THEN [k EXCEPT !.end = "error"]
                                 ELSE IF j.depth = 1 THEN [k EXCEPT !.end = "done"]
                                 ELSE [k EXCEPT !.depth = @ - 1]
            [] ch \in Openers -> [k EXCEPT !.depth = @ + 1, !.wanting = FALSE]
            [] OTHER -> [k EXCEPT !.wanting = FALSE, !.mode = IF ch = "\"" THEN "string" ELSE @]
Judged == FoldLeft(Judge, [depth |-> 1, mode |-> "code", wanting |-> FALSE, end |-> "none", at |-> 0],
                   text \o Postfix)

\* A file is read if its brackets match in number, whatever their kind, no mark is
\* left with nothing, and no comment swallows the bracket behind the file; and it is
\* read as far as that bracket, or the one too many (read.lua:141-234).
Accepted ==
  status # "reading" =>
    /\ (status = "done") = (Judged.end = "done")
    /\ status = "done" => stream.pos = (IF Judged.at > Len(text) THEN Len(text) ELSE Judged.at)

Spec == Init /\ [][Next]_vars /\ WF_vars(Next)
=============================================================================
