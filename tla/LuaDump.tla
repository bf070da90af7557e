------------------------------- MODULE LuaDump -------------------------------
(***************************************************************************)
(* Functions of Lua as bytes, and back (ldump.c, lundump.c).  A chunk is a *)
(* sequence of words, each what DumpVar writes at once; the characters of  *)
(* a string are the parts it is made of.  The parser of this model keeps   *)
(* no lines and no names for the debugger: Described gives a function some. *)
(***************************************************************************)
EXTENDS LuaMachine

CONSTANT LUAI_MAXCCALLS      \* 200 in the code: how deep functions may be in functions

NoString == <<"no string">>  \* NULL, which is not the empty string
Header   == <<"signature", "version", "format", "endianness", "sizes", "integral">>

\* A function and those in it, with lines, local variables and names of upvalues.
RECURSIVE Described(_, _)
Described(p, source) ==
  [code |-> p.code, k |-> p.k, nups |-> p.nups, numparams |-> p.numparams,
   is_vararg |-> p.is_vararg, maxstacksize |-> p.maxstacksize,
   p |-> [i \in DOMAIN p.p |-> Described(p.p[i], source)],
   source |-> source, linedefined |-> Len(p.p), lastlinedefined |-> Len(p.code),
   lineinfo |-> [i \in DOMAIN p.code |-> i],
   locvars |-> [i \in 1 .. p.numparams |-> [varname |-> <<"parameter">>, startpc |-> 0, endpc |-> Len(p.code)]],
   upvalues |-> [i \in 1 .. p.nups |-> <<"up", "value">>]]

-----------------------------------------------------------------------------
(* Dump *)

DumpString(s) == IF s = NoString THEN <<0>> ELSE <<Len(s) + 1>> \o s \o <<"end">>
DumpVector(s) == <<Len(s)>> \o s
DumpList(s, Dump(_)) == <<Len(s)>> \o FlattenSeq([i \in DOMAIN s |-> Dump(s[i])])

DumpConstant(v) ==
  <<Type(v)>> \o CASE Type(v) = "string" -> DumpString(v[2])
                   [] Type(v) = "nil" -> <<>>
                   [] OTHER -> <<v[2]>>
DumpDebug(f, strip) ==
  LET all(s) == IF strip THEN <<>> ELSE s IN
  DumpVector(all(f.lineinfo))
    \o DumpList(all(f.locvars), LAMBDA x : DumpString(x.varname) \o <<x.startpc, x.endpc>>)
    \o DumpList(all(f.upvalues), DumpString)

\* A function in one whose source is parent: the source is written if it is another.
RECURSIVE DumpFunction(_, _, _)
DumpFunction(f, parent, strip) ==
  DumpString(IF f.source = parent \/ strip THEN NoString ELSE f.source)
    \o <<f.linedefined, f.lastlinedefined, f.nups, f.numparams, f.is_vararg, f.maxstacksize>>
    \o DumpVector(f.code) \o DumpList(f.k, DumpConstant)
    \o DumpList(f.p, LAMBDA x : DumpFunction(x, f.source, strip))
    \o DumpDebug(f, strip)
luaU_dump(f, strip) == Header \o DumpFunction(f, NoString, strip)

-----------------------------------------------------------------------------
(* Undump *)

\* A reader of the words of a chunk: how far it is, how deep in functions, and
\* whether it raised an error.
Reader(words) == [words |-> words, at |-> 1, nCcalls |-> 0, ok |-> TRUE]
Require(S, c) == [S EXCEPT !.ok = @ /\ c]
Read1(S, v) == [S |-> S, v |-> v]

\* What is done with a thing that was read; an error ends it all.
With(x, More(_)) == IF x.S.ok THEN More(x) ELSE x

\* The next n words, or an error when the chunk ends before.
LoadBlock(S, n) ==
  LET there == S.at + n - 1 <= Len(S.words)
  IN  Read1([Require(S, there) EXCEPT !.at = @ + n], IF there THEN SubSeq(S.words, S.at, S.at + n - 1) ELSE <<>>)
LoadVar(S) == With(LoadBlock(S, 1), LAMBDA x : Read1(x.S, x.v[1]))
LoadInt(S) == With(LoadVar(S), LAMBDA x : Read1(Require(x.S, x.v >= 0), x.v))

\* n things, read one after the other.
Many(S, n, Load(_)) ==
  LET Read[i \in 0 .. n] ==
        IF i = 0 THEN Read1(S, <<>>)
        ELSE With(Read[i - 1], LAMBDA done :
               With(Load(done.S), LAMBDA x : Read1(x.S, Append(done.v, x.v))))
  IN  Read[n]
LoadVector(S) == With(LoadInt(S), LAMBDA n : LoadBlock(n.S, n.v))
LoadList(S, Load(_)) == With(LoadInt(S), LAMBDA n : Many(n.S, n.v, Load))
LoadString(S) ==
  With(LoadVector(S), LAMBDA s : Read1(s.S, IF s.v = <<>> THEN NoString ELSE Front(s.v)))

LoadConstant(S) ==
  With(LoadVar(S), LAMBDA t :
    CASE t.v = "nil"    -> Read1(t.S, Nil)
      [] t.v \in {"boolean", "number"} -> With(LoadVar(t.S), LAMBDA x : Read1(x.S, <<t.v, x.v>>))
      [] t.v = "string" -> With(LoadString(t.S), LAMBDA x : Read1(x.S, String(x.v)))
      [] OTHER          -> Read1(Require(t.S, FALSE), Nil))
LoadLocVar(S) ==
  With(LoadString(S), LAMBDA name :
  With(Many(name.S, 2, LoadInt), LAMBDA pcs :
    Read1(pcs.S, [varname |-> name.v, startpc |-> pcs.v[1], endpc |-> pcs.v[2]])))

\* The call of a function that fails to count itself out.
Leave_Deeper(S) == S
Leave(S) == [S EXCEPT !.nCcalls = @ - 1]

\* The numbers and the code, the constants and functions, and what is for the debugger.
LoadHead(S, parent) ==
  With(LoadString(S), LAMBDA source :
  With(Many(source.S, 2, LoadInt), LAMBDA lines :
  With(LoadBlock(lines.S, 4), LAMBDA bytes :
  With(LoadVector(bytes.S), LAMBDA code :
    Read1(code.S,
      [source |-> IF source.v = NoString THEN parent ELSE source.v,
       linedefined |-> lines.v[1], lastlinedefined |-> lines.v[2],
       nups |-> bytes.v[1], numparams |-> bytes.v[2], is_vararg |-> bytes.v[3],
       maxstacksize |-> bytes.v[4], code |-> code.v])))))
LoadConstants(h, Load(_)) ==
  With(LoadList(h.S, LoadConstant), LAMBDA k :
  With(LoadList(k.S, Load), LAMBDA p : Read1(p.S, [k |-> k.v, p |-> p.v] @@ h.v)))
LoadDebug(c) ==
  With(LoadVector(c.S), LAMBDA lineinfo :
  With(LoadList(lineinfo.S, LoadLocVar), LAMBDA locvars :
  With(LoadList(locvars.S, LoadString), LAMBDA upvalues :
    Read1(upvalues.S, [lineinfo |-> lineinfo.v, locvars |-> locvars.v, upvalues |-> upvalues.v] @@ c.v))))

RECURSIVE LoadFunction(_, _)
LoadFunction(S, parent) ==
  With(Read1(Require([S EXCEPT !.nCcalls = @ + 1], S.nCcalls < LUAI_MAXCCALLS), <<>>), LAMBDA entered :
  With(LoadHead(entered.S, parent), LAMBDA h :
  With(LoadConstants(h, LAMBDA then : LoadFunction(then, h.v.source)), LAMBDA c :
  With(LoadDebug(c), LAMBDA f :
    Read1(Leave(Require(f.S, luaG_checkcode(f.v))), f.v)))))

\* The chunk as a function, or Refused.
Refused == [refused |-> TRUE]
FunctionOr(x) == IF x.S.ok THEN x.v ELSE Refused
luaU_undump(words) ==
  FunctionOr(With(LoadBlock(Reader(words), Len(Header)), LAMBDA header :
             With(Read1(Require(header.S, header.v = Header), <<>>), LAMBDA checked :
               LoadFunction(checked.S, <<"=?">>))))

\* What is left of a function that was dumped without the things for the debugger.
RECURSIVE Stripped(_)
Stripped(f) == [f EXCEPT !.source = <<"=?">>, !.lineinfo = <<>>, !.locvars = <<>>, !.upvalues = <<>>,
                         !.p = [i \in DOMAIN f.p |-> Stripped(f.p[i])]]
=============================================================================
