----------------------------- MODULE SaurusLoader -----------------------------
(***************************************************************************)
(* su_load(): the header and the tree of prototypes of a bytecode file are *)
(* read through the buffer of ReaderBuffer (core.c:183-201, 732-856).  The *)
(* recursion of read_prototype() is the sequence calls, one record for     *)
(* each activation.  A file is what compile() writes (compile.lua,         *)
(* writebin.c), or a part of that.                                         *)
(*                                                                         *)
(* Every integer, number, instruction and upvalue takes WIDTH bytes here,  *)
(* least significant first.  Allocations are not counted; each may fail.   *)
(***************************************************************************)
EXTENDS ReaderBuffer, SequencesExt

CONSTANTS
  Base,            \* a byte is below this
  WIDTH,           \* sizeof(unsigned), sizeof(double), ...
  Prototypes,      \* what the compiler writes
  Pieces,          \* sizes of the pieces the reader hands over
  VERSION_MAJOR, VERSION_MINOR

Sign == <<27 % Base, 115 % Base>>      \* "\x1bsuc"

CSTRING == 4
CNUMBER == 3
Plain   == {0, 1, 2}                   \* CNIL, CFALSE, CTRUE

-----------------------------------------------------------------------------
\* encode_uint32() and the like: as many digits as there is room for.
Digit(n, i) == (n \div Base ^ i) % Base
Encode(n)   == [i \in 1 .. WIDTH |-> Digit(n, i - 1)]

\* encode_string(): the characters up to the first NUL, and a NUL; nil is empty.
CString(s) == LET end == SelectInSeq(s, LAMBDA ch : ch = 0)
              IN (IF end = 0 THEN s ELSE SubSeq(s, 1, end - 1)) \o <<0>>
\* Mutant: the length without the NUL.
EncodeString_Bare(s) == Encode(Len(CString(s)) - 1) \o CString(s)
EncodeString(s) == Encode(Len(CString(s))) \o CString(s)

EncodeConst(k) == CASE k.id = CSTRING -> <<CSTRING>> \o EncodeString(k.str)
                    [] k.id = CNUMBER -> <<CNUMBER>> \o Encode(k.num)
                    [] OTHER          -> <<k.id>>

EncodeAll(items, Op(_)) ==
  Encode(Len(items)) \o FlattenSeq([k \in DOMAIN items |-> Op(items[k])])

\* compile_func(), and compile() with encode_header().
RECURSIVE CompileFunc(_)
CompileFunc(p) ==
  EncodeAll(p.inst, Encode) \o EncodeAll(p.const, EncodeConst)
    \o EncodeAll(p.up, Encode) \o EncodeAll(p.prot, CompileFunc)
    \o (IF p.name = <<>> THEN Encode(0) ELSE EncodeString(p.name))
    \o EncodeAll(p.line, Encode)
Header(major, minor) == Sign \o <<major, minor>> \o Encode(0)
Written(p) == Header(VERSION_MAJOR, VERSION_MINOR) \o CompileFunc(p)

\* What su_load() should make of it: strings keep their NUL.
RECURSIVE Loaded(_)
Loaded(p) ==
  [p EXCEPT !.const = [k \in DOMAIN @ |-> IF @[k].id = CSTRING
                                          THEN [@[k] EXCEPT !.str = CString(@)] ELSE @[k]],
            !.prot = [k \in DOMAIN @ |-> Loaded(@[k])],
            !.name = IF @ = <<>> THEN @ ELSE CString(@)]

-----------------------------------------------------------------------------
VARIABLES
  status,     \* "sign", "version", "flags": in verify_header; "body": in
              \* read_prototype; "loaded", "refused", "raised" (su_error), "abort"
  turn,       \* "ask": buffer_read is called next; "take": it has been called
  calls,      \* activations of read_prototype: prot, part, step, left, size
  result      \* the prototype that has been read

loaderVars == <<status, turn, calls, result>>
allVars    == <<vars, loaderVars>>

Parts == <<"inst", "const", "up", "prot", "name", "line">>
Empty == [inst |-> <<>>, const |-> <<>>, up |-> <<>>, prot |-> <<>>,
          name |-> <<>>, line |-> <<>>]
Call  == [prot |-> Empty, part |-> 1, step |-> "count", left |-> 0, size |-> 0]

LoaderInit == /\ Init
              /\ status = "sign" /\ turn = "ask" /\ calls = <<>> /\ result = Empty

\* What the last request was given: as an integer, or the bytes.
Value == LET v[i \in 0 .. WIDTH] == IF i = WIDTH THEN 0 ELSE dest[i] + Base * v[i + 1]
         IN v[0]
Bytes == [i \in 1 .. dest_offset |-> dest[i - 1]]

Top  == Last(calls)
Part == Parts[Top.part]

Wanted == CASE status = "sign"    -> Len(Sign)
            [] status = "version" -> 2
            [] status = "flags"   -> WIDTH
            [] Top.step = "id"    -> 1
            [] Top.step = "chars" -> Top.size
            [] OTHER              -> WIDTH

Request == /\ turn = "ask" /\ turn' = "take"
           /\ status \in {"sign", "version", "flags", "body"}
           /\ Ask(Wanted)
           /\ UNCHANGED <<status, calls, result>>

\* Inside buffer_read(); where it raises an error, su_load() is left.  The reader has
\* nothing more to give at the end of the file; one that fails for good is one of a
\* shorter file (lib.c:39-45, main.c:45-49).
Ahead == Len(file) - handed
BufferStep == /\ \/ Copy \/ (Ahead = 0 /\ FetchNothing)
                 \/ \E n \in Pieces : Fetch(IF n < Ahead THEN n ELSE Ahead)
                 \/ Grow \/ GrowFails \/ Fill
              /\ status' = IF pc' = "oom" THEN "raised" ELSE status
              /\ UNCHANGED <<turn, calls, result>>

Taking == turn = "take" /\ pc \in Ended /\ UNCHANGED vars
Go(st) == status' = st /\ turn' = "ask" /\ UNCHANGED <<calls, result>>

\* verify_header() looks at what buffer_read() has stored and not at whether it
\* could.  Memory nothing was stored in may hold anything.
MayBe(bytes) == \A i \in 1 .. Len(bytes) : dest[i - 1] \in {bytes[i], Junk}
IsOnly(bytes) == \A i \in 1 .. Len(bytes) : dest[i - 1] = bytes[i]

TakeSign ==
  /\ status = "sign" /\ Taking
  /\ \/ MayBe(Sign) /\ Go("version")
     \/ ~IsOnly(Sign) /\ Go("refused")

TakeVersion ==
  /\ status = "version" /\ Taking
  /\ \/ /\ dest[0] \in {VERSION_MAJOR, Junk} \/ dest[1] \in {VERSION_MINOR, Junk}
        /\ Go("flags")
     \/ dest[0] # VERSION_MAJOR /\ dest[1] # VERSION_MINOR /\ Go("refused")

TakeFlags ==
  /\ status = "flags" /\ Taking
  /\ \/ /\ MayBe(Encode(0))
        /\ status' = "body" /\ turn' = "ask" /\ calls' = <<Call>>
        /\ UNCHANGED result
     \/ ~IsOnly(Encode(0)) /\ Go("refused")

\* The activation after its current part: the next one, or the end.
NextPart(c) == [c EXCEPT !.part = @ + 1, !.left = 0,
                         !.step = IF Parts[c.part + 1] = "name" THEN "size" ELSE "count"]
FirstStep(c) == IF Parts[c.part] = "const" THEN "id" ELSE "item"
Stored(c, x) == [c EXCEPT !.prot[Parts[c.part]] = Append(@, x), !.left = @ - 1]

\* Proceed to what comes after an element of the part has been stored, or none is
\* left: another element, the next part, or the return to the caller.
RECURSIVE Proceed(_, _)
Proceed(up, c) ==
  IF c.left > 0
  THEN IF Parts[c.part] = "prot" THEN [calls |-> up \o <<c, Call>>, result |-> Empty]
       ELSE [calls |-> Append(up, [c EXCEPT !.step = FirstStep(c)]), result |-> Empty]
  ELSE IF c.part < Len(Parts) THEN [calls |-> Append(up, NextPart(c)), result |-> Empty]
  ELSE IF up = <<>> THEN [calls |-> <<>>, result |-> c.prot]
  ELSE Proceed(Front(up), Stored(Last(up), c.prot))

GoOn(c) == LET next == Proceed(Front(calls), c)
           IN /\ calls' = next.calls
              /\ result' = next.result
              /\ status' = IF next.calls = <<>> THEN "loaded" ELSE "body"
              /\ turn' = "ask"
Stay(c) == /\ calls' = Append(Front(calls), c)
           /\ turn' = "ask"
           /\ UNCHANGED <<status, result>>
End(st) == status' = st /\ UNCHANGED <<turn, calls, result>>

InBody(step) == status = "body" /\ Taking /\ pc = "ok" /\ Top.step = step

\* READ of a number of elements, and the array for them.
TakeCount == InBody("count") /\ \/ GoOn([Top EXCEPT !.left = Value])
                                \/ Value > 0 /\ End("raised")
TakeItem  == InBody("item") /\ GoOn(Stored(Top, Value))

TakeId ==
  /\ InBody("id")
  /\ \/ dest[0] = CSTRING /\ Stay([Top EXCEPT !.step = "size"])
     \/ dest[0] = CNUMBER /\ Stay([Top EXCEPT !.step = "number"])
     \/ dest[0] \in Plain /\ GoOn(Stored(Top, [id |-> dest[0]]))
     \/ dest[0] \notin Plain \cup {CSTRING, CNUMBER} /\ End("abort")
TakeNumber == InBody("number") /\ GoOn(Stored(Top, [id |-> CNUMBER, num |-> Value]))

\* read_string(): its size, memory for it, its characters.
TakeSize == InBody("size") /\ \/ Stay([Top EXCEPT !.step = "chars", !.size = Value])
                              \/ End("raised")
TakeChars ==
  /\ InBody("chars")
  /\ IF Part = "name" THEN GoOn([Top EXCEPT !.prot.name = Bytes])
     ELSE GoOn(Stored(Top, [id |-> CSTRING, str |-> Bytes]))

\* Mutants: the error is not returned; the read is tried again.
TakeShort_Kept  == status = "body" /\ Taking /\ pc = "short" /\ End("loaded")
TakeShort_Again == status = "body" /\ Taking /\ pc = "short" /\ Go("body")

\* buffer_read() gave -1 to READ or to read_string().
TakeShort == status = "body" /\ Taking /\ pc = "short" /\ End("refused")

Take == \/ TakeSign \/ TakeVersion \/ TakeFlags \/ TakeCount \/ TakeItem \/ TakeId
        \/ TakeNumber \/ TakeSize \/ TakeChars \/ TakeShort

LoaderNext == Request \/ BufferStep \/ Take
LoaderSpec == LoaderInit /\ [][LoaderNext]_allVars /\ WF_allVars(LoaderNext)

-----------------------------------------------------------------------------
\* What compile() writes, su_load() reads: the same tree of prototypes, wherever the
\* pieces of the reader end.  It may raise an error, but does not refuse the file.
RoundTrip == \A p \in Prototypes :
               IsPrefix(Written(p), file) =>
                 /\ status \notin {"refused", "abort"}
                 /\ status = "loaded" => result = Loaded(p)

\* A file that ends too early is not loaded, at whatever byte that is: not even when
\* the header, whose reading is not checked, is found in what the stack still holds.
TruncatedRefused == \A p \in Prototypes :
                      IsStrictPrefix(file, Written(p)) => status # "loaded"

\* su_load(), once begun, comes to an end: the reader gives something or nothing, and each request
\* brings the parser on (its calls are C loops, and run without interruption).
LoadEnds == turn = "take" ~> status \in {"loaded", "refused", "raised", "abort"}
=============================================================================
