------------------------------- MODULE MCFiles -------------------------------
(***************************************************************************)
(* SaurusLoader on the files of three prototypes, cut off at every byte,   *)
(* and on some that compile() does not write; and the texts of MCReader.   *)
(* A text is read, and then a file loaded: all files after the empty text, *)
(* and the empty file after every text.                                    *)
(***************************************************************************)
EXTENDS SaurusLoader

Number(n)  == [id |-> CNUMBER, num |-> n]
String(s)  == [id |-> CSTRING, str |-> s]
Constant(k) == [id |-> k]

Leaf  == [Empty EXCEPT !.inst = <<6>>, !.line = <<1>>]
Inner == [Empty EXCEPT !.inst = <<1, 9>>, !.up = <<2>>, !.const = <<String(<<>>)>>]
Whole == [inst |-> <<5>>, const |-> <<Number(9), String(<<1>>), Constant(0)>>, up |-> <<>>,
          prot |-> <<Inner>>, name |-> <<2>>, line |-> <<8>>]

MCPrototypes == {Empty, Leaf, Whole}

Cut(f) == {SubSeq(f, 1, n) : n \in 0 .. Len(f)}
MCFiles ==
  UNION {Cut(Written(p)) : p \in MCPrototypes}
    \cup {h \o CompileFunc(Leaf) : h \in {Header(0, 1), Header(1, 0), Header(1, 1), <<1>>,
                                          SubSeq(Header(0, 0), 1, 4) \o <<1, 0>>}}
    \cup {Written(Leaf) \o <<1, 2>>,
          Header(0, 0) \o Encode(0) \o Encode(1) \o <<5>>}
MCByte == 0 .. Base - 1

VARIABLES source, text, stream, activations, num_sexp, reading, tree
textVars == <<source, text, stream, activations, num_sexp, reading, tree>>

Text == INSTANCE MCReader WITH Texts <- {}, calls <- activations, status <- reading

MCInit == /\ LoaderInit
          /\ source \in IF file = <<>> THEN Text!Sources ELSE {Text!NoText}
          /\ Text!Begin(source.text)
ReadText == Text!Step /\ UNCHANGED <<allVars, source>>
LoadFile == reading # "reading" /\ LoaderNext /\ UNCHANGED textVars
MCNext == ReadText \/ LoadFile
MCSpec == MCInit /\ [][MCNext]_<<allVars, textVars>> /\ WF_<<allVars, textVars>>(LoadFile)

\* What is written is read back, in every layout, with the right lines; and brackets
\* that match in number, and nothing else, make a file (read.lua, stream.lua).
ReadBack == Text!ReadBack
Accepted == Text!Accepted
=============================================================================
