------------------------- MODULE ReaderBufferProofs -------------------------
(***************************************************************************)
(* For every file and every way a reader cuts it up: buffer_read() gives   *)
(* its bytes in order, and so keeps the promise of ByteStream.             *)
(***************************************************************************)
EXTENDS ReaderBuffer, TLAPS

\* The strengthening that is inductive: sizes, the file in the buffer, the file in
\* what was given.
Inv == file \in Files /\ BufferOK /\ BufferHolds /\ BytesInOrder

LEMMA InitInv == Init => Inv
  BY FilesAssumption
     DEF Init, buffer_open, Inv, BufferOK, BufferHolds, BytesInOrder, Began, Consumed, Ended

LEMMA AskInv == ASSUME Inv, NEW n \in Nat, Ask(n) PROVE Inv'
  BY FilesAssumption
     DEF Ask, bufferVars, Inv, BufferOK, BufferHolds, BytesInOrder, Began, Consumed, Ended

LEMMA CopyInv == ASSUME Inv, Copy PROVE Inv'
  <1> DEFINE given == dest_offset .. dest_offset + Num - 1
  <1> USE DEF Inv, Copy
  <1>1. /\ pc = "copy" /\ file' = file /\ handed' = handed /\ buffer' = buffer
        /\ size' = size /\ len' = len /\ piece' = piece
        /\ offset' = offset + Num /\ dest_offset' = dest_offset + Num
        /\ num_bytes' = num_bytes - Num
        /\ pc' = IF num_bytes' = 0 THEN "ok" ELSE "fetch"
    OBVIOUS
  <1>2. /\ Num \in Nat /\ Num <= num_bytes /\ Num <= len - offset
        /\ Num # num_bytes => Num = len - offset
    BY DEF BufferOK, Num, Rest
  <1>3. \A i \in given : buffer[offset + i - dest_offset] = file[Consumed + i - dest_offset + 1]
    BY <1>2 DEF BufferOK, BufferHolds, Consumed
  <1>4. \A i \in given : buffer[offset + i - dest_offset] \in Byte \cup {Junk}
    BY <1>2 DEF BufferOK
  <1>5. dest' \in [0 .. dest_offset' + num_bytes' - 1 -> Byte \cup {Junk}]
    BY <1>1, <1>2, <1>4 DEF BufferOK
  <1>6. BufferOK'
    <2>1. /\ offset' \in 0 .. len' /\ dest_offset' \in Nat /\ num_bytes' \in Nat
          /\ pc' \in Ended \cup {"copy", "fetch", "grow", "oom"}
      BY <1>1, <1>2 DEF BufferOK, Ended
    <2>2. handed' \in 0 .. Len(file') /\ buffer' \in [0 .. size' - 1 -> Byte \cup {Junk}]
      BY <1>1 DEF BufferOK
    <2> QED  BY <1>1, <1>5, <2>1, <2>2 DEF BufferOK
  <1>7. Began' = Began /\ Consumed' = Consumed + Num
    BY <1>1, <1>2 DEF Began, Consumed, BufferOK
  <1>8. BytesInOrder'
    <2>1. Began' >= 0
      BY <1>7 DEF BytesInOrder
    <2>2. ASSUME NEW i \in 0 .. dest_offset' - 1 PROVE dest'[i] = file'[Began' + i + 1]
      <3>1. CASE i \in given
        <4>1. dest'[i] = buffer[offset + i - dest_offset]
          BY <1>2, <3>1 DEF BufferOK
        <4>2. Consumed + i - dest_offset + 1 = Began' + i + 1
          BY <1>7, <1>2, <3>1 DEF Began, Consumed, BufferOK
        <4> QED  BY <4>1, <4>2, <1>3, <3>1, <1>1
      <3>2. CASE i \notin given
        BY <1>1, <1>2, <1>7, <3>2 DEF BufferOK, BytesInOrder
      <3> QED  BY <3>1, <3>2
    <2> QED  BY <2>1, <2>2 DEF BytesInOrder
  <1>9. BufferHolds'
    BY <1>1, <1>2 DEF BufferOK, BufferHolds
  <1> QED  BY <1>1, <1>6, <1>8, <1>9

LEMMA FetchInv == ASSUME Inv, NEW n \in Nat, Fetch(n) PROVE Inv'
  BY FilesAssumption
     DEF Fetch, bufferVars, callVars, Inv, BufferOK, BufferHolds, BytesInOrder, Began, Consumed, Ended

LEMMA StopInv == ASSUME Inv, FetchNothing \/ GrowFails PROVE Inv'
  BY DEF FetchNothing, GrowFails, bufferVars, callVars, Inv, BufferOK, BufferHolds,
         BytesInOrder, Began, Consumed, Ended

LEMMA GrowInv == ASSUME Inv, Grow PROVE Inv'
  <1> USE DEF Inv, Grow, callVars
  <1>1. size' \in Nat /\ size' = size * 2 + 1 /\ size' > size
    BY DEF BufferOK
  <1>2. buffer' \in [0 .. size' - 1 -> Byte \cup {Junk}]
    BY <1>1 DEF BufferOK
  <1> QED  BY <1>1, <1>2 DEF BufferOK, BufferHolds, BytesInOrder, Began, Consumed

LEMMA FillInv == ASSUME Inv, Fill PROVE Inv'
  <1>1. \A i \in 0 .. piece - 1 : file[handed - piece + i + 1] \in Byte
    BY FilesAssumption DEF Inv, BufferOK
  <1>2. buffer' \in [0 .. size - 1 -> Byte \cup {Junk}]
    <2>1. DOMAIN buffer = 0 .. size - 1
      BY DEF Inv, BufferOK
    <2>2. \A i \in DOMAIN buffer : buffer'[i] \in Byte \cup {Junk}
      BY <1>1, <2>1 DEF Inv, BufferOK, Fill
    <2> QED  BY <2>1, <2>2 DEF Fill
  <1>3. /\ size' = size /\ handed' = handed /\ file' = file /\ dest' = dest
        /\ dest_offset' = dest_offset /\ num_bytes' = num_bytes /\ piece' = piece
        /\ offset' = 0 /\ len' = piece /\ pc' = "copy" /\ pc = "grow" /\ piece <= size
    BY DEF Fill, callVars, Inv, BufferOK
  <1>4. BufferOK'
    BY <1>2, <1>3 DEF Inv, BufferOK
  <1>5. BufferHolds'
    BY <1>3 DEF Fill, Inv, BufferOK, BufferHolds
  <1>6. BytesInOrder'
    BY <1>3 DEF Inv, BufferOK, BytesInOrder, Began, Consumed
  <1> QED  BY <1>3, <1>4, <1>5, <1>6 DEF Inv

LEMMA NextInv == Inv /\ [Next]_vars => Inv'
  <1> SUFFICES ASSUME Inv, [Next]_vars PROVE Inv'
    OBVIOUS
  <1>1. ASSUME NEW n \in Nat, Ask(n) PROVE Inv'
    BY <1>1, AskInv
  <1>2. ASSUME NEW n \in 1 .. Len(file), Fetch(n) PROVE Inv'
    <2>1. n \in Nat
      BY FilesAssumption DEF Inv
    <2> QED  BY <1>2, <2>1, FetchInv
  <1>3. CASE UNCHANGED vars
    BY <1>3 DEF vars, bufferVars, callVars, Inv, BufferOK, BufferHolds, BytesInOrder,
                Began, Consumed
  <1> QED  BY <1>1, <1>2, <1>3, CopyInv, StopInv, GrowInv, FillInv DEF Next, Read

\* What is given to su_load() are the bytes of the file in their order.
THEOREM AlwaysInOrder == Spec => []BytesInOrder
  <1>1. Inv => BytesInOrder
    BY DEF Inv
  <1> QED  BY <1>1, InitInv, NextInv, PTL DEF Spec

\* The arrays and their sizes are what the code takes them for: memcpy() stays
\* within both of its arguments.
THEOREM AlwaysBufferOK == Spec => []BufferOK
  <1>1. Inv => BufferOK
    BY DEF Inv
  <1> QED  BY <1>1, InitInv, NextInv, PTL DEF Spec

-----------------------------------------------------------------------------
LEMMA Eta == ASSUME NEW S, NEW T, NEW f \in [S -> T] PROVE f = [x \in S |-> f[x]]
  OBVIOUS

LEMMA InitStream == Init => Stream!Init
  BY DEF Init, buffer_open, Stream!Init, Reading, Consumed

LEMMA AskStream == ASSUME Inv, NEW n \in Nat, Ask(n) PROVE Stream!Ask
  BY DEF Ask, bufferVars, Inv, BufferOK, Stream!Ask, Reading, Began, Consumed, Ended

LEMMA CopyStream == ASSUME Inv, Copy PROVE [Stream!Next]_(Stream!vars)
  <1>1. Inv'
    BY CopyInv
  <1>2. /\ pc = "copy" /\ file' = file /\ handed' = handed /\ len' = len
        /\ offset' = offset + Num /\ dest_offset' = dest_offset + Num
        /\ num_bytes' = num_bytes - Num /\ Num \in Nat
        /\ pc' = IF num_bytes' = 0 THEN "ok" ELSE "fetch"
    BY DEF Copy, Inv, BufferOK, Num, Rest
  <1>3. Began' = Began /\ dest_offset' + num_bytes' = dest_offset + num_bytes
    BY <1>2 DEF Began, Consumed, Inv, BufferOK
  <1>4. CASE num_bytes' # 0
    BY <1>2, <1>3, <1>4 DEF Stream!vars, Reading
  <1>5. CASE num_bytes' = 0
    <2> DEFINE asked == dest_offset + num_bytes
    <2>1. asked = dest_offset' /\ Consumed' = Began + asked /\ Consumed' <= Len(file)
      BY <1>1, <1>2, <1>3, <1>5 DEF Began, Consumed, Inv, BufferOK
    <2>2. dest' = [i \in 0 .. asked - 1 |-> IF i < asked THEN file[Began + i + 1] ELSE Junk]
      <3>1. dest' = [i \in 0 .. asked - 1 |-> dest'[i]]
        <4>1. dest' \in [0 .. dest_offset' + num_bytes' - 1 -> Byte \cup {Junk}]
          BY <1>1 DEF Inv, BufferOK
        <4>2. 0 .. dest_offset' + num_bytes' - 1 = 0 .. asked - 1
          <5>1. /\ dest_offset' + num_bytes' = asked
                /\ dest_offset' \in Nat /\ num_bytes' \in Nat
            BY <1>1, <1>3 DEF Inv, BufferOK
          <5> HIDE DEF asked
          <5> QED  BY <5>1
        <4>3. dest' \in [0 .. asked - 1 -> Byte \cup {Junk}]
          BY <4>1, <4>2, Zenon
        <4> QED  BY <4>3, Eta
      <3>2. \A i \in 0 .. asked - 1 : dest'[i] = file[Began + i + 1]
        BY <1>1, <1>2, <1>3, <2>1 DEF Inv, BytesInOrder
      <3>3. \A i \in 0 .. asked - 1 : i < asked
        BY <2>1, <1>1 DEF Inv, BufferOK
      <3> QED  BY <3>1, <3>2, <3>3
    <2>3. Stream!Deliver
      BY <1>2, <1>3, <1>5, <2>1, <2>2
         DEF Stream!Deliver, Stream!Finish, Stream!Taken, Reading
    <2> QED  BY <2>3 DEF Stream!Next
  <1> QED  BY <1>4, <1>5

LEMMA FetchNothingStream == ASSUME Inv, FetchNothing PROVE Stream!Fail
  <1> DEFINE asked == dest_offset + num_bytes
  <1>1. /\ dest_offset \in 0 .. asked - 1
        /\ Consumed = Began + dest_offset /\ Consumed <= Len(file)
        /\ Consumed' = Consumed /\ asked' = asked
    BY DEF FetchNothing, bufferVars, callVars, Inv, BufferOK, BufferHolds, Began, Consumed
  <1>2. dest' = [i \in 0 .. asked - 1 |-> IF i < dest_offset THEN file[Began + i + 1] ELSE Junk]
    <2>1. dest' = dest /\ dest = [i \in 0 .. asked - 1 |-> dest[i]]
      BY DEF FetchNothing, callVars, Inv, BufferOK
    <2>2. \A i \in 0 .. asked - 1 :
            dest[i] = IF i < dest_offset THEN file[Began + i + 1] ELSE Junk
      BY DEF Inv, BufferOK, BufferHolds, BytesInOrder
    <2> QED  BY <2>1, <2>2
  <1>3. Stream!Finish("short", dest_offset)
    BY <1>1, <1>2 DEF FetchNothing, Stream!Finish, Stream!Taken, Reading
  <1> QED  BY <1>1, <1>3 DEF Stream!Fail

LEMMA SilentStream ==
  ASSUME Inv, Fill \/ Grow \/ \E n \in 1 .. Len(file) : Fetch(n)
  PROVE  UNCHANGED Stream!vars
  BY SMTT(40) DEF Fill, Grow, Fetch, bufferVars, callVars, Inv, BufferOK, BufferHolds, Stream!vars,
         Reading, Began, Consumed

LEMMA GrowFailsStream == ASSUME Inv, GrowFails PROVE Stream!OutOfMemory
  BY DEF GrowFails, bufferVars, callVars, Inv, BufferOK, Stream!OutOfMemory, Reading,
         Began, Consumed

LEMMA NextStream == Inv /\ [Next]_vars => [Stream!Next]_(Stream!vars)
  <1> SUFFICES ASSUME Inv, [Next]_vars PROVE [Stream!Next]_(Stream!vars)
    OBVIOUS
  <1>1. ASSUME NEW n \in Nat, Ask(n) PROVE Stream!Next
    BY <1>1, AskStream DEF Stream!Next
  <1>2. CASE FetchNothing
    BY <1>2, FetchNothingStream DEF Stream!Next
  <1>3. CASE GrowFails
    BY <1>3, GrowFailsStream DEF Stream!Next
  <1>4. CASE UNCHANGED vars
    BY <1>4 DEF vars, bufferVars, callVars, Stream!vars, Reading, Began, Consumed
  <1> QED  BY <1>1, <1>2, <1>3, <1>4, CopyStream, SilentStream DEF Next, Read

\* buffer_read() refines the stream of bytes, so that a reader of files need not
\* know of pieces.
THEOREM KeepsThePromise == Spec => ReadsTheFile
  BY InitStream, InitInv, NextInv, NextStream, PTL DEF Spec, ReadsTheFile, Stream!Spec
=============================================================================
