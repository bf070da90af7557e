---------------------------- MODULE ReaderBuffer ----------------------------
(***************************************************************************)
(* The buffer between su_load() and the reader that the host passes to it  *)
(* (core.c:138-181).  The reader hands over the file in pieces of its own  *)
(* choosing; buffer_read() puts together from them what is asked for.      *)
(* Arrays are functions from 0, sizes are in bytes.  A request is one call *)
(* of buffer_read(), and num_bytes, dest and dest_offset are its own.      *)
(***************************************************************************)
EXTENDS Integers, Sequences

CONSTANTS
  Byte,
  Files,       \* what the reader may read from
  Junk         \* memory nothing was stored in

ASSUME FilesAssumption == Files \subseteq Seq(Byte)

VARIABLES
  file,        \* the file
  handed,      \* bytes of it that the reader has handed over
  buffer, size, len, offset,        \* reader_buffer_t
  dest, dest_offset, num_bytes,     \* the arguments and local of buffer_read
  piece,       \* its local size, once the reader has set it
  pc           \* where it is: "copy", "fetch", "grow"; how it ended: "ok", "short", "oom"

bufferVars == <<buffer, size, len, offset>>
callVars   == <<dest, dest_offset, num_bytes>>
vars == <<file, handed, bufferVars, callVars, piece, pc>>

Ended == {"ok", "short"}

buffer_open ==
  /\ buffer = <<>> /\ size = 0 /\ len = 0 /\ offset = 0
  /\ dest = <<>> /\ dest_offset = 0 /\ num_bytes = 0
  /\ piece = 0 /\ pc = "ok"

Init == file \in Files /\ handed = 0 /\ buffer_open

\* A call of buffer_read(), for n bytes of uninitialised memory.
Ask(n) ==
  /\ pc \in Ended
  /\ num_bytes' = n
  /\ dest' = [i \in 0 .. n - 1 |-> Junk]
  /\ dest_offset' = 0
  /\ pc' = "copy"
  /\ UNCHANGED <<file, handed, bufferVars, piece>>

\* What is left in the buffer, or as much of it as is wanted.
Rest == len - offset
Num  == IF num_bytes < Rest THEN num_bytes ELSE Rest

\* Mutant: offset stays where it is.
Copy_Again ==
  /\ pc = "copy"
  /\ dest' = [i \in DOMAIN dest |->
                IF i \in dest_offset .. dest_offset + Num - 1
                THEN buffer[offset + i - dest_offset] ELSE dest[i]]
  /\ dest_offset' = dest_offset + Num
  /\ num_bytes' = num_bytes - Num
  /\ pc' = IF num_bytes' = 0 THEN "ok" ELSE "fetch"
  /\ UNCHANGED <<file, handed, bufferVars, piece>>

Copy ==
  /\ pc = "copy"
  /\ dest' = [i \in DOMAIN dest |->
                IF i \in dest_offset .. dest_offset + Num - 1
                THEN buffer[offset + i - dest_offset] ELSE dest[i]]
  /\ offset' = offset + Num
  /\ dest_offset' = dest_offset + Num
  /\ num_bytes' = num_bytes - Num
  /\ pc' = IF num_bytes' = 0 THEN "ok" ELSE "fetch"
  /\ UNCHANGED <<file, handed, buffer, size, len, piece>>

\* The reader hands over the next n bytes,
Fetch(n) ==
  /\ pc = "fetch"
  /\ n >= 1 /\ handed + n <= Len(file)
  /\ piece' = n
  /\ handed' = handed + n
  /\ pc' = "grow"
  /\ UNCHANGED <<file, bufferVars, callVars>>

\* Mutant: what there is will do.
FetchNothing_Ok ==
  /\ pc = "fetch"
  /\ pc' = "ok"
  /\ UNCHANGED <<file, handed, bufferVars, callVars, piece>>

\* or none, because there are none or it cannot.
FetchNothing ==
  /\ pc = "fetch"
  /\ pc' = "short"
  /\ UNCHANGED <<file, handed, bufferVars, callVars, piece>>

\* The buffer is made as large as the piece; su_allocate() may raise an error.
Grow ==
  /\ pc = "grow" /\ size < piece
  /\ size' = size * 2 + 1
  /\ buffer' = [i \in 0 .. size' - 1 |-> IF i < size THEN buffer[i] ELSE Junk]
  /\ UNCHANGED <<file, handed, len, offset, callVars, piece, pc>>

GrowFails ==
  /\ pc = "grow" /\ size < piece
  /\ pc' = "oom"
  /\ UNCHANGED <<file, handed, bufferVars, callVars, piece>>

Fill ==
  /\ pc = "grow" /\ size >= piece
  /\ offset' = 0
  /\ len' = piece
  /\ buffer' = [i \in DOMAIN buffer |->
                  IF i < piece THEN file[handed - piece + i + 1] ELSE buffer[i]]
  /\ pc' = "copy"
  /\ UNCHANGED <<file, handed, size, callVars, piece>>

\* One step of the loop of buffer_read(); the reader hands over at most the file.
Read == \/ Copy \/ \E n \in 1 .. Len(file) : Fetch(n)
        \/ FetchNothing \/ Grow \/ GrowFails \/ Fill

Next == Read \/ \E n \in Nat : Ask(n)
Spec == Init /\ [][Next]_vars

-----------------------------------------------------------------------------
\* Bytes of the file that have left the buffer, when a request began and now.
Consumed == IF pc \in {"grow", "oom"} THEN handed - piece ELSE handed - len + offset
Began    == Consumed - dest_offset

\* Arrays have the sizes that the code believes they have.
BufferOK ==
  /\ pc \in Ended \cup {"copy", "fetch", "grow", "oom"}
  /\ handed \in 0 .. Len(file)
  /\ size \in Nat /\ len \in 0 .. size /\ offset \in 0 .. len
  /\ buffer \in [0 .. size - 1 -> Byte \cup {Junk}]
  /\ num_bytes \in Nat /\ dest_offset \in Nat
  /\ dest \in [0 .. dest_offset + num_bytes - 1 -> Byte \cup {Junk}]
  /\ piece \in 0 .. handed

\* What waits in the buffer is what comes next in the file, and a new piece is
\* only asked for when nothing waits.
BufferHolds ==
  /\ pc \in {"fetch", "grow", "oom"} => num_bytes > 0 /\ offset = len
  /\ pc \notin {"grow", "oom"} =>
       /\ len <= handed
       /\ \A i \in offset .. len - 1 : buffer[i] = file[handed - len + i + 1]
  /\ pc = "ok" => num_bytes = 0
  /\ \A i \in dest_offset .. dest_offset + num_bytes - 1 : dest[i] = Junk

\* What a request has been given are the bytes of the file from where the last one
\* ended, in their order, none twice and none left out, however the reader cuts the
\* file and wherever a request ends within a piece (core.c:155-181).
BytesInOrder ==
  /\ Began >= 0
  /\ \A i \in 0 .. dest_offset - 1 : dest[i] = file[Began + i + 1]

Reading == pc \in {"copy", "fetch", "grow"}
Stream == INSTANCE ByteStream WITH
            pos     <- IF Reading \/ pc = "oom" THEN Began ELSE Consumed,
            got     <- IF Reading \/ pc = "oom" THEN <<>> ELSE dest,
            asked   <- dest_offset + num_bytes,
            outcome <- IF Reading THEN "reading" ELSE pc

\* buffer_read() keeps the promise of ByteStream.
ReadsTheFile == Stream!Spec
=============================================================================
