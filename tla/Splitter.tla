------------------------------ MODULE Splitter ------------------------------
(***************************************************************************)
(* Content-defined chunking, src/chunk/: BuildFile pulls chunks from a     *)
(* Splitter, which keeps a window of at most MaxSize bytes of its reader   *)
(* and rolls a buzhash over it.  The reader returns what it likes: any     *)
(* slice, the end of the input, or an error in the middle.                 *)
(*                                                                         *)
(* A byte is an element of Byte, and a 64-bit word is the set of its one   *)
(* bits, numbered from 0 to Window - 1: BuzhashWindow is the width of the  *)
(* word as well as the length of the window, and the code relies on it.    *)
(***************************************************************************)
EXTENDS Naturals, Sequences, FiniteSets, SequencesExt

CONSTANTS Byte,      \* the byte values, Zero among them
          Zero,      \* the value a cleared window holds
          Window,    \* BuzhashWindow, in bytes and in bits
          Table,     \* the substitution table: Byte -> words
          Configs,   \* chunking parameters the callers pass
          MaxInput   \* bound: the length of the input

Word   == SUBSET (0 .. Window - 1)
Params == [MinSize : 0 .. MaxInput, MaxSize : 0 .. MaxInput, MaskBits : 0 .. Window]
Inputs == UNION {[1 .. n -> Byte] : n \in 0 .. MaxInput}
Roller == [sum : Word, window : [0 .. Window - 1 -> Byte], pos : 0 .. Window - 1]

VARIABLES input,    \* the bytes the reader would deliver without an error
          params,   \* the parameters of this Splitter
          read,     \* how many bytes the reader has delivered
          buf, emitted, eof,   \* the Splitter
          refs,     \* file.Chunks of BuildFile: the chunks handed to the sink
          state     \* "open", "fill", "cut", then "done" or "failed"

vars == <<input, params, read, buf, emitted, eof, refs, state>>

----------------------------------------------------------------------------
\* The rolling hash.

Xor(a, b)     == (a \ b) \union (b \ a)
RotateLeft(a) == {(bit + 1) % Window : bit \in a}

Reset == [sum |-> {}, window |-> [i \in 0 .. Window - 1 |-> Zero], pos |-> 0]

(* Mutant of Roll: the outgoing byte is forgotten. *)
RollWithoutOut(rh, b) ==
    [sum    |-> Xor(RotateLeft(rh.sum), Table[b]),
     window |-> [rh.window EXCEPT ![rh.pos] = b],
     pos    |-> (rh.pos + 1) % Window]

\* The byte that leaves the window is XORed out without a rotation of its own.
Roll(rh, b) ==
    [sum    |-> Xor(RotateLeft(rh.sum), Xor(Table[rh.window[rh.pos]], Table[b])),
     window |-> [rh.window EXCEPT ![rh.pos] = b],
     pos    |-> (rh.pos + 1) % Window]

IsCut(rh, p) == \A bit \in rh.sum : bit >= p.MaskBits

(* Mutant of ScanStart: the scan starts one byte late. *)
LateStart(p) == IF p.MinSize >= Window THEN p.MinSize - Window + 1 ELSE 0

\* The scan starts Window bytes below the minimum: what lies before cannot
\* reach a boundary it may accept.
ScanStart(p) == IF p.MinSize > Window THEN p.MinSize - Window ELSE 0

\* The length of the chunk that starts at the head of bytes.
Boundary(bytes, p) ==
    LET start == ScanStart(p)
        rolled[i \in start .. Len(bytes)] ==
            IF i = start THEN Reset ELSE Roll(rolled[i - 1], bytes[i])
        cuts  == {i \in start + 1 .. Len(bytes) : i >= p.MinSize /\ IsCut(rolled[i], p)}
    IN  IF cuts = {} THEN Len(bytes) ELSE CHOOSE i \in cuts : \A j \in cuts : i <= j

----------------------------------------------------------------------------
(* Mutant of Valid: the maximum is not compared with the minimum. *)
ValidMinimum(p) == p.MinSize > 0 /\ p.MaskBits \in 1 .. Window - 1

Valid(p) == /\ p.MinSize > 0
            /\ p.MaxSize >= p.MinSize
            /\ p.MaskBits \in 1 .. Window - 1

Init == /\ input \in Inputs
        /\ params \in Configs
        /\ read = 0
        /\ buf = <<>>
        /\ emitted = 0
        /\ eof = FALSE
        /\ refs = <<>>
        /\ state = "open"

\* NewSplitter refuses parameters that cannot be met.
Open == /\ state = "open"
        /\ state' = IF Valid(params) THEN "fill" ELSE "failed"
        /\ UNCHANGED <<input, params, read, buf, emitted, eof, refs>>

(* Mutant of DropEmitted: the emitted chunk stays at the head of the window. *)
DropNothing == /\ state = "fill"
               /\ emitted > 0
               /\ emitted' = 0
               /\ UNCHANGED <<input, params, read, buf, eof, refs, state>>

\* dropEmitted, on the way into fill: the chunk the sink saw last is overwritten
\* by what follows it.
DropEmitted == /\ state = "fill"
               /\ emitted > 0
               /\ buf' = SubSeq(buf, emitted + 1, Len(buf))
               /\ emitted' = 0
               /\ UNCHANGED <<input, params, read, eof, refs, state>>

Filling == state = "fill" /\ emitted = 0
Full    == eof \/ Len(buf) = params.MaxSize

\* fill: one Read of io.ReadFull returns some of the bytes there is room for.
Read(n) == /\ Filling /\ ~Full
           /\ n <= params.MaxSize - Len(buf)
           /\ n <= Len(input) - read
           /\ buf' = buf \o SubSeq(input, read + 1, read + n)
           /\ read' = read + n
           /\ UNCHANGED <<input, params, emitted, eof, refs, state>>

(* Mutant of ReadEnd: a read that fails is taken for the end of the input. *)
EndOnError == /\ Filling /\ ~Full
              /\ eof' = TRUE
              /\ UNCHANGED <<input, params, read, buf, emitted, refs, state>>

\* fill: io.EOF or io.ErrUnexpectedEOF, which end the stream alike.
ReadEnd == /\ Filling /\ ~Full
           /\ read = Len(input)
           /\ eof' = TRUE
           /\ UNCHANGED <<input, params, read, buf, emitted, refs, state>>

\* fill: the reader fails, or BuildFile finds its context cancelled.
ReadFails == /\ Filling
             /\ state' = "failed"
             /\ UNCHANGED <<input, params, read, buf, emitted, eof, refs>>

Filled == /\ Filling /\ Full
          /\ state' = IF buf = <<>> THEN "done" ELSE "cut"
          /\ UNCHANGED <<input, params, read, buf, emitted, eof, refs>>

\* Next and the rest of BuildFile's loop: the chunk goes to the hasher, to the
\* sink, which may refuse it, and into the chunk list.
Emit == /\ state = "cut"
        /\ LET n == Boundary(buf, params)
           IN  /\ emitted' = n
               /\ \/ /\ refs' = Append(refs, SubSeq(buf, 1, n))
                     /\ state' = "fill"
                  \/ /\ refs' = refs
                     /\ state' = "failed"
        /\ UNCHANGED <<input, params, read, buf, eof>>

Ended == state \in {"done", "failed"} /\ UNCHANGED vars

Next == \/ Open \/ DropEmitted \/ ReadEnd \/ ReadFails \/ Filled \/ Emit \/ Ended
        \/ \E n \in 1 .. MaxInput : Read(n)

Spec == Init /\ [][Next]_vars

----------------------------------------------------------------------------
\* What the code promises.

\* The types of the variables; the window never exceeds its ceiling.
TypeOK == /\ input \in Inputs
          /\ params \in Params
          /\ read \in 0 .. Len(input)
          /\ buf \in Seq(Byte) /\ Len(buf) <= params.MaxSize
          /\ emitted \in 0 .. Len(buf)
          /\ eof \in BOOLEAN
          /\ refs \in Seq(Seq(Byte))
          /\ state \in {"open", "fill", "cut", "done", "failed"}

\* The hash a position of a chunk should have, from the bytes of the chunk alone:
\* bit i is the parity of the words of the window's bytes, each rotated by its
\* distance from the end.  A byte counts relative to Zero, which is what the
\* window is cleared to, so that bytes before the chunk count for nothing.
HashAt(chunk, i) ==
    {bit \in 0 .. Window - 1 :
        Cardinality({k \in 0 .. Window - 1 :
            /\ k < i
            /\ (bit + Window - k) % Window \in Xor(Table[chunk[i - k]], Table[Zero])}) % 2 = 1}

\* A position may end a chunk: the minimum is reached and the hash says so.
MayEnd(bytes, p, i) == /\ i >= p.MinSize
                       /\ \A bit \in HashAt(bytes, i) : bit >= p.MaskBits

\* A chunk of a file, from the file alone: next is what the file holds from the
\* chunk's first byte on.
IsChunkOf(chunk, next, p) ==
    LET n == Len(chunk)
    IN  /\ n > 0 /\ n <= p.MaxSize
        /\ n >= p.MinSize \/ n = Len(next)
        /\ IsPrefix(chunk, next)
        /\ \A i \in 1 .. n - 1 : ~MayEnd(next, p, i)
        /\ n = p.MaxSize \/ n = Len(next) \/ MayEnd(next, p, n)

\* chunk/chunk.go, boundary: where a file is cut depends on its bytes and the
\* parameters, never on how the reader sliced them, on the refills of the window
\* or on the bytes skipped below the minimum.  Every chunk starts where the one
\* before it ended, and ends at the first position at which a hash over the
\* chunk's own bytes allows it, at the maximum or with the file.  Since the chunk
\* before it has no say, an edit moves no boundary after the next one both files
\* share.
CutsFollowTheContent ==
    \A c \in 1 .. Len(refs) :
        LET before == Len(FlattenSeq(SubSeq(refs, 1, c - 1)))
        IN  IsChunkOf(refs[c], SubSeq(input, before + 1, Len(input)), params)

\* chunk/build.go: a result is a result for the whole input.  A stream that fails
\* after some of its chunks went to the sink never yields a shorter file.
ResultIsWhole == state = "done" => FlattenSeq(refs) = input
=============================================================================
