------------------------------ MODULE HoleCopy -------------------------------
(***************************************************************************)
(* FS-10: a copy that keeps the holes of a sparse file.  Files are counted *)
(* in blocks of the file system; holes are whole blocks.  The loop reads a *)
(* buffer full, then asks lseek where data and holes are - which moves the *)
(* position the next read starts from - and writes the data the source has *)
(* there out of the buffer, also what is not in it.                        *)
(***************************************************************************)
EXTENDS Integers, Sequences, FiniteSetsExt

CONSTANTS
  BufferSize,   \* in blocks
  MaxLength     \* bound: the length of the source in blocks

\* What a block holds: zeros, data of its own, or what lay behind the buffer.
Zero == 0
Junk == -1

VARIABLES
  length, data,  \* the source: its length and which blocks are not holes
  read,          \* its read position
  block,         \* what BUF holds
  got,           \* bytes_read
  offset, cur,   \* offset, cur_offset
  dest, write,   \* the destination and its write position
  copy           \* the step of main, or how it ended

vars == <<length, data, read, block, got, offset, cur, dest, write, copy>>

Init ==
  /\ length \in 0 .. MaxLength
  /\ data \in SUBSET (1 .. MaxLength) /\ \A d \in data : d <= length
  /\ read = 0 /\ block = << >> /\ got = 0
  /\ offset = 0 /\ cur = 0
  /\ dest = << >> /\ write = 0
  /\ copy = "read"

\* Blocks are numbered from 0 in the code, and from 1 in data and dest; block
\* k of the source holds k.
Source == [k \in 1 .. length |-> IF k \in data THEN k ELSE Zero]

\* lseek with SEEK_DATA and SEEK_HOLE; the end of the file counts as a hole.
DataFrom(pos) == {k \in pos .. length - 1 : k + 1 \in data}
HoleFrom(pos) == {k \in pos .. length - 1 : k + 1 \notin data} \cup {length}
-----------------------------------------------------------------------------
ReadOn ==
  /\ copy = "read"
  /\ got' = Min({BufferSize, length - read})
  /\ block' = [k \in 1 .. BufferSize |->
                 IF k <= got' THEN Source[read + k]
                 ELSE IF k \in DOMAIN block THEN block[k] ELSE Junk]
  /\ read' = read + got' /\ cur' = 0
  /\ copy' = IF got' = 0 THEN "success" ELSE "seek"
  /\ UNCHANGED <<length, data, offset, dest, write>>

\* The end of the inner loop.
NextBuffer ==
  /\ copy = "seek" /\ cur >= got
  /\ offset' = offset + got
  /\ copy' = "read"
  /\ UNCHANGED <<length, data, read, block, got, cur, dest, write>>

\* What write takes out of the buffer: n blocks after the first k.
FromBuffer(k, n) ==
  [j \in 1 .. n |-> IF k + j \in DOMAIN block THEN block[k + j] ELSE Junk]

\* The destination with these blocks at this position; what lies between its
\* old end and the position becomes a hole.
Written(blocks, pos) ==
  [k \in 1 .. Max({Len(dest), pos + Len(blocks)}) |->
     IF k \in pos + 1 .. pos + Len(blocks) THEN blocks[k - pos]
     ELSE IF k \in DOMAIN dest THEN dest[k] ELSE Zero]

StayInPlace(hole_bytes) == write

\* lseek with SEEK_CUR in the destination.
SkipHole(hole_bytes) == write + hole_bytes

\* Without data behind the position lseek fails, and so does the copy.
SeekFails ==
  /\ copy = "seek" /\ cur < got
  /\ DataFrom(offset + cur) = {}
  /\ copy' = "failed"
  /\ UNCHANGED <<length, data, read, block, got, offset, cur, dest, write>>

\* How much of n blocks from there write writes: it stops where memory behind
\* the buffer ends, and nobody asks whether it has.
Writable(k, n) == {w \in 1 .. n : w = n \/ k + w >= BufferSize}

\* One turn of the inner loop: either the hole in front of the data is skipped
\* in the destination, or the extent is written.  The second lseek leaves the
\* source at the hole it has found, where the next buffer is read from.
CopyExtent ==
  LET pos == offset + cur
      d   == Min(DataFrom(pos))
      h   == Min(HoleFrom(pos))
  IN  /\ copy = "seek" /\ cur < got /\ DataFrom(pos) # {}
      /\ read' = h
      /\ \/ /\ d > pos
            /\ write' = SkipHole(d - pos) /\ cur' = cur + (d - pos)
            /\ UNCHANGED dest
         \/ /\ h > d
            /\ \E w \in Writable(cur, h - d) :
                 dest' = Written(FromBuffer(cur, w), write) /\ write' = write + w
            /\ cur' = cur + (h - d)
      /\ UNCHANGED <<length, data, block, got, offset, copy>>

Next == ReadOn \/ NextBuffer \/ SeekFails \/ CopyExtent

Spec == Init /\ [][Next]_vars
-----------------------------------------------------------------------------
\* "Successfully copied": the destination is the source.
SuccessMeansCopied == copy = "success" => dest = Source

\* Files that end in data and in which, wherever a buffer full ends up to x,
\* data ends too and a hole begins.
AlignedUpTo(x) ==
  \A b \in 1 .. length - 1 :
    b <= x /\ b % BufferSize = 0 => b \in data /\ b + 1 \notin data

Aligned == (length = 0 \/ length \in data) /\ AlignedUpTo(length)

\* The aligned files are copied exactly - those that fit one buffer and end in
\* data, and next to no others - and the rest is copied wrongly or not to the
\* end.
ExactIffAligned ==
  copy \in {"success", "failed"} => (copy = "success" /\ dest = Source <=> Aligned)
-----------------------------------------------------------------------------
(* The inductive invariant. *)

CopyTypes ==
  /\ copy \in {"read", "seek", "success", "failed"}
  /\ length \in Nat /\ data \subseteq 1 .. length
  /\ read \in 0 .. length /\ got \in 0 .. BufferSize
  /\ offset \in Nat /\ cur \in Nat /\ write \in Nat
  /\ dest \in Seq(Int) /\ Len(dest) <= write
  /\ block \in Seq(Int) /\ Len(block) <= BufferSize
  /\ copy = "seek" => got > 0 /\ Len(block) = BufferSize

\* As long as the file is aligned, the buffer holds what is at offset, and what
\* has been passed is copied; a buffer ends where data ends.
OnTrack ==
  /\ AlignedUpTo(offset)
  /\ offset = length \/ offset % BufferSize = 0
  /\ \A k \in 1 .. write : IF k <= Len(dest) THEN dest[k] = Source[k] ELSE k \notin data
  /\ copy = "read" =>
       /\ read = offset /\ write = offset /\ Len(dest) = offset
       /\ offset = length => offset \in data \cup {0}
  /\ copy = "seek" =>
       /\ got = BufferSize \/ offset + got = length
       /\ offset + got <= length
       /\ \A k \in 1 .. got : block[k] = Source[offset + k]
       /\ write = offset + cur /\ cur <= got
       /\ cur = got => read = write /\ Len(dest) = write
                        /\ write \in data /\ write + 1 \notin data

\* Behind a boundary that is not clean, the next buffer begins with a hole,
\* and the next data belongs where the destination is written next.
OffTrack ==
  LET b == IF copy = "seek" /\ cur >= got THEN offset + got ELSE offset
  IN  /\ b <= write /\ write + 1 \in data /\ \A k \in b + 1 .. write : k \notin data
      /\ IF copy = "seek" /\ cur < got THEN cur = 0 /\ block[1] = Zero
                                      ELSE read + 1 \notin data

\* A block of data has been passed and is not in its place.
Wrong == \E p \in data : p <= write /\ (p <= Len(dest) => dest[p] # p)

CopyInv ==
  /\ CopyTypes /\ ExactIffAligned
  /\ copy \in {"read", "seek"} => OnTrack \/ (~Aligned /\ (OffTrack \/ Wrong))
=============================================================================
