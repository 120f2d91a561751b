------------------------------ MODULE Partition ------------------------------
(***************************************************************************)
(* How Upload and Download cut an object.  The caller splits the object    *)
(* into `jobs` chunks and every job splits its chunk into `partsPerJob`    *)
(* parts, with the same arithmetic at both levels: pieces of               *)
(* ceil(total / n), the last ones shortened by                             *)
(*     min(pieceSize, total - k * pieceSize)                               *)
(* The subtraction is on size_t: it wraps when piece k starts past the     *)
(* end, and min then returns a FULL piece instead of an empty one.         *)
(***************************************************************************)
EXTENDS Integers, Sequences

CONSTANT Word   \* number of values of size_t, 2^64 in the program

\* (a + n - 1) / n, whose sum wraps too.
CeilDiv(a, n) == ((a + n - 1) % Word) \div n

\* Variant: a subtraction that stops at 0.
SubSaturating(a, b) == IF b <= a THEN a - b ELSE 0

\* size_t subtraction.
Sub(a, b) == IF b <= a THEN a - b ELSE Word + a - b

Least(a, b) == IF a <= b THEN a ELSE b

\* Variant: pieces rounded down.
PieceSizeDown(total, n) == total \div n

\* The nominal size of the n pieces of `total`, where piece k (0 .. n-1)
\* starts, and the size it is given.
PieceSize(total, n)    == CeilDiv(total, n)
PieceFrom(total, n, k) == k * PieceSize(total, n)
PieceLen(total, n, k)  ==
  Least(PieceSize(total, n), Sub(total, PieceFrom(total, n, k)))

\* No piece starts past the end, so that no subtraction wraps.
Fits(total, n) == (n - 1) * PieceSize(total, n) <= total

-----------------------------------------------------------------------------
(* The two levels, for an object of `total` bytes.                         *)

Chunk(total, jobs, j) == PieceLen(total, jobs, j)

PartLen(total, jobs, parts, j, i) ==
  PieceLen(Chunk(total, jobs, j), parts, i)

\* Neither level wraps.
SafeSplit(total, jobs, parts) ==
  /\ Fits(total, jobs)
  /\ \A j \in 0 .. jobs - 1 : Fits(Chunk(total, jobs, j), parts)

-----------------------------------------------------------------------------
(* Ranges of bytes, [from, size], one after the other.                     *)

RangeEnd(r) == r.from + r.size

\* They make up the bytes 0 .. total - 1, each once and in order.
Tiles(ranges, total) ==
  /\ Len(ranges) > 0
  /\ ranges[1].from = 0
  /\ \A k \in 1 .. Len(ranges) - 1 : ranges[k + 1].from = RangeEnd(ranges[k])
  /\ RangeEnd(ranges[Len(ranges)]) = total
=============================================================================
