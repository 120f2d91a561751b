-------------------------- MODULE TransferPlanProofs --------------------------
(***************************************************************************)
(* The ranges of a whole transfer, for every size of the object and every  *)
(* number of jobs and parts: they make up the object exactly when no       *)
(* subtraction of the split wraps.                                         *)
(***************************************************************************)
EXTENDS TransferPlan, PartitionProofs, SequenceTheorems

Ranges    == [from : Nat, size : Nat]
LastEnd   == RangeEnd(ranges[Len(ranges)])
FirstOf(j) == PieceFrom(total, jobs, j)
ChunkOf(j) == Chunk(total, jobs, j)

\* How far the first k of n parts of a chunk reach: from the part that starts
\* past the end of the chunk on, too far.
Reached(s, chunk, n, k) ==
  LET p == PieceSize(chunk, n) IN
  /\ k * p <= chunk => s = k * p
  /\ k > 0 /\ (k - 1) * p <= chunk /\ chunk < k * p => s = chunk
  /\ k > 0 /\ chunk < (k - 1) * p => chunk < s

\* The ranges follow each other from the start of the object on.
Contiguous(seq) ==
  /\ Len(seq) > 0 => seq[1].from = 0
  /\ \A k \in 1 .. Len(seq) - 1 : seq[k + 1].from = RangeEnd(seq[k])

\* The jobs whose last range has been followed by the first of the next job.
Followed == {j \in 0 .. jobs - 1 : j + 1 < jobId \/ (j + 1 = jobId /\ i > 0)}

(* The offset of a job is as far as its parts reach, and the last range    *)
(* ends there; as long as the chunks fit, the ranges follow each other     *)
(* exactly when the parts of every chunk that has been followed do.        *)
PlanInv ==
  /\ SplitTypeOK
  /\ \E s \in Nat : offset = FirstOf(jobId) + s /\ Reached(s, ChunkOf(jobId), parts, i)
  /\ i > 0 \/ jobId > 0 <=> Len(ranges) > 0
  /\ i > 0 => LastEnd = offset
  /\ i = 0 /\ jobId > 0 =>
       \E s \in Nat : /\ LastEnd = FirstOf(jobId - 1) + s
                      /\ Reached(s, ChunkOf(jobId - 1), parts, parts)
  /\ Fits(total, jobs) =>
       (Contiguous(ranges) <=> \A j \in Followed : Fits(ChunkOf(j), parts))

-----------------------------------------------------------------------------
(* The split.                                                              *)

LEMMA SplitNumbers ==
  ASSUME total \in 0 .. MaxTotal, jobs \in 1 .. MaxJobs, parts \in 1 .. MaxParts,
         NEW j \in 0 .. jobs - 1
  PROVE  /\ Word \in Nat /\ total + jobs <= Word
         /\ FirstOf(j) \in Nat /\ ChunkOf(j) \in Nat /\ ChunkOf(j) + parts <= Word
  <1> DEFINE p == PieceSize(total, jobs)
  <1>1. /\ Word \in Nat /\ total \in Nat /\ jobs \in Nat \ {0} /\ parts \in Nat \ {0}
        /\ total + jobs <= Word /\ total + parts <= Word
    BY BoundsAssumption
  <1>2. p \in Nat /\ jobs * p < total + jobs /\ p <= total
    BY <1>1, PieceSizeBounds
  <1> HIDE DEF p
  <1>3. j * p \in Nat /\ jobs * p \in Nat /\ j * p <= jobs * p
    BY <1>1, <1>2, ProductGrows
  <1>4. FirstOf(j) = j * p /\ ChunkOf(j) = Least(p, Sub(total, j * p))
    BY DEF FirstOf, ChunkOf, Chunk, PieceLen, PieceFrom, p
  <1>5. Sub(total, j * p) \in Nat
    BY <1>1, <1>2, <1>3 DEF Sub
  <1>6. ChunkOf(j) \in Nat /\ ChunkOf(j) <= p
    BY <1>2, <1>4, <1>5 DEF Least
  <1> QED BY <1>1, <1>2, <1>3, <1>4, <1>6

\* No part reaches nowhere.
LEMMA NoPartReaches ==
  ASSUME NEW chunk \in Nat, NEW n \in Nat \ {0}, Word \in Nat, chunk + n <= Word,
         NEW s \in Nat
  PROVE  (Reached(s, chunk, n, 0) <=> s = 0) /\ PieceFrom(chunk, n, 0) = 0
  <1>1. PieceSize(chunk, n) \in Nat
    BY PieceSizeBounds
  <1>2. 0 * PieceSize(chunk, n) = 0
    BY <1>1
  <1> QED BY <1>2 DEF Reached, PieceFrom

\* One part more.
LEMMA PartReaches ==
  ASSUME NEW chunk \in Nat, NEW n \in Nat \ {0}, Word \in Nat, chunk + n <= Word,
         NEW k \in 0 .. n - 1, NEW s \in Nat, Reached(s, chunk, n, k)
  PROVE  /\ PieceLen(chunk, n, k) \in Nat
         /\ Reached(s + PieceLen(chunk, n, k), chunk, n, k + 1)
  <1> DEFINE p == PieceSize(chunk, n)
             size == PieceLen(chunk, n, k)
             a == (k - 1) * p
             b == k * p
             c == (k + 1) * p
  <1>1. p \in Nat /\ n * p < chunk + n
    BY PieceSizeBounds
  <1>2. /\ b <= chunk => s = b
        /\ k > 0 /\ a <= chunk /\ chunk < b => s = chunk
        /\ k > 0 /\ chunk < a => chunk < s
    BY DEF Reached
  <1>3. size = Least(p, Sub(chunk, b))
    BY DEF PieceLen, PieceFrom
  <1> HIDE DEF p
  <1>4. b \in Nat /\ c \in Nat /\ c = b + p
    BY <1>1, NextMultiple
  <1>5. c <= n * p /\ n * p \in Nat
    <2>1. k + 1 \in Nat /\ n \in Nat /\ k + 1 <= n
      OBVIOUS
    <2> QED BY <1>1, <2>1, ProductGrows
  <1>6. k > 0 => a \in Nat /\ b = a + p
    <2>1. k > 0 => k - 1 \in Nat /\ (k - 1) + 1 = k
      OBVIOUS
    <2> QED BY <1>1, <2>1, NextMultiple
  <1>7. k = 0 => b = 0
    BY <1>1
  <1>8. b <= chunk => size = Least(p, chunk - b)
    BY <1>3 DEF Sub
  <1>9. chunk < b => size = p /\ p > 0 /\ k > 0
    <2>1. chunk < b => Sub(chunk, b) = Word + chunk - b
      BY <1>4 DEF Sub
    <2>2. p <= Word + chunk - b
      BY <1>1, <1>4, <1>5
    <2>3. chunk < b => p > 0 /\ k > 0
      BY <1>1, <1>4, <1>6, <1>7
    <2> QED BY <1>1, <1>3, <1>4, <2>1, <2>2, <2>3 DEF Least
  <1> HIDE DEF a, b, c, size
  <1>10. size \in Nat
    BY <1>1, <1>4, <1>8, <1>9 DEF Least
  <1>11. /\ c <= chunk => s + size = c
         /\ b <= chunk /\ chunk < c => s + size = chunk
         /\ chunk < b => chunk < s + size
    BY <1>1, <1>2, <1>4, <1>6, <1>8, <1>9 DEF Least
  <1>12. (k + 1) - 1 = k /\ k + 1 > 0
    OBVIOUS
  <1> QED BY <1>10, <1>11, <1>12 DEF Reached, b, c, size, p

\* All the parts reach the end of the chunk, or farther when the split wraps.
LEMMA AllPartsReach ==
  ASSUME NEW chunk \in Nat, NEW n \in Nat \ {0}, Word \in Nat, chunk + n <= Word,
         NEW s \in Nat, Reached(s, chunk, n, n)
  PROVE  chunk <= s /\ (s = chunk <=> Fits(chunk, n))
  <1> DEFINE p == PieceSize(chunk, n)
  <1>1. p \in Nat /\ chunk <= n * p
    BY PieceSizeBounds
  <1>2. /\ n * p <= chunk => s = n * p
        /\ (n - 1) * p <= chunk /\ chunk < n * p => s = chunk
        /\ chunk < (n - 1) * p => chunk < s
    BY DEF Reached
  <1>3. Fits(chunk, n) <=> (n - 1) * p <= chunk
    BY DEF Fits
  <1> HIDE DEF p
  <1>4. n * p \in Nat /\ (n - 1) * p \in Nat /\ n * p = (n - 1) * p + p
    <2>1. n - 1 \in Nat /\ (n - 1) + 1 = n
      OBVIOUS
    <2> QED BY <1>1, <2>1, NextMultiple
  <1> QED BY <1>1, <1>2, <1>3, <1>4

LEMMA AppendContiguous ==
  ASSUME NEW seq \in Seq(Ranges), NEW r \in Ranges
  PROVE  /\ Append(seq, r) \in Seq(Ranges) /\ Len(Append(seq, r)) = Len(seq) + 1
         /\ Append(seq, r)[Len(seq) + 1] = r
         /\ Contiguous(Append(seq, r)) <=>
              /\ Contiguous(seq)
              /\ Len(seq) = 0 => r.from = 0
              /\ Len(seq) > 0 => r.from = RangeEnd(seq[Len(seq)])
  <1> DEFINE t == Append(seq, r)
             n == Len(seq)
  <1>1. n \in Nat
    BY LenProperties
  <1>2. /\ t \in Seq(Ranges) /\ Len(t) = n + 1
        /\ t[n + 1] = r /\ \A k \in 1 .. n : t[k] = seq[k]
    BY AppendProperties
  <1> HIDE DEF t
  <1>3. ASSUME Contiguous(t)
        PROVE  Contiguous(seq) /\ (n = 0 => r.from = 0) /\ (n > 0 => r.from = RangeEnd(seq[n]))
    <2>1. t[1].from = 0 /\ \A k \in 1 .. n : t[k + 1].from = RangeEnd(t[k])
      BY <1>1, <1>2, <1>3 DEF Contiguous
    <2>2. n > 0 => t[1] = seq[1]
      BY <1>1, <1>2
    <2>3. ASSUME NEW k \in 1 .. n - 1 PROVE seq[k + 1].from = RangeEnd(seq[k])
      <3>1. t[k + 1] = seq[k + 1] /\ t[k] = seq[k]
        BY <1>1, <1>2
      <3> QED BY <1>1, <2>1, <3>1
    <2>4. Contiguous(seq)
      BY <2>1, <2>2, <2>3 DEF Contiguous
    <2>5. n > 0 => r.from = RangeEnd(seq[n])
      BY <1>1, <1>2, <2>1
    <2> QED BY <1>1, <1>2, <2>1, <2>4, <2>5
  <1>4. ASSUME Contiguous(seq), n = 0 => r.from = 0, n > 0 => r.from = RangeEnd(seq[n])
        PROVE  Contiguous(t)
    <2>1. t[1].from = 0
      BY <1>1, <1>2, <1>4 DEF Contiguous
    <2>2. ASSUME NEW k \in 1 .. n PROVE t[k + 1].from = RangeEnd(t[k])
      <3>1. CASE k = n
        BY <1>1, <1>2, <1>4, <3>1
      <3>2. CASE k # n
        <4>1. k \in 1 .. n - 1 /\ t[k + 1] = seq[k + 1] /\ t[k] = seq[k]
          BY <1>1, <1>2, <3>2
        <4> QED BY <1>4, <4>1 DEF Contiguous
      <3> QED BY <3>1, <3>2
    <2> QED BY <1>1, <1>2, <2>1, <2>2 DEF Contiguous
  <1> QED BY <1>2, <1>3, <1>4 DEF t

-----------------------------------------------------------------------------
(* The steps.                                                              *)

LEMMA PlanInit == SplitInit => PlanInv
  <1> SUFFICES ASSUME SplitInit PROVE PlanInv
    OBVIOUS
  <1>1. /\ total \in 0 .. MaxTotal /\ jobs \in 1 .. MaxJobs /\ parts \in 1 .. MaxParts
        /\ jobId = 0 /\ i = 0 /\ ranges = <<>> /\ offset = PieceFrom(total, jobs, 0)
        /\ jobs \in Nat /\ jobs >= 1 /\ parts \in Nat \ {0}
    BY BoundsAssumption DEF SplitInit
  <1>2. 0 \in 0 .. jobs - 1
    BY <1>1
  <1>3. offset = FirstOf(0) + 0 /\ FirstOf(0) \in Nat
    BY <1>1, <1>2, SplitNumbers DEF FirstOf
  <1>4. Reached(0, ChunkOf(0), parts, 0)
    <2>1. ChunkOf(0) \in Nat /\ ChunkOf(0) + parts <= Word /\ Word \in Nat
      BY <1>1, <1>2, SplitNumbers
    <2> QED BY <1>1, <2>1, NoPartReaches
  <1>5. Len(ranges) = 0 /\ ranges \in Seq(Ranges)
    BY <1>1, EmptySeq
  <1>6. SplitTypeOK
    BY <1>1, <1>2, <1>3, <1>5 DEF SplitTypeOK, Ranges
  <1>7. Contiguous(ranges)
    BY <1>5 DEF Contiguous
  <1>8. Followed = {}
    BY <1>1 DEF Followed
  <1> QED BY <1>1, <1>3, <1>4, <1>5, <1>6, <1>7, <1>8 DEF PlanInv

LEMMA NextPartStep ==
  ASSUME PlanInv, NextPart
  PROVE  PlanInv'
  <1> DEFINE size == PartLen(total, jobs, parts, jobId, i)
             r == [from |-> offset, size |-> size]
             fits == \A j \in Followed : Fits(ChunkOf(j), parts)
  <1>1. /\ total \in 0 .. MaxTotal /\ jobs \in 1 .. MaxJobs /\ parts \in 1 .. MaxParts
        /\ jobId \in 0 .. jobs - 1 /\ i \in 0 .. parts /\ offset \in Nat
        /\ ranges \in Seq(Ranges)
        /\ total \in Nat /\ jobs \in Nat \ {0} /\ parts \in Nat \ {0}
    BY BoundsAssumption DEF PlanInv, SplitTypeOK, Ranges
  <1>2. /\ i < parts /\ ranges' = Append(ranges, r) /\ offset' = offset + size /\ i' = i + 1
        /\ total' = total /\ jobs' = jobs /\ parts' = parts /\ jobId' = jobId
    BY DEF NextPart
  <1>3. /\ Word \in Nat /\ total + jobs <= Word
        /\ FirstOf(jobId) \in Nat /\ ChunkOf(jobId) \in Nat /\ ChunkOf(jobId) + parts <= Word
    BY <1>1, SplitNumbers
  <1>4. PICK s \in Nat : offset = FirstOf(jobId) + s /\ Reached(s, ChunkOf(jobId), parts, i)
    BY DEF PlanInv
  <1>5. i \in 0 .. parts - 1
    BY <1>1, <1>2
  <1>6. size = PieceLen(ChunkOf(jobId), parts, i)
    BY DEF PartLen, ChunkOf
  <1>7. size \in Nat /\ Reached(s + size, ChunkOf(jobId), parts, i + 1)
    BY <1>1, <1>3, <1>4, <1>5, <1>6, PartReaches
  <1> HIDE DEF size
  <1>8. r \in Ranges /\ RangeEnd(r) = offset + size /\ r.from = offset
    BY <1>1, <1>7 DEF Ranges, RangeEnd
  <1> HIDE DEF r
  <1>9. /\ ranges' \in Seq(Ranges) /\ Len(ranges') = Len(ranges) + 1
        /\ ranges'[Len(ranges) + 1] = r
        /\ Contiguous(ranges') <=>
             /\ Contiguous(ranges)
             /\ Len(ranges) = 0 => r.from = 0
             /\ Len(ranges) > 0 => r.from = LastEnd
    BY <1>1, <1>2, <1>8, AppendContiguous DEF LastEnd
  <1>10. Len(ranges) \in Nat /\ Len(ranges') > 0 /\ LastEnd' = offset'
    <2>1. Len(ranges) \in Nat
      BY <1>1, LenProperties
    <2>2. ranges'[Len(ranges')] = r
      BY <1>9
    <2> QED BY <1>2, <1>8, <1>9, <2>1, <2>2 DEF LastEnd
  <1>11. SplitTypeOK'
    BY <1>1, <1>2, <1>5, <1>7, <1>9 DEF SplitTypeOK, Ranges
  <1>12. (\E t \in Nat : offset = FirstOf(jobId) + t /\ Reached(t, ChunkOf(jobId), parts, i))'
    <2>1. s + size \in Nat /\ offset' = FirstOf(jobId) + (s + size)
      BY <1>2, <1>3, <1>4, <1>7
    <2>2. FirstOf(jobId)' = FirstOf(jobId) /\ ChunkOf(jobId)' = ChunkOf(jobId)
      BY <1>2 DEF FirstOf, ChunkOf
    <2> QED BY <1>2, <1>7, <2>1, <2>2
  <1>13. i' > 0
    BY <1>1, <1>2
  <1>14. Fits(total, jobs) => (Contiguous(ranges') <=> fits')
    <2> SUFFICES ASSUME Fits(total, jobs) PROVE Contiguous(ranges') <=> fits'
      OBVIOUS
    <2>1. Contiguous(ranges) <=> fits
      BY DEF PlanInv
    <2>2. fits' <=> \A j \in Followed' : Fits(ChunkOf(j), parts)
      BY <1>2 DEF ChunkOf
    <2>3. CASE i > 0
      <3>1. Followed' = Followed
        BY <1>1, <1>2, <2>3 DEF Followed
      <3>2. Len(ranges) > 0 /\ LastEnd = offset
        BY <2>3 DEF PlanInv
      <3> QED BY <1>8, <1>9, <2>1, <2>2, <3>1, <3>2
    <2>4. CASE i = 0 /\ jobId = 0
      <3>1. Followed' = {} /\ Followed = {}
        BY <1>1, <1>2, <2>4 DEF Followed
      <3>2. ~(Len(ranges) > 0) /\ Len(ranges) = 0
        BY <1>10, <2>4 DEF PlanInv
      <3>3. offset = 0
        <4>2. FirstOf(0) = 0
          BY <1>1, <1>3, NoPartReaches DEF FirstOf
        <4>3. s = 0
          BY <1>1, <1>3, <1>4, <2>4, NoPartReaches
        <4> QED BY <1>4, <2>4, <4>2, <4>3
      <3> QED BY <1>8, <1>9, <2>1, <2>2, <3>1, <3>2, <3>3
    <2>5. CASE i = 0 /\ jobId > 0
      <3> DEFINE j == jobId - 1
      <3>1. j \in 0 .. jobs - 1 /\ j # jobs - 1 /\ jobId = j + 1
        BY <1>1, <2>5
      <3>2. Followed' = Followed \cup {j}
        BY <1>1, <1>2, <2>5 DEF Followed
      <3>3. PICK t \in Nat : LastEnd = FirstOf(j) + t /\ Reached(t, ChunkOf(j), parts, parts)
        BY <2>5 DEF PlanInv
      <3> HIDE DEF j
      <3>4. FirstOf(j) \in Nat /\ ChunkOf(j) \in Nat /\ ChunkOf(j) + parts <= Word
        BY <1>1, <3>1, SplitNumbers
      <3>5. t = ChunkOf(j) <=> Fits(ChunkOf(j), parts)
        BY <1>1, <1>3, <3>3, <3>4, AllPartsReach
      <3>6. FirstOf(j) + ChunkOf(j) = FirstOf(jobId)
        BY <1>1, <1>3, <3>1, PiecesTile DEF FirstOf, ChunkOf, Chunk
      <3>7. offset = FirstOf(jobId)
        <4>1. s = 0
          BY <1>1, <1>3, <1>4, <2>5, NoPartReaches
        <4> QED BY <1>3, <1>4, <4>1
      <3>8. offset = LastEnd <=> Fits(ChunkOf(j), parts)
        BY <3>3, <3>4, <3>5, <3>6, <3>7
      <3>9. Len(ranges) > 0 /\ Len(ranges) # 0
        BY <1>10, <2>5 DEF PlanInv
      <3>10. Contiguous(ranges') <=> Contiguous(ranges) /\ Fits(ChunkOf(j), parts)
        BY <1>8, <1>9, <3>8, <3>9
      <3> QED BY <2>1, <2>2, <3>2, <3>10
    <2> QED BY <1>1, <2>3, <2>4, <2>5
  <1>15. (i > 0 \/ jobId > 0 <=> Len(ranges) > 0)' /\ (i > 0 => LastEnd = offset)'
    BY <1>10, <1>13
  <1>16. ~(i' = 0)
    BY <1>1, <1>2
  <1>17. (Fits(total, jobs) => (Contiguous(ranges) <=> fits))'
    BY <1>2, <1>14
  <1> QED BY <1>11, <1>12, <1>15, <1>16, <1>17, Zenon DEF PlanInv

\* The next job starts, and its first range is not there yet.
LEMMA NextJobStep ==
  ASSUME PlanInv, NextJob
  PROVE  PlanInv'
  <1>1. /\ total \in 0 .. MaxTotal /\ jobs \in 1 .. MaxJobs /\ parts \in 1 .. MaxParts
        /\ jobId \in 0 .. jobs - 1 /\ i \in 0 .. parts /\ offset \in Nat
        /\ ranges \in Seq(Ranges)
        /\ total \in Nat /\ jobs \in Nat \ {0} /\ parts \in Nat \ {0}
    BY BoundsAssumption DEF PlanInv, SplitTypeOK, Ranges
  <1>2. /\ i = parts /\ jobId + 1 < jobs /\ jobId' = jobId + 1 /\ i' = 0
        /\ offset' = PieceFrom(total, jobs, jobId + 1)
        /\ total' = total /\ jobs' = jobs /\ parts' = parts /\ ranges' = ranges
    BY DEF NextJob
  <1>3. jobId + 1 \in 0 .. jobs - 1
    BY <1>1, <1>2
  <1>4. /\ Word \in Nat /\ FirstOf(jobId + 1) \in Nat
        /\ ChunkOf(jobId + 1) \in Nat /\ ChunkOf(jobId + 1) + parts <= Word
    BY <1>1, <1>3, SplitNumbers
  <1>5. PICK s \in Nat : offset = FirstOf(jobId) + s /\ Reached(s, ChunkOf(jobId), parts, i)
    BY DEF PlanInv
  <1>6. FirstOf(jobId)' = FirstOf(jobId + 1) /\ ChunkOf(jobId)' = ChunkOf(jobId + 1)
    BY <1>2 DEF FirstOf, ChunkOf
  <1>7. offset' = FirstOf(jobId + 1)
    BY <1>2 DEF FirstOf
  <1>8. SplitTypeOK'
    BY <1>1, <1>2, <1>3, <1>4, <1>7 DEF SplitTypeOK, Ranges
  <1>9. (\E t \in Nat : offset = FirstOf(jobId) + t /\ Reached(t, ChunkOf(jobId), parts, i))'
    <2>1. Reached(0, ChunkOf(jobId + 1), parts, 0)
      BY <1>1, <1>4, NoPartReaches
    <2>2. offset' = FirstOf(jobId + 1) + 0
      BY <1>4, <1>7
    <2> QED BY <1>2, <1>6, <2>1, <2>2
  <1>10. Len(ranges') > 0 /\ jobId' > 0 /\ LastEnd' = offset
    BY <1>1, <1>2 DEF PlanInv, LastEnd
  <1>11. (\E t \in Nat : /\ LastEnd = FirstOf(jobId - 1) + t
                         /\ Reached(t, ChunkOf(jobId - 1), parts, parts))'
    <2>1. jobId' - 1 = jobId
      BY <1>1, <1>2
    <2>2. FirstOf(jobId - 1)' = FirstOf(jobId) /\ ChunkOf(jobId - 1)' = ChunkOf(jobId)
      BY <1>2, <2>1 DEF FirstOf, ChunkOf
    <2> QED BY <1>2, <1>5, <1>10, <2>2
  <1>12. Followed' = Followed
    BY <1>1, <1>2 DEF Followed
  <1>13. (Fits(total, jobs) =>
            (Contiguous(ranges) <=> \A j \in Followed : Fits(ChunkOf(j), parts)))'
    <2>1. Fits(total, jobs) =>
            (Contiguous(ranges) <=> \A j \in Followed : Fits(ChunkOf(j), parts))
      BY DEF PlanInv
    <2> QED BY <1>2, <1>12, <2>1 DEF ChunkOf
  <1>14. (i > 0 \/ jobId > 0 <=> Len(ranges) > 0)' /\ ~(i > 0)'
    BY <1>2, <1>10
  <1> QED BY <1>8, <1>9, <1>11, <1>13, <1>14, Zenon DEF PlanInv

LEMMA PlanAlways == SplitSpec => []PlanInv
  <1>1. PlanInv /\ [SplitNext]_splitVars => PlanInv'
    <2> SUFFICES ASSUME PlanInv, [SplitNext]_splitVars PROVE PlanInv'
      OBVIOUS
    <2>1. CASE UNCHANGED splitVars
      BY <2>1 DEF splitVars, PlanInv, SplitTypeOK, LastEnd, FirstOf, ChunkOf, Followed
    <2> QED BY <2>1, NextPartStep, NextJobStep DEF SplitNext
  <1> QED BY <1>1, PlanInit, PTL DEF SplitSpec

-----------------------------------------------------------------------------
(* Theorems.                                                               *)

\* Where the last job of a transfer ends.
LEMMA PlannedEnd ==
  ASSUME PlanInv, Planned
  PROVE  /\ jobId = jobs - 1 /\ Len(ranges) > 0
         /\ LastEnd \in Nat /\ FirstOf(jobId) + ChunkOf(jobId) <= LastEnd
         /\ LastEnd = FirstOf(jobId) + ChunkOf(jobId) <=> Fits(ChunkOf(jobId), parts)
         /\ FirstOf(jobId) \in Nat /\ ChunkOf(jobId) \in Nat
  <1>1. /\ total \in 0 .. MaxTotal /\ jobs \in 1 .. MaxJobs /\ parts \in 1 .. MaxParts
        /\ jobId \in 0 .. jobs - 1 /\ parts \in Nat \ {0} /\ jobs \in Nat \ {0}
    BY BoundsAssumption DEF PlanInv, SplitTypeOK
  <1>2. i = parts /\ jobId = jobs - 1
    BY <1>1 DEF Planned
  <1>3. /\ Word \in Nat /\ FirstOf(jobId) \in Nat
        /\ ChunkOf(jobId) \in Nat /\ ChunkOf(jobId) + parts <= Word
    BY <1>1, SplitNumbers
  <1>4. PICK s \in Nat : offset = FirstOf(jobId) + s /\ Reached(s, ChunkOf(jobId), parts, i)
    BY DEF PlanInv
  <1>5. ChunkOf(jobId) <= s /\ (s = ChunkOf(jobId) <=> Fits(ChunkOf(jobId), parts))
    BY <1>1, <1>2, <1>3, <1>4, AllPartsReach
  <1>6. Len(ranges) > 0 /\ LastEnd = offset
    BY <1>1, <1>2 DEF PlanInv
  <1> QED BY <1>2, <1>3, <1>4, <1>5, <1>6

\* The numbers of a transfer stay in their ranges, whatever wraps
\* (upload.cpp:98-107, download.cpp:91-101).
THEOREM TypeCorrect == SplitSpec => []SplitTypeOK
  <1>1. PlanInv => SplitTypeOK
    BY DEF PlanInv
  <1> QED BY <1>1, PlanAlways, PTL

LEMMA TilesSplit ==
  PlanInv /\ Planned => (Tiles(ranges, total) <=> SafeSplit(total, jobs, parts))
  <1> SUFFICES ASSUME PlanInv, Planned
               PROVE  Tiles(ranges, total) <=> SafeSplit(total, jobs, parts)
    OBVIOUS
  <1>1. /\ total \in Nat /\ jobs \in Nat \ {0} /\ jobId \in 0 .. jobs - 1
        /\ total \in 0 .. MaxTotal /\ jobs \in 1 .. MaxJobs /\ parts \in 1 .. MaxParts
        /\ i = parts /\ parts > 0
    BY BoundsAssumption DEF PlanInv, SplitTypeOK, Planned
  <1>2. /\ jobId = jobs - 1 /\ Len(ranges) > 0
        /\ LastEnd \in Nat /\ FirstOf(jobId) + ChunkOf(jobId) <= LastEnd
        /\ LastEnd = FirstOf(jobId) + ChunkOf(jobId) <=> Fits(ChunkOf(jobId), parts)
        /\ FirstOf(jobId) \in Nat /\ ChunkOf(jobId) \in Nat
    BY PlannedEnd
  <1>3. Word \in Nat /\ total + jobs <= Word
    BY <1>1, SplitNumbers
  <1>4. Tiles(ranges, total) <=> Contiguous(ranges) /\ LastEnd = total
    BY <1>2 DEF Tiles, Contiguous, LastEnd
  <1>5. Fits(total, jobs) <=> FirstOf(jobId) <= total
    BY <1>2 DEF Fits, FirstOf, PieceFrom
  <1>6. Fits(total, jobs) => FirstOf(jobId) + ChunkOf(jobId) = total
    BY <1>1, <1>2, <1>3, PiecesTile DEF FirstOf, ChunkOf, Chunk
  <1>7. 0 .. jobs - 1 = Followed \cup {jobId}
    BY <1>1, <1>2 DEF Followed
  <1>8. SafeSplit(total, jobs, parts) <=>
          /\ Fits(total, jobs)
          /\ \A j \in Followed : Fits(ChunkOf(j), parts)
          /\ Fits(ChunkOf(jobId), parts)
    BY <1>7 DEF SafeSplit, ChunkOf
  <1>9. Fits(total, jobs) =>
          (Contiguous(ranges) <=> \A j \in Followed : Fits(ChunkOf(j), parts))
    BY DEF PlanInv
  <1>10. Fits(total, jobs) => (LastEnd = total <=> Fits(ChunkOf(jobId), parts))
    BY <1>2, <1>6
  <1>11. LastEnd = total => Fits(total, jobs)
    BY <1>1, <1>2, <1>5
  <1> QED BY <1>4, <1>8, <1>9, <1>10, <1>11

(* A transfer whose split wraps nowhere, in any number of jobs and parts,  *)
(* asks for every byte of the object once and in order: the running        *)
(* offset of a job (upload.cpp:98-107) meets the start the next job has   *)
(* computed for itself.                                                    *)
THEOREM SafeTransfers == SplitSpec => []SafeTransfersTile
  <1>1. PlanInv => SafeTransfersTile
    BY TilesSplit DEF SafeTransfersTile
  <1> QED BY <1>1, PlanAlways, PTL

(* One subtraction that wraps, at either level and in any job, is enough   *)
(* for the ranges not to be the object: the condition is the weakest.      *)
THEOREM OnlySafeTransfers == SplitSpec => []OnlySafeTransfersTile
  <1>1. PlanInv => OnlySafeTransfersTile
    BY TilesSplit DEF OnlySafeTransfersTile
  <1> QED BY <1>1, PlanAlways, PTL
=============================================================================
