--------------------------- MODULE PartitionProofs ---------------------------
(***************************************************************************)
(* The split of Partition, for every size and every number of pieces: when *)
(* no piece starts past the end the pieces tile the object, and an object  *)
(* of at least (n - 1)^2 bytes always splits that way.                     *)
(***************************************************************************)
EXTENDS Partition, TLAPS

\* The integer division of the code, as multiplication.
LEMMA DivBounds ==
  ASSUME NEW a \in Nat, NEW n \in Nat \ {0}
  PROVE  /\ a \div n \in Nat
         /\ (a \div n) * n <= a
         /\ a < (a \div n) * n + n
  OBVIOUS

\* Moving one piece forward adds one piece size.
LEMMA NextMultiple ==
  ASSUME NEW k \in Nat, NEW p \in Nat
  PROVE  (k + 1) * p = k * p + p
  OBVIOUS

\* A product grows with its first factor.
LEMMA ProductGrows ==
  ASSUME NEW k \in Nat, NEW m \in Nat, NEW p \in Nat, k <= m
  PROVE  k * p <= m * p
  <1>1. /\ m - k \in Nat
        /\ m * p = k * p + (m - k) * p
    OBVIOUS
  <1>2. (m - k) * p >= 0
    BY <1>1
  <1>3. k * p \in Nat /\ m * p \in Nat
    OBVIOUS
  <1> QED BY <1>1, <1>2, <1>3

\* ceil(total / n) pieces cover the total, and overshoot by less than n.
LEMMA PieceSizeBounds ==
  ASSUME NEW total \in Nat, NEW n \in Nat \ {0}, Word \in Nat, total + n <= Word
  PROVE  /\ PieceSize(total, n) \in Nat
         /\ total <= n * PieceSize(total, n)
         /\ n * PieceSize(total, n) < total + n
         /\ PieceSize(total, n) <= total
  <1> DEFINE a == total + n - 1
             p == a \div n
  <1>1. a \in Nat
    OBVIOUS
  <1>2. p \in Nat /\ p * n <= a /\ a < p * n + n
    BY <1>1, DivBounds
  <1>3. p * n = n * p /\ p * n \in Nat
    BY <1>2
  <1>4. PieceSize(total, n) = p
    <2>1. a % Word = a
      BY <1>1
    <2> QED BY <2>1 DEF PieceSize, CeilDiv
  <1> HIDE DEF p
  <1>5. p <= total
    <2>1. CASE p = 0
      BY <2>1
    <2>2. CASE p > 0
      <3>1. (p - 1) * 1 <= (p - 1) * n
        <4>1. p - 1 \in Nat
          BY <1>2, <2>2
        <4>2. 1 * (p - 1) <= n * (p - 1)
          BY <4>1, ProductGrows
        <4> QED BY <4>1, <4>2
      <3>2. (p - 1) * n = p * n - n
        BY <1>2
      <3> QED BY <1>2, <1>3, <3>1, <3>2
    <2> QED BY <1>2, <2>1, <2>2
  <1> QED BY <1>2, <1>3, <1>4, <1>5

(* One level of the split: the piece k of a split that fits starts inside  *)
(* the object and ends where piece k + 1 starts, the last one at the end   *)
(* of the object (upload.cpp:97-107, download.cpp:91-101).                 *)
THEOREM PiecesTile ==
  ASSUME NEW total \in Nat, NEW n \in Nat \ {0}, Word \in Nat, total + n <= Word,
         Fits(total, n), NEW k \in 0 .. n - 1
  PROVE  /\ PieceFrom(total, n, k) \in 0 .. total
         /\ PieceLen(total, n, k) \in Nat
         /\ PieceFrom(total, n, 0) = 0
         /\ k = n - 1 => PieceFrom(total, n, k) + PieceLen(total, n, k) = total
         /\ k # n - 1 =>
              PieceFrom(total, n, k) + PieceLen(total, n, k) = PieceFrom(total, n, k + 1)
  <1> DEFINE p == PieceSize(total, n)
  <1>1. p \in Nat /\ total <= n * p /\ n * p < total + n
    BY PieceSizeBounds
  <1>2. (n - 1) * p <= total
    BY DEF Fits
  <1> HIDE DEF p
  <1>3. k * p <= total /\ k * p \in Nat
    <2>1. k * p <= (n - 1) * p
      BY <1>1, ProductGrows
    <2>2. k * p \in Nat /\ (n - 1) * p \in Nat
      BY <1>1
    <2> QED BY <2>1, <2>2, <1>2
  <1>4. PieceFrom(total, n, k) = k * p
    BY DEF PieceFrom, p
  <1>5. PieceLen(total, n, k) = Least(p, total - k * p)
    BY <1>3, <1>4 DEF PieceLen, Sub, p
  <1>6. (k + 1) * p = k * p + p
    BY <1>1, NextMultiple
  <1>7. PieceFrom(total, n, 0) = 0
    BY <1>1 DEF PieceFrom, p
  <1>8. CASE k = n - 1
    <2>1. n * p = k * p + p
      BY <1>6, <1>8
    <2> QED BY <1>1, <1>3, <1>4, <1>5, <1>7, <1>8, <2>1 DEF Least
  <1>9. CASE k # n - 1
    <2>1. (k + 1) * p <= (n - 1) * p
      BY <1>1, <1>9, ProductGrows
    <2>2. (k + 1) * p <= total
      <3>1. (k + 1) * p \in Nat /\ (n - 1) * p \in Nat
        BY <1>1
      <3> QED BY <2>1, <1>2, <3>1
    <2>3. PieceFrom(total, n, k + 1) = (k + 1) * p
      BY DEF PieceFrom, p
    <2> QED BY <1>1, <1>3, <1>4, <1>5, <1>6, <1>7, <1>9, <2>2, <2>3 DEF Least
  <1> QED BY <1>8, <1>9

\* Whatever wraps, a piece starts and is sized within the range of size_t.
LEMMA PieceWords ==
  ASSUME Word \in Nat \ {0}, NEW total \in 0 .. Word - 1, NEW n \in Nat \ {0},
         NEW k \in 0 .. n - 1
  PROVE  PieceFrom(total, n, k) \in 0 .. Word - 1 /\ PieceLen(total, n, k) \in 0 .. Word - 1
  <1> DEFINE a == (total + n - 1) % Word
             p == a \div n
  <1>1. a \in 0 .. Word - 1
    <2>1. total + n - 1 \in Nat
      OBVIOUS
    <2> QED BY <2>1
  <1>2. p \in Nat /\ p * n <= a
    BY <1>1, DivBounds
  <1>3. PieceSize(total, n) = p
    BY DEF PieceSize, CeilDiv
  <1> HIDE DEF p
  <1>4. k * p \in Nat /\ (k + 1) * p = k * p + p /\ (k + 1) * p <= n * p
    <2>1. k + 1 \in Nat /\ n \in Nat /\ k + 1 <= n
      OBVIOUS
    <2> QED BY <1>2, <2>1, ProductGrows, NextMultiple
  <1>5. n * p = p * n /\ p * n \in Nat
    BY <1>2
  <1>6. k * p + p <= Word - 1
    BY <1>1, <1>2, <1>4, <1>5
  <1> HIDE DEF a
  <1>7. Sub(total, k * p) \in Nat
    BY <1>2, <1>4, <1>6 DEF Sub
  <1> QED BY <1>2, <1>3, <1>4, <1>6, <1>7 DEF PieceFrom, PieceLen, Least

\* A piece of a split that fits ends inside, and before the pieces that follow.
LEMMA PiecesApart ==
  ASSUME NEW total \in Nat, NEW n \in Nat \ {0}, Word \in Nat, total + n <= Word,
         Fits(total, n), NEW k \in 0 .. n - 1
  PROVE  /\ PieceFrom(total, n, k) + PieceLen(total, n, k) <= total
         /\ \A m \in 0 .. n - 1 : k < m =>
              PieceFrom(total, n, k) + PieceLen(total, n, k) <= PieceFrom(total, n, m)
  <1>1. ASSUME NEW m \in 0 .. n - 1
        PROVE  /\ PieceFrom(total, n, m) \in 0 .. total
               /\ PieceLen(total, n, m) \in Nat
               /\ m = n - 1 => PieceFrom(total, n, m) + PieceLen(total, n, m) = total
               /\ m # n - 1 =>
                    PieceFrom(total, n, m) + PieceLen(total, n, m) = PieceFrom(total, n, m + 1)
    BY <1>1, PiecesTile
  <1>2. PieceFrom(total, n, k) + PieceLen(total, n, k) <= total
    BY <1>1
  <1>3. ASSUME NEW m \in 0 .. n - 1, k < m
        PROVE  PieceFrom(total, n, k) + PieceLen(total, n, k) <= PieceFrom(total, n, m)
    <2>1. PieceSize(total, n) \in Nat
      BY PieceSizeBounds
    <2>2. PieceFrom(total, n, k + 1) <= PieceFrom(total, n, m)
      BY <1>3, <2>1, ProductGrows DEF PieceFrom
    <2>3. k # n - 1 /\ k + 1 \in 0 .. n - 1
      BY <1>3
    <2> QED BY <1>1, <2>2, <2>3
  <1> QED BY <1>2, <1>3

\* The first piece is the largest, and grows with the total.
LEMMA FirstIsLargest ==
  ASSUME NEW total \in Nat, NEW n \in Nat \ {0}, Word \in Nat, total + n <= Word,
         NEW k \in 0 .. n - 1, PieceLen(total, n, k) \in Nat
  PROVE  PieceLen(total, n, k) <= PieceLen(total, n, 0)
  <1>1. PieceSize(total, n) \in Nat /\ PieceSize(total, n) <= total
    BY PieceSizeBounds
  <1>2. PieceFrom(total, n, 0) = 0
    BY <1>1 DEF PieceFrom
  <1>3. PieceLen(total, n, 0) = PieceSize(total, n)
    BY <1>1, <1>2 DEF PieceLen, Sub, Least
  <1>4. PieceLen(total, n, k) <= PieceSize(total, n)
    <2>1. PieceFrom(total, n, k) \in Nat
      BY <1>1 DEF PieceFrom
    <2> QED BY <1>1, <2>1 DEF PieceLen, Sub, Least
  <1> QED BY <1>3, <1>4

LEMMA FirstGrows ==
  ASSUME NEW a \in Nat, NEW b \in Nat, a <= b, NEW n \in Nat \ {0},
         Word \in Nat, b + n <= Word
  PROVE  PieceLen(a, n, 0) <= PieceLen(b, n, 0)
  <1>1. ASSUME NEW c \in {a, b}
        PROVE  /\ PieceSize(c, n) \in Nat /\ PieceLen(c, n, 0) = PieceSize(c, n)
               /\ c <= n * PieceSize(c, n) /\ n * PieceSize(c, n) < c + n
    <2>1. c \in Nat /\ c + n <= Word
      OBVIOUS
    <2>2. /\ PieceSize(c, n) \in Nat /\ PieceSize(c, n) <= c
          /\ c <= n * PieceSize(c, n) /\ n * PieceSize(c, n) < c + n
      BY <2>1, PieceSizeBounds
    <2>3. PieceFrom(c, n, 0) = 0
      BY <2>2 DEF PieceFrom
    <2> QED BY <2>1, <2>2, <2>3 DEF PieceLen, Sub, Least
  <1> DEFINE p == PieceSize(a, n)
             q == PieceSize(b, n)
  <1>2. p \in Nat /\ q \in Nat /\ n * p < a + n /\ b <= n * q
    BY <1>1
  <1> HIDE DEF p, q
  <1>3. ASSUME q + 1 <= p PROVE FALSE
    <2>1. (q + 1) * n <= p * n
      BY <1>2, <1>3, ProductGrows
    <2>2. (q + 1) * n = n * q + n /\ p * n = n * p /\ n * q \in Nat /\ n * p \in Nat
      BY <1>2
    <2> QED BY <1>2, <2>1, <2>2
  <1>4. p <= q
    BY <1>2, <1>3
  <1> QED BY <1>1, <1>4 DEF p, q

\* Every position is in a piece.
LEMMA PiecesCover ==
  ASSUME NEW total \in Nat, NEW n \in Nat \ {0}, Word \in Nat, total + n <= Word,
         Fits(total, n), NEW p \in 0 .. total - 1
  PROVE  \E k \in 0 .. n - 1 :
           /\ PieceFrom(total, n, k) <= p
           /\ p < PieceFrom(total, n, k) + PieceLen(total, n, k)
  <1> DEFINE s == PieceSize(total, n)
             k == p \div s
  <1>1. s \in Nat /\ total <= n * s
    BY PieceSizeBounds
  <1>2. s # 0
    BY <1>1
  <1> HIDE DEF s
  <1>3. k \in Nat /\ k * s <= p /\ p < k * s + s
    BY <1>1, <1>2, DivBounds
  <1> HIDE DEF k
  <1>4. k < n
    <2>1. ASSUME n <= k PROVE FALSE
      <3>1. n * s <= k * s /\ n * s \in Nat /\ k * s \in Nat
        BY <1>1, <1>3, <2>1, ProductGrows
      <3> QED BY <1>1, <1>3, <3>1
    <2> QED BY <1>3, <2>1
  <1>5. k * s \in Nat
    BY <1>1, <1>3
  <1>6. PieceFrom(total, n, k) = k * s
    BY DEF PieceFrom, s
  <1>7. PieceLen(total, n, k) = Least(s, total - k * s)
    BY <1>3, <1>5, <1>6 DEF PieceLen, Sub, s
  <1>8. p < k * s + Least(s, total - k * s)
    BY <1>1, <1>3, <1>5 DEF Least
  <1> QED BY <1>3, <1>4, <1>6, <1>7, <1>8

(* The size from which a split into n pieces never wraps, whatever the     *)
(* remainder: the bound below which a transfer may repeat bytes.           *)
THEOREM BigEnoughFits ==
  ASSUME NEW total \in Nat, NEW n \in Nat \ {0}, Word \in Nat, total + n <= Word,
         (n - 1) * (n - 1) <= total
  PROVE  Fits(total, n)
  <1> DEFINE p == PieceSize(total, n)
  <1>1. p \in Nat /\ n * p < total + n
    BY PieceSizeBounds
  <1> HIDE DEF p
  <1>2. n - 1 \in Nat /\ (n - 1) * p \in Nat /\ (n - 1) * (n - 1) \in Nat
    BY <1>1
  <1>3. n * p = (n - 1) * p + p
    BY <1>1, <1>2
  <1>4. CASE p >= n - 1
    BY <1>1, <1>2, <1>3, <1>4 DEF Fits, p
  <1>5. CASE p <= n - 1
    <2>1. p * (n - 1) <= (n - 1) * (n - 1)
      BY <1>1, <1>2, <1>5, ProductGrows
    <2>2. (n - 1) * p = p * (n - 1)
      BY <1>1, <1>2
    <2> QED BY <1>1, <1>2, <2>1, <2>2 DEF Fits, p
  <1> QED BY <1>1, <1>2, <1>4, <1>5
=============================================================================
