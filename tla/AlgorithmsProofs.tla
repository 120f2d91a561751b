-------------------------- MODULE AlgorithmsProofs ---------------------------
(***************************************************************************)
(* What is read in pieces, for every size of the file, of the pieces and   *)
(* of a block; the digests, for every length; which signatures are         *)
(* accepted, for every request; how files of credentials and lists of      *)
(* parameters are read, for every number of lines and of pairs; and which  *)
(* headers of an answer are taken, for every number of them.               *)
(***************************************************************************)
EXTENDS Streams, MCAlgorithms, SequenceTheorems, WellFoundedInduction, TLAPS

-----------------------------------------------------------------------------
(* Division.                                                               *)

LEMMA DivMod ==
  ASSUME NEW a \in Nat, NEW d \in Nat \ {0}
  PROVE  \E q \in Nat, r \in 0 .. d - 1 :
           q = a \div d /\ r = a % d /\ q * d \in Nat /\ a = q * d + r
  <1>1. PICK q \in Nat : q = a \div d
    OBVIOUS
  <1>2. PICK r \in 0 .. d - 1 : r = a % d
    OBVIOUS
  <1>3. a % d = a - (a \div d) * d
    OBVIOUS
  <1>4. r = a - q * d
    BY <1>1, <1>2, <1>3
  <1>5. q * d \in Nat /\ a = q * d + r
    <2>1. q * d \in Nat
      OBVIOUS
    <2> QED BY <1>4, <2>1
  <1> QED BY <1>1, <1>2, <1>5

LEMMA MultipleGrows ==
  ASSUME NEW p \in Int, NEW q \in Int, NEW d \in Nat, p < q
  PROVE  p * d + d <= q * d
  <1>1. q * d = p * d + (q - p) * d
    OBVIOUS
  <1>2. (q - p) * d = d + (q - p - 1) * d
    OBVIOUS
  <1>3. (q - p - 1) * d >= 0
    OBVIOUS
  <1>4. q * d \in Int /\ p * d \in Int /\ (q - p) * d \in Int /\ (q - p - 1) * d \in Int
    OBVIOUS
  <1> QED BY <1>1, <1>2, <1>3, <1>4

\* A number is a multiple and a rest in one way.
LEMMA OneRest ==
  ASSUME NEW p \in Int, NEW q \in Int, NEW d \in Nat \ {0},
         NEW r \in 0 .. d - 1, NEW s \in 0 .. d - 1, p * d + r = q * d + s
  PROVE  p = q /\ r = s
  <1>1. p * d \in Int /\ q * d \in Int
    OBVIOUS
  <1>2. ~(p < q)
    BY <1>1, MultipleGrows
  <1>3. ~(q < p)
    BY <1>1, MultipleGrows
  <1> QED BY <1>1, <1>2, <1>3

LEMMA RestOf ==
  ASSUME NEW q \in Nat, NEW d \in Nat \ {0}, NEW r \in 0 .. d - 1
  PROVE  (q * d + r) \div d = q /\ (q * d + r) % d = r
  <1>1. q * d + r \in Nat
    OBVIOUS
  <1>2. PICK p \in Nat, s \in 0 .. d - 1 :
          p = (q * d + r) \div d /\ s = (q * d + r) % d /\ q * d + r = p * d + s
    BY <1>1, DivMod
  <1>3. p = q /\ s = r
    BY <1>2, OneRest
  <1> QED BY <1>2, <1>3

\* The next multiple is the only one less than d away.
LEMMA NextMultipleOf ==
  ASSUME NEW n \in Nat, NEW d \in Nat \ {0}
  PROVE  /\ NextDivBy(n, d) \in Nat
         /\ n <= NextDivBy(n, d) /\ NextDivBy(n, d) < n + d
         /\ \E q \in Nat : NextDivBy(n, d) = q * d
  <1>1. n + d - 1 \in Nat
    OBVIOUS
  <1>2. PICK q \in Nat, r \in 0 .. d - 1 :
          q = (n + d - 1) \div d /\ q * d \in Nat /\ n + d - 1 = q * d + r
    BY <1>1, DivMod
  <1>3. NextDivBy(n, d) = q * d
    BY <1>2 DEF NextDivBy
  <1>4. n <= q * d /\ q * d < n + d
    BY <1>2
  <1> QED BY <1>2, <1>3, <1>4

LEMMA Multiple ==
  ASSUME NEW a \in Nat, NEW d \in Nat \ {0}
  PROVE  /\ a % d = 0 <=> \E q \in Nat : a = q * d
         /\ a % d = 0 => (a \div d) * d = a
  <1>1. PICK q \in Nat, r \in 0 .. d - 1 :
          q = a \div d /\ r = a % d /\ q * d \in Nat /\ a = q * d + r
    BY DivMod
  <1>2. a % d = 0 => a = q * d /\ (a \div d) * d = a
    BY <1>1
  <1>3. ASSUME NEW p \in Nat, a = p * d PROVE a % d = 0
    <2>1. a = p * d + 0
      BY <1>3
    <2> QED BY <2>1, RestOf
  <1> QED BY <1>2, <1>3

LEMMA MultipleSum ==
  ASSUME NEW a \in Nat, NEW b \in Nat, NEW d \in Nat \ {0}, a % d = 0
  PROVE  (a + b) % d = 0 <=> b % d = 0
  <1>1. PICK p \in Nat : a = p * d
    BY Multiple
  <1>2. PICK q \in Nat, r \in 0 .. d - 1 :
          q = b \div d /\ r = b % d /\ q * d \in Nat /\ b = q * d + r
    BY DivMod
  <1>3. (p + q) * d = p * d + q * d /\ p * d \in Nat /\ q * d \in Nat
    OBVIOUS
  <1>4. PICK m \in Nat : m = p + q
    OBVIOUS
  <1>5. a + b = m * d + r
    BY <1>1, <1>2, <1>3, <1>4
  <1>6. (m * d + r) % d = r
    BY RestOf
  <1>7. (a + b) % d = r
    BY <1>5, <1>6
  <1> QED BY <1>2, <1>7

-----------------------------------------------------------------------------
(* Bytes.                                                                  *)

LEMMA FunctionIsSeq ==
  ASSUME NEW n \in Nat, NEW S, NEW f \in [1 .. n -> S]
  PROVE  f \in Seq(S) /\ Len(f) = n
  OBVIOUS
\* What the hashes add to a message.
Stuffing == {One, Zero, Beyond} \cup {<<"length", m, k>> : m \in Nat, k \in Nat}

LEMMA ZerosIsSeq ==
  ASSUME NEW n \in Nat, NEW S, Stuffing \subseteq S
  PROVE  /\ Zeros(n) \in Seq(S) /\ Len(Zeros(n)) = n
         /\ \A k \in 1 .. n : Zeros(n)[k] = Zero
  <1>1. Zeros(n) = [k \in 1 .. n |-> Zero]
    BY DEF Zeros, Bytes
  <1>2. Zero \in S
    BY DEF Stuffing
  <1>3. Zeros(n) \in [1 .. n -> S]
    BY <1>1, <1>2
  <1> QED BY <1>1, <1>3, FunctionIsSeq

LEMMA LengthIsSeq ==
  ASSUME NEW m \in Nat, NEW S, Stuffing \subseteq S
  PROVE  /\ Length(m) \in Seq(S) /\ Len(Length(m)) = LenBytes
         /\ \A k \in 1 .. LenBytes : Length(m)[k] = <<"length", m, k>>
  <1>1. Length(m) = [k \in 1 .. LenBytes |-> <<"length", m, k>>]
    BY DEF Length, Bytes
  <1>2. LenBytes \in Nat
    BY DigestAssumption
  <1>3. \A k \in 1 .. LenBytes : <<"length", m, k>> \in S
    BY <1>2 DEF Stuffing
  <1>4. Length(m) \in [1 .. LenBytes -> S]
    BY <1>1, <1>3
  <1> QED BY <1>1, <1>2, <1>4, FunctionIsSeq

\* Byte k of a message of n bytes with its padding.
PaddedByte(data, n, m, k) ==
  IF k <= Len(data) THEN data[k]
  ELSE IF k = Len(data) + 1 THEN One
  ELSE IF k <= n - LenBytes THEN Zero
  ELSE <<"length", m, k - (n - LenBytes)>>

LEMMA PaddedData ==
  ASSUME NEW data, NEW n, NEW m, NEW k, k <= Len(data)
  PROVE  PaddedByte(data, n, m, k) = data[k]
  BY Zenon DEF PaddedByte

LEMMA PaddedOne ==
  ASSUME NEW data, NEW n, NEW m, NEW k, ~(k <= Len(data)), k = Len(data) + 1
  PROVE  PaddedByte(data, n, m, k) = One
  BY Zenon DEF PaddedByte

LEMMA PaddedZero ==
  ASSUME NEW data, NEW n, NEW m, NEW k,
         ~(k <= Len(data)), k # Len(data) + 1, k <= n - LenBytes
  PROVE  PaddedByte(data, n, m, k) = Zero
  BY Zenon DEF PaddedByte

LEMMA PaddedLength ==
  ASSUME NEW data, NEW n, NEW m, NEW k,
         ~(k <= Len(data)), k # Len(data) + 1, ~(k <= n - LenBytes)
  PROVE  PaddedByte(data, n, m, k) = <<"length", m, k - (n - LenBytes)>>
  BY Zenon DEF PaddedByte

Stuffed(data, z, m) == data \o <<One>> \o Zeros(z) \o Length(m)

LEMMA FourPieces ==
  ASSUME NEW S, Stuffing \subseteq S, NEW data \in Seq(S), NEW z \in Nat, NEW m \in Nat
  PROVE  LET s == Stuffed(data, z, m)
         IN /\ s \in Seq(S) /\ Len(s) = Len(data) + 1 + z + LenBytes
            /\ \A k \in 1 .. Len(s) : s[k] = PaddedByte(data, Len(s), m, k)
  <1> DEFINE a == Len(data)
             s1 == data \o <<One>>
             s2 == s1 \o Zeros(z)
             s3 == s2 \o Length(m)
             n == a + 1 + z + LenBytes
  <1>1. a \in Nat /\ LenBytes \in Nat 
    BY LenProperties, DigestAssumption
  <1>2. <<One>> \in Seq(S) /\ Len(<<One>>) = 1 /\ <<One>>[1] = One
    BY DEF Stuffing
  <1>3. /\ s1 \in Seq(S) /\ Len(s1) = a + 1
        /\ \A k \in 1 .. a + 1 : s1[k] = IF k <= a THEN data[k] ELSE <<One>>[k - a]
    BY <1>2, ConcatProperties
  <1> HIDE DEF s1
  <1>4. /\ s2 \in Seq(S) /\ Len(s2) = a + 1 + z
        /\ \A k \in 1 .. a + 1 + z : s2[k] = IF k <= a + 1 THEN s1[k] ELSE Zeros(z)[k - (a + 1)]
    <2> DEFINE t == Zeros(z)
    <2>1. t \in Seq(S) /\ Len(t) = z
      BY ZerosIsSeq
    <2> HIDE DEF t
    <2>2. /\ s1 \o t \in Seq(S)
          /\ Len(s1 \o t) = Len(s1) + Len(t)
          /\ \A k \in 1 .. Len(s1) + Len(t) :
               (s1 \o t)[k] = IF k <= Len(s1) THEN s1[k] ELSE t[k - Len(s1)]
      BY <1>3, <2>1, ConcatProperties
    <2> QED BY <1>3, <2>1, <2>2 DEF t
  <1> HIDE DEF s2
  <1>5. /\ s3 \in Seq(S) /\ Len(s3) = n
        /\ \A k \in 1 .. n : s3[k] = IF k <= a + 1 + z THEN s2[k]
                                                        ELSE Length(m)[k - (a + 1 + z)]
    <2> DEFINE t == Length(m)
    <2>1. t \in Seq(S) /\ Len(t) = LenBytes
      BY LengthIsSeq
    <2> HIDE DEF t
    <2>2. /\ s2 \o t \in Seq(S)
          /\ Len(s2 \o t) = Len(s2) + Len(t)
          /\ \A k \in 1 .. Len(s2) + Len(t) :
               (s2 \o t)[k] = IF k <= Len(s2) THEN s2[k] ELSE t[k - Len(s2)]
      BY <1>4, <2>1, ConcatProperties
    <2> QED BY <1>4, <2>1, <2>2 DEF t
  <1> HIDE DEF s3
  <1>6. ASSUME NEW k \in 1 .. n PROVE s3[k] = PaddedByte(data, n, m, k)
    <2>1. CASE k <= a
      BY <1>1, <1>3, <1>4, <1>5, <2>1 DEF PaddedByte
    <2>2. CASE k = a + 1
      BY <1>1, <1>2, <1>3, <1>4, <1>5, <2>2 DEF PaddedByte
    <2>3. CASE k > a + 1 /\ k <= n - LenBytes
      <3>1. Zeros(z)[k - (a + 1)] = Zero
        <4>1. k - (a + 1) \in 1 .. z
          BY <1>1, <2>3
        <4> QED BY <4>1, ZerosIsSeq
      <3>2. k \in 1 .. a + 1 + z /\ ~ k <= a + 1 /\ k <= a + 1 + z
        BY <1>1, <2>3
      <3>3. s3[k] = s2[k]
        BY ONLY <1>5, <3>2, k \in 1 .. n
      <3>4. s2[k] = Zeros(z)[k - (a + 1)]
        BY ONLY <1>4, <3>2
      <3>5. ~(k <= a) /\ k # a + 1 /\ k <= n - LenBytes
        BY <1>1, <2>3
      <3> QED BY ONLY <3>1, <3>3, <3>4, <3>5 DEF PaddedByte
    <2>4. CASE k > n - LenBytes
      <3>1. Length(m)[k - (a + 1 + z)] = <<"length", m, k - (a + 1 + z)>>
        <4>1. k - (a + 1 + z) \in 1 .. LenBytes
          BY <1>1, <2>4
        <4> QED BY <4>1, LengthIsSeq
      <3>2. s3[k] = <<"length", m, k - (a + 1 + z)>>
        BY <1>1, <1>5, <2>4, <3>1
      <3>3. ~(k <= a) /\ k # a + 1 /\ n - LenBytes = a + 1 + z
        BY <1>1, <2>4
      <3>4. PaddedByte(data, n, m, k) = <<"length", m, k - (n - LenBytes)>>
        BY <2>4, <3>3 DEF PaddedByte
      <3> QED BY <3>2, <3>3, <3>4
    <2> QED BY <1>1, <2>1, <2>2, <2>3, <2>4
  <1>7. Stuffed(data, z, m) = s3
    BY DEF Stuffed, s1, s2, s3
  <1> QED BY <1>5, <1>6, <1>7

\* The padding of the standard, whatever multiple of a block has room for it.
LEMMA PadToBytes ==
  ASSUME NEW S, Stuffing \subseteq S, NEW data \in Seq(S), NEW n \in Nat, n % Block = 0,
         Len(data) + 1 + LenBytes <= n, n < Len(data) + 1 + LenBytes + Block
  PROVE  /\ PadTo(data) \in Seq(S) /\ Len(PadTo(data)) = n
         /\ \A k \in 1 .. n : PadTo(data)[k] = PaddedByte(data, n, 8 * Len(data), k)
  <1> DEFINE a == Len(data)
             z == n - a - 1 - LenBytes
             Fills(y) == (a + 1 + y + LenBytes) % Block = 0
             zeros == CHOOSE y \in 0 .. Block - 1 : Fills(y)
  <1>1. a \in Nat /\ LenBytes \in Nat /\ Block \in Nat \ {0}
    BY LenProperties, DigestAssumption
  <1>2. z \in 0 .. Block - 1 /\ a + 1 + z + LenBytes = n
    BY <1>1
  <1>3. Fills(z)
    BY <1>2
  <1>4. PICK p \in Nat : n = p * Block
    BY <1>1, Multiple
  <1>5. ASSUME NEW y \in 0 .. Block - 1, Fills(y) PROVE y = z
    <2>1. a + 1 + y + LenBytes \in Nat
      BY <1>1
    <2>2. PICK q \in Nat : a + 1 + y + LenBytes = q * Block
      BY <1>1, <1>5, <2>1, Multiple
    <2>3. q * Block \in Nat /\ p * Block \in Nat
      BY <1>1
    <2>4. ~(p < q)
      <3>1. p < q => p * Block + Block <= q * Block
        BY <1>1, MultipleGrows
      <3> QED BY <1>1, <1>2, <1>4, <2>2, <2>3, <3>1
    <2>5. ~(q < p)
      <3>1. q < p => q * Block + Block <= p * Block
        BY <1>1, MultipleGrows
      <3> QED BY <1>1, <1>2, <1>4, <2>2, <2>3, <3>1
    <2>6. p = q
      BY <2>4, <2>5
    <2> QED BY <1>1, <1>2, <1>4, <2>2, <2>6
  <1>6. zeros = z
    BY <1>2, <1>3, <1>5
  <1>7. PadTo(data) = data \o <<One>> \o Zeros(zeros) \o Length(8 * a)
    BY DEF PadTo
  <1> HIDE DEF z, zeros
  <1>8. z \in Nat /\ 8 * a \in Nat
    BY <1>1, <1>2
  <1>9. a + 1 + z + LenBytes = n
    BY <1>2
  <1> DEFINE m == 8 * a
             s == Stuffed(data, z, m)
  <1>10. m \in Nat
    BY <1>8
  <1> HIDE DEF m
  <1>11. s \in Seq(S)
    BY <1>8, <1>9, <1>10, FourPieces
  <1>12. Len(s) = n
    BY <1>8, <1>9, <1>10, FourPieces
  <1>13. \A k \in 1 .. Len(s) : s[k] = PaddedByte(data, Len(s), m, k)
    BY <1>8, <1>10, FourPieces
  <1> QED BY <1>6, <1>7, <1>11, <1>12, <1>13 DEF m, Stuffed

LEMMA IsPadded ==
  ASSUME NEW S, Stuffing \subseteq S, NEW data \in Seq(S), NEW n \in Nat, n % Block = 0,
         Len(data) + 1 + LenBytes <= n, n < Len(data) + 1 + LenBytes + Block,
         NEW s \in Seq(S), Len(s) = n,
         \A k \in 1 .. n : s[k] = PaddedByte(data, n, 8 * Len(data), k)
  PROVE  s = PadTo(data)
  <1>1. /\ PadTo(data) \in Seq(S) /\ Len(PadTo(data)) = n
        /\ \A k \in 1 .. n : PadTo(data)[k] = PaddedByte(data, n, 8 * Len(data), k)
    BY PadToBytes
  <1> QED BY <1>1, SeqEqual

\* The room of a padded message.
LEMMA RoomForPadding ==
  ASSUME NEW a \in Nat
  PROVE  LET n == NextDivBy(a + 1 + LenBytes, Block) IN
         n \in Nat /\ n % Block = 0 /\ a + 1 + LenBytes <= n /\ n < a + 1 + LenBytes + Block
  <1> DEFINE n == NextDivBy(a + 1 + LenBytes, Block)
  <1>1. a + 1 + LenBytes \in Nat /\ Block \in Nat \ {0}
    BY DigestAssumption
  <1>2. /\ n \in Nat /\ a + 1 + LenBytes <= n /\ n < a + 1 + LenBytes + Block
        /\ \E q \in Nat : n = q * Block
    BY <1>1, NextMultipleOf
  <1> HIDE DEF n
  <1>3. n % Block = 0
    BY <1>1, <1>2, Multiple
  <1> QED BY <1>2, <1>3 DEF n

LEMMA FirstIsAll ==
  ASSUME NEW S, NEW data \in Seq(S)
  PROVE  First(data, Len(data)) = data
  <1>1. Len(data) \in Nat /\ data \in [1 .. Len(data) -> S]
    BY LenProperties
  <1>2. First(data, Len(data)) = [k \in 1 .. Len(data) |-> data[k]]
    BY <1>1 DEF First, Bytes
  <1> QED BY <1>1, <1>2

\* A stream that is fed whole blocks takes all of them.
LEMMA WholeBlocks ==
  ASSUME NEW S, NEW data \in Seq(S), NEW hash, Len(data) % Block = 0
  PROVE  /\ Sha256Stream(hash, data, Len(data)) = hash \o data
         /\ Md5Stream(hash, data, Len(data)) = hash \o data
  <1>1. Len(data) \in Nat /\ Block \in Nat \ {0} /\ data \in [1 .. Len(data) -> S]
    BY LenProperties, DigestAssumption
  <1>2. First(data, Len(data)) = data
    BY FirstIsAll
  <1>3. (Len(data) \div Block) * Block = Len(data)
    BY <1>1, Multiple
  <1>4. NextDivBy(Len(data), Block) = Len(data)
    <2>1. PICK q \in Nat : Len(data) = q * Block
      BY <1>1, Multiple
    <2>2. Len(data) + Block - 1 = q * Block + (Block - 1) /\ Block - 1 \in 0 .. Block - 1
      BY <1>1, <2>1
    <2>3. (q * Block + (Block - 1)) \div Block = q
      BY <1>1, <2>2, RestOf
    <2> QED BY <2>1, <2>2, <2>3 DEF NextDivBy
  <1> QED BY <1>2, <1>3, <1>4 DEF Sha256Stream, Md5Stream
\* What is copied into a padded buffer is what the standard pads.
LEMMA PaddedIsStandard ==
  ASSUME NEW S, Stuffing \subseteq S, NEW data \in Seq(S)
  PROVE  Over(AllocPadded(Len(data)), 0, data) = PadTo(data)
  <1> DEFINE a == Len(data)
             n == NextDivBy(a + 1 + LenBytes, Block)
             m == 8 * a
             z == n - a - 1 - LenBytes
             buffer == Stuffed(Zeros(a), z, m)
             s == Over(buffer, 0, data)
  <1>1. /\ a \in Nat /\ LenBytes \in Nat /\ Block \in Nat \ {0}
        /\ data \in [1 .. a -> S]
    BY LenProperties, DigestAssumption
  <1>2. /\ n \in Nat /\ n % Block = 0 /\ a + 1 + LenBytes <= n /\ n < a + 1 + LenBytes + Block
    BY <1>1, RoomForPadding
  <1>3. AllocPadded(a) = buffer
    BY DEF AllocPadded, Stuffed
  <1>4. /\ z \in Nat /\ m \in Nat /\ a + 1 + z + LenBytes = n
    <2>1. a \in Nat /\ n \in Nat /\ LenBytes \in Nat /\ a + 1 + LenBytes <= n
      BY <1>1, <1>2
    <2> HIDE DEF a, n
    <2> QED BY ONLY <2>1 DEF z, m
  <1>5. Zeros(a) \in Seq(S) /\ Len(Zeros(a)) = a
    BY <1>1, ZerosIsSeq
  <1> HIDE DEF n, m, z
  <1>6. /\ buffer \in Seq(S) /\ Len(buffer) = n
        /\ \A k \in 1 .. n : buffer[k] = PaddedByte(Zeros(a), n, m, k)
    <2>1. /\ buffer \in Seq(S) /\ Len(buffer) = Len(Zeros(a)) + 1 + z + LenBytes
          /\ \A k \in 1 .. Len(buffer) : buffer[k] = PaddedByte(Zeros(a), Len(buffer), m, k)
      BY <1>4, <1>5, FourPieces
    <2> QED BY <1>4, <1>5, <2>1
  <1>7. DOMAIN buffer = 1 .. n /\ DOMAIN data = 1 .. a
    BY <1>1, <1>6, LenProperties
  <1> HIDE DEF buffer
  <1>8. s = [k \in 1 .. n |-> IF k - 0 \in 1 .. a THEN data[k - 0] ELSE buffer[k]]
    BY <1>7 DEF Over
  <1>9. \A k \in 1 .. n : s[k] = PaddedByte(data, n, m, k)
    <2> TAKE k \in 1 .. n
    <2>1. CASE k <= a
      BY <1>1, <1>2, <1>8, <2>1 DEF PaddedByte
    <2>2. CASE k > a
      <3>1. s[k] = PaddedByte(Zeros(a), n, m, k)
        BY <1>1, <1>2, <1>6, <1>8, <2>2
      <3>2. ~(k <= Len(data)) /\ ~(k <= Len(Zeros(a)))
        BY <1>1, <1>2, <1>5, <2>2
      <3> QED BY <1>5, <3>1, <3>2 DEF PaddedByte
    <2> QED BY <1>1, <1>2, <2>1, <2>2
  <1>10. s \in Seq(S) /\ Len(s) = n
    <2>1. ASSUME NEW k \in 1 .. n
          PROVE  (IF k - 0 \in 1 .. a THEN data[k - 0] ELSE buffer[k]) \in S
      <3>1. buffer \in [1 .. n -> S]
        BY <1>6, LenProperties
      <3> QED BY <1>1, <3>1
    <2>2. s \in [1 .. n -> S]
      BY <1>8, <2>1
    <2> QED BY <1>2, <2>2, FunctionIsSeq
  <1> HIDE DEF s
  <1>11. s = PadTo(data)
    BY <1>2, <1>9, <1>10, IsPadded DEF m
  <1> QED BY <1>3, <1>11 DEF s

(* A hash of a message in one piece is fed the message with the padding of *)
(* the standard, for every message and every size of a block and of the    *)
(* length (sha256 of sha256.cpp).                                          *)
THEOREM OneShotIsStandard ==
  ASSUME NEW T, NEW data \in Seq(T)
  PROVE  Sha256(data, Len(data)) = PadTo(data)
  <1> DEFINE S == T \cup Stuffing
  <1>1. data \in Seq(S) /\ Stuffing \subseteq S
    BY SeqMonotonic
  <1> HIDE DEF S
  <1>2. Len(data) \in Nat
    BY LenProperties
  <1>3. Padded(First(data, Len(data))) = PadTo(data)
    BY <1>1, FirstIsAll, PaddedIsStandard DEF Padded
  <1>4. PICK n \in Nat : /\ n % Block = 0 /\ Len(data) + 1 + LenBytes <= n
                         /\ n < Len(data) + 1 + LenBytes + Block
    BY <1>2, RoomForPadding
  <1>5. PadTo(data) \in Seq(S) /\ Len(PadTo(data)) % Block = 0
    BY <1>1, <1>4, PadToBytes
  <1>6. Sha256Stream(<<>>, PadTo(data), Len(PadTo(data))) = <<>> \o PadTo(data)
    BY <1>5, WholeBlocks
  <1> QED BY <1>3, <1>5, <1>6, ConcatEmptySeq DEF Sha256

-----------------------------------------------------------------------------
(* Keyed hashes.                                                           *)

\* The hash of what was copied into a padded buffer of its size.
LEMMA StreamOfPadded ==
  ASSUME NEW S, Stuffing \subseteq S, NEW data \in Seq(S), NEW n, n = Len(data)
  PROVE  LET message == Over(AllocPadded(n), 0, data)
         IN Sha256Stream(<<>>, message, Len(message)) = PadTo(data)
  <1> DEFINE message == Over(AllocPadded(n), 0, data)
  <1>1. message = PadTo(data)
    BY PaddedIsStandard
  <1>2. Len(data) \in Nat
    BY LenProperties
  <1>3. PICK l \in Nat : /\ l % Block = 0 /\ Len(data) + 1 + LenBytes <= l
                         /\ l < Len(data) + 1 + LenBytes + Block
    BY <1>2, RoomForPadding
  <1>4. PadTo(data) \in Seq(S) /\ Len(PadTo(data)) % Block = 0
    BY <1>3, PadToBytes
  <1> HIDE DEF message
  <1>5. Sha256Stream(<<>>, message, Len(message)) = <<>> \o PadTo(data)
    BY <1>1, <1>4, WholeBlocks
  <1>6. <<>> \o PadTo(data) = PadTo(data)
    BY <1>4, ConcatEmptySeq
  <1> QED BY <1>5, <1>6 DEF message

\* A short key is filled up with zeros.
LEMMA KeyIsFilled ==
  ASSUME NEW S, Zero \in S, NEW key \in Seq(S), Len(key) <= Block
  PROVE  /\ Over(Zeros(Block), 0, key) = key \o Zeros(Block - Len(key))
         /\ Over(Zeros(Block), 0, key) \in [1 .. Block -> S]
  <1> DEFINE z == Zeros(Block - Len(key))
             l == Over(Zeros(Block), 0, key)
  <1>1. /\ Block \in Nat /\ Len(key) \in Nat /\ DOMAIN key = 1 .. Len(key)
        /\ key \in [1 .. Len(key) -> S]
    BY LenProperties, DigestAssumption
  <1>2. z = [k \in 1 .. Block - Len(key) |-> Zero]
    BY DEF Zeros, Bytes
  <1>3. Block - Len(key) \in Nat /\ z \in [1 .. Block - Len(key) -> S]
    BY <1>1, <1>2
  <1>4. z \in Seq(S) /\ Len(z) = Block - Len(key)
    BY <1>3, FunctionIsSeq
  <1>5. l = [k \in 1 .. Block |-> IF k - 0 \in 1 .. Len(key) THEN key[k - 0] ELSE Zero]
    BY <1>1 DEF Over, Zeros, Bytes
  <1> HIDE DEF z, l
  <1>6. l \in [1 .. Block -> S]
    <2>1. ASSUME NEW k \in 1 .. Block
          PROVE  (IF k - 0 \in 1 .. Len(key) THEN key[k - 0] ELSE Zero) \in S
      BY <1>1
    <2> QED BY <1>5, <2>1
  <1>7. l \in Seq(S) /\ Len(l) = Block
    BY <1>1, <1>6, FunctionIsSeq
  <1>8. /\ key \o z \in Seq(S) /\ Len(key \o z) = Len(key) + Len(z)
        /\ \A k \in 1 .. Len(key) + Len(z) :
             (key \o z)[k] = IF k <= Len(key) THEN key[k] ELSE z[k - Len(key)]
    BY <1>4, ConcatProperties
  <1>9. ASSUME NEW k \in 1 .. Block PROVE l[k] = (key \o z)[k]
    <2>1. CASE k <= Len(key)
      BY <1>1, <1>4, <1>5, <1>8, <2>1
    <2>2. CASE k > Len(key)
      <3>1. z[k - Len(key)] = Zero
        BY <1>1, <1>2, <2>2
      <3> QED BY <1>1, <1>4, <1>5, <1>8, <2>2, <3>1
    <2>3. k <= Len(key) \/ k > Len(key)
      BY <1>1
    <2> QED BY <2>1, <2>2, <2>3
  <1>10. l = key \o z
    <2> DEFINE t == key \o z
    <2>1. t \in Seq(S) /\ Len(t) = Block /\ \A k \in 1 .. Block : l[k] = t[k]
      BY <1>1, <1>4, <1>8, <1>9
    <2> HIDE DEF t
    <2>2. l = t
      BY <1>7, <2>1, SeqEqual
    <2> QED BY <2>2 DEF t
  <1> QED BY <1>6, <1>10 DEF l, z

LEMMA HashBytesIsSeq ==
  ASSUME NEW hash
  PROVE  LET S == {Value(hash, k) : k \in Nat} IN
         /\ HashBytes(hash) \in Seq(S) /\ Len(HashBytes(hash)) = Block \div 2
         /\ Block \div 2 \in Nat /\ Block \div 2 <= Block
  <1> DEFINE S == {Value(hash, k) : k \in Nat}
             n == Block \div 2
  <1>1. n \in Nat /\ n <= Block
    BY DigestAssumption
  <1>2. HashBytes(hash) = [k \in 1 .. n |-> Value(hash, k)]
    BY DEF HashBytes, Bytes
  <1> HIDE DEF n
  <1>3. HashBytes(hash) \in [1 .. n -> S]
    BY <1>2
  <1>4. HashBytes(hash) \in Seq(S) /\ Len(HashBytes(hash)) = n
    BY <1>1, <1>3, FunctionIsSeq
  <1> QED BY <1>1, <1>4 DEF n

(* A keyed hash is the formula of the standard, for every key and message  *)
(* and every size of a block, except that a key longer than a block is     *)
(* hashed over the length of the data (hmac256.cpp:72): then it is the     *)
(* formula if the key is as long as the data.                              *)
THEOREM KeyedHashIsFormula ==
  ASSUME NEW T, NEW data \in Seq(T), NEW key \in Seq(T),
         Len(key) <= Block \/ Len(key) = Len(data)
  PROVE  Hmac256(data, key) = HmacFormula(data, key)
  <1> DEFINE short == IF Len(key) <= Block THEN key ELSE StandardHash(key)
             K == HmacKey(data, key)
             U == T \cup {Zero} \cup {Value(PadTo(key), k) : k \in Nat}
  <1>1. /\ Block \in Nat \ {0} /\ LenBytes \in Nat /\ Len(data) \in Nat /\ Len(key) \in Nat
        /\ T \subseteq U /\ Zero \in U
    BY LenProperties, DigestAssumption
  <1>2. short \in Seq(U) /\ Len(short) <= Block
    <2>1. CASE Len(key) <= Block
      <3>1. key \in Seq(U)
        BY <1>1, SeqMonotonic
      <3> QED BY <2>1, <3>1
    <2>2. CASE ~(Len(key) <= Block)
      <3>1. /\ StandardHash(key) \in Seq({Value(PadTo(key), k) : k \in Nat})
            /\ Len(StandardHash(key)) <= Block
        BY HashBytesIsSeq DEF StandardHash
      <3>2. StandardHash(key) \in Seq(U)
        BY <3>1, SeqMonotonic
      <3> QED BY <2>2, <3>1, <3>2
    <2> QED BY <2>1, <2>2
  <1>3. K = Over(Zeros(Block), 0, short)
    <2>1. CASE Len(key) <= Block
      BY <2>1 DEF HmacKey
    <2>2. CASE ~(Len(key) <= Block)
      <3>1. Sha256(key, Len(data)) = PadTo(key)
        BY <2>2, OneShotIsStandard
      <3> QED BY <2>2, <3>1 DEF HmacKey, StandardHash
    <2> QED BY <2>1, <2>2
  <1> HIDE DEF short, K, U
  <1>4. K = short \o Zeros(Block - Len(short)) /\ K \in [1 .. Block -> U]
    BY <1>1, <1>2, <1>3, KeyIsFilled
  <1> DEFINE Keys == {<<p, u>> : p \in {"ipad", "opad"}, u \in U}
             ipad == Xor("ipad", K)
             opad == Xor("opad", K)
             message == ipad \o data
             hash == HashBytes(PadTo(message))
             answer == opad \o hash
             S == Keys \cup T \cup Stuffing \cup {Value(PadTo(message), k) : k \in Nat}
  <1>5. /\ ipad \in Seq(Keys) /\ Len(ipad) = Block
        /\ opad \in Seq(Keys) /\ Len(opad) = Block
    <2>1. ASSUME NEW p \in {"ipad", "opad"} PROVE Xor(p, K) \in [1 .. Block -> Keys]
      <3>1. Xor(p, K) = [k \in 1 .. Block |-> <<p, K[k]>>]
        BY DEF Xor, Bytes
      <3>2. \A k \in 1 .. Block : K[k] \in U
        BY <1>4
      <3>3. \A k \in 1 .. Block : <<p, K[k]>> \in Keys
        <4>1. \A u \in U : <<p, u>> \in Keys
          OBVIOUS
        <4> QED BY <3>2, <4>1
      <3> HIDE DEF Keys
      <3> QED BY <3>1, <3>3
    <2> HIDE DEF Keys
    <2> QED BY <1>1, <2>1, FunctionIsSeq
  <1>6. Keys \subseteq S /\ T \subseteq S /\ Stuffing \subseteq S
    OBVIOUS
  <1>7. hash \in Seq(S) /\ Len(hash) = Block \div 2 /\ Block \div 2 \in Nat
    <2>1. /\ hash \in Seq({Value(PadTo(message), k) : k \in Nat})
          /\ Len(hash) = Block \div 2 /\ Block \div 2 \in Nat
      BY HashBytesIsSeq
    <2> QED BY <2>1, SeqMonotonic
  <1> HIDE DEF Keys, S, ipad, opad, hash
  <1>8. ipad \in Seq(S) /\ opad \in Seq(S) /\ data \in Seq(S)
    BY <1>5, <1>6, SeqMonotonic
  <1>9. message \in Seq(S) /\ Len(message) = Block + Len(data)
    BY <1>5, <1>8, ConcatProperties
  <1>10. answer \in Seq(S) /\ Len(answer) = Block + Block \div 2
    <2>1. opad \o hash \in Seq(S) /\ Len(opad \o hash) = Len(opad) + Len(hash)
      BY <1>7, <1>8, ConcatProperties
    <2> QED BY <1>5, <1>7, <2>1
  <1> HIDE DEF message, answer
  <1> DEFINE inner == Over(AllocPadded(Block + Len(data)), 0, message)
             outer == Over(AllocPadded(Block + Block \div 2), 0, answer)
  <1>11. Sha256Stream(<<>>, inner, Len(inner)) = PadTo(message)
    BY <1>6, <1>9, StreamOfPadded
  <1>12. Sha256Stream(<<>>, outer, Len(outer)) = PadTo(answer)
    BY <1>6, <1>10, StreamOfPadded
  <1> HIDE DEF inner, outer
  <1>13. Hmac256(data, key) = PadTo(answer)
    BY <1>11, <1>12 DEF Hmac256, inner, outer, answer, message, hash, ipad, opad, K
  <1>14. HmacFormula(data, key) = PadTo(answer)
    BY <1>4 DEF HmacFormula, StandardHash, answer, message, hash, ipad, opad, K, short
  <1> QED BY <1>13, <1>14

-----------------------------------------------------------------------------
(* Bodies.                                                                 *)

FileByte == {DataByte(k) : k \in Nat} \cup {Zero}

\* Only a mapping can give what is not of its file, and only when it was cut.
BodyInv ==
  way \in BodyWays =>
    /\ size \in Nat /\ offset \in Nat /\ want \in Nat \ {0}
    /\ taken \in Nat /\ taken <= want
    /\ out \in Seq(FileByte) /\ Len(out) = taken
    /\ state \in {"reading", "sent", "short", "killed"}
    /\ state = "sent" => taken = want
    /\ way = "MemReader" => ~cut
    /\ ~cut => offset + want <= size
    /\ way # "mapped MemReader" \/ ~cut => \A k \in 1 .. taken : out[k] = DataByte(offset + k)

LEMMA BodyInit == Init => BodyInv
  <1> SUFFICES ASSUME Init, way \in BodyWays PROVE BodyInv
    BY DEF BodyInv
  <1>1. way \notin HashWays
    BY DEF BodyWays, HashWays
  <1>2. /\ size \in Nat /\ offset \in 0 .. size /\ want \in 1 .. size - offset
        /\ out = <<>> /\ taken = 0 /\ state = "reading" /\ cut = FALSE
    BY <1>1, StreamAssumption DEF Init
  <1> QED BY <1>2 DEF BodyInv

\* A piece of a body, added to what is there.
LEMMA BodyPiece ==
  ASSUME NEW n \in Nat, taken \in Nat, offset \in Nat
  PROVE  LET piece == Bytes(LAMBDA k : BodyByte(taken + k), n) IN
         /\ piece \in Seq(FileByte) /\ Len(piece) = n
         /\ \A k \in 1 .. n : piece[k] = BodyByte(taken + k)
  <1> DEFINE piece == [k \in 1 .. n |-> BodyByte(taken + k)]
  <1>1. Bytes(LAMBDA k : BodyByte(taken + k), n) = piece
    BY DEF Bytes
  <1>2. ASSUME NEW k \in 1 .. n PROVE BodyByte(taken + k) \in FileByte
    <2>1. offset + (taken + k) \in Nat
      OBVIOUS
    <2> QED BY <2>1 DEF BodyByte, FileByte
  <1>3. piece \in [1 .. n -> FileByte]
    BY <1>2
  <1>4. piece \in Seq(FileByte) /\ Len(piece) = n
    BY <1>3, FunctionIsSeq
  <1> QED BY <1>1, <1>4

\* What one call of the callback gets.
LEMMA GivenFits ==
  ASSUME taken \in Nat, want \in Nat, taken <= want, offset \in Nat, size \in Nat,
         way \in BodyWays, NEW room \in 1 .. MaxRoom, NEW n \in Given(Room(room))
  PROVE  /\ n \in Nat /\ taken + n <= want
         /\ way \in {"ReadFile", "ReadFileUnbuffered"} => n = 0 \/ offset + (taken + n) <= size
  <1>1. room \in Nat
    BY StreamAssumption
  <1>2. Room(room) \in Nat /\ Room(room) <= want - taken
    BY <1>1 DEF Room, Smallest
  <1> DEFINE r == Room(room)
             l == Left(offset + taken)
  <1> HIDE DEF r
  <1>3. l \in Nat /\ (l = 0 \/ offset + taken + l <= size)
    BY DEF Left
  <1>4. Smallest(r, l) \in Nat /\ Smallest(r, l) <= r /\ Smallest(r, l) <= l
    BY <1>2, <1>3 DEF Smallest, r
  <1> HIDE DEF l
  <1>5. CASE way = "ReadFile"
    <2>1. n = Smallest(r, l)
      BY <1>5 DEF Given, r, l
    <2> QED BY <1>2, <1>3, <1>4, <2>1 DEF r
  <1>6. CASE way = "ReadFileUnbuffered"
    <2>1. n \in 0 .. Smallest(r, l)
      BY <1>6 DEF Given, r, l
    <2> QED BY <1>2, <1>3, <1>4, <2>1 DEF r
  <1>7. CASE way \in {"MemReader", "mapped MemReader"}
    <2>1. n = r
      BY <1>7 DEF Given, r
    <2>2. n \in Nat /\ taken + n <= want
      BY <1>2, <2>1 DEF r
    <2>3. way \notin {"ReadFile", "ReadFileUnbuffered"}
      BY <1>7
    <2> QED BY <2>2, <2>3
  <1> QED BY <1>5, <1>6, <1>7 DEF BodyWays

LEMMA CallbackStep ==
  ASSUME BodyInv, NEW room \in 1 .. MaxRoom, Callback(room)
  PROVE  BodyInv'
  <1>1. /\ way \in BodyWays /\ state = "reading"
        /\ way' = way /\ size' = size /\ offset' = offset /\ want' = want /\ cut' = cut
    BY DEF Callback
  <1>2. /\ size \in Nat /\ offset \in Nat /\ want \in Nat \ {0}
        /\ taken \in Nat /\ taken <= want
        /\ way = "MemReader" => ~cut
        /\ ~cut => offset + want <= size
    BY <1>1, Zenon DEF BodyInv
  <1>3. /\ out \in Seq(FileByte) /\ Len(out) = taken
        /\ way # "mapped MemReader" \/ ~cut => \A k \in 1 .. taken : out[k] = DataByte(offset + k)
    BY <1>1 DEF BodyInv
  <1>4. PICK n \in Given(Room(room)) :
          /\ out' = out \o Bytes(LAMBDA k : BodyByte(taken + k), n)
          /\ taken' = taken + n
          /\ state' = IF taken + n >= want THEN "sent"
                      ELSE IF n = 0 THEN "short" ELSE "reading"
    BY DEF Callback
  <1>5. /\ n \in Nat /\ taken + n <= want
        /\ way \in {"ReadFile", "ReadFileUnbuffered"} => n = 0 \/ offset + (taken + n) <= size
    BY <1>1, <1>2, GivenFits
  <1> DEFINE piece == Bytes(LAMBDA k : BodyByte(taken + k), n)
  <1>6. piece \in Seq(FileByte) /\ Len(piece) = n
    BY <1>2, <1>5, BodyPiece
  <1>7. \A k \in 1 .. n : piece[k] = BodyByte(taken + k)
    BY <1>2, <1>5, BodyPiece
  <1>8. out' = out \o piece
    BY <1>4
  <1> HIDE DEF piece
  <1>9. /\ out' \in Seq(FileByte) /\ Len(out') = taken + n
        /\ \A k \in 1 .. taken + n : out'[k] = IF k <= taken THEN out[k] ELSE piece[k - taken]
    <2>1. /\ out \o piece \in Seq(FileByte) /\ Len(out \o piece) = Len(out) + Len(piece)
          /\ \A k \in 1 .. Len(out) + Len(piece) :
               (out \o piece)[k] = IF k <= Len(out) THEN out[k] ELSE piece[k - Len(out)]
      BY <1>3, <1>6, ConcatProperties
    <2> QED BY <1>3, <1>6, <1>8, <2>1
  <1>10. ASSUME way # "mapped MemReader" \/ ~cut, NEW k \in 1 .. taken + n
         PROVE  out'[k] = DataByte(offset + k)
    <2>1. k \in Nat /\ k >= 1 /\ k <= taken + n
      BY <1>2, <1>5
    <2>2. CASE k <= taken
      <3>1. out'[k] = out[k] /\ k \in 1 .. taken
        BY <1>2, <1>9, <2>1, <2>2
      <3> QED BY <1>3, <1>10, <3>1
    <2>3. CASE k > taken
      <3>1. k - taken \in 1 .. n /\ taken + (k - taken) = k
        BY <1>2, <1>5, <2>1, <2>3
      <3>2. out'[k] = piece[k - taken]
        BY <1>2, <1>9, <2>1, <2>3
      <3>3. out'[k] = BodyByte(k)
        BY <1>7, <3>1, <3>2
      <3>4. offset + k <= size
        <4>1. CASE way \in {"ReadFile", "ReadFileUnbuffered"}
          BY <1>2, <1>5, <2>1, <3>1, <4>1
        <4>2. CASE ~cut
          BY <1>2, <1>5, <2>1, <4>2
        <4>3. way \in {"ReadFile", "ReadFileUnbuffered"} \/ ~cut
          BY <1>1, <1>2, <1>10 DEF BodyWays
        <4> QED BY <4>1, <4>2, <4>3
      <3> QED BY <3>3, <3>4 DEF BodyByte
    <2> QED BY <1>2, <2>1, <2>2, <2>3
  <1>11. /\ taken' \in Nat /\ taken' <= want /\ state' \in {"reading", "sent", "short", "killed"}
         /\ state' = "sent" => taken' = want
    BY <1>2, <1>4, <1>5
  <1>12. way # "mapped MemReader" \/ ~cut => \A k \in 1 .. taken' : out'[k] = DataByte(offset + k)
    BY <1>4, <1>10
  <1> QED BY <1>1, <1>2, <1>4, <1>9, <1>11, <1>12 DEF BodyInv

LEMMA BodyAlways == Spec => []BodyInv
  <1>1. BodyInv /\ [Next]_vars => BodyInv'
    <2> SUFFICES ASSUME BodyInv, [Next]_vars PROVE BodyInv'
      OBVIOUS
    <2>1. ASSUME NEW room \in 1 .. MaxRoom, Callback(room) PROVE BodyInv'
      BY <2>1, CallbackStep
    <2>2. CASE Killed
      BY <2>2 DEF Killed, BodyInv
    <2>3. CASE ReadPiece
      BY <2>3 DEF ReadPiece, BodyInv, BodyWays, HashWays
    <2>4. ASSUME NEW n \in 0 .. MaxSize, Cut(n) PROVE BodyInv'
      <3>1. n \in Nat
        BY StreamAssumption
      <3> QED BY <2>4, <3>1 DEF Cut, BodyInv
    <2>5. CASE Ended \/ UNCHANGED vars
      BY <2>5 DEF Ended, vars, BodyInv
    <2> QED BY <2>1, <2>2, <2>3, <2>4, <2>5 DEF Next
  <1> QED BY <1>1, BodyInit, PTL DEF Spec
-----------------------------------------------------------------------------
(* Hashes of files.                                                        *)

HashByte == FileByte \cup Stuffing

LEMMA HashBytes1 == Stuffing \subseteq HashByte /\ \A k \in Nat : DataByte(k) \in HashByte
  BY DEF HashByte, FileByte

LEMMA FileBytesIsSeq ==
  ASSUME NEW t \in Nat
  PROVE  /\ FileBytes(t) \in Seq(HashByte) /\ Len(FileBytes(t)) = t
         /\ \A k \in 1 .. t : FileBytes(t)[k] = DataByte(k)
  <1>1. FileBytes(t) = [k \in 1 .. t |-> DataByte(k)]
    BY DEF FileBytes, Bytes
  <1>2. \A k \in 1 .. t : DataByte(k) \in HashByte
    BY HashBytes1
  <1>3. FileBytes(t) \in [1 .. t -> HashByte]
    BY <1>1, <1>2
  <1> QED BY <1>1, <1>3, FunctionIsSeq

LEMMA PieceIsSeq ==
  ASSUME taken \in Nat, NEW b \in Nat
  PROVE  /\ Piece(b) \in Seq(HashByte) /\ Len(Piece(b)) = b
         /\ \A k \in 1 .. b : Piece(b)[k] = DataByte(taken + k)
  <1>1. Piece(b) = [k \in 1 .. b |-> DataByte(taken + k)]
    BY DEF Piece, Bytes
  <1>2. \A k \in 1 .. b : DataByte(taken + k) \in HashByte
    BY HashBytes1
  <1>3. Piece(b) \in [1 .. b -> HashByte]
    BY <1>1, <1>2
  <1> QED BY <1>1, <1>3, FunctionIsSeq

\* A full piece continues what was fed.
LEMMA PieceContinues ==
  ASSUME taken \in Nat, NEW b \in Nat
  PROVE  FileBytes(taken) \o Piece(b) = FileBytes(taken + b)
  <1> DEFINE f == FileBytes(taken)
             p == Piece(b)
             g == FileBytes(taken + b)
  <1>1. /\ f \in Seq(HashByte) /\ Len(f) = taken /\ \A k \in 1 .. taken : f[k] = DataByte(k)
    BY FileBytesIsSeq
  <1>2. /\ p \in Seq(HashByte) /\ Len(p) = b /\ \A k \in 1 .. b : p[k] = DataByte(taken + k)
    BY PieceIsSeq
  <1>3. taken + b \in Nat
    OBVIOUS
  <1>4. /\ g \in Seq(HashByte) /\ Len(g) = taken + b
        /\ \A k \in 1 .. taken + b : g[k] = DataByte(k)
    BY <1>3, FileBytesIsSeq
  <1> HIDE DEF f, p, g
  <1>5. /\ f \o p \in Seq(HashByte) /\ Len(f \o p) = Len(f) + Len(p)
        /\ \A k \in 1 .. Len(f) + Len(p) :
             (f \o p)[k] = IF k <= Len(f) THEN f[k] ELSE p[k - Len(f)]
    BY <1>1, <1>2, ConcatProperties
  <1>6. ASSUME NEW k \in 1 .. taken + b PROVE (f \o p)[k] = g[k]
    <2>1. CASE k <= taken
      BY <1>1, <1>2, <1>4, <1>5, <2>1
    <2>2. CASE k > taken
      <3>1. k - taken \in 1 .. b /\ taken + (k - taken) = k
        BY <2>2
      <3>2. (f \o p)[k] = p[k - taken]
        BY <1>1, <1>2, <1>5, <2>2
      <3>3. p[k - taken] = DataByte(k)
        BY <1>2, <3>1
      <3> QED BY <1>4, <3>2, <3>3
    <2>3. k \in Nat
      OBVIOUS
    <2>4. k <= taken \/ k > taken
      BY <2>3
    <2> QED BY <2>1, <2>2, <2>4
  <1>7. f \o p = g
    BY <1>1, <1>2, <1>4, <1>5, <1>6, SeqEqual
  <1> QED BY <1>7 DEF f, p, g

\* The last piece ends with the padding of the whole message.
LEMMA LastPieceBytes ==
  ASSUME taken \in Nat, NEW b \in Nat, NEW n \in Nat,
         n = NextDivBy(b + 1 + LenBytes, Block), b + 1 + LenBytes <= n
  PROVE  /\ LastPiece(b) \in Seq(HashByte) /\ Len(LastPiece(b)) = n
         /\ \A k \in 1 .. n : LastPiece(b)[k] =
              IF k <= b THEN DataByte(taken + k)
              ELSE IF k = b + 1 THEN One
              ELSE IF k <= n - LenBytes THEN Zero
              ELSE <<"length", 8 * (taken + b), k - (n - LenBytes)>>
  <1> DEFINE m == 8 * (taken + b)
             p == Piece(b)
             q == p \o <<One>>
             inner == Over(Zeros(n), 0, q)
             last == Over(inner, n - LenBytes, Length(m))
             Byte(k) == IF k <= b THEN DataByte(taken + k)
                        ELSE IF k = b + 1 THEN One
                        ELSE IF k <= n - LenBytes THEN Zero
                        ELSE <<"length", m, k - (n - LenBytes)>>
  <1>1. LenBytes \in Nat /\ m \in Nat
    BY DigestAssumption
  <1>2. LastPiece(b) = last
    BY DEF LastPiece
  <1>3. /\ p \in Seq(HashByte) /\ Len(p) = b /\ \A k \in 1 .. b : p[k] = DataByte(taken + k)
    BY PieceIsSeq
  <1> HIDE DEF p, m
  <1>4. <<One>> \in Seq(HashByte) /\ Len(<<One>>) = 1 /\ <<One>>[1] = One
    BY HashBytes1 DEF Stuffing
  <1>5. /\ q \in Seq(HashByte) /\ Len(q) = b + 1
        /\ \A k \in 1 .. b + 1 : q[k] = IF k <= b THEN p[k] ELSE <<One>>[k - b]
    <2>1. /\ p \o <<One>> \in Seq(HashByte) /\ Len(p \o <<One>>) = Len(p) + Len(<<One>>)
          /\ \A k \in 1 .. Len(p) + Len(<<One>>) :
               (p \o <<One>>)[k] = IF k <= Len(p) THEN p[k] ELSE <<One>>[k - Len(p)]
      BY <1>3, <1>4, ConcatProperties
    <2> QED BY <1>3, <1>4, <2>1
  <1>6. DOMAIN q = 1 .. b + 1
    BY <1>5, LenProperties
  <1> HIDE DEF q
  <1>7. Zeros(n) = [k \in 1 .. n |-> Zero]
    BY DEF Zeros, Bytes
  <1>8. inner = [k \in 1 .. n |-> IF k - 0 \in 1 .. b + 1 THEN q[k - 0] ELSE Zero]
    BY <1>6, <1>7 DEF Over
  <1>9. DOMAIN inner = 1 .. n
    BY <1>8
  <1>10. Length(m) = [k \in 1 .. LenBytes |-> <<"length", m, k>>]
    BY DEF Length, Bytes
  <1>11. last = [k \in 1 .. n |-> IF k - (n - LenBytes) \in 1 .. LenBytes
                                    THEN <<"length", m, k - (n - LenBytes)>> ELSE inner[k]]
    BY <1>9, <1>10 DEF Over
  <1> HIDE DEF inner, last
  <1>12. ASSUME NEW k \in 1 .. n PROVE last[k] = Byte(k) /\ Byte(k) \in HashByte
    <2>1. CASE k <= b
      <3>1. inner[k] = p[k] /\ last[k] = inner[k]
        BY <1>1, <1>5, <1>8, <1>11, <2>1
      <3> QED BY <1>3, <2>1, <3>1, HashBytes1
    <2>2. CASE k = b + 1
      <3>1. inner[k] = One /\ last[k] = inner[k]
        BY <1>1, <1>4, <1>5, <1>8, <1>11, <2>2
      <3> QED BY <2>2, <3>1, HashBytes1 DEF Stuffing
    <2>3. CASE k > b + 1 /\ k <= n - LenBytes
      <3>1. inner[k] = Zero /\ last[k] = inner[k]
        BY <1>1, <1>8, <1>11, <2>3
      <3> QED BY <2>3, <3>1, HashBytes1 DEF Stuffing
    <2>4. CASE k > n - LenBytes
      <3>1. k - (n - LenBytes) \in 1 .. LenBytes
        BY <1>1, <2>4
      <3>2. last[k] = <<"length", m, k - (n - LenBytes)>>
        BY <1>11, <3>1
      <3>3. Byte(k) = <<"length", m, k - (n - LenBytes)>>
        BY <1>1, <2>4
      <3>4. Byte(k) \in Stuffing
        BY <1>1, <3>1, <3>3 DEF Stuffing
      <3> QED BY <3>2, <3>3, <3>4, HashBytes1
    <2> QED BY <1>1, <2>1, <2>2, <2>3, <2>4
  <1> HIDE DEF Byte
  <1>13. last \in [1 .. n -> HashByte]
    BY <1>11, <1>12
  <1>14. last \in Seq(HashByte) /\ Len(last) = n
    BY <1>13, FunctionIsSeq
  <1> QED BY <1>2, <1>12, <1>14 DEF Byte, m
HashInv ==
  way \in HashWays =>
    /\ size \in Nat /\ taken \in Nat
    /\ state \in {"reading", "hashed", "exit"}
    /\ state = "reading" => out = FileBytes(taken) /\ taken % Block = 0
    /\ state = "hashed" => out = PadTo(FileBytes(taken))

LEMMA HashInit == Init => HashInv
  <1> SUFFICES ASSUME Init, way \in HashWays PROVE HashInv
    BY DEF HashInv
  <1>1. /\ size \in Nat /\ out = <<>> /\ taken = 0 /\ state = "reading"
    BY StreamAssumption DEF Init
  <1>2. FileBytes(0) = <<>>
    BY FileBytesIsSeq, EmptySeq
  <1>3. Block \in Nat \ {0}
    BY DigestAssumption
  <1>4. 0 % Block = 0
    <2>1. 0 = 0 * Block
      BY <1>3
    <2> QED BY <1>3, <2>1, Multiple
  <1> QED BY <1>1, <1>2, <1>4 DEF HashInv

\* Both hashes take all of what is fed in whole blocks.
LEMMA FedWhole ==
  ASSUME NEW hash, NEW data \in Seq(HashByte), Len(data) % Block = 0
  PROVE  Fed(hash, data) = hash \o data
  BY WholeBlocks DEF Fed

\* Pieces of whole blocks, and one that is padded, are the padded message.
LEMMA LastPieceEnds ==
  ASSUME taken \in Nat, taken % Block = 0, NEW b \in Nat
  PROVE  Fed(FileBytes(taken), LastPiece(b)) = PadTo(FileBytes(taken + b))
  <1> DEFINE n == NextDivBy(b + 1 + LenBytes, Block)
             f == FileBytes(taken)
             p == LastPiece(b)
             g == FileBytes(taken + b)
             m == 8 * (taken + b)
  <1>1. Block \in Nat \ {0} /\ LenBytes \in Nat
    BY DigestAssumption
  <1>2. /\ n \in Nat /\ n % Block = 0 /\ b + 1 + LenBytes <= n /\ n < b + 1 + LenBytes + Block
    BY RoomForPadding
  <1>3. n = NextDivBy(b + 1 + LenBytes, Block)
    OBVIOUS
  <1> HIDE DEF n
  <1>4. /\ f \in Seq(HashByte) /\ Len(f) = taken /\ \A k \in 1 .. taken : f[k] = DataByte(k)
    BY FileBytesIsSeq
  <1>5. taken + b \in Nat
    OBVIOUS
  <1>6. /\ g \in Seq(HashByte) /\ Len(g) = taken + b
        /\ \A k \in 1 .. taken + b : g[k] = DataByte(k)
    BY <1>5, FileBytesIsSeq
  <1>7. p \in Seq(HashByte) /\ Len(p) = n
    BY <1>2, <1>3, LastPieceBytes
  <1>8. \A k \in 1 .. n : p[k] = IF k <= b THEN DataByte(taken + k)
                                 ELSE IF k = b + 1 THEN One
                                 ELSE IF k <= n - LenBytes THEN Zero
                                 ELSE <<"length", m, k - (n - LenBytes)>>
    BY <1>2, <1>3, LastPieceBytes
  <1>9. Fed(f, p) = f \o p
    BY <1>2, <1>7, FedWhole
  <1> HIDE DEF f, p, g, m
  <1> DEFINE s == f \o p
  <1>10. /\ s \in Seq(HashByte) /\ Len(s) = taken + n
         /\ \A k \in 1 .. taken + n : s[k] = IF k <= taken THEN f[k] ELSE p[k - taken]
    <2>1. /\ f \o p \in Seq(HashByte) /\ Len(f \o p) = Len(f) + Len(p)
          /\ \A k \in 1 .. Len(f) + Len(p) :
               (f \o p)[k] = IF k <= Len(f) THEN f[k] ELSE p[k - Len(f)]
      BY <1>4, <1>7, ConcatProperties
    <2> QED BY <1>4, <1>7, <2>1
  <1> HIDE DEF s
  <1>11. ASSUME NEW k \in 1 .. taken + n PROVE s[k] = PaddedByte(g, taken + n, m, k)
    <2>1. k \in Nat /\ k >= 1 /\ k <= taken + n
      BY <1>2
    <2>2. CASE k <= taken
      <3>1. s[k] = DataByte(k)
        BY <1>4, <1>10, <2>1, <2>2
      <3>2. PaddedByte(g, taken + n, m, k) = DataByte(k)
        BY <1>6, <2>1, <2>2 DEF PaddedByte
      <3> QED BY <3>1, <3>2
    <2>3. CASE k > taken
      <3> DEFINE j == k - taken
      <3>1. j \in 1 .. n /\ k = taken + j
        BY <1>2, <2>1, <2>3
      <3>2. s[k] = p[j]
        BY <1>10, <2>1, <2>3
      <3> HIDE DEF j
      <3>3. CASE j <= b
        <4>1. p[j] = DataByte(k)
          BY <1>8, <3>1, <3>3
        <4>2. k <= Len(g) /\ g[k] = DataByte(k)
          BY <1>6, <2>1, <3>1, <3>3
        <4>3. PaddedByte(g, taken + n, m, k) = DataByte(k)
          BY <4>2, PaddedData
        <4> QED BY <3>2, <4>1, <4>3
      <3>4. CASE j = b + 1
        <4>0. ~(j <= b)
          BY <3>1, <3>4
        <4>1. p[j] = One
          BY <1>8, <3>1, <3>4, <4>0
        <4>2. ~(k <= Len(g)) /\ k = Len(g) + 1
          BY <1>6, <2>1, <3>1, <3>4
        <4>3. PaddedByte(g, taken + n, m, k) = One
          BY <4>2, PaddedOne
        <4> QED BY <3>2, <4>1, <4>3
      <3>5. CASE j > b + 1 /\ j <= n - LenBytes
        <4>0. ~(j <= b) /\ j # b + 1
          BY <1>1, <1>2, <3>1, <3>5
        <4>1. p[j] = Zero
          BY <1>8, <3>1, <3>5, <4>0
        <4>2. ~(k <= Len(g)) /\ k # Len(g) + 1 /\ k <= (taken + n) - LenBytes
          BY <1>1, <1>2, <1>6, <3>1, <3>5
        <4>3. PaddedByte(g, taken + n, m, k) = Zero
          BY <4>2, PaddedZero
        <4> QED BY <3>2, <4>1, <4>3
      <3>6. CASE j > n - LenBytes
        <4>1. ~(j <= b) /\ j # b + 1 /\ ~(j <= n - LenBytes)
          BY <1>1, <1>2, <3>1, <3>6
        <4>2. p[j] = <<"length", m, j - (n - LenBytes)>>
          BY <1>8, <3>1, <4>1
        <4>3. ~(k <= Len(g)) /\ k # Len(g) + 1 /\ ~(k <= (taken + n) - LenBytes)
          BY <1>1, <1>2, <1>6, <3>1, <4>1
        <4>4. PaddedByte(g, taken + n, m, k) = <<"length", m, k - ((taken + n) - LenBytes)>>
          BY <4>3, PaddedLength
        <4>5. k - ((taken + n) - LenBytes) = j - (n - LenBytes)
          BY <1>1, <1>2, <3>1
        <4> QED BY <3>2, <4>2, <4>4, <4>5
      <3>7. j <= b \/ j = b + 1 \/ (j > b + 1 /\ j <= n - LenBytes) \/ j > n - LenBytes
        BY <1>1, <1>2, <3>1
      <3> QED BY <3>3, <3>4, <3>5, <3>6, <3>7
    <2> QED BY <2>1, <2>2, <2>3
  <1>12. (taken + n) % Block = 0
    BY <1>1, <1>2, MultipleSum
  <1>13. /\ taken + n \in Nat /\ Len(g) + 1 + LenBytes <= taken + n
         /\ taken + n < Len(g) + 1 + LenBytes + Block
    BY <1>1, <1>2, <1>6
  <1>14. m = 8 * Len(g)
    BY <1>6 DEF m
  <1> DEFINE l == taken + n
  <1>15. /\ l \in Nat /\ l % Block = 0 /\ Len(g) + 1 + LenBytes <= l
         /\ l < Len(g) + 1 + LenBytes + Block /\ Len(s) = l
         /\ \A k \in 1 .. l : s[k] = PaddedByte(g, l, 8 * Len(g), k)
    BY <1>10, <1>11, <1>12, <1>13, <1>14
  <1> HIDE DEF l
  <1>16. s = PadTo(g)
    BY <1>6, <1>10, <1>15, HashBytes1, IsPadded
  <1> QED BY <1>9, <1>16 DEF f, p, g, s

LEMMA ReadPieceStep ==
  ASSUME HashInv, ReadPiece
  PROVE  HashInv'
  <1> DEFINE b == Smallest(BufSize, Left(taken))
             eof == b < BufSize \/ Left(taken + b) = 0
  <1>1. /\ way \in HashWays /\ state = "reading"
        /\ way' = way /\ size' = size
    BY DEF ReadPiece
  <1>2. /\ size \in Nat /\ taken \in Nat /\ out = FileBytes(taken) /\ taken % Block = 0
    BY <1>1 DEF HashInv
  <1>3. BufSize \in Nat \ {0} /\ BufSize % Block = 0 /\ Block \in Nat \ {0}
    BY StreamAssumption, DigestAssumption
  <1>4. b \in Nat /\ b <= BufSize
    BY <1>2, <1>3 DEF Smallest, Left
  <1>5. CASE b = 0
    <2>1. state' = "exit" /\ taken' = taken
      BY <1>5 DEF ReadPiece
    <2> QED BY <1>1, <1>2, <2>1 DEF HashInv
  <1>6. CASE b # 0 /\ eof
    <2>1. out' = Fed(out, LastPiece(b)) /\ taken' = taken + b /\ state' = "hashed"
      BY <1>6 DEF ReadPiece
    <2> HIDE DEF b
    <2>2. out' = PadTo(FileBytes(taken + b)) /\ taken + b \in Nat
      BY <1>2, <1>4, <2>1, LastPieceEnds
    <2> QED BY <1>1, <1>2, <2>1, <2>2 DEF HashInv
  <1>7. CASE b # 0 /\ ~eof
    <2>1. out' = Fed(out, Piece(BufSize)) /\ taken' = taken + b /\ state' = "reading"
      BY <1>1, <1>7 DEF ReadPiece
    <2>2. b = BufSize
      BY <1>3, <1>4, <1>7
    <2> HIDE DEF b
    <2>3. Piece(BufSize) \in Seq(HashByte) /\ Len(Piece(BufSize)) = BufSize
      BY <1>2, <1>3, PieceIsSeq
    <2>4. out' = FileBytes(taken) \o Piece(BufSize)
      BY <1>2, <1>3, <2>1, <2>3, FedWhole
    <2>5. out' = FileBytes(taken + BufSize)
      BY <1>2, <1>3, <2>4, PieceContinues
    <2>6. (taken + BufSize) % Block = 0 /\ taken + BufSize \in Nat
      <3>1. (taken + BufSize) % Block = 0 <=> BufSize % Block = 0
        BY <1>2, <1>3, MultipleSum
      <3> QED BY <1>2, <1>3, <3>1
    <2> QED BY <1>1, <1>2, <2>1, <2>2, <2>5, <2>6 DEF HashInv
  <1> QED BY <1>5, <1>6, <1>7

LEMMA HashAlways == Spec => []HashInv
  <1>1. HashInv /\ [Next]_vars => HashInv'
    <2> SUFFICES ASSUME HashInv, [Next]_vars PROVE HashInv'
      OBVIOUS
    <2>1. ASSUME NEW room \in 1 .. MaxRoom, Callback(room) PROVE HashInv'
      BY <2>1 DEF Callback, HashInv, BodyWays, HashWays
    <2>2. CASE Killed
      BY <2>2 DEF Killed, HashInv, HashWays
    <2>3. CASE ReadPiece
      BY <2>3, ReadPieceStep
    <2>4. ASSUME NEW n \in 0 .. MaxSize, Cut(n) PROVE HashInv'
      <3>1. n \in Nat
        BY StreamAssumption
      <3> QED BY <2>4, <3>1 DEF Cut, HashInv
    <2>5. CASE Ended \/ UNCHANGED vars
      BY <2>5 DEF Ended, vars, HashInv
    <2> QED BY <2>1, <2>2, <2>3, <2>4, <2>5 DEF Next
  <1> QED BY <1>1, HashInit, PTL DEF Spec

-----------------------------------------------------------------------------
(* Theorems.                                                               *)

LEMMA WayAlways == Spec => [](way \in BodyWays \cup HashWays)
  <1>1. Init => way \in BodyWays \cup HashWays
    BY DEF Init
  <1>2. way \in BodyWays \cup HashWays /\ [Next]_vars => (way \in BodyWays \cup HashWays)'
    BY DEF Next, vars, Callback, Killed, ReadPiece, Cut, Ended
  <1> QED BY <1>1, <1>2, PTL DEF Spec

(* A request that is complete has the bytes of its range, in order, with   *)
(* every room libcurl may give and however the file is cut: ReadFile,      *)
(* ReadFileUnbuffered and MemReader of webclient.cpp.                      *)
THEOREM BodiesAreRanges == Spec => []BodyIsRange
  <1>1. /\ BodyInv /\ HashInv /\ way \in BodyWays \cup HashWays
        => BodyIsRange
    <2> SUFFICES ASSUME BodyInv, HashInv, way \in BodyWays \cup HashWays, state = "sent"
                 PROVE  BodyIsRange
      BY DEF BodyIsRange
    <2>1. way \in BodyWays
      BY DEF HashInv
    <2>2. /\ Len(out) = taken /\ taken = want
          /\ way # "mapped MemReader" \/ ~cut =>
               \A k \in 1 .. taken : out[k] = DataByte(offset + k)
      BY <2>1 DEF BodyInv
    <2> QED BY <2>2, Zenon DEF BodyIsRange
  <1> QED BY <1>1, BodyAlways, HashAlways, WayAlways, PTL

(* sha256_file and md5_file hash the bytes they have read as one padded    *)
(* message, for every size of the file, of the pieces (whole blocks) and   *)
(* of a block, and however the file is cut meanwhile.                      *)
THEOREM FilesAreHashedWhole == Spec => []HashIsOfFile
  <1>1. BodyInv /\ HashInv /\ way \in BodyWays \cup HashWays => HashIsOfFile
    BY DEF BodyInv, HashInv, HashIsOfFile
  <1> QED BY <1>1, BodyAlways, HashAlways, WayAlways, PTL

-----------------------------------------------------------------------------
(* What is signed is what goes out.                                        *)

\* The headers that are signed whatever the caller gives.
Always == {"host", "x-amz-content-sha256", "x-amz-date"}

LEMMA DefaultsAre ==
  ASSUME NEW cfg
  PROVE  /\ DOMAIN DefaultHeaders(cfg) = Always
         /\ DefaultHeaders(cfg)["host"] = cfg.host
         /\ DefaultHeaders(cfg)["x-amz-content-sha256"] = "UNSIGNED-PAYLOAD"
         /\ DefaultHeaders(cfg)["x-amz-date"] = cfg.date
  BY DEF DefaultHeaders, Insert, Header, Always

\* Two signatures with the same key are equal only when the texts are.
LEMMA SignTellsTexts ==
  ASSUME NEW c, NEW r, NEW s
  PROVE  Sign(c, r) = Sign(c, s) <=> r = s
  <1> SUFFICES ASSUME Sign(c, r) = Sign(c, s) PROVE r = s
    OBVIOUS
  <1>1. PICK key, scope, T, U :
          /\ key = CreateSignatureKey(c.secret, c.date, c.region, c.service)
          /\ scope = <<c.date, c.region, c.service>>
          /\ T = [time |-> c.date, scope |-> scope, request |-> SHA256(r)]
          /\ U = [time |-> c.date, scope |-> scope, request |-> SHA256(s)]
    OBVIOUS
  <1>2. Hash(key, T) = Hash(key, U)
    BY <1>1 DEF Sign
  <1>3. T = U
    BY <1>2 DEF Hash
  <1>4. SHA256(r) = SHA256(s)
    BY <1>1, <1>3
  <1> QED BY <1>4 DEF SHA256

\* Nor are they with keys that differ.
LEMMA SignedTextsEqual ==
  ASSUME NEW c, NEW d, NEW r, NEW s, Sign(c, r) = Sign(d, s)
  PROVE  r = s
  <1>1. PICK key, other, T, U :
          /\ key = CreateSignatureKey(c.secret, c.date, c.region, c.service)
          /\ other = CreateSignatureKey(d.secret, d.date, d.region, d.service)
          /\ T = [time |-> c.date, scope |-> <<c.date, c.region, c.service>>,
                  request |-> SHA256(r)]
          /\ U = [time |-> d.date, scope |-> <<d.date, d.region, d.service>>,
                  request |-> SHA256(s)]
    OBVIOUS
  <1>2. Hash(key, T) = Hash(other, U)
    BY <1>1 DEF Sign
  <1>3. T = U
    BY <1>2 DEF Hash
  <1>4. SHA256(r) = SHA256(s)
    BY <1>1, <1>3
  <1> QED BY <1>4 DEF SHA256

\* What the method that is named first makes of a new handle.
LEMMA FreshMethod ==
  ASSUME NEW m \in Methods
  PROVE  LET o == SetMethod(FreshHandle, m, NoBodyAtAll) IN
         /\ o \in Options
         /\ o.custom = IF m \in {"HEAD", "DELETE", "POST"} THEN m ELSE "none"
         /\ MethodSent(o) = IF m \in {"head", "delete", "post"} THEN "GET" ELSE Upper(m)
         /\ BodySent(o, NoBodyAtAll) = NoBodyAtAll
  <1> USE DEF SetMethod, HttpGet, Upload, Custom, NoBody, Post, FreshHandle, MethodSent, BodySent
  <1> DEFINE o == SetMethod(FreshHandle, m, NoBodyAtAll)
  <1>0. NoBodyAtAll \in Bodies
    BY DEF NoBodyAtAll, Plain, Bodies
  <1>1. CASE m \in {"GET", "get"}
    BY <1>0, <1>1 DEF Upper, Options, Places
  <1>2. CASE m = "HEAD"
    BY <1>0, <1>2 DEF Upper, Options, Places
  <1>3. CASE m = "DELETE"
    BY <1>0, <1>3 DEF Upper, Options, Places
  <1>4. CASE m = "POST"
    BY <1>0, <1>4 DEF Upper, Options, Places
  <1>5. CASE m \in {"PUT", "put"}
    BY <1>0, <1>5 DEF Upper, Options, Places
  <1>6. CASE m \in {"head", "delete", "post"}
    BY <1>0, <1>6 DEF Upper, Options, Places
  <1> QED BY <1>1, <1>2, <1>3, <1>4, <1>5, <1>6 DEF Methods

\* What the body to send makes of the options.
LEMMA PutSent ==
  ASSUME NEW o \in Options, NEW place \in {"memory", "file"}, NEW body
  PROVE  LET p == SetMethod(SetReadFunction(o, place), "PUT", NoBodyAtAll) IN
         /\ MethodSent(p) = IF o.custom = "none" THEN "PUT" ELSE o.custom
         /\ BodySent(p, body) = body
  BY DEF Options, SetMethod, SetReadFunction, Upload, MethodSent, BodySent

LEMMA PostSent ==
  ASSUME NEW o \in Options, NEW sent, NEW body, NEW other
  PROVE  /\ MethodSent(SetMethod(Post(o, sent), "POST", sent)) = "POST"
         /\ BodySent(SetMethod(Post(o, sent), "POST", sent), body) = sent
         /\ MethodSent(Post(SetMethod(o, "POST", other), sent)) = "POST"
         /\ BodySent(Post(SetMethod(o, "POST", other), sent), body) = sent
  BY DEF Options, SetMethod, Post, Custom, Upload, MethodSent, BodySent

LEMMA UpperCase ==
  ASSUME NEW m \in Methods
  PROVE  /\ Upper(m) = "POST" <=> m \in {"POST", "post"}
         /\ Upper(m) = "PUT" <=> m \in {"PUT", "put"}
         /\ m \in {"HEAD", "DELETE", "POST", "GET", "PUT"} <=> Upper(m) = m
  BY DEF Methods, Upper

LEMMA MethodIsSent ==
  ASSUME NEW args, args.method \in Methods, args.data \in Data \cup {NoData},
         args.dataIsFileName \in BOOLEAN, ~WrongMethod(args)
  PROVE  /\ MethodSent(ReadyToSend(args)) = Upper(args.method) <=> MethodGoesOut(args)
         /\ BodySent(ReadyToSend(args), Plain(args.data)).data = args.data
  <1> DEFINE m == args.method
             o == SetMethod(FreshHandle, m, NoBodyAtAll)
             posted == UrlEncoded(args.data)
             Put(place) == SetMethod(SetReadFunction(o, place), "PUT", NoBodyAtAll)
  <1>0. /\ o \in Options
        /\ o.custom = IF m \in {"HEAD", "DELETE", "POST"} THEN m ELSE "none"
        /\ MethodSent(o) = IF m \in {"head", "delete", "post"} THEN "GET" ELSE Upper(m)
        /\ BodySent(o, NoBodyAtAll) = NoBodyAtAll
    BY FreshMethod
  <1>d. /\ UrlEncoded(args.data).data = args.data /\ Plain(args.data).data = args.data
    BY DEF UrlEncoded, Plain
  <1>e. m \in {"head", "delete", "post"} => Upper(m) # "GET"
    BY DEF Upper
  <1>1. CASE args.data = NoData
    <2>1. ReadyToSend(args) = o /\ Plain(args.data) = NoBodyAtAll
      BY <1>1 DEF ReadyToSend, NoBodyAtAll
    <2> HIDE DEF o
    <2>2. MethodGoesOut(args) <=> m \notin {"head", "delete", "post"}
      BY <1>1 DEF MethodGoesOut
    <2> QED BY <1>0, <1>e, <1>d, <2>1, <2>2
  <1>2. CASE args.data # NoData /\ ~args.dataIsFileName
    <2>0. MethodGoesOut(args) <=> m \notin {"GET", "get", "head", "delete"}
      BY <1>2 DEF MethodGoesOut
    <2>1. CASE Upper(m) = "POST"
      <3>1. ReadyToSend(args) = SetMethod(Post(o, posted), "POST", posted)
        BY <1>2, <2>1 DEF ReadyToSend
      <3> HIDE DEF o
      <3>2. m \in {"POST", "post"}
        BY <2>1, UpperCase
      <3> QED BY <1>0, <1>d, <2>0, <2>1, <3>1, <3>2, PostSent
    <2>2. CASE Upper(m) # "POST"
      <3>1. ReadyToSend(args) = Put("memory")
        BY <1>2, <2>2 DEF ReadyToSend
      <3> HIDE DEF o
      <3>2. /\ MethodSent(Put("memory")) = IF o.custom = "none" THEN "PUT" ELSE o.custom
            /\ BodySent(Put("memory"), Plain(args.data)) = Plain(args.data)
        BY <1>0, PutSent
      <3> HIDE DEF Put
      <3>3. m \notin {"POST", "post"}
        BY <2>2, UpperCase
      <3>4. CASE m \in {"HEAD", "DELETE"}
        BY <1>0, <1>d, <2>0, <3>1, <3>2, <3>4, UpperCase
      <3>5. CASE m \notin {"HEAD", "DELETE"}
        <4>1. o.custom = "none"
          BY <1>0, <3>3, <3>5
        <4>2. m \in {"GET", "get", "head", "delete", "PUT", "put"}
          BY <3>3, <3>5 DEF Methods
        <4> QED BY <1>d, <2>0, <3>1, <3>2, <4>1, <4>2, UpperCase
      <3> QED BY <3>4, <3>5
    <2> QED BY <2>1, <2>2
  <1>3. CASE args.data # NoData /\ args.dataIsFileName
    <2>0. MethodGoesOut(args)
      BY <1>3 DEF MethodGoesOut
    <2>1. CASE Upper(m) = "PUT"
      <3>1. ReadyToSend(args) = Put("file")
        BY <1>3, <2>1 DEF ReadyToSend
      <3> HIDE DEF o
      <3>2. m \in {"PUT", "put"}
        BY <2>1, UpperCase
      <3>3. o.custom = "none"
        BY <1>0, <3>2
      <3> QED BY <1>0, <1>d, <2>0, <2>1, <3>1, <3>3, PutSent
    <2>2. CASE Upper(m) # "PUT"
      <3>1. m = "post" /\ Upper(m) = "POST"
        BY <1>3, <2>2, UpperCase DEF WrongMethod
      <3>2. ReadyToSend(args) = Post(SetMethod(o, "POST", NoBodyAtAll), Plain(args.data))
        BY <1>3, <2>2 DEF ReadyToSend
      <3> HIDE DEF o
      <3> QED BY <1>0, <1>d, <2>0, <3>1, <3>2, PostSent
    <2> QED BY <2>1, <2>2
  <1> QED BY <1>1, <1>2, <1>3

\* What is signed of the headers, and with which values.
SignedOf(args) == Always \cup (DOMAIN args.headers \cap (AmzNames \cup {"content-length"}))
CanonicalHeaders(args) ==
  [h \in SignedOf(args) |-> IF h \in Always THEN DefaultHeaders(args)[h] ELSE args.headers[h]]

LEMMA WhatIsSigned ==
  ASSUME NEW args
  PROVE  LET s == ComputeSignature(args) IN
         /\ s.signed = SignedOf(args)
         /\ s.signature = Sign(args, Canonical([args EXCEPT !.method = Upper(@)],
                                               CanonicalHeaders(args), SignedOf(args),
                                               args.params, "UNSIGNED-PAYLOAD"))
  <1> DEFINE added == Restrict(args.headers,
                               DOMAIN args.headers \cap (AmzNames \cup {"content-length"}))
             canonical == Insert(DefaultHeaders(args), added)
  <1>1. DOMAIN canonical = SignedOf(args)
    BY DefaultsAre DEF Insert, Restrict, SignedOf
  <1>2. canonical = CanonicalHeaders(args)
    BY <1>1, DefaultsAre DEF Insert, Restrict, SignedOf, CanonicalHeaders
  <1> QED BY <1>1, <1>2 DEF ComputeSignature

\* What the headers are before libcurl leaves out those without a value, and
\* after.
LEMMA WhatIsSent ==
  ASSUME NEW args, "Authorization" \notin DOMAIN args.headers
  PROVE  LET all == SignHeaders(args) IN
         /\ DOMAIN all = Always \cup {"Authorization"} \cup DOMAIN args.headers
         /\ \A h \in Always : all[h] = DefaultHeaders(args)[h]
         /\ all["Authorization"] =
              [access |-> args.access, scope |-> <<args.date, args.region, args.service>>,
               signed |-> ComputeSignature(args).signed,
               signature |-> ComputeSignature(args).signature]
         /\ \A h \in DOMAIN args.headers \ Always : all[h] = args.headers[h]
  <1> DEFINE a == [access |-> args.access, scope |-> <<args.date, args.region, args.service>>,
                   signed |-> ComputeSignature(args).signed,
                   signature |-> ComputeSignature(args).signature]
  <1>1. Authorization(args) = Header("Authorization", a)
    BY DEF Authorization
  <1> HIDE DEF a
  <1>2. "Authorization" \notin Always
    BY DEF Always
  <1> QED BY <1>1, <1>2, DefaultsAre DEF SignHeaders, Insert, Header, a

LEMMA WhatGoesOut ==
  ASSUME NEW args, "Authorization" \notin DOMAIN args.headers,
         args.host # "", args.date # ""
  PROVE  LET arrived == WithValue(SignHeaders(args)) IN
         /\ DOMAIN arrived = Always \cup {"Authorization"}
                           \cup {h \in DOMAIN args.headers : args.headers[h] # ""}
         /\ \A h \in DOMAIN arrived : arrived[h] = SignHeaders(args)[h]
  <1> DEFINE all == SignHeaders(args)
  <1>1. /\ DOMAIN all = Always \cup {"Authorization"} \cup DOMAIN args.headers
        /\ \A h \in Always : all[h] = DefaultHeaders(args)[h]
        /\ \A h \in DOMAIN args.headers \ Always : all[h] = args.headers[h]
    BY WhatIsSent
  <1>2. \A h \in Always : all[h] # ""
    BY <1>1, DefaultsAre DEF Always
  <1> HIDE DEF all
  <1>3. {h \in DOMAIN all : h = "Authorization" \/ all[h] # ""}
          = Always \cup {"Authorization"} \cup {h \in DOMAIN args.headers : args.headers[h] # ""}
    BY <1>1, <1>2
  <1>4. WithValue(all) = [h \in {g \in DOMAIN all : g = "Authorization" \/ all[g] # ""} |-> all[h]]
    BY DEF WithValue, Restrict
  <1> QED BY <1>3, <1>4 DEF all

LEMMA EscapedKey ==
  ASSUME NEW key \in {"plain", "special"}
  PROVE  key = Escaped(key) <=> key = "plain"
  BY DEF Escaped

\* What a server finds in the headers that go out.
LEMMA WhatArrives ==
  ASSUME NEW args, "Authorization" \notin DOMAIN args.headers, args.host # "", args.date # "",
         NEW arrived, arrived = WithValue(SignHeaders(args))
  PROVE  /\ arrived["Authorization"].signed = SignedOf(args)
         /\ arrived["Authorization"].scope[2] = args.region
         /\ arrived["Authorization"].scope[3] = args.service
         /\ arrived["Authorization"].signature =
              Sign(args, Canonical([args EXCEPT !.method = Upper(@)], CanonicalHeaders(args),
                                   SignedOf(args), args.params, "UNSIGNED-PAYLOAD"))
         /\ arrived["x-amz-date"] = args.date
         /\ arrived["x-amz-content-sha256"] = "UNSIGNED-PAYLOAD"
         /\ SignedOf(args) \subseteq DOMAIN arrived
              <=> Valued(args, {"x-amz-meta-a", "content-length"})
         /\ DOMAIN arrived \cap AmzNames \subseteq SignedOf(args)
         /\ SignedOf(args) \subseteq DOMAIN arrived
              => Restrict(arrived, SignedOf(args)) = CanonicalHeaders(args)
  <1>1. PICK all : all = SignHeaders(args)
    OBVIOUS
  <1>2. PICK signed, signature :
          /\ signed = ComputeSignature(args).signed
          /\ signature = ComputeSignature(args).signature
    OBVIOUS
  <1>3. /\ signed = SignedOf(args)
        /\ signature = Sign(args, Canonical([args EXCEPT !.method = Upper(@)],
                                            CanonicalHeaders(args), SignedOf(args), args.params,
                                            "UNSIGNED-PAYLOAD"))
    BY <1>2, WhatIsSigned
  <1>4. /\ DOMAIN arrived = Always \cup {"Authorization"}
                          \cup {h \in DOMAIN args.headers : args.headers[h] # ""}
        /\ \A h \in DOMAIN arrived : arrived[h] = all[h]
    BY <1>1, WhatGoesOut
  <1>5. /\ \A h \in Always : all[h] = DefaultHeaders(args)[h]
        /\ all["Authorization"] =
              [access |-> args.access, scope |-> <<args.date, args.region, args.service>>,
               signed |-> signed, signature |-> signature]
        /\ \A h \in DOMAIN args.headers \ Always : all[h] = args.headers[h]
    BY <1>1, <1>2, WhatIsSent
  <1>6. PICK a : a = [access |-> args.access, scope |-> <<args.date, args.region, args.service>>,
                      signed |-> signed, signature |-> signature]
    OBVIOUS
  <1>7. /\ a.signed = signed /\ a.signature = signature
        /\ a.scope[2] = args.region /\ a.scope[3] = args.service
    BY <1>6
  <1>8. arrived["Authorization"] = a
    BY <1>4, <1>5, <1>6
  <1>9. arrived["x-amz-date"] = args.date /\ arrived["x-amz-content-sha256"] = "UNSIGNED-PAYLOAD"
    BY <1>4, <1>5, DefaultsAre DEF Always
  <1>10. SignedOf(args) \subseteq DOMAIN arrived
           <=> Valued(args, {"x-amz-meta-a", "content-length"})
    BY <1>4 DEF SignedOf, Valued, AmzNames, Always
  <1>11. DOMAIN arrived \cap AmzNames \subseteq SignedOf(args)
    BY <1>4 DEF SignedOf, AmzNames
  <1>12. SignedOf(args) \subseteq DOMAIN arrived
           => Restrict(arrived, SignedOf(args)) = CanonicalHeaders(args)
    <2> SUFFICES ASSUME SignedOf(args) \subseteq DOMAIN arrived, NEW h \in SignedOf(args)
                 PROVE  arrived[h] = IF h \in Always THEN DefaultHeaders(args)[h]
                                                     ELSE args.headers[h]
      BY DEF Restrict, CanonicalHeaders
    <2>1. arrived[h] = all[h] /\ (h \notin Always => h \in DOMAIN args.headers)
      BY <1>4 DEF SignedOf
    <2> QED BY <1>5, <2>1
  <1> QED BY <1>3, <1>7, <1>8, <1>9, <1>10, <1>11, <1>12

\* The server computes the signature again from what arrived.
LEMMA SignatureMatches ==
  ASSUME NEW args, "Authorization" \notin DOMAIN args.headers, args.host # "", args.date # "",
         [args EXCEPT !.method = Upper(@)].method = Upper(args.method),
         [args EXCEPT !.method = Upper(@)].key = args.key,
         NEW r, r.headers = WithValue(SignHeaders(args)), r.key = args.key, r.query = args.params
  PROVE  Verifies(args, r) <=> /\ r.method = Upper(args.method)
                               /\ args.key = Escaped(args.key)
                               /\ Valued(args, {"x-amz-meta-a", "content-length"})
  <1>1. PICK S, c, arrived, a, p :
          /\ S = SignedOf(args) /\ c = CanonicalHeaders(args)
          /\ arrived = r.headers /\ a = arrived["Authorization"]
          /\ p = "UNSIGNED-PAYLOAD"
    OBVIOUS
  <1>2. PICK known, again, server :
          /\ known = [args EXCEPT !.method = Upper(@)]
          /\ again = [method |-> r.method, key |-> Escaped(r.key)]
          /\ server = [secret |-> args.secret, date |-> arrived["x-amz-date"],
                       region |-> a.scope[2], service |-> a.scope[3]]
    OBVIOUS
  <1>3. /\ a.signed = S /\ a.scope[2] = args.region /\ a.scope[3] = args.service
        /\ a.signature = Sign(args, Canonical(known, c, S, args.params, p))
        /\ arrived["x-amz-date"] = args.date /\ arrived["x-amz-content-sha256"] = p
        /\ S \subseteq DOMAIN arrived <=> Valued(args, {"x-amz-meta-a", "content-length"})
        /\ DOMAIN arrived \cap AmzNames \subseteq S
        /\ S \subseteq DOMAIN arrived => Restrict(arrived, S) = c
    BY <1>1, <1>2, WhatArrives
  <1>4. /\ known.method = Upper(args.method) /\ known.key = args.key
        /\ again.method = r.method /\ again.key = Escaped(args.key)
    BY <1>2
  <1>5. /\ args.secret = server.secret /\ args.date = server.date
        /\ args.region = server.region /\ args.service = server.service
    BY <1>2, <1>3
  <1>6. Verifies(args, r) <=>
          /\ S \subseteq DOMAIN arrived
          /\ Sign(args, Canonical(known, c, S, args.params, p))
               = Sign(server, Canonical(again, c, S, args.params, p))
    BY <1>1, <1>2, <1>3 DEF Verifies
  <1>7. Sign(args, Canonical(known, c, S, args.params, p))
             = Sign(server, Canonical(again, c, S, args.params, p))
          <=> Canonical(known, c, S, args.params, p) = Canonical(again, c, S, args.params, p)
    <2> SUFFICES ASSUME NEW first, NEW second
                 PROVE  Sign(args, first) = Sign(server, second) <=> first = second
      OBVIOUS
    <2>1. Sign(args, first) = Sign(args, second) <=> first = second
      BY SignTellsTexts
    <2>2. Sign(server, second) = Sign(args, second)
      BY <1>5 DEF Sign
    <2> QED BY <2>1, <2>2
  <1>8. Canonical(known, c, S, args.params, p) = Canonical(again, c, S, args.params, p)
          <=> r.method = Upper(args.method) /\ args.key = Escaped(args.key)
    BY <1>4 DEF Canonical
  <1> QED BY <1>3, <1>6, <1>7, <1>8

\* Which requests are accepted, and what is sent.
RequestDecided(args) ==
  LET sent == SendS3Request(args) IN
  sent.sent =>
    /\ sent.body.data = args.data
    /\ Verifies(args, sent) <=> /\ MethodGoesOut(args)
                                /\ args.key = "plain"
                                /\ Valued(args, SignedAsGiven)

(* A server accepts the signature of a request exactly when the method     *)
(* signed goes out, the key has nothing to escape and the signed headers   *)
(* have values: for any texts and any headers (SignHeaders, aws_sign.cpp,  *)
(* and SendS3Request, s3-client.cpp).                                      *)
THEOREM RequestsVerify ==
  ASSUME NEW Text, NEW Maps, NEW args \in Signable(Text, Maps),
         args.access # "", args.host # "", args.date # "",
         "Authorization" \notin DOMAIN args.headers
  PROVE  RequestDecided(args)
  <1> SUFFICES ASSUME SendS3Request(args).sent
               PROVE  /\ SendS3Request(args).body.data = args.data
                      /\ Verifies(args, SendS3Request(args)) <=>
                           /\ MethodGoesOut(args)
                           /\ args.key = "plain"
                           /\ Valued(args, {"x-amz-meta-a", "content-length"})
    BY DEF RequestDecided, SignedAsGiven
  <1>1. PICK r : r = SendS3Request(args)
    OBVIOUS
  <1>2. ~WrongMethod(args)
    BY DEF SendS3Request
  <1>3. /\ r.headers = WithValue(SignHeaders(args)) /\ r.key = args.key /\ r.query = args.params
        /\ r.method = MethodSent(ReadyToSend(args))
        /\ r.body = BodySent(ReadyToSend(args), Plain(args.data))
    BY <1>1, <1>2 DEF SendS3Request
  <1>4. /\ args.method \in Methods /\ args.data \in Data \cup {NoData}
        /\ args.dataIsFileName \in BOOLEAN /\ args.key \in {"plain", "special"}
        /\ [args EXCEPT !.method = Upper(@)].method = Upper(args.method)
        /\ [args EXCEPT !.method = Upper(@)].key = args.key
    BY DEF Signable
  <1>5. /\ MethodSent(ReadyToSend(args)) = Upper(args.method) <=> MethodGoesOut(args)
        /\ BodySent(ReadyToSend(args), Plain(args.data)).data = args.data
    BY <1>2, <1>4, MethodIsSent
  <1>6. Verifies(args, r) <=> /\ r.method = Upper(args.method)
                              /\ args.key = Escaped(args.key)
                              /\ Valued(args, {"x-amz-meta-a", "content-length"})
    BY <1>3, <1>4, SignatureMatches
  <1> QED BY <1>1, <1>3, <1>4, <1>5, <1>6, EscapedKey

\* What is accepted is what the caller asked for.
LEMMA RequestIsAccepted ==
  ASSUME NEW Text, NEW Maps, NEW args \in Signable(Text, Maps),
         args.access # "", args.host # "", args.date # "",
         "Authorization" \notin DOMAIN args.headers
  PROVE  RequestAccepted(args)
  <1> SUFFICES ASSUME SendS3Request(args).sent PROVE RequestAccepted(args)
    BY DEF RequestAccepted
  <1>1. PICK r : r = SendS3Request(args)
    OBVIOUS
  <1>2. /\ r.body.data = args.data
        /\ Verifies(args, r) <=> /\ MethodGoesOut(args) /\ args.key = "plain"
                                 /\ Valued(args, SignedAsGiven)
    BY <1>1, RequestsVerify DEF RequestDecided
  <1>3. ~WrongMethod(args)
    BY DEF SendS3Request
  <1>4. r.headers = WithValue(SignHeaders(args)) /\ r.method = MethodSent(ReadyToSend(args))
    BY <1>1, <1>3 DEF SendS3Request
  <1>5. MethodGoesOut(args) => r.method = Upper(args.method)
    <2>1. /\ args.method \in Methods /\ args.data \in Data \cup {NoData}
          /\ args.dataIsFileName \in BOOLEAN
      BY DEF Signable
    <2> QED BY <1>3, <1>4, <2>1, MethodIsSent
  <1>6. ASSUME Valued(args, SignedAsGiven), NEW h \in SignedAsGiven \cap DOMAIN args.headers
        PROVE  h \in DOMAIN r.headers /\ r.headers[h] = args.headers[h]
    <2>1. args.headers[h] # ""
      BY <1>6 DEF Valued
    <2>2. h \notin Always
      BY DEF SignedAsGiven, Always
    <2>3. PICK arrived, all : arrived = WithValue(SignHeaders(args)) /\ all = SignHeaders(args)
      OBVIOUS
    <2>4. /\ DOMAIN arrived = Always \cup {"Authorization"}
                            \cup {g \in DOMAIN args.headers : args.headers[g] # ""}
          /\ \A g \in DOMAIN arrived : arrived[g] = all[g]
      BY <2>3, WhatGoesOut
    <2>5. \A g \in DOMAIN args.headers \ Always : all[g] = args.headers[g]
      BY <2>3, WhatIsSent
    <2>6. h \in DOMAIN arrived /\ arrived[h] = args.headers[h]
      BY ONLY <2>1, <2>2, <2>4, <2>5, h \in SignedAsGiven \cap DOMAIN args.headers
    <2> QED BY <1>4, <2>3, <2>6
  <1> QED BY <1>1, <1>2, <1>5, <1>6 DEF RequestAccepted

\* What is signed of a URL.
UrlHeaders(args) == Insert(args.headers, Header("host", args.host))
UrlSigned(args)  == (DOMAIN args.headers \ AmzNames) \cup {"host"}
UrlQuery(args)   == [access |-> args.access, scope |-> <<args.date, args.region, "s3">>,
                     date |-> args.date, signed |-> UrlSigned(args), params |-> args.params]

LEMMA UrlIs ==
  ASSUME NEW args
  PROVE  SignedURL(args) =
           [key |-> args.key, query |-> UrlQuery(args),
            signature |-> Sign([args EXCEPT !.service = "s3"],
                               Canonical(args, UrlHeaders(args), UrlSigned(args), UrlQuery(args),
                                         "UNSIGNED-PAYLOAD"))]
  <1>1. DOMAIN Restrict(args.headers, DOMAIN args.headers \ AmzNames)
          = DOMAIN args.headers \ AmzNames
    BY DEF Restrict
  <1> QED BY <1>1 DEF SignedURL, UrlQuery, UrlSigned, UrlHeaders

\* The headers that were signed are those that arrive.
LEMMA UrlHeadersArrive ==
  ASSUME NEW args, args.host # "", NEW arrived,
         "Authorization" \notin DOMAIN args.headers,
         arrived = Insert(WithValue(args.headers), Header("host", args.host))
  PROVE  /\ UrlSigned(args) \subseteq DOMAIN arrived
         /\ UrlHeaders(args) = Restrict(arrived, UrlSigned(args))
         <=> /\ DOMAIN args.headers \cap AmzNames = {}
             /\ Valued(args, DOMAIN args.headers)
  <1>1. /\ DOMAIN UrlHeaders(args) = DOMAIN args.headers \cup {"host"}
        /\ \A h \in DOMAIN args.headers : UrlHeaders(args)[h] = args.headers[h]
        /\ "host" \notin DOMAIN args.headers => UrlHeaders(args)["host"] = args.host
    BY DEF UrlHeaders, Insert, Header
  <1>2. /\ DOMAIN WithValue(args.headers) = {h \in DOMAIN args.headers : args.headers[h] # ""}
        /\ \A h \in DOMAIN WithValue(args.headers) : WithValue(args.headers)[h] = args.headers[h]
    BY DEF WithValue, Restrict
  <1>3. /\ DOMAIN arrived = {h \in DOMAIN args.headers : args.headers[h] # ""} \cup {"host"}
        /\ \A h \in DOMAIN args.headers : args.headers[h] # "" => arrived[h] = args.headers[h]
        /\ "host" \notin DOMAIN args.headers \/ args.headers["host"] = ""
             => arrived["host"] = args.host
    BY <1>2 DEF Insert, Header
  <1>4. /\ DOMAIN Restrict(arrived, UrlSigned(args)) = UrlSigned(args)
        /\ \A h \in UrlSigned(args) : Restrict(arrived, UrlSigned(args))[h] = arrived[h]
    BY DEF Restrict
  <1>5. ASSUME DOMAIN args.headers \cap AmzNames = {}, Valued(args, DOMAIN args.headers)
        PROVE  /\ UrlSigned(args) \subseteq DOMAIN arrived
               /\ UrlHeaders(args) = Restrict(arrived, UrlSigned(args))
    <2>1. UrlSigned(args) = DOMAIN args.headers \cup {"host"}
      BY <1>5 DEF UrlSigned
    <2>2. \A h \in DOMAIN args.headers : args.headers[h] # ""
      BY <1>5 DEF Valued
    <2>3. \A h \in UrlSigned(args) : UrlHeaders(args)[h] = arrived[h]
      BY <1>1, <1>3, <2>1, <2>2
    <2>4. UrlHeaders(args) = [h \in UrlSigned(args) |-> UrlHeaders(args)[h]]
      BY <1>1, <2>1 DEF UrlHeaders, Insert
    <2> QED BY <1>3, <2>1, <2>2, <2>3, <2>4 DEF Restrict
  <1>6. ASSUME UrlSigned(args) \subseteq DOMAIN arrived,
               UrlHeaders(args) = Restrict(arrived, UrlSigned(args))
        PROVE  DOMAIN args.headers \cap AmzNames = {} /\ Valued(args, DOMAIN args.headers)
    <2>1. UrlSigned(args) = DOMAIN args.headers \cup {"host"}
      BY <1>1, <1>4, <1>6
    <2>2. "host" \notin AmzNames
      BY DEF AmzNames
    <2>3. DOMAIN args.headers \cap AmzNames = {}
      <3> SUFFICES ASSUME NEW h \in DOMAIN args.headers, h \in AmzNames PROVE FALSE
        OBVIOUS
      <3>1. h \in UrlSigned(args)
        BY <2>1
      <3> QED BY <2>2, <3>1 DEF UrlSigned
    <2>4. ASSUME NEW h \in DOMAIN args.headers, args.headers[h] = "" PROVE FALSE
      <3>1. h = "host"
        BY <1>3, <1>6, <2>1, <2>4
      <3>2. UrlHeaders(args)["host"] = "" /\ arrived["host"] = args.host
        BY <1>1, <1>3, <2>4, <3>1
      <3>3. UrlHeaders(args)["host"] = arrived["host"]
        BY <1>4, <1>6, <2>1
      <3> QED BY <3>2, <3>3
    <2> QED BY <2>3, <2>4 DEF Valued
  <1> QED BY <1>5, <1>6

\* Which URLs are accepted.
UrlDecided(args) ==
  UrlVerifies(args, SignedURL(args)) <=>
    /\ args.method = Upper(args.method)
    /\ args.key = "plain"
    /\ DOMAIN args.headers \cap AmzNames = {}
    /\ Valued(args, DOMAIN args.headers)

(* The same of URLs (SignedURL, aws_sign.cpp): exactly those for a method  *)
(* in upper case, a key with nothing to escape and headers with values of  *)
(* which none is x-amz-.                                                   *)
THEOREM UrlsVerify ==
  ASSUME NEW Text, NEW Maps, NEW args \in Signable(Text, Maps), args.host # "",
         "Authorization" \notin DOMAIN args.headers
  PROVE  UrlDecided(args)
  <1>1. PICK S, h, q, p, arrived, cfg :
          /\ S = UrlSigned(args) /\ h = UrlHeaders(args) /\ q = UrlQuery(args)
          /\ p = "UNSIGNED-PAYLOAD" /\ cfg = [args EXCEPT !.service = "s3"]
          /\ arrived = Insert(WithValue(args.headers), Header("host", args.host))
    OBVIOUS
  <1>2. PICK url, again, server :
          /\ url = SignedURL(args)
          /\ again = [method |-> Upper(args.method), key |-> Escaped(args.key)]
          /\ server = [secret |-> args.secret, date |-> q.date, region |-> q.scope[2],
                       service |-> q.scope[3]]
    OBVIOUS
  <1>3. /\ url.key = args.key /\ url.query = q
        /\ url.signature = Sign(cfg, Canonical(args, h, S, q, p))
    BY <1>1, <1>2, UrlIs
  <1>4. q.date = args.date /\ q.scope[2] = args.region /\ q.scope[3] = "s3" /\ q.signed = S
    BY <1>1 DEF UrlQuery
  <1>5. /\ cfg.secret = args.secret /\ cfg.date = args.date /\ cfg.region = args.region
        /\ cfg.service = "s3"
    BY <1>1 DEF Signable
  <1>6. /\ server.secret = cfg.secret /\ server.date = cfg.date
        /\ server.region = cfg.region /\ server.service = cfg.service
    BY <1>2, <1>4, <1>5
  <1>7. UrlVerifies(args, url) <=>
          /\ S \subseteq DOMAIN arrived
          /\ Sign(cfg, Canonical(args, h, S, q, p))
               = Sign(server, Canonical(again, Restrict(arrived, S), S, q, p))
    BY <1>1, <1>2, <1>3, <1>4 DEF UrlVerifies
  <1>8. ASSUME NEW first, NEW second
        PROVE  Sign(cfg, first) = Sign(server, second) <=> first = second
    <2>1. Sign(cfg, first) = Sign(cfg, second) <=> first = second
      BY SignTellsTexts
    <2>2. Sign(server, second) = Sign(cfg, second)
      BY <1>6 DEF Sign
    <2> QED BY <2>1, <2>2
  <1>9. Canonical(args, h, S, q, p) = Canonical(again, Restrict(arrived, S), S, q, p)
          <=> /\ args.method = Upper(args.method) /\ args.key = Escaped(args.key)
              /\ h = Restrict(arrived, S)
    <2>1. again.method = Upper(args.method) /\ again.key = Escaped(args.key)
      BY <1>2
    <2> QED BY <2>1 DEF Canonical
  <1>10. args.key = Escaped(args.key) <=> args.key = "plain"
    <2>1. args.key \in {"plain", "special"}
      BY DEF Signable
    <2> QED BY <2>1, EscapedKey
  <1>11. S \subseteq DOMAIN arrived /\ h = Restrict(arrived, S)
           <=> DOMAIN args.headers \cap AmzNames = {} /\ Valued(args, DOMAIN args.headers)
    BY <1>1, UrlHeadersArrive
  <1>12. UrlVerifies(args, url) <=>
           /\ S \subseteq DOMAIN arrived
           /\ Canonical(args, h, S, q, p) = Canonical(again, Restrict(arrived, S), S, q, p)
    BY ONLY <1>7, <1>8
  <1>13. UrlVerifies(args, url) <=>
           /\ args.method = Upper(args.method) /\ args.key = "plain"
           /\ DOMAIN args.headers \cap AmzNames = {} /\ Valued(args, DOMAIN args.headers)
    BY ONLY <1>9, <1>10, <1>11, <1>12
  <1> QED BY <1>2, <1>13 DEF UrlDecided

\* A URL that is accepted was signed for the method it comes with.
LEMMA UrlMethodSigned ==
  ASSUME NEW args, NEW m \in Methods, NEW other, other = [args EXCEPT !.method = m],
         other.method = m, UrlVerifies(other, SignedURL(args))
  PROVE  args.method = Upper(m)
  <1>1. PICK h, q, p, cfg, url, server, again, arrived :
          /\ h = UrlHeaders(args) /\ q = UrlQuery(args) /\ p = "UNSIGNED-PAYLOAD"
          /\ cfg = [args EXCEPT !.service = "s3"] /\ url = SignedURL(args)
          /\ again = [method |-> Upper(m), key |-> Escaped(url.key)]
          /\ server = [secret |-> other.secret, date |-> q.date, region |-> q.scope[2],
                       service |-> q.scope[3]]
          /\ arrived = Insert(WithValue(other.headers), Header("host", other.host))
    OBVIOUS
  <1>2. /\ url.query = q
        /\ url.signature = Sign(cfg, Canonical(args, h, UrlSigned(args), q, p))
    BY <1>1, UrlIs
  <1>3. url.signature = Sign(server, Canonical(again, Restrict(arrived, q.signed), q.signed, q, p))
    BY <1>1, <1>2 DEF UrlVerifies
  <1>4. Canonical(args, h, UrlSigned(args), q, p)
          = Canonical(again, Restrict(arrived, q.signed), q.signed, q, p)
    <2>1. ASSUME NEW first, NEW second, Sign(cfg, first) = Sign(server, second)
          PROVE  first = second
      BY <2>1, SignedTextsEqual
    <2> QED BY <1>2, <1>3, <2>1
  <1> QED BY <1>1, <1>4 DEF Canonical

LEMMA UrlIsAccepted ==
  ASSUME NEW Text, NEW Maps, NEW args \in Signable(Text, Maps), args.host # "",
         "Authorization" \notin DOMAIN args.headers
  PROVE  UrlAccepted(args)
  <1>1. ASSUME NEW m \in Methods, UrlVerifies([args EXCEPT !.method = m], SignedURL(args))
        PROVE  Upper(m) = Upper(args.method)
    <2>1. PICK other : other = [args EXCEPT !.method = m]
      OBVIOUS
    <2>2. other.method = m
      BY <2>1 DEF Signable
    <2>3. args.method = Upper(m)
      BY <1>1, <2>1, <2>2, UrlMethodSigned
    <2>4. Upper(Upper(m)) = Upper(m)
      BY DEF Methods, Upper
    <2> QED BY <2>3, <2>4
  <1>2. UrlDecided(args)
    BY UrlsVerify
  <1> QED BY <1>1, <1>2 DEF UrlAccepted, UrlDecided

-----------------------------------------------------------------------------
(* Recursive functions of the readers of settings.  There is one for every *)
(* number of steps, by induction upwards.                                  *)

\* A set of numbers has a least one.
LEMMA LowestOf ==
  ASSUME NEW S, S \subseteq Nat, S # {}
  PROVE  \E m \in S : \A n \in S : m <= n
  <1>1. \E m \in S : \A n \in S : ~(<<n, m>> \in OpToRel(<, Nat))
    BY NatLessThanWellFounded, WFMin
  <1>2. PICK m \in S : \A n \in S : ~(<<n, m>> \in OpToRel(<, Nat))
    BY <1>1
  <1>3. \A n \in S : ~(n < m)
    BY <1>2 DEF OpToRel
  <1> QED BY <1>3

\* Induction over the members of a set.
LEMMA Upwards ==
  ASSUME NEW top \in Nat, NEW P, 0 \in P, \A n \in 0 .. top - 1 : n \in P => n + 1 \in P
  PROVE  \A n \in 0 .. top : n \in P
  <1> DEFINE S == {n \in 0 .. top : n \notin P}
  <1> SUFFICES ASSUME S # {} PROVE FALSE
    OBVIOUS
  <1>1. PICK m \in S : \A n \in S : m <= n
    <2>1. S \subseteq Nat
      OBVIOUS
    <2> HIDE DEF S
    <2> QED BY <2>1, LowestOf
  <1>2. m # 0 /\ m \in 0 .. top
    OBVIOUS
  <1>3. m - 1 \in 0 .. top - 1 /\ m - 1 \notin S
    BY <1>1, <1>2
  <1>4. m \in P
    BY <1>2, <1>3
  <1> QED BY <1>4

\* What is known after every line, line by line.
LEMMA LinesReadAre ==
  ASSUME NEW lines, Len(lines) \in Nat
  PROVE  LET After == Set!LinesRead(lines)
         IN /\ After[0] = Set!Parsing
            /\ \A n \in 1 .. Len(lines) : After[n] = Set!AtLine(After[n - 1], lines[n])
  <1> DEFINE Is(f, m) == f = [n \in 0 .. m |-> IF n = 0 THEN Set!Parsing
                                               ELSE Set!AtLine(f[n - 1], lines[n])]
             P == {m \in Nat : \E f : Is(f, m)}
  <1>0. \A m \in Nat : m \in P <=> \E f : Is(f, m)
    OBVIOUS
  <1> HIDE DEF P
  <1>1. 0 \in P
    <2>1. Is([n \in 0 .. 0 |-> Set!Parsing], 0)
      OBVIOUS
    <2>2. \E f : Is(f, 0)
      BY <2>1
    <2> QED BY <1>0, <2>2
  <1>2. ASSUME NEW m \in Nat, m \in P PROVE m + 1 \in P
    <2>1. PICK f : Is(f, m)
      BY <1>0, <1>2
    <2> DEFINE g == [n \in 0 .. m + 1 |-> IF n <= m THEN f[n] ELSE Set!AtLine(f[m], lines[n])]
    <2>2. Is(g, m + 1)
      <3>1. \A n \in 0 .. m : g[n] = f[n]
        OBVIOUS
      <3>2. ASSUME NEW n \in 0 .. m + 1
            PROVE  g[n] = IF n = 0 THEN Set!Parsing ELSE Set!AtLine(g[n - 1], lines[n])
        <4>1. CASE n = 0
          BY <2>1, <3>1, <4>1
        <4>2. CASE n \in 1 .. m
          <5>1. g[n] = f[n] /\ g[n - 1] = f[n - 1]
            BY <3>1, <4>2
          <5> QED BY <2>1, <4>2, <5>1
        <4>3. CASE n = m + 1
          BY <3>1, <4>3
        <4> QED BY <4>1, <4>2, <4>3
      <3> HIDE DEF g
      <3>3. g = [n \in 0 .. m + 1 |-> g[n]]
        BY DEF g
      <3> QED BY <3>2, <3>3
    <2> HIDE DEF g, Is
    <2>3. \E h : Is(h, m + 1)
      BY <2>2
    <2> QED BY <1>0, <2>3
  <1>3. \A n \in 0 .. Len(lines) : n \in P
    <2>1. \A n \in 0 .. Len(lines) - 1 : n \in P => n + 1 \in P
      BY <1>2
    <2> QED BY <1>1, <2>1, Upwards
  <1>4. \E f : Is(f, Len(lines))
    BY <1>0, <1>3
  <1>5. Is(Set!LinesRead(lines), Len(lines))
    BY <1>4 DEF Set!LinesRead
  <1> QED BY <1>5

-----------------------------------------------------------------------------
(* The file of credentials.                                                *)

\* The number that is at most, at least, all the others.
LEMMA MinIs ==
  ASSUME NEW S, NEW m \in S, S \subseteq Nat, \A n \in S : m <= n
  PROVE  Xml!Min(S) = m /\ Set!Min(S) = m
  <1>1. \E x \in S : \A y \in S : x <= y
    OBVIOUS
  <1>2. Xml!Min(S) \in S /\ \A y \in S : Xml!Min(S) <= y
    BY <1>1, Zenon DEF Xml!Min
  <1>3. Set!Min(S) \in S /\ \A y \in S : Set!Min(S) <= y
    BY <1>1, Zenon DEF Set!Min
  <1>4. PICK x \in S, y \in S : x = Xml!Min(S) /\ y = Set!Min(S)
    BY <1>2, <1>3
  <1>5. x <= m /\ m <= x /\ y <= m /\ m <= y
    BY <1>2, <1>3, <1>4
  <1> QED BY <1>4, <1>5

LEMMA MaxIs ==
  ASSUME NEW S, NEW m \in S, S \subseteq Nat, \A n \in S : n <= m
  PROVE  Xml!Max(S) = m
  <1>1. \E x \in S : \A y \in S : x >= y
    OBVIOUS
  <1>2. Xml!Max(S) \in S /\ \A y \in S : Xml!Max(S) >= y
    BY <1>1, Zenon DEF Xml!Max
  <1>3. PICK x \in S : x = Xml!Max(S)
    BY <1>2
  <1>4. x >= m /\ x <= m
    BY <1>2, <1>3
  <1> QED BY <1>3, <1>4

LEMMA Trimmed ==
  ASSUME NEW n \in Nat
  PROVE  /\ Set!TrimLine(<<>>) = <<>>
         /\ Set!TrimLine(<<Word(n)>>) = <<Word(n)>>
  <1>1. Word(n) # Set!Mark
    BY DEF Word, Set!Mark
  <1>2. Set!TrimLine(<<>>) = <<>>
    BY DEF Set!TrimLine
  <1>3. Set!TrimLine(<<Word(n)>>) = <<Word(n)>>
    <2> DEFINE w == <<Word(n)>>
    <2>1. {k \in DOMAIN w : w[k] = Set!Mark} = {}
      BY <1>1
    <2> QED BY <2>1 DEF Set!TrimLine
  <1> QED BY <1>2, <1>3

LEMMA RemarkTrimmed ==
  ASSUME NEW n \in Nat
  PROVE  Set!TrimLine(<<Word(n), Set!Mark, <<"remark">>>>) = <<Word(n)>>
  <1>1. Word(n) # Set!Mark
    BY DEF Word, Set!Mark
  <1>2. PICK w : w = <<Word(n), Set!Mark, <<"remark">>>>
    OBVIOUS
  <1> DEFINE T == {Word(n), Set!Mark, <<"remark">>}
             S == {k \in DOMAIN w : w[k] = Set!Mark}
  <1>3. w \in Seq(T) /\ Len(w) = 3 /\ w[1] = Word(n) /\ w[2] = Set!Mark
    BY <1>2
  <1>4. 2 \in S /\ S \subseteq Nat /\ \A k \in S : 2 <= k
    BY <1>1, <1>3
  <1>5. Set!Min(S) = 2
    <2> HIDE DEF S
    <2> QED BY <1>4, MinIs
  <1>6. S # {}
    BY <1>4
  <1>7. Set!TrimLine(w) = SubSeq(w, 1, Set!Min(S) - 1)
    BY <1>6, Zenon DEF Set!TrimLine
  <1>8. SubSeq(w, 1, 1) = <<Word(n)>>
    <2> HIDE DEF T
    <2>0. \A k \in 1 .. 1 : w[k] \in T
      BY <1>3
    <2>1. SubSeq(w, 1, 1) \in Seq(T) /\ Len(SubSeq(w, 1, 1)) = 1
          /\ \A k \in 1 .. 1 : SubSeq(w, 1, 1)[k] = w[1 + k - 1]
      BY <2>0, SubSeqProperties
    <2>3. SubSeq(w, 1, 1)[1] = Word(n)
      BY <1>3, <2>1
    <2>2. <<Word(n)>> \in Seq(T)
      BY DEF T
    <2>4. Len(<<Word(n)>>) = 1 /\ <<Word(n)>>[1] = Word(n)
      OBVIOUS
    <2>5. \A k \in 1 .. 1 : SubSeq(w, 1, 1)[k] = <<Word(n)>>[k]
      BY <2>3, <2>4
    <2> QED BY <2>1, <2>2, <2>4, <2>5, SeqEqual
  <1>9. Set!Min(S) - 1 = 1
    BY <1>5
  <1>10. Set!TrimLine(w) = <<Word(n)>>
    BY <1>7, <1>8, <1>9
  <1> HIDE DEF S, T
  <1> QED BY <1>2, <1>10, Zenon

\* What a sampled line is.
LEMMA LineIs ==
  ASSUME NEW kind \in LineKinds, NEW n \in Nat, NEW l, l = Line(kind, n)
  PROVE  /\ l.kind \in {"section", "pair", "text", "blank"}
         /\ l.kind = "section" <=> l.name \in {"default", "a"}
         /\ l.kind = "pair" => l.name \in {Access, Secret}
         /\ l.kind = "pair" => Set!TrimLine(l.words) \in {<<>>, <<Word(n)>>}
         /\ l.kind = "pair" /\ l.words # <<>> => Set!TrimLine(l.words) = <<Word(n)>>
         /\ l.kind = "text" => Set!TrimLine(l.words) = <<Word(n)>>
  <1>0. Set!NoName \notin {"default", "a"}
    BY Zenon DEF Set!NoName
  <1> USE DEF Access, Secret
  <1>1. CASE kind = "[default]"
    <2>1. l = Set!Section("default")
      BY <1>1 DEF Line
    <2>2. l.kind = "section" /\ l.name = "default" /\ l.words = <<>>
      BY <2>1 DEF Set!Section
    <2> QED BY <2>2, Trimmed
  <1>2. CASE kind = "[a]"
    <2>1. l = Set!Section("a")
      BY <1>2 DEF Line
    <2>2. l.kind = "section" /\ l.name = "a" /\ l.words = <<>>
      BY <2>1 DEF Set!Section
    <2> QED BY <2>2, Trimmed
  <1>3. CASE kind = "access"
    <2>1. l = Set!Pair(Access, <<Word(n)>>)
      BY <1>3 DEF Line
    <2>2. l.kind = "pair" /\ l.name = Access /\ l.words = <<Word(n)>>
      BY <2>1 DEF Set!Pair
    <2> QED BY <2>2, Trimmed
  <1>4. CASE kind = "access, no value"
    <2>1. l = Set!Pair(Access, <<>>)
      BY <1>4 DEF Line
    <2>2. l.kind = "pair" /\ l.name = Access /\ l.words = <<>>
      BY <2>1 DEF Set!Pair
    <2> QED BY <2>2, Trimmed
  <1>5. CASE kind = "access # comment"
    <2>1. l = Set!Pair(Access, <<Word(n), Set!Mark, <<"remark">>>>)
      BY <1>5 DEF Line
    <2>2. l.kind = "pair" /\ l.name = Access /\ l.words = <<Word(n), Set!Mark, <<"remark">>>>
      BY <2>1 DEF Set!Pair
    <2>3. Set!TrimLine(l.words) = <<Word(n)>>
      BY <2>2, RemarkTrimmed, Zenon
    <2> QED BY <2>2, <2>3
  <1>6. CASE kind = "secret"
    <2>1. l = Set!Pair(Secret, <<Word(n)>>)
      BY <1>6 DEF Line
    <2>2. l.kind = "pair" /\ l.name = Secret /\ l.words = <<Word(n)>>
      BY <2>1 DEF Set!Pair
    <2> QED BY <2>2, Trimmed
  <1>7. CASE kind = "text"
    <2>1. l = Set!Text(<<Word(n)>>)
      BY <1>7 DEF Line
    <2>2. l.kind = "text" /\ l.name = Set!NoName /\ l.words = <<Word(n)>>
      BY <2>1 DEF Set!Text
    <2>3. Set!TrimLine(l.words) = <<Word(n)>>
      BY <2>2, Trimmed, Zenon
    <2> QED BY <1>0, <2>2, <2>3
  <1>8. CASE kind = "blank"
    <2>1. l = Set!Blank
      BY <1>8 DEF Line
    <2>2. l.kind = "blank" /\ l.name = Set!NoName /\ l.words = <<>>
      BY <2>1 DEF Set!Blank
    <2>3. Set!TrimLine(l.words) = <<>>
      BY <2>2, Trimmed, Zenon
    <2> QED BY <1>0, <2>2, <2>3
  <1> QED BY <1>1, <1>2, <1>3, <1>4, <1>5, <1>6, <1>7, <1>8 DEF LineKinds

\* Lines that are as sampled ones.
Sampled(lines, top) ==
  /\ top \in Nat /\ Len(lines) = top /\ DOMAIN lines = 1 .. top
  /\ \A n \in 1 .. top :
       /\ lines[n].kind \in {"section", "pair", "text", "blank"}
       /\ lines[n].kind = "section" <=> lines[n].name \in {"default", "a"}
       /\ lines[n].kind = "pair" => lines[n].name \in {Access, Secret}
       /\ lines[n].kind = "pair" => Set!TrimLine(lines[n].words) \in {<<>>, <<Word(n)>>}
       /\ lines[n].kind = "pair" /\ lines[n].words # <<>>
            => Set!TrimLine(lines[n].words) = <<Word(n)>>
       /\ lines[n].kind = "text" => Set!TrimLine(lines[n].words) = <<Word(n)>>

\* The lines of a sampled file.
LEMMA LinesAreSampled ==
  ASSUME NEW kinds \in Seq(LineKinds)
  PROVE  Sampled(Lines(kinds), Len(kinds))
  <1>1. Len(kinds) \in Nat /\ DOMAIN kinds = 1 .. Len(kinds)
    OBVIOUS
  <1>2. PICK lines : lines = Lines(kinds)
    OBVIOUS
  <1>3. DOMAIN lines = 1 .. Len(kinds) /\ \A n \in 1 .. Len(kinds) : lines[n] = Line(kinds[n], n)
    BY <1>1, <1>2 DEF Lines
  <1>4. Len(lines) = Len(kinds)
    <2>1. lines = [n \in 1 .. Len(kinds) |-> Line(kinds[n], n)]
      BY <1>1, <1>2 DEF Lines
    <2>2. lines \in Seq({lines[n] : n \in 1 .. Len(kinds)})
      BY <1>1, <2>1
    <2> QED BY <1>1, <1>3, <2>2
  <1>5. ASSUME NEW n \in 1 .. Len(kinds)
        PROVE  kinds[n] \in LineKinds /\ lines[n] = Line(kinds[n], n)
    BY <1>3
  <1> QED BY <1>1, <1>2, <1>3, <1>4, <1>5, LineIs DEF Sampled

\* The section of a line is that of the last header before it.
LEMMA SectionIs ==
  ASSUME NEW lines, NEW top \in Nat, DOMAIN lines = 1 .. top,
         NEW h \in 1 .. top, lines[h].kind = "section",
         NEW n \in 1 .. top
  PROVE  /\ h <= n /\ (\A k \in h + 1 .. n : lines[k].kind # "section")
              => SectionOf(lines, n) = lines[h].name
         /\ n < h /\ (\A k \in 1 .. h - 1 : lines[k].kind # "section")
              => SectionOf(lines, n) = lines[h].name
  <1> DEFINE heads  == {k \in DOMAIN lines : lines[k].kind = "section"}
             before == {k \in heads : k <= n}
  <1>0. h \in heads /\ heads \subseteq Nat /\ heads \subseteq 1 .. top
    OBVIOUS
  <1>1. ASSUME h <= n, \A k \in h + 1 .. n : lines[k].kind # "section"
        PROVE  SectionOf(lines, n) = lines[h].name
    <2>1. h \in before /\ before \subseteq Nat /\ \A k \in before : k <= h
      BY <1>1
    <2>2. Xml!Max(before) = h
      <3> HIDE DEF before
      <3> QED BY <2>1, MaxIs
    <2> QED BY <1>0, <2>1, <2>2 DEF SectionOf
  <1>2. ASSUME n < h, \A k \in 1 .. h - 1 : lines[k].kind # "section"
        PROVE  SectionOf(lines, n) = lines[h].name
    <2>1. before = {} /\ \A k \in heads : h <= k
      BY <1>2
    <2>2. Xml!Min(heads) = h
      <3> HIDE DEF heads
      <3> QED BY <1>0, <2>1, MinIs
    <2> QED BY <1>0, <2>1, <2>2 DEF SectionOf
  <1> QED BY <1>1, <1>2

\* The names in such a file are different ones.
LEMMA NamesDiffer ==
  /\ Set!NoName \notin {"default", "a", Access, Secret}
  /\ Access # Secret /\ Access \notin {"default", "a"} /\ Secret \notin {"default", "a"}
  BY Zenon DEF Set!NoName, Access, Secret

\* The values of a map are made of certain words.
MadeOf(map, W) == \A path \in DOMAIN map : map[path] \in Seq(W)

\* What the operations on maps do.
LEMMA MapsAre ==
  ASSUME NEW map, NEW key, NEW value
  PROVE  /\ DOMAIN Set!NoMap = {}
         /\ DOMAIN Set!Put(map, key, value) = DOMAIN map \cup {key}
         /\ DOMAIN Set!Insert(map, key, value) = DOMAIN map \cup {key}
         /\ Set!Put(map, key, value)[key] = value
         /\ \A k \in DOMAIN map : k # key => Set!Put(map, key, value)[k] = map[k]
         /\ \A k \in DOMAIN map : Set!Insert(map, key, value)[k] = map[k]
         /\ key \notin DOMAIN map => Set!Insert(map, key, value)[key] = value
         /\ key \in DOMAIN map => Set!At(map, key) = map[key]
         /\ key \notin DOMAIN map => Set!At(map, key) = <<>>
         /\ key \in DOMAIN map => Set!Insert(map, key, value) = map
  BY DEF Set!NoMap, Set!Put, Set!Insert, Set!At

\* Maps made of certain words stay so.
LEMMA MadeOfWords ==
  ASSUME NEW W, NEW map, MadeOf(map, W), NEW key
  PROVE  /\ MadeOf(Set!NoMap, W)
         /\ \A value \in Seq(W) : MadeOf(Set!Put(map, key, value), W)
         /\ \A value \in Seq(W) : MadeOf(Set!Insert(map, key, value), W)
         /\ Set!At(map, key) \in Seq(W)
  <1>0. <<>> \in Seq(W)
    OBVIOUS
  <1>1. MadeOf(Set!NoMap, W)
    BY DEF MadeOf, Set!NoMap
  <1>2. ASSUME NEW value \in Seq(W)
        PROVE  MadeOf(Set!Put(map, key, value), W) /\ MadeOf(Set!Insert(map, key, value), W)
    <2>1. MadeOf(Set!Put(map, key, value), W)
      BY DEF MadeOf, Set!Put
    <2> QED BY <2>1 DEF Set!Insert
  <1>3. Set!At(map, key) \in Seq(W)
    BY <1>0 DEF MadeOf, Set!At
  <1> QED BY <1>1, <1>2, <1>3

\* They are made of all others, too.
LEMMA MadeOfMore ==
  ASSUME NEW W, NEW V, W \subseteq V, NEW map, MadeOf(map, W)
  PROVE  MadeOf(map, V)
  BY SeqMonotonic DEF MadeOf

IsParsing(p) ==
  /\ p = [toml |-> p.toml, section |-> p.section, data |-> p.data, last |-> p.last, ok |-> p.ok]
  /\ p.ok \in BOOLEAN

\* What a line does.
LineDone(p, line, q) ==
  /\ IsParsing(q)
  /\ ~p.ok => ~q.ok
  /\ q.ok /\ line.kind = "section" =>
       /\ q.section = line.name
       /\ p.section = Set!NoName => q.toml = p.toml /\ q.data = p.data /\ q.last = p.last
       /\ p.section # Set!NoName =>
            /\ q.toml = Set!Put(p.toml, p.section, p.data)
            /\ q.data = Set!NoMap /\ q.last = Set!NoName
  /\ q.ok /\ line.kind = "pair" =>
       LET bare == p.last # Set!NoName /\ Set!At(p.data, <<p.last>>) = <<>>
           data == IF p.last = Set!NoName THEN p.data
                   ELSE Set!Insert(p.data, <<p.last>>, <<>>)
           key  == IF bare THEN <<p.last, line.name>> ELSE <<line.name>>
       IN /\ q.toml = p.toml /\ q.section = p.section /\ q.last = line.name
          /\ q.data = Set!Put(data, key, Set!TrimLine(line.words))
  /\ q.ok /\ line.kind = "text" =>
       /\ q.toml = p.toml /\ q.section = p.section /\ q.last = p.last
       /\ q.data = Set!Put(p.data, <<p.last>>,
                     Set!At(p.data, <<p.last>>) \o Set!TrimLine(line.words))
  /\ q.ok /\ line.kind = "blank" => q = p
  /\ p.ok /\ line.kind # "text" => q.ok

\* What a line does to what is known.
LEMMA AtLineIs ==
  ASSUME NEW p, IsParsing(p), NEW line, line.kind \in {"section", "pair", "text", "blank"},
         NEW q, q = Set!AtLine(p, line)
  PROVE  LineDone(p, line, q)
  <1> USE DEF LineDone
  <1>1. CASE ~p.ok
    <2>1. q = p
      BY <1>1 DEF Set!AtLine
    <2> QED BY <1>1, <2>1
  <1>2. CASE p.ok /\ line.kind = "section"
    <2>1. q = Set!AtSection(p, line)
      BY <1>2 DEF Set!AtLine
    <2>2. CASE p.section = Set!NoName
      <3>1. q = [p EXCEPT !.section = line.name]
        BY <2>1, <2>2 DEF Set!AtSection
      <3>2. q = [toml |-> p.toml, section |-> line.name, data |-> p.data,
                 last |-> p.last, ok |-> p.ok]
        BY <3>1 DEF IsParsing
      <3> QED BY <1>2, <2>2, <3>2 DEF IsParsing
    <2>3. CASE p.section # Set!NoName
      <3>1. q = [p EXCEPT !.toml = Set!Put(@, p.section, p.data), !.data = Set!NoMap,
                          !.last = Set!NoName, !.section = line.name]
        BY <2>1, <2>3 DEF Set!AtSection
      <3>2. q = [toml |-> Set!Put(p.toml, p.section, p.data), section |-> line.name,
                 data |-> Set!NoMap, last |-> Set!NoName, ok |-> p.ok]
        BY <3>1 DEF IsParsing
      <3> QED BY <1>2, <2>3, <3>2 DEF IsParsing
    <2> QED BY <2>2, <2>3
  <1>3. CASE p.ok /\ line.kind = "pair"
    <2> DEFINE bare == p.last # Set!NoName /\ Set!At(p.data, <<p.last>>) = <<>>
               data == IF p.last = Set!NoName THEN p.data
                       ELSE Set!Insert(p.data, <<p.last>>, <<>>)
               key  == IF bare THEN <<p.last, line.name>> ELSE <<line.name>>
               value == Set!TrimLine(line.words)
    <2>1. q = Set!AtPair(p, line)
      BY <1>3 DEF Set!AtLine
    <2>2. q = [p EXCEPT !.data = Set!Put(data, key, value), !.last = line.name]
      BY <2>1 DEF Set!AtPair
    <2> HIDE DEF data, key, value
    <2>3. q = [toml |-> p.toml, section |-> p.section, data |-> Set!Put(data, key, value),
               last |-> line.name, ok |-> p.ok]
      BY <2>2 DEF IsParsing
    <2>4. /\ IsParsing(q) /\ q.ok
          /\ q.toml = p.toml /\ q.section = p.section /\ q.last = line.name
          /\ q.data = Set!Put(data, key, value)
      BY <1>3, <2>3 DEF IsParsing
    <2> QED BY <1>3, <2>4 DEF data, key, value
  <1>4. CASE p.ok /\ line.kind = "text"
    <2>1. q = Set!AtText(p, line)
      BY <1>4 DEF Set!AtLine
    <2>2. CASE p.last = Set!NoName
      <3>1. q = [toml |-> p.toml, section |-> p.section, data |-> p.data,
                 last |-> p.last, ok |-> FALSE]
        BY <2>1, <2>2 DEF Set!AtText, IsParsing
      <3> QED BY <1>4, <3>1 DEF IsParsing
    <2>3. CASE p.last # Set!NoName
      <3> DEFINE value == Set!At(p.data, <<p.last>>) \o Set!TrimLine(line.words)
      <3>1. q = [p EXCEPT !.data = Set!Put(p.data, <<p.last>>, value)]
        BY <2>1, <2>3 DEF Set!AtText, IsParsing
      <3> HIDE DEF value
      <3>2. q = [toml |-> p.toml, section |-> p.section,
                 data |-> Set!Put(p.data, <<p.last>>, value),
                 last |-> p.last, ok |-> p.ok]
        BY <3>1 DEF IsParsing
      <3>3. /\ IsParsing(q) /\ q.toml = p.toml /\ q.section = p.section /\ q.last = p.last
            /\ q.data = Set!Put(p.data, <<p.last>>, value)
        BY <3>2 DEF IsParsing
      <3> QED BY <1>4, <3>3 DEF value
    <2> QED BY <2>2, <2>3
  <1>5. CASE p.ok /\ line.kind = "blank"
    <2>1. q = p
      BY <1>5 DEF Set!AtLine
    <2> QED BY <1>5, <2>1
  <1> QED BY <1>1, <1>2, <1>3, <1>4, <1>5 DEF IsParsing

\* The words of the lines up to n that belong to a section, to any if it has
\* no name.
WordsIn(lines, s, n) == {Word(m) : m \in {j \in 1 .. n : s # Set!NoName => SectionOf(lines, j) = s}}

\* s is the name of the last header up to n, if there is one.
Current(lines, s, n) ==
  \/ s = Set!NoName /\ \A k \in 1 .. n : lines[k].kind # "section"
  \/ \E h \in 1 .. n : /\ lines[h].kind = "section" /\ s = lines[h].name
                       /\ \A k \in h + 1 .. n : lines[k].kind # "section"

FileInv(lines, p, n) ==
  /\ IsParsing(p)
  /\ p.ok => /\ Current(lines, p.section, n)
             /\ MadeOf(p.data, WordsIn(lines, p.section, n))
             /\ Set!NoName \notin DOMAIN p.toml
             /\ \A s \in DOMAIN p.toml : MadeOf(p.toml[s], WordsIn(lines, s, n))

\* The words of a section grow with the lines.
LEMMA WordsGrow ==
  ASSUME NEW lines, NEW s, NEW n \in Nat
  PROVE  WordsIn(lines, s, n) \subseteq WordsIn(lines, s, n + 1)
  BY DEF WordsIn

\* A line more of any file.
LEMMA FileStep ==
  ASSUME NEW lines, NEW top, Sampled(lines, top), NEW n \in 0 .. top - 1,
         NEW p, FileInv(lines, p, n)
  PROVE  FileInv(lines, Set!AtLine(p, lines[n + 1]), n + 1)
  <1>0. top \in Nat /\ n + 1 \in 1 .. top /\ DOMAIN lines = 1 .. top
    BY DEF Sampled
  <1>l. PICK l : l = lines[n + 1]
    OBVIOUS
  <1>1. PICK q : q = Set!AtLine(p, l)
    OBVIOUS
  <1>2. /\ l.kind \in {"section", "pair", "text", "blank"}
        /\ l.kind = "section" <=> l.name \in {"default", "a"}
        /\ l.kind = "pair" => Set!TrimLine(l.words) \in {<<>>, <<Word(n + 1)>>}
        /\ l.kind = "text" => Set!TrimLine(l.words) = <<Word(n + 1)>>
    BY <1>0, <1>l DEF Sampled
  <1>3. IsParsing(p)
    BY DEF FileInv
  <1>d. LineDone(p, l, q)
    BY <1>1, <1>2, <1>3, AtLineIs
  <1>4. IsParsing(q) /\ (q.ok => p.ok)
    BY <1>3, <1>d DEF LineDone, IsParsing
  <1> SUFFICES ASSUME q.ok
               PROVE  /\ Current(lines, q.section, n + 1)
                      /\ MadeOf(q.data, WordsIn(lines, q.section, n + 1))
                      /\ Set!NoName \notin DOMAIN q.toml
                      /\ \A s \in DOMAIN q.toml : MadeOf(q.toml[s], WordsIn(lines, s, n + 1))
    BY <1>l, <1>1, <1>4 DEF FileInv
  <1>5. /\ Current(lines, p.section, n)
        /\ MadeOf(p.data, WordsIn(lines, p.section, n))
        /\ Set!NoName \notin DOMAIN p.toml
        /\ \A s \in DOMAIN p.toml : MadeOf(p.toml[s], WordsIn(lines, s, n))
    BY <1>4 DEF FileInv
  <1>6. /\ MadeOf(p.data, WordsIn(lines, p.section, n + 1))
        /\ \A s \in DOMAIN p.toml : MadeOf(p.toml[s], WordsIn(lines, s, n + 1))
    BY <1>0, <1>5, WordsGrow, MadeOfMore
  <1>7. CASE l.kind = "section"
    <2>1. /\ q.section = l.name /\ l.name # Set!NoName
          /\ p.section = Set!NoName => q.toml = p.toml /\ q.data = p.data
          /\ p.section # Set!NoName =>
               q.toml = Set!Put(p.toml, p.section, p.data) /\ q.data = Set!NoMap
      BY <1>2, <1>d, <1>7, NamesDiffer DEF LineDone
    <2>2. Current(lines, q.section, n + 1)
      BY <1>0, <1>l, <1>7, <2>1 DEF Current
    <2>3. CASE p.section = Set!NoName
      <3>1. \A k \in 1 .. n : lines[k].kind # "section"
        <4>1. ASSUME NEW h \in 1 .. n, lines[h].kind = "section" PROVE lines[h].name # Set!NoName
          BY <1>0, <4>1, NamesDiffer DEF Sampled
        <4> QED BY <1>5, <2>3, <4>1 DEF Current
      <3>2. \A k \in 1 .. n + 1 : SectionOf(lines, k) = l.name
        <4>1. ASSUME NEW k \in 1 .. n + 1 PROVE SectionOf(lines, k) = l.name
          <5>1. k \in 1 .. top
            BY <1>0
          <5> QED BY <1>0, <1>l, <1>7, <3>1, <5>1, SectionIs
        <4> QED BY <4>1
      <3>3. WordsIn(lines, p.section, n + 1) \subseteq WordsIn(lines, l.name, n + 1)
        BY <3>2 DEF WordsIn
      <3>4. MadeOf(q.data, WordsIn(lines, q.section, n + 1))
        BY <1>6, <2>1, <2>3, <3>3, MadeOfMore
      <3> QED BY <1>5, <1>6, <2>1, <2>2, <2>3, <3>4
    <2>4. CASE p.section # Set!NoName
      <3>1. MadeOf(q.data, WordsIn(lines, q.section, n + 1))
        BY <2>1, <2>4 DEF MadeOf, Set!NoMap
      <3>2. /\ DOMAIN q.toml = DOMAIN p.toml \cup {p.section}
            /\ q.toml[p.section] = p.data
            /\ \A s \in DOMAIN p.toml : s # p.section => q.toml[s] = p.toml[s]
        BY <2>1, <2>4 DEF Set!Put
      <3> QED BY <1>5, <1>6, <2>2, <2>4, <3>1, <3>2
    <2> QED BY <2>3, <2>4
  <1>8. CASE l.kind # "section"
    <2>1. q.toml = p.toml /\ q.section = p.section
      BY <1>2, <1>d, <1>8 DEF LineDone
    <2>2. Current(lines, q.section, n + 1)
      BY <1>0, <1>l, <1>5, <1>8, <2>1 DEF Current
    <2> DEFINE W == WordsIn(lines, p.section, n + 1)
    <2>3. l.kind \in {"pair", "text"} => Set!TrimLine(l.words) \in Seq(W)
      <3>1. Word(n + 1) \in W
        <4>1. p.section # Set!NoName => SectionOf(lines, n + 1) = p.section
          <5>1. ASSUME p.section # Set!NoName PROVE SectionOf(lines, n + 1) = p.section
            <6>1. PICK h \in 1 .. n + 1 : /\ lines[h].kind = "section" /\ p.section = lines[h].name
                                          /\ \A k \in h + 1 .. n + 1 : lines[k].kind # "section"
              BY <2>1, <2>2, <5>1 DEF Current
            <6>2. h \in 1 .. top /\ h <= n + 1
              BY <1>0
            <6> QED BY <1>0, <6>1, <6>2, SectionIs
          <5> QED BY <5>1
        <4> QED BY <1>0, <4>1 DEF WordsIn
      <3> HIDE DEF W
      <3>2. PICK w : w = Word(n + 1)
        OBVIOUS
      <3>3. <<>> \in Seq(W) /\ <<w>> \in Seq(W)
        BY <3>1, <3>2
      <3> QED BY <1>2, <3>2, <3>3
    <2>4. MadeOf(q.data, W)
      <3>1. CASE l.kind = "pair"
        <4> DEFINE bare == p.last # Set!NoName /\ Set!At(p.data, <<p.last>>) = <<>>
                   data == IF p.last = Set!NoName THEN p.data
                           ELSE Set!Insert(p.data, <<p.last>>, <<>>)
                   key  == IF bare THEN <<p.last, l.name>> ELSE <<l.name>>
        <4>1. q.data = Set!Put(data, key, Set!TrimLine(l.words))
          BY <1>2, <1>d, <3>1 DEF LineDone
        <4>2. <<>> \in Seq(W) /\ MadeOf(p.data, W)
          BY <1>6
        <4>3. MadeOf(data, W)
          <5> HIDE DEF W
          <5> QED BY <4>2, MadeOfWords
        <4> HIDE DEF data, key, W
        <4> QED BY <2>3, <3>1, <4>1, <4>3, MadeOfWords
      <3>2. CASE l.kind = "text"
        <4> DEFINE old == Set!At(p.data, <<p.last>>)
                   new == old \o Set!TrimLine(l.words)
        <4>1. q.data = Set!Put(p.data, <<p.last>>, new)
          BY <1>2, <1>d, <3>2 DEF LineDone
        <4> HIDE DEF W
        <4>2. MadeOf(p.data, W)
          BY <1>6 DEF W
        <4>3. old \in Seq(W)
          BY <4>2, MadeOfWords
        <4> HIDE DEF old
        <4>4. new \in Seq(W)
          BY <2>3, <3>2, <4>3
        <4> HIDE DEF new
        <4> QED BY <4>1, <4>2, <4>4, MadeOfWords
      <3>3. CASE l.kind = "blank"
        <4>1. q = p
          BY <1>2, <1>d, <3>3 DEF LineDone
        <4> QED BY <1>6, <4>1
      <3> QED BY <1>2, <1>8, <3>1, <3>2, <3>3
    <2> QED BY <1>5, <1>6, <2>1, <2>2, <2>4
  <1> QED BY <1>7, <1>8

\* So every file is read.
LEMMA FileHolds ==
  ASSUME NEW lines, NEW top, Sampled(lines, top)
  PROVE  FileInv(lines, Set!LinesRead(lines)[top], top)
  <1>0. top \in Nat /\ Len(lines) = top
    BY DEF Sampled
  <1>1. PICK After : After = Set!LinesRead(lines)
    OBVIOUS
  <1>2. After[0] = Set!Parsing /\ \A n \in 1 .. top : After[n] = Set!AtLine(After[n - 1], lines[n])
    BY <1>0, <1>1, LinesReadAre
  <1>3. FileInv(lines, After[0], 0)
    <2>1. IsParsing(Set!Parsing) /\ Set!Parsing.section = Set!NoName
          /\ Set!Parsing.data = Set!NoMap /\ Set!Parsing.toml = Set!NoMap
      BY DEF IsParsing, Set!Parsing
    <2>2. Current(lines, Set!NoName, 0)
      BY DEF Current
    <2>3. DOMAIN Set!NoMap = {}
      BY DEF Set!NoMap
    <2> QED BY <1>2, <2>1, <2>2, <2>3 DEF FileInv, MadeOf
  <1>4. ASSUME NEW n \in 0 .. top - 1, FileInv(lines, After[n], n)
        PROVE  FileInv(lines, After[n + 1], n + 1)
    <2>1. After[n + 1] = Set!AtLine(After[n], lines[n + 1])
      <3>1. n + 1 \in 1 .. top /\ (n + 1) - 1 = n
        BY <1>0
      <3> QED BY <1>2, <3>1
    <2> QED BY <1>4, <2>1, FileStep
  <1> DEFINE P == {n \in 0 .. top : FileInv(lines, After[n], n)}
  <1>5. 0 \in P /\ \A n \in 0 .. top - 1 : n \in P => n + 1 \in P
    BY <1>0, <1>3, <1>4
  <1>6. top \in P
    <2> HIDE DEF P
    <2>1. \A n \in 0 .. top : n \in P
      BY <1>0, <1>5, Upwards
    <2> QED BY <1>0, <2>1
  <1> QED BY <1>1, <1>6

PlainFile(lines, top) ==
  /\ 1 <= top /\ lines[1].kind = "section"
  /\ \A n \in 1 .. top : /\ lines[n].kind # "text"
                         /\ lines[n].kind = "pair" => Set!TrimLine(lines[n].words) = <<Word(n)>>
  /\ \A m, n \in 1 .. top :
       m # n /\ lines[m].kind = "section" /\ lines[n].kind = "section"
         => lines[m].name # lines[n].name
  /\ \A m, n \in 1 .. top :
       m # n /\ lines[m].kind = "pair" /\ lines[n].kind = "pair" /\ lines[m].name = lines[n].name
         => SectionOf(lines, m) # SectionOf(lines, n)

\* What a plain file is, section by section.
LEMMA PlainlyIs ==
  ASSUME NEW lines, NEW top, Sampled(lines, top), Plainly(lines)
  PROVE  PlainFile(lines, top)
  <1>1. top \in Nat /\ DOMAIN lines = 1 .. top /\ Len(lines) = top
    BY DEF Sampled
  <1>2. lines[1].kind = "section" /\ lines # <<>>
    BY DEF Plainly
  <1>3. 1 <= top
    <2>1. CASE top = 0
      <3>1. lines[1] = lines[1]
        OBVIOUS
      <3> QED BY <1>1, <1>2, <2>1 DEF Sampled
    <2> QED BY <1>1, <2>1
  <1>4. ASSUME NEW n \in 1 .. top
        PROVE  /\ lines[n].kind # "text"
               /\ lines[n].kind = "pair" => Set!TrimLine(lines[n].words) = <<Word(n)>>
    BY <1>1 DEF Plainly, Sampled
  <1>5. ASSUME NEW m \in 1 .. top, NEW n \in 1 .. top, m # n,
               lines[m].kind = "section", lines[n].kind = "section"
        PROVE  lines[m].name # lines[n].name
    BY <1>1, <1>5 DEF Plainly
  <1>6. ASSUME NEW m \in 1 .. top, NEW n \in 1 .. top, m # n,
               lines[m].kind = "pair", lines[n].kind = "pair", lines[m].name = lines[n].name
        PROVE  SectionOf(lines, m) # SectionOf(lines, n)
    BY <1>1, <1>6 DEF Plainly
  <1> QED BY <1>2, <1>3, <1>4, <1>5, <1>6 DEF PlainFile

\* The pair of line m is in a map.
Kept(lines, m, map) == <<lines[m].name>> \in DOMAIN map /\ map[<<lines[m].name>>] = <<Word(m)>>

ReadPlain(lines, p, n, h) ==
  /\ IsParsing(p) /\ p.ok
  /\ h \in 1 .. n /\ lines[h].kind = "section" /\ p.section = lines[h].name
  /\ \A k \in h + 1 .. n : lines[k].kind # "section"
  /\ DOMAIN p.toml = {lines[m].name : m \in {k \in 1 .. h - 1 : lines[k].kind = "section"}}
  /\ \A m \in h + 1 .. n : lines[m].kind = "pair" => Kept(lines, m, p.data)
  /\ \A m \in 1 .. h - 1 : lines[m].kind = "pair" =>
       SectionOf(lines, m) \in DOMAIN p.toml /\ Kept(lines, m, p.toml[SectionOf(lines, m)])
  /\ p.last = Set!NoName \/ (<<p.last>> \in DOMAIN p.data /\ p.data[<<p.last>>] # <<>>)

\* A line more of a plain file.
LEMMA PlainStep ==
  ASSUME NEW lines, NEW top, Sampled(lines, top), PlainFile(lines, top),
         NEW n \in 1 .. top - 1, NEW p, NEW h, ReadPlain(lines, p, n, h)
  PROVE  \E g : ReadPlain(lines, Set!AtLine(p, lines[n + 1]), n + 1, g)
  <1>0. top \in Nat /\ n \in 1 .. top /\ n + 1 \in 1 .. top /\ DOMAIN lines = 1 .. top
    BY DEF Sampled
  <1>1. PICK l : l = lines[n + 1]
    OBVIOUS
  <1>2. PICK q : q = Set!AtLine(p, l)
    OBVIOUS
  <1>3. /\ l.kind \in {"section", "pair", "blank"}
        /\ l.kind = "pair" => l.name \in {Access, Secret} /\ Set!TrimLine(l.words) = <<Word(n + 1)>>
        /\ l.kind = "section" => l.name \in {"default", "a"}
    BY <1>0, <1>1 DEF Sampled, PlainFile
  <1>4. /\ IsParsing(p) /\ p.ok
        /\ h \in 1 .. n /\ lines[h].kind = "section" /\ p.section = lines[h].name
        /\ \A k \in h + 1 .. n : lines[k].kind # "section"
        /\ DOMAIN p.toml = {lines[m].name : m \in {k \in 1 .. h - 1 : lines[k].kind = "section"}}
        /\ \A m \in h + 1 .. n : lines[m].kind = "pair" => Kept(lines, m, p.data)
        /\ \A m \in 1 .. h - 1 : lines[m].kind = "pair" =>
             SectionOf(lines, m) \in DOMAIN p.toml /\ Kept(lines, m, p.toml[SectionOf(lines, m)])
        /\ p.last = Set!NoName \/ (<<p.last>> \in DOMAIN p.data /\ p.data[<<p.last>>] # <<>>)
    BY DEF ReadPlain
  <1>5. h \in 1 .. top /\ lines[h].name \in {"default", "a"} /\ p.section # Set!NoName
    BY <1>0, <1>4, NamesDiffer DEF Sampled
  <1>6. LineDone(p, l, q) /\ IsParsing(q) /\ q.ok
    <2>1. LineDone(p, l, q)
      BY <1>2, <1>3, <1>4, AtLineIs
    <2> QED BY <1>3, <1>4, <2>1 DEF LineDone
  <1>7. ASSUME NEW m \in h + 1 .. n + 1, m = n + 1 => l.kind # "section"
        PROVE  SectionOf(lines, m) = p.section
    <2>1. m \in 1 .. top /\ h <= m /\ \A k \in h + 1 .. m : lines[k].kind # "section"
      BY <1>0, <1>1, <1>4, <1>7
    <2> QED BY <1>0, <1>4, <1>5, <2>1, SectionIs
  <1>8. CASE l.kind = "section"
    <2>1. /\ q.section = l.name
          /\ q.toml = Set!Put(p.toml, p.section, p.data)
          /\ q.data = Set!NoMap /\ q.last = Set!NoName
      BY <1>5, <1>6, <1>8 DEF LineDone
    <2>2. /\ DOMAIN q.toml = DOMAIN p.toml \cup {p.section}
          /\ q.toml[p.section] = p.data
          /\ \A s \in DOMAIN p.toml : s # p.section => q.toml[s] = p.toml[s]
      BY <2>1 DEF Set!Put
    <2>3. DOMAIN q.toml = {lines[m].name : m \in {k \in 1 .. n : lines[k].kind = "section"}}
      BY <1>0, <1>4, <2>2
    <2>4. p.section \notin DOMAIN p.toml
      <3>1. ASSUME NEW m \in 1 .. h - 1, lines[m].kind = "section" PROVE lines[m].name # p.section
        <4>1. m \in 1 .. top /\ m # h
          BY <1>0, <1>4
        <4> QED BY <1>4, <1>5, <3>1, <4>1 DEF PlainFile
      <3> QED BY <1>4, <3>1
    <2>5. ASSUME NEW m \in 1 .. n, lines[m].kind = "pair"
          PROVE  /\ SectionOf(lines, m) \in DOMAIN q.toml
                 /\ Kept(lines, m, q.toml[SectionOf(lines, m)])
      <3>1. CASE m \in 1 .. h - 1
        BY <1>4, <2>2, <2>4, <2>5, <3>1
      <3>2. CASE m \in h + 1 .. n
        <4>1. SectionOf(lines, m) = p.section
          BY <1>0, <1>7, <3>2
        <4>2. Kept(lines, m, p.data)
          BY <1>4, <2>5, <3>2
        <4> QED BY <2>2, <4>1, <4>2
      <3>3. CASE m = h
        BY <1>4, <2>5, <3>3
      <3> QED BY <1>4, <3>1, <3>2, <3>3
    <2>6. /\ n + 1 \in 1 .. n + 1 /\ lines[n + 1].kind = "section" /\ q.section = lines[n + 1].name
          /\ n + 1 - 1 = n /\ n + 2 .. n + 1 = {}
      BY <1>0, <1>1, <1>8, <2>1
    <2>7. ReadPlain(lines, q, n + 1, n + 1)
      BY <1>6, <2>1, <2>3, <2>5, <2>6 DEF ReadPlain
    <2> QED BY <1>1, <1>2, <2>7
  <1>9. CASE l.kind = "pair"
    <2> DEFINE bare == p.last # Set!NoName /\ Set!At(p.data, <<p.last>>) = <<>>
               data == IF p.last = Set!NoName THEN p.data
                       ELSE Set!Insert(p.data, <<p.last>>, <<>>)
               key  == IF bare THEN <<p.last, l.name>> ELSE <<l.name>>
    <2>1. /\ q.toml = p.toml /\ q.section = p.section /\ q.last = l.name
          /\ q.data = Set!Put(data, key, Set!TrimLine(l.words))
      BY <1>6, <1>9 DEF LineDone
    <2>2. ~bare
      BY <1>4 DEF Set!At
    <2>3. data = p.data
      BY <1>4 DEF Set!Insert
    <2>4. key = <<l.name>>
      BY <2>2
    <2> HIDE DEF data, key, bare
    <2>5. PICK w : w = <<Word(n + 1)>> /\ w # <<>>
      <3>1. PICK x : x = Word(n + 1)
        OBVIOUS
      <3>2. <<x>> # <<>>
        OBVIOUS
      <3> QED BY <3>1, <3>2
    <2>6. q.data = Set!Put(p.data, <<l.name>>, w)
      BY <1>3, <1>9, <2>1, <2>3, <2>4, <2>5
    <2>7. /\ DOMAIN q.data = DOMAIN p.data \cup {<<l.name>>}
          /\ q.data[<<l.name>>] = w
          /\ \A k \in DOMAIN p.data : k # <<l.name>> => q.data[k] = p.data[k]
      BY <2>6 DEF Set!Put
    <2>8. ASSUME NEW m \in h + 1 .. n + 1, lines[m].kind = "pair" PROVE Kept(lines, m, q.data)
      <3>1. CASE m = n + 1
        BY <1>1, <2>5, <2>7, <3>1 DEF Kept
      <3>2. CASE m \in h + 1 .. n
        <4>1. SectionOf(lines, m) = p.section /\ SectionOf(lines, n + 1) = p.section
          BY <1>0, <1>4, <1>7, <1>9, <3>2
        <4>2. m \in 1 .. top /\ m # n + 1
          BY <1>0, <1>4, <3>2
        <4>3. lines[m].name # l.name
          BY <1>0, <1>1, <1>9, <2>8, <4>1, <4>2 DEF PlainFile
        <4>4. Kept(lines, m, p.data)
          BY <1>4, <2>8, <3>2
        <4>5. <<lines[m].name>> # <<l.name>>
          BY <4>3
        <4> QED BY <2>7, <4>4, <4>5 DEF Kept
      <3> QED BY <1>4, <3>1, <3>2
    <2>9. h \in 1 .. n + 1 /\ \A k \in h + 1 .. n + 1 : lines[k].kind # "section"
      BY <1>1, <1>4, <1>9
    <2>10. <<q.last>> \in DOMAIN q.data /\ q.data[<<q.last>>] # <<>>
      BY <2>1, <2>5, <2>7
    <2>11. ReadPlain(lines, q, n + 1, h)
      BY <1>4, <1>6, <2>1, <2>8, <2>9, <2>10 DEF ReadPlain
    <2> QED BY <1>1, <1>2, <2>11
  <1>10. CASE l.kind = "blank"
    <2>1. q = p
      BY <1>6, <1>10 DEF LineDone
    <2>2. h \in 1 .. n + 1 /\ \A k \in h + 1 .. n + 1 : lines[k].kind \notin {"section", "pair"}
                                                        \/ k \in h + 1 .. n
      BY <1>1, <1>4, <1>10
    <2>3. ReadPlain(lines, q, n + 1, h)
      BY <1>4, <2>1, <2>2 DEF ReadPlain
    <2> QED BY <1>1, <1>2, <2>3
  <1> QED BY <1>3, <1>8, <1>9, <1>10

\* So every plain file is read.
LEMMA PlainHolds ==
  ASSUME NEW lines, NEW top, Sampled(lines, top), PlainFile(lines, top)
  PROVE  \E h : ReadPlain(lines, Set!LinesRead(lines)[top], top, h)
  <1>0. top \in Nat /\ Len(lines) = top /\ 1 <= top
    BY DEF Sampled, PlainFile
  <1>1. PICK After : After = Set!LinesRead(lines)
    OBVIOUS
  <1>2. After[0] = Set!Parsing /\ \A n \in 1 .. top : After[n] = Set!AtLine(After[n - 1], lines[n])
    BY <1>0, <1>1, LinesReadAre
  <1>3. ReadPlain(lines, After[1], 1, 1)
    <2>1. PICK l : l = lines[1]
      OBVIOUS
    <2>2. PICK p : p = Set!Parsing
      OBVIOUS
    <2>3. PICK q : q = Set!AtLine(p, l)
      OBVIOUS
    <2>4. After[1] = q
      <3>1. 1 \in 1 .. top /\ 1 - 1 = 0
        BY <1>0
      <3> QED BY <1>2, <2>1, <2>2, <2>3, <3>1
    <2>5. /\ IsParsing(p) /\ p.section = Set!NoName /\ p.last = Set!NoName
          /\ p.data = Set!NoMap /\ p.toml = Set!NoMap /\ p.ok
      BY <2>2 DEF IsParsing, Set!Parsing
    <2>6. l.kind = "section"
      BY <2>1 DEF PlainFile
    <2>7. LineDone(p, l, q)
      BY <2>3, <2>5, <2>6, AtLineIs
    <2>8. /\ IsParsing(q) /\ q.ok
          /\ q.section = l.name /\ q.toml = Set!NoMap /\ q.data = Set!NoMap /\ q.last = Set!NoName
      BY <2>5, <2>6, <2>7 DEF LineDone
    <2>9. DOMAIN Set!NoMap = {}
      BY DEF Set!NoMap
    <2>10. 1 .. 1 - 1 = {} /\ 1 + 1 .. 1 = {} /\ 1 \in 1 .. 1
      OBVIOUS
    <2> QED BY <2>1, <2>4, <2>6, <2>8, <2>9, <2>10 DEF ReadPlain
  <1> DEFINE Q(n) == \E h : ReadPlain(lines, After[n], n, h)
             P == {n \in 0 .. top : n = 0 \/ Q(n)}
  <1>4. ASSUME NEW n \in 0 .. top - 1, n \in P PROVE n + 1 \in P
    <2>1. CASE n = 0
      BY <1>0, <1>3, <2>1
    <2>2. CASE n # 0
      <3>1. n \in 1 .. top - 1 /\ Q(n)
        BY <1>0, <1>4, <2>2
      <3>2. PICK h : ReadPlain(lines, After[n], n, h)
        BY <3>1
      <3>3. \E g : ReadPlain(lines, Set!AtLine(After[n], lines[n + 1]), n + 1, g)
        BY <3>1, <3>2, PlainStep
      <3>4. After[n + 1] = Set!AtLine(After[n], lines[n + 1])
        <4>1. n + 1 \in 1 .. top /\ (n + 1) - 1 = n
          BY <1>0
        <4> QED BY <1>2, <4>1
      <3>5. Q(n + 1) /\ n + 1 \in 0 .. top
        BY <1>0, <3>3, <3>4
      <3> QED BY <3>5
    <2> QED BY <2>1, <2>2
  <1>5. \A n \in 0 .. top : n \in P
    <2>1. 0 \in P
      BY <1>0
    <2> HIDE DEF P
    <2> QED BY <1>0, <1>4, <2>1, Upwards
  <1> QED BY <1>0, <1>1, <1>5

\* The credentials of every sampled file.
LEMMA FileIsRead ==
  ASSUME NEW kinds \in Seq(LineKinds), NEW profile \in {"default", "a"}
  PROVE  LET lines == Lines(kinds)
             c     == Set!GetS3Credentials(lines, profile)
             Own(key) == {n \in DOMAIN lines : SectionOf(lines, n) = profile
                                               /\ lines[n].kind = "pair" /\ lines[n].name = key}
         IN /\ \A v \in {c.access, c.secret} : \A k \in DOMAIN v :
                 \E n \in DOMAIN lines : v[k] = Word(n) /\ SectionOf(lines, n) = profile
            /\ Plainly(lines) =>
                 /\ c.found = \E n \in DOMAIN lines : lines[n].name = profile
                 /\ \A n \in Own(Access) : c.access = <<Word(n)>>
                 /\ \A n \in Own(Secret) : c.secret = <<Word(n)>>
  <1>1. PICK lines, top : lines = Lines(kinds) /\ top = Len(kinds)
    OBVIOUS
  <1>2. Sampled(lines, top)
    BY <1>1, LinesAreSampled
  <1>3. top \in Nat /\ Len(lines) = top /\ DOMAIN lines = 1 .. top
    BY <1>2 DEF Sampled
  <1>4. PICK p : p = Set!LinesRead(lines)[top]
    OBVIOUS
  <1>5. FileInv(lines, p, top) /\ IsParsing(p)
    BY <1>2, <1>4, FileHolds DEF FileInv
  <1>6. PICK r : r = Set!ParseTomlFile(lines)
    OBVIOUS
  <1>7. r.ok = p.ok /\ r.toml = Set!Insert(p.toml, p.section, p.data)
    <2>1. r = [p EXCEPT !.toml = Set!Insert(p.toml, p.section, p.data)]
      BY <1>3, <1>4, <1>6 DEF Set!ParseTomlFile
    <2>2. r = [toml |-> Set!Insert(p.toml, p.section, p.data), section |-> p.section,
               data |-> p.data, last |-> p.last, ok |-> p.ok]
      BY <1>5, <2>1 DEF IsParsing
    <2> QED BY <2>2
  <1>8. Set!Profile(profile) = profile /\ profile # Set!NoName
    <2>1. profile # "" /\ profile # Set!NoName
      BY Zenon DEF Set!NoName
    <2> QED BY <2>1, Zenon DEF Set!Profile
  <1>9. PICK c : c = Set!GetS3Credentials(lines, profile)
    OBVIOUS
  <1>10. /\ r.ok /\ profile \in DOMAIN r.toml =>
              c.found = TRUE /\ c.access = Set!At(r.toml[profile], <<Access>>)
              /\ c.secret = Set!At(r.toml[profile], <<Secret>>)
         /\ ~(r.ok /\ profile \in DOMAIN r.toml) =>
              c.found = FALSE /\ c.access = <<>> /\ c.secret = <<>>
    BY <1>6, <1>8, <1>9 DEF Set!GetS3Credentials, Access, Secret
  <1>11. ASSUME NEW v \in {c.access, c.secret}, NEW k \in DOMAIN v
         PROVE  \E n \in DOMAIN lines : v[k] = Word(n) /\ SectionOf(lines, n) = profile
    <2>1. r.ok /\ profile \in DOMAIN r.toml
      <3>1. ASSUME ~(r.ok /\ profile \in DOMAIN r.toml) PROVE FALSE
        <4>1. v = <<>>
          BY <1>10, <1>11, <3>1
        <4> QED BY <1>11, <4>1
      <3> QED BY <3>1
    <2> DEFINE W == WordsIn(lines, profile, top)
    <2>2. MadeOf(r.toml[profile], W)
      <3>1. MadeOf(p.data, WordsIn(lines, p.section, top))
            /\ \A s \in DOMAIN p.toml : MadeOf(p.toml[s], WordsIn(lines, s, top))
        BY <1>5, <1>7, <2>1 DEF FileInv
      <3>2. CASE p.section \in DOMAIN p.toml
        <4>1. r.toml = p.toml
          BY <1>7, <3>2 DEF Set!Insert
        <4> QED BY <2>1, <3>1, <4>1
      <3>3. CASE p.section \notin DOMAIN p.toml
        <4>1. r.toml = Set!Put(p.toml, p.section, p.data)
          BY <1>7, <3>3 DEF Set!Insert
        <4>2. profile \in DOMAIN p.toml \/ profile = p.section
          BY <2>1, <4>1 DEF Set!Put
        <4>3. r.toml[profile] = IF profile = p.section THEN p.data ELSE p.toml[profile]
          BY <4>1, <4>2 DEF Set!Put
        <4> QED BY <3>1, <3>3, <4>2, <4>3
      <3> QED BY <3>2, <3>3
    <2> HIDE DEF W
    <2>3. v \in Seq(W)
      <3>1. PICK map, a, b : map = r.toml[profile] /\ a = <<Access>> /\ b = <<Secret>>
        OBVIOUS
      <3>2. Set!At(map, a) \in Seq(W) /\ Set!At(map, b) \in Seq(W)
        BY <2>2, <3>1, MadeOfWords
      <3> QED BY <1>10, <1>11, <2>1, <3>1, <3>2
    <2>4. v[k] \in W
      BY <1>11, <2>3
    <2>5. PICK n \in 1 .. top : v[k] = Word(n) /\ SectionOf(lines, n) = profile
      BY <1>8, <2>4 DEF W, WordsIn
    <2> QED BY <1>3, <2>5
  <1>12. ASSUME Plainly(lines)
         PROVE  /\ c.found = \E n \in DOMAIN lines : lines[n].name = profile
                /\ \A n \in DOMAIN lines :
                     SectionOf(lines, n) = profile /\ lines[n].kind = "pair" =>
                       /\ lines[n].name = Access => c.access = <<Word(n)>>
                       /\ lines[n].name = Secret => c.secret = <<Word(n)>>
    <2>1. PlainFile(lines, top)
      BY <1>2, <1>12, PlainlyIs
    <2>2. PICK h : ReadPlain(lines, p, top, h)
      BY <1>2, <1>4, <2>1, PlainHolds
    <2>3. /\ p.ok
          /\ h \in 1 .. top /\ lines[h].kind = "section" /\ p.section = lines[h].name
          /\ \A k \in h + 1 .. top : lines[k].kind # "section"
          /\ DOMAIN p.toml = {lines[m].name : m \in {k \in 1 .. h - 1 : lines[k].kind = "section"}}
          /\ \A m \in h + 1 .. top : lines[m].kind = "pair" => Kept(lines, m, p.data)
          /\ \A m \in 1 .. h - 1 : lines[m].kind = "pair" =>
               SectionOf(lines, m) \in DOMAIN p.toml /\ Kept(lines, m, p.toml[SectionOf(lines, m)])
      BY <2>2 DEF ReadPlain
    <2>4. p.section \notin DOMAIN p.toml
      <3>1. ASSUME NEW m \in 1 .. h - 1, lines[m].kind = "section" PROVE lines[m].name # p.section
        <4>1. m \in 1 .. top /\ m # h
          BY <1>3, <2>3
        <4> QED BY <2>1, <2>3, <3>1, <4>1 DEF PlainFile
      <3> QED BY <2>3, <3>1
    <2>5. /\ DOMAIN r.toml = DOMAIN p.toml \cup {p.section}
          /\ r.toml[p.section] = p.data
          /\ \A s \in DOMAIN p.toml : r.toml[s] = p.toml[s]
      BY <1>7, <2>4 DEF Set!Insert, Set!Put
    <2>6. DOMAIN r.toml = {lines[m].name : m \in {k \in 1 .. top : lines[k].kind = "section"}}
      BY <1>3, <2>3, <2>5
    <2>7. profile \in DOMAIN r.toml <=> \E n \in DOMAIN lines : lines[n].name = profile
      BY <1>2, <1>3, <2>6 DEF Sampled
    <2>8. ASSUME NEW m \in DOMAIN lines, SectionOf(lines, m) = profile, lines[m].kind = "pair"
          PROVE  /\ profile \in DOMAIN r.toml
                 /\ Kept(lines, m, r.toml[profile])
      <3>1. CASE m \in 1 .. h - 1
        BY <2>3, <2>5, <2>8, <3>1
      <3>2. CASE m \in h + 1 .. top
        <4>1. m \in 1 .. top /\ h <= m /\ \A k \in h + 1 .. m : lines[k].kind # "section"
          BY <1>3, <2>3, <3>2
        <4>2. SectionOf(lines, m) = lines[h].name
          BY <1>3, <2>3, <4>1, SectionIs
        <4> QED BY <2>3, <2>5, <2>8, <3>2, <4>2
      <3>3. CASE m = h
        BY <2>3, <2>8, <3>3
      <3> QED BY <1>3, <2>3, <2>8, <3>1, <3>2, <3>3
    <2>9. ASSUME NEW m \in DOMAIN lines, SectionOf(lines, m) = profile, lines[m].kind = "pair"
          PROVE  /\ lines[m].name = Access => c.access = <<Word(m)>>
                 /\ lines[m].name = Secret => c.secret = <<Word(m)>>
      <3>1. profile \in DOMAIN r.toml /\ Kept(lines, m, r.toml[profile])
        BY <2>8, <2>9
      <3> QED BY <1>7, <1>10, <2>3, <3>1 DEF Kept, Set!At
    <2>10. c.found = \E n \in DOMAIN lines : lines[n].name = profile
      <3> DEFINE Named == \E n \in DOMAIN lines : lines[n].name = profile
      <3>1. /\ Named => c.found = TRUE
            /\ ~Named => c.found = FALSE
        BY <1>7, <1>10, <2>3, <2>7
      <3>2. Named \in BOOLEAN
        OBVIOUS
      <3>3. CASE Named
        <4>1. Named = TRUE /\ c.found = TRUE
          BY <3>1, <3>3
        <4> QED BY <4>1, Zenon
      <3>4. CASE ~Named
        <4>1. Named = FALSE /\ c.found = FALSE
          BY <3>1, <3>4
        <4> QED BY <4>1, Zenon
      <3> QED BY <3>3, <3>4
    <2> QED BY <2>9, <2>10
  <1> QED BY <1>1, <1>9, <1>11, <1>12

-----------------------------------------------------------------------------
(* Lists of parameters and headers.                                        *)

\* The recursive functions are defined.
LEMMA PairsReadAre ==
  ASSUME NEW pieces, Len(pieces) \in Nat, NEW delim, NEW lowered
  PROVE  LET After == Set!PairsRead(pieces, delim, lowered)
         IN /\ After[0] = Set!NoMap
            /\ \A n \in 1 .. Len(pieces) :
                 After[n] = Set!AddPair(After[n - 1], pieces[n], delim, lowered)
  <1> DEFINE Is(f, m) ==
               f = [n \in 0 .. m |-> IF n = 0 THEN Set!NoMap
                                     ELSE Set!AddPair(f[n - 1], pieces[n], delim, lowered)]
             P == {m \in Nat : \E f : Is(f, m)}
  <1>1. \A m \in Nat : m \in P <=> \E f : Is(f, m)
    OBVIOUS
  <1> HIDE DEF P
  <1>2. 0 \in P
    <2>1. Is([n \in 0 .. 0 |-> Set!NoMap], 0)
      OBVIOUS
    <2>2. \E f : Is(f, 0)
      BY <2>1
    <2> QED BY <1>1, <2>2
  <1>3. ASSUME NEW m \in Nat, m \in P PROVE m + 1 \in P
    <2>1. PICK f : Is(f, m)
      BY <1>1, <1>3
    <2> DEFINE g == [n \in 0 .. m + 1 |-> IF n <= m THEN f[n]
                                          ELSE Set!AddPair(f[m], pieces[n], delim, lowered)]
    <2>2. Is(g, m + 1)
      <3>1. \A n \in 0 .. m : g[n] = f[n]
        OBVIOUS
      <3>2. ASSUME NEW n \in 0 .. m + 1
            PROVE  g[n] = IF n = 0 THEN Set!NoMap
                          ELSE Set!AddPair(g[n - 1], pieces[n], delim, lowered)
        <4>1. CASE n = 0
          BY <2>1, <3>1, <4>1
        <4>2. CASE n \in 0 + 1 .. m
          <5>1. g[n] = f[n] /\ g[n - 1] = f[n - 1]
            BY <3>1, <4>2
          <5> QED BY <2>1, <4>2, <5>1
        <4>3. CASE n = m + 1 /\ n # 0
          <5>1. g[n - 1] = f[m]
            BY <3>1, <4>3
          <5> QED BY <4>3, <5>1
        <4> QED BY <4>1, <4>2, <4>3
      <3> HIDE DEF g
      <3>3. g = [n \in 0 .. m + 1 |-> g[n]]
        BY DEF g
      <3> QED BY <3>2, <3>3
    <2> HIDE DEF g, Is
    <2>3. \E h : Is(h, m + 1)
      BY <2>2
    <2> QED BY <1>1, <2>3
  <1>4. \A n \in 0 .. Len(pieces) : n \in P
    <2>1. \A n \in 0 .. Len(pieces) - 1 : n \in P => n + 1 \in P
      BY <1>3
    <2> QED BY <1>2, <2>1, Upwards
  <1>5. \E f : Is(f, Len(pieces))
    BY <1>1, <1>4
  <1>6. Is(Set!PairsRead(pieces, delim, lowered), Len(pieces))
    BY <1>5 DEF Set!PairsRead
  <1> QED BY <1>6

\* Where the pieces of Split start.
LEMMA StartsAre ==
  ASSUME NEW s, NEW top \in Nat, top = Len(s) + 1, NEW delim
  PROVE  LET start == Set!StartsOf(s, delim)
         IN /\ DOMAIN start = 1 .. top
            /\ 1 <= top => start[1] = 1
            /\ \A n \in 2 .. top : start[n] = Set!EndOf(s, delim, start[n - 1]) + 1
  <1> DEFINE Is(f, m) ==
               f = [n \in 1 .. m |-> IF n = 1 THEN 1 ELSE Set!EndOf(s, delim, f[n - 1]) + 1]
             P == {m \in Nat : \E f : Is(f, m)}
  <1>1. \A m \in Nat : m \in P <=> \E f : Is(f, m)
    OBVIOUS
  <1> HIDE DEF P
  <1>2. 0 \in P
    <2>1. Is([n \in 1 .. 0 |-> 1], 0)
      OBVIOUS
    <2>2. \E f : Is(f, 0)
      BY <2>1
    <2> QED BY <1>1, <2>2
  <1>3. ASSUME NEW m \in Nat, m \in P PROVE m + 1 \in P
    <2>1. PICK f : Is(f, m)
      BY <1>1, <1>3
    <2> DEFINE g == [n \in 1 .. m + 1 |-> IF n <= m THEN f[n] ELSE IF n = 1 THEN 1
                                          ELSE Set!EndOf(s, delim, f[m]) + 1]
    <2>2. Is(g, m + 1)
      <3>1. \A n \in 1 .. m : g[n] = f[n]
        OBVIOUS
      <3>2. ASSUME NEW n \in 1 .. m + 1
            PROVE  g[n] = IF n = 1 THEN 1 ELSE Set!EndOf(s, delim, g[n - 1]) + 1
        <4>1. CASE n = 1
          BY <2>1, <3>1, <4>1
        <4>2. CASE n \in 1 + 1 .. m
          <5>1. g[n] = f[n] /\ g[n - 1] = f[n - 1]
            BY <3>1, <4>2
          <5> QED BY <2>1, <4>2, <5>1
        <4>3. CASE n = m + 1 /\ n # 1
          <5>1. g[n - 1] = f[m]
            BY <3>1, <4>3
          <5> QED BY <4>3, <5>1
        <4> QED BY <4>1, <4>2, <4>3
      <3> HIDE DEF g
      <3>3. g = [n \in 1 .. m + 1 |-> g[n]]
        BY DEF g
      <3> QED BY <3>2, <3>3
    <2> HIDE DEF g, Is
    <2>3. \E h : Is(h, m + 1)
      BY <2>2
    <2> QED BY <1>1, <2>3
  <1>4. \A n \in 0 .. top : n \in P
    <2>1. \A n \in 0 .. top - 1 : n \in P => n + 1 \in P
      BY <1>3
    <2> QED BY <1>2, <2>1, Upwards
  <1>5. \E f : Is(f, top)
    BY <1>1, <1>4
  <1>6. Is(Set!StartsOf(s, delim), top)
    BY <1>5 DEF Set!StartsOf
  <1> QED BY <1>6

\* The text of the first pairs, for every number of them.
LEMMA JoinedAre ==
  ASSUME NEW pairs, NEW top \in Nat, DOMAIN pairs = 1 .. top, NEW delim
  PROVE  LET upto == Joined(pairs, delim)
         IN /\ 1 <= top => upto[1] = PairText(pairs[1], delim)
            /\ \A n \in 2 .. top :
                 upto[n] = AddText(upto[n - 1], pairs[n], delim)
  <1> DEFINE Is(f, m) ==
               f = [n \in 1 .. m |-> IF n = 1 THEN PairText(pairs[1], delim)
                                     ELSE AddText(f[n - 1], pairs[n], delim)]
             P == {m \in Nat : \E f : Is(f, m)}
  <1>1. \A m \in Nat : m \in P <=> \E f : Is(f, m)
    OBVIOUS
  <1> HIDE DEF P
  <1>2. 0 \in P
    <2>1. Is([n \in 1 .. 0 |-> PairText(pairs[1], delim)], 0)
      OBVIOUS
    <2>2. \E f : Is(f, 0)
      BY <2>1
    <2> QED BY <1>1, <2>2
  <1>3. ASSUME NEW m \in Nat, m \in P PROVE m + 1 \in P
    <2>1. PICK f : Is(f, m)
      BY <1>1, <1>3
    <2> DEFINE g == [n \in 1 .. m + 1 |->
                       IF n <= m THEN f[n] ELSE IF n = 1 THEN PairText(pairs[1], delim)
                       ELSE AddText(f[m], pairs[n], delim)]
    <2>2. Is(g, m + 1)
      <3>1. \A n \in 1 .. m : g[n] = f[n]
        OBVIOUS
      <3>2. ASSUME NEW n \in 1 .. m + 1
            PROVE  g[n] = IF n = 1 THEN PairText(pairs[1], delim)
                          ELSE AddText(g[n - 1], pairs[n], delim)
        <4>1. CASE n = 1
          BY <2>1, <3>1, <4>1
        <4>2. CASE n \in 1 + 1 .. m
          <5>1. g[n] = f[n] /\ g[n - 1] = f[n - 1]
            BY <3>1, <4>2
          <5> QED BY <2>1, <4>2, <5>1
        <4>3. CASE n = m + 1 /\ n # 1
          <5>1. g[n - 1] = f[m]
            BY <3>1, <4>3
          <5> QED BY <4>3, <5>1
        <4> QED BY <4>1, <4>2, <4>3
      <3> HIDE DEF g
      <3>3. g = [n \in 1 .. m + 1 |-> g[n]]
        BY DEF g
      <3> QED BY <3>2, <3>3
    <2> HIDE DEF g, Is
    <2>3. \E h : Is(h, m + 1)
      BY <2>2
    <2> QED BY <1>1, <2>3
  <1>4. \A n \in 0 .. top : n \in P
    <2>1. \A n \in 0 .. top - 1 : n \in P => n + 1 \in P
      BY <1>3
    <2> QED BY <1>2, <2>1, Upwards
  <1>5. \E f : Is(f, top)
    BY <1>1, <1>4
  <1>6. Is(Joined(pairs, delim), top)
    BY <1>5 DEF Joined
  <1> QED BY <1>6

\* An item of a list: a name in which no delimiter is, and a value.
IsItem(p, delim, T) ==
  /\ delim \in T \ {Set!Separator} /\ Set!Separator \in T
  /\ p[1] \in Seq(T) /\ \A k \in 1 .. Len(p[1]) : p[1][k] \notin {Set!Separator, delim}
  /\ p[2] \in Seq(T) /\ \A k \in 1 .. Len(p[2]) : p[2][k] # Set!Separator

\* Two texts around a delimiter.
LEMMA TextIs ==
  ASSUME NEW T, NEW delim \in T, NEW u \in Seq(T), NEW v \in Seq(T)
  PROVE  LET t == u \o <<delim>> \o v
         IN /\ t \in Seq(T) /\ Len(t) = Len(u) + 1 + Len(v)
            /\ \A k \in 1 .. Len(u) : t[k] = u[k]
            /\ t[Len(u) + 1] = delim
            /\ \A k \in 1 .. Len(v) : t[Len(u) + 1 + k] = v[k]
  <1>1. PICK w : w = <<delim>>
    OBVIOUS
  <1>2. w \in Seq(T) /\ Len(w) = 1 /\ w[1] = delim
    BY <1>1
  <1>3. PICK uw : uw = u \o w
    OBVIOUS
  <1>4. /\ uw \in Seq(T) /\ Len(uw) = Len(u) + 1
        /\ \A k \in 1 .. Len(u) : uw[k] = u[k]
        /\ uw[Len(u) + 1] = delim
    <2>1. /\ uw \in Seq(T) /\ Len(uw) = Len(u) + Len(w)
          /\ \A k \in 1 .. Len(u) + Len(w) : uw[k] = IF k <= Len(u) THEN u[k] ELSE w[k - Len(u)]
      BY <1>2, <1>3, ConcatProperties
    <2>2. Len(u) \in Nat
      OBVIOUS
    <2> QED BY <1>2, <2>1, <2>2
  <1>5. PICK t : t = uw \o v
    OBVIOUS
  <1>6. /\ t \in Seq(T) /\ Len(t) = Len(u) + 1 + Len(v)
        /\ \A k \in 1 .. Len(u) + 1 : t[k] = uw[k]
        /\ \A k \in 1 .. Len(v) : t[Len(u) + 1 + k] = v[k]
    <2>1. /\ t \in Seq(T) /\ Len(t) = Len(uw) + Len(v)
          /\ \A k \in 1 .. Len(uw) + Len(v) : t[k] = IF k <= Len(uw) THEN uw[k] ELSE v[k - Len(uw)]
      <3>1. uw \in Seq(T)
        BY <1>4
      <3> QED BY <1>5, <3>1, ConcatProperties
    <2>2. PICK a \in Nat, b \in Nat : a = Len(u) /\ b = Len(v)
      OBVIOUS
    <2>3. \A k \in 1 .. a + 1 + b : t[k] = IF k <= a + 1 THEN uw[k] ELSE v[k - (a + 1)]
      BY <1>4, <2>1, <2>2
    <2>4. \A k \in 1 .. b : t[a + 1 + k] = v[k]
      <3>1. ASSUME NEW k \in 1 .. b PROVE t[a + 1 + k] = v[k]
        <4>1. a + 1 + k \in 1 .. a + 1 + b /\ ~(a + 1 + k <= a + 1) /\ (a + 1 + k) - (a + 1) = k
          OBVIOUS
        <4> QED BY <2>3, <4>1
      <3> QED BY <3>1
    <2> QED BY <1>4, <2>1, <2>2, <2>3, <2>4
  <1>7. /\ \A k \in 1 .. Len(u) : t[k] = u[k]
        /\ t[Len(u) + 1] = delim
    BY <1>4, <1>6
  <1> QED BY <1>1, <1>3, <1>5, <1>6, <1>7

TextParts(p, delim, T, t, u, v, a, b) ==
  /\ u \in Seq(T) /\ v \in Seq(T) /\ a \in Nat /\ b \in Nat
  /\ u = p[1] /\ v = p[2] /\ a = Len(u) /\ b = Len(v)
  /\ t \in Seq(T) /\ Len(t) = a + 1 + b
  /\ \A k \in 1 .. a : t[k] = u[k] /\ t[k] \notin {Set!Separator, delim}
  /\ t[a + 1] = delim
  /\ \A k \in 1 .. b : t[a + 1 + k] = v[k]
  /\ \A k \in 1 .. Len(t) : t[k] # Set!Separator

\* A pair as a text.
LEMMA PairTextIs ==
  ASSUME NEW T, NEW delim, NEW p, IsItem(p, delim, T), NEW t, t = PairText(p, delim)
  PROVE  \E u, v, a, b : TextParts(p, delim, T, t, u, v, a, b)
  <1>1. PICK u \in Seq(T), v \in Seq(T) : u = p[1] /\ v = p[2]
    BY DEF IsItem
  <1>2. /\ delim \in T \ {Set!Separator}
        /\ \A k \in 1 .. Len(u) : u[k] \notin {Set!Separator, delim}
        /\ \A k \in 1 .. Len(v) : v[k] # Set!Separator
    BY <1>1 DEF IsItem
  <1>3. PICK a \in Nat, b \in Nat : a = Len(u) /\ b = Len(v)
    OBVIOUS
  <1>4. t = u \o <<delim>> \o v
    BY <1>1 DEF PairText
  <1>5. /\ t \in Seq(T) /\ Len(t) = a + 1 + b
        /\ \A k \in 1 .. a : t[k] = u[k]
        /\ t[a + 1] = delim
        /\ \A k \in 1 .. b : t[a + 1 + k] = v[k]
    BY <1>2, <1>3, <1>4, TextIs
  <1>6. \A k \in 1 .. a : t[k] \notin {Set!Separator, delim}
    BY <1>2, <1>3, <1>5
  <1>7. ASSUME NEW k \in 1 .. a + 1 + b PROVE t[k] # Set!Separator
    <2>1. CASE k \in 1 .. a
      BY <1>6, <2>1
    <2>2. CASE k = a + 1
      BY <1>2, <1>5, <2>2
    <2>3. CASE k \in a + 2 .. a + 1 + b
      <3>1. PICK j \in 1 .. b : k = a + 1 + j
        <4>1. k - (a + 1) \in 1 .. b /\ k = a + 1 + (k - (a + 1))
          BY <2>3
        <4> QED BY <4>1
      <3> QED BY <1>2, <1>3, <1>5, <3>1
    <2> QED BY <2>1, <2>2, <2>3
  <1>8. TextParts(p, delim, T, t, u, v, a, b)
    BY <1>1, <1>3, <1>5, <1>6, <1>7 DEF TextParts
  <1> QED BY <1>8

\* Where a piece ends.
LEMMA EndIs ==
  ASSUME NEW T, NEW s \in Seq(T), NEW delim, NEW start \in Nat, 1 <= start,
         NEW e \in Nat, start <= e, e <= Len(s) + 1,
         \A k \in start .. e - 1 : s[k] # delim,
         e <= Len(s) => s[e] = delim
  PROVE  Set!EndOf(s, delim, start) = e
  <1> DEFINE S == {k \in start .. Len(s) : s[k] = delim} \cup {Len(s) + 1}
  <1>1. Len(s) \in Nat
    OBVIOUS
  <1>2. e \in S /\ S \subseteq Nat /\ \A k \in S : e <= k
    BY <1>1
  <1>3. Set!Min(S) = e
    <2> HIDE DEF S
    <2> QED BY <1>2, MinIs
  <1> QED BY <1>3 DEF Set!EndOf

\* An item is taken apart at its delimiter.
LEMMA ItemIsSplit ==
  ASSUME NEW T, NEW delim, NEW p, IsItem(p, delim, T), NEW t, t = PairText(p, delim)
  PROVE  LET kv == Set!Split(t, delim, 1)
         IN Len(kv) = 2 /\ kv[1] = p[1] /\ kv[2] = p[2]
  <1>0. PICK u \in Seq(T), v \in Seq(T), a \in Nat, b \in Nat :
          TextParts(p, delim, T, t, u, v, a, b)
    <2>1. PICK u, v, a, b : TextParts(p, delim, T, t, u, v, a, b)
      BY PairTextIs
    <2>2. u \in Seq(T) /\ v \in Seq(T) /\ a \in Nat /\ b \in Nat
      BY <2>1 DEF TextParts
    <2> QED BY <2>1, <2>2
  <1>1. \A k \in 1 .. a : t[k] # delim
    BY <1>0 DEF TextParts
  <1>2. /\ t \in Seq(T) /\ Len(t) = a + 1 + b
        /\ \A k \in 1 .. a : t[k] = u[k]
        /\ t[a + 1] = delim
        /\ \A k \in 1 .. b : t[a + 1 + k] = v[k]
    BY <1>0 DEF TextParts
  <1>3. PICK start : start = Set!StartsOf(t, delim)
    OBVIOUS
  <1>4. /\ DOMAIN start = 1 .. a + b + 2 /\ start[1] = 1
        /\ \A n \in 2 .. a + b + 2 : start[n] = Set!EndOf(t, delim, start[n - 1]) + 1
    <2>1. PICK top \in Nat : top = a + b + 2
      BY <1>0
    <2>2. top = Len(t) + 1
      BY <1>2, <2>1
    <2>3. 1 <= top
      BY <2>1
    <2>4. /\ DOMAIN start = 1 .. top /\ start[1] = 1
          /\ \A n \in 2 .. top : start[n] = Set!EndOf(t, delim, start[n - 1]) + 1
      BY ONLY <1>3, <2>2, <2>3, StartsAre, top \in Nat
    <2> QED BY ONLY <2>1, <2>4
  <1>5. Set!EndOf(t, delim, 1) = a + 1
    <2>1. PICK e \in Nat : e = a + 1
      BY <1>0
    <2>2. /\ 1 <= e /\ e <= Len(t) + 1 /\ t[e] = delim
          /\ \A k \in 1 .. e - 1 : t[k] # delim
      BY <1>0, <1>1, <1>2, <2>1
    <2>3. Set!EndOf(t, delim, 1) = e
      <3>1. PICK start0 \in Nat : start0 = 1
        OBVIOUS
      <3>2. /\ 1 <= start0 /\ start0 <= e /\ \A k \in start0 .. e - 1 : t[k] # delim
            /\ e <= Len(t) => t[e] = delim
        BY <2>2, <3>1
      <3>3. t \in Seq(T) /\ 1 <= e /\ e <= Len(t) + 1
        BY <1>2, <2>2
      <3>4. Set!EndOf(t, delim, start0) = e
        BY ONLY <3>2, <3>3, EndIs
      <3> QED BY <3>1, <3>4
    <2> QED BY <2>1, <2>3
  <1>6. start[2] = a + 2
    <2>1. start[2] = Set!EndOf(t, delim, start[2 - 1]) + 1
      BY <1>4
    <2> QED BY <1>4, <1>5, <2>1
  <1> DEFINE S == {n \in DOMAIN start : n = 1 + 1 \/ Set!EndOf(t, delim, start[n]) = Len(t) + 1}
  <1>7. Set!Min(S) = 2
    <2>1. 2 \in S /\ S \subseteq Nat /\ 1 \notin S
      BY <1>0, <1>2, <1>4, <1>5
    <2>2. \A n \in S : 2 <= n
      BY <1>4, <2>1
    <2> HIDE DEF S
    <2> QED BY <2>1, <2>2, MinIs
  <1>8. PICK kv : kv = Set!Split(t, delim, 1)
    OBVIOUS
  <1>9. kv = [n \in 1 .. 2 |->
                SubSeq(t, start[n], IF n = 2 THEN Len(t) ELSE Set!EndOf(t, delim, start[n]) - 1)]
    BY <1>3, <1>7, <1>8 DEF Set!Split
  <1>10. kv[1] = SubSeq(t, 1, a) /\ kv[2] = SubSeq(t, a + 2, a + 1 + b)
    <2>1. kv[1] = SubSeq(t, start[1], Set!EndOf(t, delim, start[1]) - 1)
      <3>1. 1 \in 1 .. 2 /\ 1 # 2
        OBVIOUS
      <3> QED BY <1>9, <3>1
    <2>2. kv[2] = SubSeq(t, start[2], Len(t))
      <3>1. 2 \in 1 .. 2
        OBVIOUS
      <3> QED BY <1>9, <3>1
    <2>3. Set!EndOf(t, delim, start[1]) - 1 = a
      BY <1>4, <1>5
    <2> QED BY <1>0, <1>2, <1>4, <1>6, <2>1, <2>2, <2>3
  <1>11. Len(kv) = 2
    <2>1. PICK x, y : x = kv[1] /\ y = kv[2]
      OBVIOUS
    <2>2. kv = <<x, y>>
      BY <1>9, <2>1
    <2> QED BY <2>2
  <1>12. kv[1] = u
    <2>1. PICK w : w = SubSeq(t, 1, a)
      OBVIOUS
    <2>2. \A k \in 1 .. a : t[k] \in T
      BY <1>0, <1>2
    <2>3. w \in Seq(T) /\ Len(w) = a /\ \A k \in 1 .. a : w[k] = t[1 + k - 1]
      <3>1. PICK m \in Int : m = 1
        OBVIOUS
      <3>2. /\ w \in Seq(T) /\ Len(w) = IF m <= a THEN a - m + 1 ELSE 0
            /\ \A k \in 1 .. a - m + 1 : w[k] = t[m + k - 1]
        BY <1>0, <2>1, <2>2, <3>1, SubSeqProperties
      <3> QED BY <1>0, <3>1, <3>2
    <2>4. \A k \in 1 .. a : w[k] = u[k]
      BY <1>0, <1>2, <2>3
    <2>6. u \in Seq(T) /\ Len(u) = a
      BY <1>0 DEF TextParts
    <2>5. w = u
      BY <2>3, <2>6, <2>4, SeqEqual
    <2> QED BY <1>10, <2>1, <2>5
  <1>13. kv[2] = v
    <2>1. PICK w : w = SubSeq(t, a + 2, a + 1 + b)
      OBVIOUS
    <2>2. \A k \in a + 2 .. a + 1 + b : t[k] \in T
      BY <1>0, <1>2
    <2>3. w \in Seq(T) /\ Len(w) = b /\ \A k \in 1 .. b : w[k] = t[a + 1 + k]
      <3>1. PICK m \in Int, n \in Int : m = a + 2 /\ n = a + 1 + b
        BY <1>0
      <3>2. /\ w \in Seq(T) /\ Len(w) = IF m <= n THEN n - m + 1 ELSE 0
            /\ \A k \in 1 .. n - m + 1 : w[k] = t[m + k - 1]
        BY <1>0, <2>1, <2>2, <3>1, SubSeqProperties
      <3>3. n - m + 1 = b /\ \A k \in 1 .. b : m + k - 1 = a + 1 + k
        BY <1>0, <3>1
      <3>4. Len(w) = b
        BY <1>0, <3>2, <3>3
      <3> QED BY <3>2, <3>3, <3>4
    <2>4. \A k \in 1 .. b : w[k] = v[k]
      BY <1>0, <1>2, <2>3
    <2>6. v \in Seq(T) /\ Len(v) = b
      BY <1>0 DEF TextParts
    <2>5. w = v
      BY <2>3, <2>6, <2>4, SeqEqual
    <2> QED BY <1>10, <2>1, <2>5
  <1>14. u = p[1] /\ v = p[2]
    BY <1>0 DEF TextParts
  <1> QED BY <1>8, <1>11, <1>12, <1>13, <1>14

\* Texts, joined up to each of them: where one begins in the whole, and that
\* it is there, with a separator behind it unless it is the last.
Begin(joined, n) == IF n = 1 THEN 1 ELSE Len(joined[n - 1]) + 2
Placed(joined, text, sep, s, n) ==
  /\ Len(joined[n]) \in Nat /\ Begin(joined, n) \in Nat
  /\ 1 <= Begin(joined, n) /\ n <= Len(joined[n])
  /\ Len(joined[n]) = Begin(joined, n) + Len(text[n]) - 1
  /\ Len(joined[n]) <= Len(s)
  /\ \A k \in 1 .. Len(text[n]) : s[Begin(joined, n) + k - 1] = text[n][k]
  /\ Len(joined[n]) < Len(s) => s[Len(joined[n]) + 1] = sep

\* A piece stays where it is when others follow.
LEMMA StillPlaced ==
  ASSUME NEW T, NEW joined, NEW text, NEW sep, NEW n \in Nat, text[n] \in Seq(T),
         NEW s \in Seq(T), NEW r \in Seq(T), Len(s) < Len(r),
         \A k \in 1 .. Len(s) : r[k] = s[k], r[Len(s) + 1] = sep,
         Placed(joined, text, sep, s, n)
  PROVE  Placed(joined, text, sep, r, n)
  <1>1. PICK e \in Nat, b \in Nat, c \in Nat, d \in Nat, g \in Nat :
          /\ e = Len(joined[n]) /\ b = Begin(joined, n) /\ c = Len(text[n])
          /\ d = Len(s) /\ g = Len(r)
    <2>1. Len(text[n]) \in Nat /\ Len(s) \in Nat /\ Len(r) \in Nat
      OBVIOUS
    <2> QED BY <2>1 DEF Placed
  <1>2. /\ 1 <= b /\ n <= e /\ e = b + c - 1 /\ e <= d
        /\ \A k \in 1 .. c : s[b + k - 1] = text[n][k]
        /\ e < d => s[e + 1] = sep
    BY <1>1 DEF Placed
  <1>3. d < g /\ (\A k \in 1 .. d : r[k] = s[k]) /\ r[d + 1] = sep
    BY <1>1
  <1>4. ASSUME NEW k \in 1 .. c PROVE r[b + k - 1] = text[n][k]
    <2>1. b + k - 1 \in 1 .. d
      BY <1>2
    <2> QED BY <1>2, <1>3, <2>1
  <1>5. r[e + 1] = sep
    <2>1. CASE e < d
      <3>1. e + 1 \in 1 .. d
        BY <2>1
      <3> QED BY <1>2, <1>3, <2>1, <3>1
    <2>2. CASE e = d
      BY <1>3, <2>2
    <2> QED BY <1>2, <2>1, <2>2
  <1>6. e <= g
    BY <1>2, <1>3
  <1> QED BY <1>1, <1>2, <1>4, <1>5, <1>6 DEF Placed

Joining(joined, text, sep, top) ==
  /\ 1 <= top => joined[1] = text[1]
  /\ \A n \in 2 .. top : joined[n] = joined[n - 1] \o <<sep>> \o text[n]

\* So every piece is where it was put.
LEMMA PiecesArePlaced ==
  ASSUME NEW T, NEW sep \in T, NEW top \in Nat, NEW text, NEW joined,
         \A n \in 1 .. top : text[n] \in Seq(T) /\ 1 <= Len(text[n]),
         Joining(joined, text, sep, top)
  PROVE  \A m \in 1 .. top :
           joined[m] \in Seq(T) /\ \A n \in 1 .. m : Placed(joined, text, sep, joined[m], n)
  <1> DEFINE Q(m) ==
               joined[m] \in Seq(T) /\ \A n \in 1 .. m : Placed(joined, text, sep, joined[m], n)
             P == {m \in 0 .. top : m = 0 \/ Q(m)}
  <1>1. 0 \in P
    OBVIOUS
  <1>2. ASSUME NEW m \in 0 .. top - 1, m \in P PROVE m + 1 \in P
    <2>0. m + 1 \in 1 .. top /\ (m + 1) - 1 = m /\ m + 1 \in 0 .. top
      OBVIOUS
    <2>1. CASE m = 0
      <3>1. PICK t \in Seq(T) : t = text[1] /\ t = joined[1] /\ 1 <= Len(t)
        BY <2>0, <2>1 DEF Joining
      <3>2. PICK c \in Nat : c = Len(t)
        OBVIOUS
      <3>3. Begin(joined, 1) = 1 /\ \A k \in 1 .. c : 1 + k - 1 = k
        BY DEF Begin
      <3>4. Placed(joined, text, sep, t, 1)
        BY <3>1, <3>2, <3>3 DEF Placed
      <3>5. Q(1)
        BY <3>1, <3>4
      <3> QED BY <2>0, <2>1, <3>5
    <2>2. CASE m # 0
      <3>1. PICK s \in Seq(T) : s = joined[m] /\ \A n \in 1 .. m : Placed(joined, text, sep, s, n)
        BY <1>2, <2>2
      <3>2. PICK t \in Seq(T) : t = text[m + 1] /\ 1 <= Len(t)
        BY <2>0
      <3>3. PICK r : r = s \o <<sep>> \o t
        OBVIOUS
      <3>4. /\ r \in Seq(T) /\ Len(r) = Len(s) + 1 + Len(t)
            /\ \A k \in 1 .. Len(s) : r[k] = s[k]
            /\ r[Len(s) + 1] = sep
            /\ \A k \in 1 .. Len(t) : r[Len(s) + 1 + k] = t[k]
        BY <3>3, TextIs
      <3>5. r = joined[m + 1]
        <4>1. m + 1 \in 2 .. top
          BY <2>0, <2>2
        <4> QED BY <2>0, <3>1, <3>2, <3>3, <4>1 DEF Joining
      <3>6. ASSUME NEW n \in 1 .. m PROVE Placed(joined, text, sep, r, n)
        <4>0. PICK d \in Nat, c \in Nat : d = Len(s) /\ c = Len(t)
          OBVIOUS
        <4>1. Len(s) < Len(r) /\ n \in Nat /\ n \in 1 .. top
          <5>1. Len(r) = d + 1 + c
            BY <3>4, <4>0
          <5>2. n \in Nat /\ n \in 1 .. top
            OBVIOUS
          <5> QED BY <4>0, <5>1, <5>2
        <4>2. text[n] \in Seq(T)
          BY <4>1
        <4> QED BY <3>1, <3>4, <4>1, <4>2, StillPlaced
      <3>7. Placed(joined, text, sep, r, m + 1)
        <4>1. PICK d \in Nat, c \in Nat, q \in Nat : d = Len(s) /\ c = Len(t) /\ q = m + 1
          OBVIOUS
        <4>2. Begin(joined, q) = d + 2
          BY <2>0, <2>2, <3>1, <4>1 DEF Begin
        <4>3. m <= d
          <5>1. Placed(joined, text, sep, s, m)
            BY <2>2, <3>1
          <5> QED BY <3>1, <4>1, <5>1 DEF Placed
        <4>4. Len(r) = d + 1 + c /\ 1 <= c /\ \A k \in 1 .. c : r[d + 2 + k - 1] = t[k]
          <5>1. \A k \in 1 .. c : d + 2 + k - 1 = d + 1 + k
            OBVIOUS
          <5> QED BY <3>2, <3>4, <4>1, <5>1
        <4>5. text[q] = t /\ joined[q] = r
          BY <3>2, <3>5, <4>1
        <4>6. q <= d + 1 + c
          BY <4>1, <4>3
        <4>7. PICK b \in Nat, e \in Nat : b = d + 2 /\ e = d + 1 + c
          OBVIOUS
        <4>8. /\ Len(joined[q]) = e /\ Len(r) = e /\ Begin(joined, q) = b /\ Len(text[q]) = c
              /\ \A k \in 1 .. c : r[b + k - 1] = text[q][k]
          BY <4>1, <4>2, <4>4, <4>5, <4>7
        <4>9. 1 <= b /\ q <= e /\ e = b + c - 1 /\ e <= e /\ ~(e < e)
          BY <4>6, <4>7
        <4>10. Placed(joined, text, sep, r, q)
          BY <4>8, <4>9 DEF Placed
        <4> QED BY <4>1, <4>10
      <3>8. \A n \in 1 .. m + 1 : n \in 1 .. m \/ n = m + 1
        OBVIOUS
      <3>9. Q(m + 1)
        BY <3>4, <3>5, <3>6, <3>7, <3>8
      <3> QED BY <2>0, <3>9
    <2> QED BY <2>1, <2>2
  <1>3. \A m \in 0 .. top : m \in P
    <2> HIDE DEF P
    <2> QED BY <1>1, <1>2, Upwards
  <1> QED BY <1>3

\* Texts that were joined are split again.
LEMMA PiecesAreSplit ==
  ASSUME NEW T, NEW sep \in T, NEW top \in Nat, 1 <= top, NEW text, NEW joined,
         \A n \in 1 .. top : /\ text[n] \in Seq(T) /\ 1 <= Len(text[n])
                             /\ \A k \in 1 .. Len(text[n]) : text[n][k] # sep,
         Joining(joined, text, sep, top),
         NEW s, s = joined[top]
  PROVE  LET pieces == Set!Split(s, sep, Set!All(s))
         IN /\ s \in Seq(T) /\ s # <<>> /\ Len(pieces) = top
            /\ \A n \in 1 .. top : pieces[n] = text[n]
  <1>1. s \in Seq(T) /\ \A n \in 1 .. top : Placed(joined, text, sep, s, n)
    <2>1. \A n \in 1 .. top : text[n] \in Seq(T) /\ 1 <= Len(text[n])
      OBVIOUS
    <2>2. \A m \in 1 .. top :
            joined[m] \in Seq(T) /\ \A n \in 1 .. m : Placed(joined, text, sep, joined[m], n)
      BY <2>1, PiecesArePlaced
    <2>3. top \in 1 .. top
      OBVIOUS
    <2> QED BY <2>2, <2>3
  <1>2. PICK total \in Nat : total = Len(s)
    BY <1>1
  <1>3. PICK start : start = Set!StartsOf(s, sep)
    OBVIOUS
  <1>4. /\ DOMAIN start = 1 .. total + 1 /\ start[1] = 1
        /\ \A n \in 2 .. total + 1 : start[n] = Set!EndOf(s, sep, start[n - 1]) + 1
    <2>1. PICK e \in Nat : e = total + 1 /\ e = Len(s) + 1 /\ 1 <= e
      BY <1>2
    <2> QED BY <1>3, <2>1, StartsAre
  <1>5. Len(joined[top]) = total
    BY <1>2
  <1>6. ASSUME NEW n \in 1 .. top
        PROVE  /\ Begin(joined, n) \in Nat /\ 1 <= Begin(joined, n)
               /\ Len(joined[n]) \in Nat /\ n <= Len(joined[n])
               /\ Len(joined[n]) = Begin(joined, n) + Len(text[n]) - 1
               /\ Len(joined[n]) <= total
               /\ \A k \in 1 .. Len(text[n]) : s[Begin(joined, n) + k - 1] = text[n][k]
               /\ Len(joined[n]) < total => s[Len(joined[n]) + 1] = sep
    BY <1>1, <1>2 DEF Placed
  <1>7. ASSUME NEW n \in 1 .. top
        PROVE  Set!EndOf(s, sep, Begin(joined, n)) = Len(joined[n]) + 1
    <2>1. PICK b \in Nat, c \in Nat, e \in Nat :
            b = Begin(joined, n) /\ c = Len(text[n]) /\ e = Len(joined[n]) + 1
      <3>1. Len(text[n]) \in Nat
        OBVIOUS
      <3>2. Begin(joined, n) \in Nat /\ Len(joined[n]) + 1 \in Nat
        BY <1>6
      <3> QED BY <3>1, <3>2
    <2>2. /\ 1 <= b /\ e = b + c /\ e <= total + 1
          /\ \A k \in 1 .. c : s[b + k - 1] = text[n][k]
          /\ e <= total => s[e] = sep
      <3>0. e - 1 = Len(joined[n])
        BY <1>6, <2>1
      <3>1. /\ 1 <= b /\ e - 1 = b + c - 1 /\ e - 1 <= total
        BY <1>6, <2>1, <3>0
      <3>3. \A k \in 1 .. c : s[b + k - 1] = text[n][k]
        BY <1>6, <2>1
      <3>2. e - 1 < total => s[e] = sep
        BY <1>6, <2>1
      <3>4. e = b + c /\ e <= total + 1
        BY <3>1
      <3> QED BY <3>1, <3>2, <3>3, <3>4
    <2>3. ASSUME NEW j \in b .. e - 1 PROVE s[j] # sep
      <3>1. PICK k \in 1 .. c : j = b + k - 1
        <4>1. j - b + 1 \in 1 .. c /\ j = b + (j - b + 1) - 1
          BY <2>2
        <4> QED BY <4>1
      <3>2. text[n][k] # sep
        BY <2>1
      <3> QED BY <2>2, <3>1, <3>2
    <2>4. b <= e
      BY <2>2
    <2>5. Set!EndOf(s, sep, b) = e
      <3>1. e <= Len(s) + 1 /\ (e <= Len(s) => s[e] = sep) /\ 1 <= b /\ b <= e
        BY <1>2, <2>2, <2>4
      <3>2. s \in Seq(T)
        BY <1>1
      <3>3. \A j \in b .. e - 1 : s[j] # sep
        BY <2>3
      <3> QED BY <3>1, <3>2, <3>3, EndIs
    <2> QED BY <2>1, <2>5
  <1>8. ASSUME NEW n \in 1 .. top PROVE n \in 1 .. total + 1 /\ start[n] = Begin(joined, n)
    <2>1. \A k \in 1 .. top : k \in 1 .. total + 1
      BY <1>6
    <2> DEFINE P == {k \in 0 .. top : k = 0 \/ start[k] = Begin(joined, k)}
    <2>2. 0 \in P
      OBVIOUS
    <2>3. ASSUME NEW k \in 0 .. top - 1, k \in P PROVE k + 1 \in P
      <3>1. CASE k = 0
        BY <1>4, <3>1 DEF Begin
      <3>2. CASE k # 0
        <4>1. PICK j \in 1 .. top : j = k + 1 /\ j - 1 = k /\ j # 1
          BY <3>2
        <4>2. k \in 1 .. top /\ start[k] = Begin(joined, k)
          BY <2>3, <3>2
        <4>3. start[j] = Set!EndOf(s, sep, start[k]) + 1
          <5>1. j \in 2 .. total + 1
            <6>1. j \in 1 .. total + 1
              BY <2>1
            <6> QED BY <4>1, <6>1
          <5> QED BY <1>4, <4>1, <5>1
        <4>4. Set!EndOf(s, sep, start[k]) = Len(joined[k]) + 1
          BY <1>7, <4>2
        <4>5. Begin(joined, j) = Len(joined[k]) + 2
          BY <4>1 DEF Begin
        <4>6. start[j] = Begin(joined, j)
          BY <1>6, <4>2, <4>3, <4>4, <4>5
        <4> QED BY <4>1, <4>6
      <3> QED BY <3>1, <3>2
    <2>4. \A k \in 0 .. top : k \in P
      <3> HIDE DEF P
      <3> QED BY <2>2, <2>3, Upwards
    <2>5. n \in 0 .. top /\ n # 0
      OBVIOUS
    <2>6. start[n] = Begin(joined, n)
      BY <2>4, <2>5
    <2> QED BY <2>1, <2>6
  <1> DEFINE S == {n \in DOMAIN start : \/ n = Set!All(s) + 1
                                        \/ Set!EndOf(s, sep, start[n]) = Len(s) + 1}
  <1>9. ASSUME NEW n \in 1 .. top - 1 PROVE Len(joined[n]) < total
    <2>1. PICK j \in 1 .. top : j = n + 1 /\ j - 1 = n /\ j # 1
      OBVIOUS
    <2>2. Begin(joined, j) = Len(joined[n]) + 2
      BY <2>1 DEF Begin
    <2>3. PICK b \in Nat, c \in Nat, e \in Nat, d \in Nat :
            b = Begin(joined, j) /\ c = Len(text[j]) /\ e = Len(joined[j]) /\ d = Len(joined[n])
      <3>1. Len(text[j]) \in Nat /\ n \in 1 .. top
        OBVIOUS
      <3>2. Begin(joined, j) \in Nat /\ Len(joined[j]) \in Nat
        BY <1>6
      <3>3. Len(joined[n]) \in Nat
        BY <1>6, <3>1
      <3> QED BY <3>1, <3>2, <3>3
    <2>4. e = b + c - 1 /\ e <= total /\ b = d + 2 /\ 1 <= c
      BY <1>6, <2>2, <2>3
    <2>5. d < total
      BY <2>4
    <2> QED BY <2>3, <2>5
  <1>10. Set!Min(S) = top
    <2>1. top \in 1 .. top /\ Set!EndOf(s, sep, start[top]) = Len(s) + 1
      <3>1. top \in 1 .. top
        OBVIOUS
      <3> QED BY <1>2, <1>5, <1>7, <1>8, <3>1
    <2>2. top \in S
      BY <1>4, <1>8, <2>1
    <2>3. S \subseteq Nat
      BY <1>4
    <2>4. ASSUME NEW n \in S PROVE top <= n
      <3>1. ASSUME n < top PROVE FALSE
        <4>1. n \in 1 .. top - 1 /\ n \in 1 .. top
          BY <1>4, <2>4, <3>1
        <4>2. /\ Set!EndOf(s, sep, start[n]) = Len(joined[n]) + 1
              /\ Len(joined[n]) < total /\ n <= Len(joined[n])
              /\ Len(joined[n]) \in Nat
          BY <1>6, <1>7, <1>8, <1>9, <4>1
        <4>3. n = total + 1 \/ Set!EndOf(s, sep, start[n]) = total + 1
          BY <1>2, <2>4 DEF Set!All
        <4> QED BY <4>1, <4>2, <4>3
      <3> QED BY <1>4, <2>4, <3>1
    <2> HIDE DEF S
    <2> QED BY <2>2, <2>3, <2>4, MinIs
  <1>11. PICK pieces : pieces = Set!Split(s, sep, Set!All(s))
    OBVIOUS
  <1>12. pieces = [n \in 1 .. top |->
                     SubSeq(s, start[n],
                            IF n = top THEN Len(s) ELSE Set!EndOf(s, sep, start[n]) - 1)]
    BY <1>3, <1>10, <1>11 DEF Set!Split
  <1>13. ASSUME NEW n \in 1 .. top PROVE pieces[n] = text[n]
    <2>1. PICK t \in Seq(T) : t = text[n]
      OBVIOUS
    <2>2. PICK b \in Int, c \in Nat, e \in Int :
            b = Begin(joined, n) /\ c = Len(t) /\ e = Len(joined[n])
      <3>1. Len(t) \in Nat
        OBVIOUS
      <3>2. Begin(joined, n) \in Int /\ Len(joined[n]) \in Int
        BY <1>6
      <3> QED BY <3>1, <3>2
    <2>3. e = b + c - 1 /\ \A k \in 1 .. c : s[b + k - 1] = t[k]
      BY <1>6, <2>1, <2>2
    <2>4. pieces[n] = SubSeq(s, start[n],
                             IF n = top THEN Len(s) ELSE Set!EndOf(s, sep, start[n]) - 1)
      BY <1>12
    <2>5. start[n] = b
      BY <1>8, <2>2
    <2>6. (IF n = top THEN Len(s) ELSE Set!EndOf(s, sep, start[n]) - 1) = e
      <3>1. CASE n = top
        BY <1>2, <1>5, <2>2, <3>1
      <3>2. CASE n # top
        <4>1. Set!EndOf(s, sep, start[n]) = e + 1
          BY <1>7, <1>8, <2>2
        <4> QED BY <3>2, <4>1
      <3> QED BY <3>1, <3>2
    <2>7. PICK w : w = SubSeq(s, b, e)
      OBVIOUS
    <2>8. ASSUME NEW j \in b .. e PROVE s[j] \in T
      <3>1. PICK k \in 1 .. c : j = b + k - 1
        <4>1. j - b + 1 \in 1 .. c /\ j = b + (j - b + 1) - 1
          BY <2>3
        <4> QED BY <4>1
      <3>2. t[k] \in T
        BY <2>2
      <3> QED BY <2>3, <3>1, <3>2
    <2>9. /\ w \in Seq(T) /\ Len(w) = IF b <= e THEN e - b + 1 ELSE 0
          /\ \A k \in 1 .. e - b + 1 : w[k] = s[b + k - 1]
      BY <2>7, <2>8, SubSeqProperties
    <2>10. e - b + 1 = c /\ Len(w) = c
      BY <2>3, <2>9
    <2>11. \A k \in 1 .. c : w[k] = t[k]
      BY <2>3, <2>9, <2>10
    <2>12. w = t
      BY <2>2, <2>9, <2>10, <2>11, SeqEqual
    <2> QED BY <2>1, <2>4, <2>5, <2>6, <2>7, <2>12
  <1>14. Len(pieces) = top
    <2>1. pieces \in [1 .. top -> {pieces[n] : n \in 1 .. top}]
      BY <1>12
    <2>2. PICK X : pieces \in [1 .. top -> X]
      BY <2>1
    <2> QED BY <2>2
  <1>15. s # <<>>
    <2>1. 1 <= total
      <3>1. top \in 1 .. top
        OBVIOUS
      <3>2. top <= Len(joined[top])
        BY <1>6, <3>1
      <3> QED BY <1>5, <3>2
    <2> QED BY <1>2, <2>1
  <1> QED BY <1>1, <1>11, <1>13, <1>14, <1>15

KeyIn(pairs, n, lowered) == IF lowered THEN Set!Lower(pairs[n][1]) ELSE pairs[n][1]

\* What is known after some of the pairs: their keys, with their first values.
FirstValues(pairs, map, n, lowered) ==
  /\ DOMAIN map = {KeyIn(pairs, m, lowered) : m \in 1 .. n}
  /\ \A m \in 1 .. n : (\A j \in 1 .. m - 1 : KeyIn(pairs, j, lowered) # KeyIn(pairs, m, lowered))
       => map[KeyIn(pairs, m, lowered)] = pairs[m][2]

\* Every key of a list gets its first value.
LEMMA ListIsRead ==
  ASSUME NEW T, NEW delim, NEW lowered \in BOOLEAN, NEW X, NEW pairs \in Seq(X), Len(pairs) # 0,
         \A n \in 1 .. Len(pairs) : IsItem(pairs[n], delim, T)
  PROVE  FirstValues(pairs, Set!ParsePairs(Join(pairs, delim), delim, lowered), Len(pairs), lowered)
  <1>1. PICK top \in Nat : top = Len(pairs) /\ 1 <= top
    OBVIOUS
  <1>2. DOMAIN pairs = 1 .. top /\ pairs # <<>> /\ \A n \in 1 .. top : IsItem(pairs[n], delim, T)
    BY <1>1
  <1>3. PICK joined : joined = Joined(pairs, delim)
    OBVIOUS
  <1>4. PICK text : text = [n \in 1 .. top |-> PairText(pairs[n], delim)]
    OBVIOUS
  <1>5. /\ joined[1] = text[1]
        /\ \A n \in 2 .. top : joined[n] = joined[n - 1] \o <<Set!Separator>> \o text[n]
    <2>1. /\ joined[1] = PairText(pairs[1], delim)
          /\ \A n \in 2 .. top : joined[n] = AddText(joined[n - 1], pairs[n], delim)
      BY <1>1, <1>2, <1>3, JoinedAre
    <2>2. \A n \in 1 .. top : text[n] = PairText(pairs[n], delim)
      BY <1>4
    <2>3. ASSUME NEW n \in 2 .. top PROVE joined[n] = joined[n - 1] \o <<Set!Separator>> \o text[n]
      <3>1. /\ joined[n] = AddText(joined[n - 1], pairs[n], delim)
            /\ text[n] = PairText(pairs[n], delim)
        BY <2>1, <2>2
      <3> QED BY <3>1, Zenon DEF AddText
    <2>4. joined[1] = text[1]
      <3>1. 1 \in 1 .. top
        BY <1>1
      <3>2. joined[1] = PairText(pairs[1], delim)
        BY <2>1
      <3> QED BY <2>2, <3>1, <3>2
    <2> QED BY <2>3, <2>4
  <1>6. Joining(joined, text, Set!Separator, top)
    BY <1>5 DEF Joining
  <1>7. ASSUME NEW n \in 1 .. top
        PROVE  /\ text[n] \in Seq(T) /\ 1 <= Len(text[n])
               /\ \A k \in 1 .. Len(text[n]) : text[n][k] # Set!Separator
    <2>1. PICK p, t : p = pairs[n] /\ t = text[n] /\ t = PairText(p, delim) /\ IsItem(p, delim, T)
      BY <1>2, <1>4
    <2>2. PICK u, v, a, b : TextParts(p, delim, T, t, u, v, a, b)
      BY <2>1, PairTextIs
    <2>3. /\ a \in Nat /\ b \in Nat /\ t \in Seq(T) /\ Len(t) = a + 1 + b
          /\ \A k \in 1 .. Len(t) : t[k] # Set!Separator
      BY <2>2 DEF TextParts
    <2>4. 1 <= Len(t)
      BY <2>3
    <2> QED BY <2>1, <2>3, <2>4
  <1>8. PICK s, pieces : s = joined[top] /\ pieces = Set!Split(s, Set!Separator, Set!All(s))
    OBVIOUS
  <1>9. s # <<>> /\ Len(pieces) = top /\ \A n \in 1 .. top : pieces[n] = text[n]
    <2>1. Set!Separator \in T
      BY <1>1, <1>2 DEF IsItem
    <2> QED BY <1>1, <1>6, <1>7, <1>8, <2>1, PiecesAreSplit
  <1>10. s = Join(pairs, delim)
    BY <1>1, <1>2, <1>3, <1>8 DEF Join
  <1>11. PICK After : After = Set!PairsRead(pieces, delim, lowered)
    OBVIOUS
  <1>12. Set!ParsePairs(Join(pairs, delim), delim, lowered) = After[top]
    BY <1>8, <1>9, <1>10, <1>11 DEF Set!ParsePairs
  <1>13. /\ After[0] = Set!NoMap
         /\ \A n \in 1 .. top : After[n] = Set!AddPair(After[n - 1], pieces[n], delim, lowered)
    <2>1. Len(pieces) \in Nat
      BY <1>9
    <2> QED BY <1>9, <1>11, <2>1, PairsReadAre
  <1>14. ASSUME NEW n \in 1 .. top
         PROVE  After[n] = Set!Insert(After[n - 1], KeyIn(pairs, n, lowered), pairs[n][2])
    <2>1. PICK p, t : p = pairs[n] /\ t = pieces[n] /\ t = PairText(p, delim) /\ IsItem(p, delim, T)
      BY <1>2, <1>4, <1>9
    <2>2. PICK kv : kv = Set!Split(t, delim, 1)
      OBVIOUS
    <2>3. Len(kv) = 2 /\ kv[1] = p[1] /\ kv[2] = p[2]
      BY <2>1, <2>2, ItemIsSplit
    <2>4. PICK map : map = After[n - 1]
      OBVIOUS
    <2>5. Set!AddPair(map, t, delim, lowered) = Set!Insert(map, KeyIn(pairs, n, lowered), p[2])
      BY <2>1, <2>2, <2>3 DEF Set!AddPair, KeyIn
    <2> QED BY <1>13, <2>1, <2>4, <2>5
  <1> DEFINE P == {n \in 0 .. top : FirstValues(pairs, After[n], n, lowered)}
  <1>15. 0 \in P
    BY <1>13 DEF FirstValues, Set!NoMap
  <1>16. ASSUME NEW n \in 0 .. top - 1, n \in P PROVE n + 1 \in P
    <2>1. PICK q \in 1 .. top : q = n + 1 /\ q - 1 = n
      OBVIOUS
    <2>2. PICK map, key, value, new :
            /\ map = After[n] /\ key = KeyIn(pairs, q, lowered)
            /\ value = pairs[q][2] /\ new = After[q]
      OBVIOUS
    <2>3. new = Set!Insert(map, key, value)
      BY <1>14, <2>1, <2>2
    <2>4. /\ DOMAIN map = {KeyIn(pairs, m, lowered) : m \in 1 .. n}
          /\ \A m \in 1 .. n :
               (\A j \in 1 .. m - 1 : KeyIn(pairs, j, lowered) # KeyIn(pairs, m, lowered))
               => map[KeyIn(pairs, m, lowered)] = pairs[m][2]
      BY <1>16, <2>2 DEF FirstValues
    <2>5. /\ DOMAIN new = DOMAIN map \cup {key}
          /\ \A k \in DOMAIN map : new[k] = map[k]
          /\ key \notin DOMAIN map => new[key] = value
      BY <2>3 DEF Set!Insert, Set!Put
    <2>6. \A m \in 1 .. q : m \in 1 .. n \/ m = q
      BY <2>1
    <2>7. DOMAIN new = {KeyIn(pairs, m, lowered) : m \in 1 .. q}
      <3>1. \A m \in 1 .. n : m \in 1 .. q
        BY <2>1
      <3>2. q \in 1 .. q
        BY <2>1
      <3> QED BY <2>2, <2>4, <2>5, <2>6, <3>1, <3>2
    <2>8. ASSUME NEW m \in 1 .. q,
                 \A j \in 1 .. m - 1 : KeyIn(pairs, j, lowered) # KeyIn(pairs, m, lowered)
          PROVE  new[KeyIn(pairs, m, lowered)] = pairs[m][2]
      <3>1. CASE m \in 1 .. n
        BY <2>4, <2>5, <2>8, <3>1
      <3>2. CASE m = q
        <4>1. key \notin DOMAIN map
          BY <2>1, <2>2, <2>4, <2>8, <3>2
        <4> QED BY <2>2, <2>5, <3>2, <4>1
      <3> QED BY <2>6, <3>1, <3>2
    <2>9. FirstValues(pairs, new, q, lowered)
      BY <2>7, <2>8 DEF FirstValues
    <2> QED BY <2>1, <2>2, <2>9
  <1>17. \A n \in 0 .. top : n \in P
    <2> HIDE DEF P
    <2> QED BY <1>15, <1>16, Upwards
  <1>18. FirstValues(pairs, After[top], top, lowered)
    BY <1>17
  <1> QED BY <1>1, <1>12, <1>18

\* The pairs that are sampled.
LEMMA PairsAreItems ==
  ASSUME NEW p \in Pairs, NEW delim \in {"=", ":"}
  PROVE  IsItem(p, delim, {"a", "A", "b", "=", ":", ";"})
  <1>1. PICK eq, co, T : eq = "=" /\ co = ":" /\ T = {"a", "A", "b", "=", ":", ";"}
    OBVIOUS
  <1>2. /\ eq \notin {"a", "A", "b"} /\ co \notin {"a", "A", "b"}
        /\ Set!Separator \notin {"a", "A", "b"}
        /\ Set!Separator # eq /\ Set!Separator # co
        /\ eq \in T /\ co \in T /\ "a" \in T /\ "A" \in T /\ "b" \in T /\ Set!Separator \in T
    BY <1>1, Zenon DEF Set!Separator
  <1>3. p \in {<<"a">>, <<"A">>, <<"b", "a">>} \X {<<>>, <<"b">>, <<eq, "b">>, <<co, "a">>}
    BY <1>1, Zenon DEF Pairs
  <1>4. delim \in {eq, co}
    BY <1>1, Zenon
  <1>5. PICK u \in {<<"a">>, <<"A">>, <<"b", "a">>},
             v \in {<<>>, <<"b">>, <<eq, "b">>, <<co, "a">>} :
          u = p[1] /\ v = p[2]
    BY <1>3
  <1>6. u \in Seq(T) /\ \A k \in 1 .. Len(u) : u[k] \notin {Set!Separator, delim}
    <2>1. CASE u = <<"a">>
      BY <1>2, <1>4, <2>1
    <2>2. CASE u = <<"A">>
      BY <1>2, <1>4, <2>2
    <2>3. CASE u = <<"b", "a">>
      BY <1>2, <1>4, <2>3
    <2> QED BY <2>1, <2>2, <2>3
  <1>7. v \in Seq(T) /\ \A k \in 1 .. Len(v) : v[k] # Set!Separator
    <2>1. CASE v = <<>>
      BY <2>1
    <2>2. CASE v = <<"b">>
      BY <1>2, <2>2
    <2>3. CASE v = <<eq, "b">>
      BY <1>2, <2>3
    <2>4. CASE v = <<co, "a">>
      BY <1>2, <2>4
    <2> QED BY <2>1, <2>2, <2>3, <2>4
  <1>8. IsItem(p, delim, T)
    BY <1>2, <1>4, <1>5, <1>6, <1>7 DEF IsItem
  <1> QED BY <1>1, <1>8, Zenon

\* The lists that are sampled give every key its first value.
LEMMA ListsAreRead ==
  ASSUME NEW pairs \in Seq(Pairs), NEW delim \in {"=", ":"}, NEW lowered \in BOOLEAN
  PROVE  LET map == Set!ParsePairs(Join(pairs, delim), delim, lowered)
         IN /\ DOMAIN map = {KeyIn(pairs, n, lowered) : n \in DOMAIN pairs}
            /\ \A k \in DOMAIN map :
                 map[k] = pairs[Xml!Min({n \in DOMAIN pairs : KeyIn(pairs, n, lowered) = k})][2]
  <1>1. PICK map : map = Set!ParsePairs(Join(pairs, delim), delim, lowered)
    OBVIOUS
  <1>2. CASE Len(pairs) = 0
    <2>1. pairs = <<>> /\ DOMAIN pairs = {}
      BY <1>2
    <2>2. map = Set!NoMap
      BY <1>1, <2>1 DEF Set!ParsePairs, Join
    <2> QED BY <1>1, <2>1, <2>2 DEF Set!NoMap
  <1>3. CASE Len(pairs) # 0
    <2>1. PICK T : \A n \in 1 .. Len(pairs) : IsItem(pairs[n], delim, T)
      <3>1. PICK T : T = {"a", "A", "b", "=", ":", ";"}
        OBVIOUS
      <3>2. ASSUME NEW n \in 1 .. Len(pairs) PROVE IsItem(pairs[n], delim, T)
        <4>1. PICK p \in Pairs : p = pairs[n]
          OBVIOUS
        <4>2. IsItem(p, delim, {"a", "A", "b", "=", ":", ";"})
          BY PairsAreItems
        <4> QED BY <3>1, <4>1, <4>2, Zenon
      <3> QED BY <3>2, Zenon
    <2>2. FirstValues(pairs, map, Len(pairs), lowered)
      BY <1>1, <1>3, <2>1, ListIsRead
    <2>3. DOMAIN map = {KeyIn(pairs, n, lowered) : n \in DOMAIN pairs}
      BY <2>2 DEF FirstValues
    <2>4. ASSUME NEW k \in DOMAIN map
          PROVE  map[k] = pairs[Xml!Min({n \in DOMAIN pairs : KeyIn(pairs, n, lowered) = k})][2]
      <3> DEFINE S == {n \in DOMAIN pairs : KeyIn(pairs, n, lowered) = k}
      <3>1. S \subseteq Nat /\ S # {}
        BY <2>3
      <3>2. PICK m \in S : \A n \in S : m <= n
        <4> HIDE DEF S
        <4> QED BY <3>1, LowestOf
      <3>3. Xml!Min(S) = m
        <4> HIDE DEF S
        <4> QED BY <3>1, <3>2, MinIs
      <3>4. m \in 1 .. Len(pairs) /\ KeyIn(pairs, m, lowered) = k
        OBVIOUS
      <3>5. \A j \in 1 .. m - 1 : KeyIn(pairs, j, lowered) # KeyIn(pairs, m, lowered)
        <4>1. ASSUME NEW j \in 1 .. m - 1, KeyIn(pairs, j, lowered) = k PROVE FALSE
          <5>1. j \in S
            BY <3>4, <4>1
          <5> HIDE DEF S
          <5> QED BY <3>2, <3>4, <5>1
        <4> QED BY <3>4, <4>1
      <3> HIDE DEF S
      <3>6. map[k] = pairs[m][2]
        BY <2>2, <3>4, <3>5 DEF FirstValues
      <3> QED BY <3>3, <3>6 DEF S
    <2> QED BY <1>1, <2>3, <2>4
  <1> QED BY <1>2, <1>3

\* Second part of SettingsRead.
ListRead(pairs) ==
  LET FirstWith(k, lower) ==
        Xml!Min({n \in DOMAIN pairs : (IF lower THEN Set!Lower(pairs[n][1]) ELSE pairs[n][1]) = k})
      params  == Set!ParseParams(Join(pairs, Set!Equals))
      headers == Set!ParseHeaders(Join(pairs, Set!Colon))
  IN /\ DOMAIN params = {pairs[n][1] : n \in DOMAIN pairs}
     /\ \A k \in DOMAIN params : params[k] = pairs[FirstWith(k, FALSE)][2]
     /\ DOMAIN headers = {Set!Lower(pairs[n][1]) : n \in DOMAIN pairs}
     /\ \A k \in DOMAIN headers : headers[k] = pairs[FirstWith(k, TRUE)][2]

\* Every sampled list is read.
LEMMA SampledListIsRead ==
  ASSUME NEW input \in Seq(Pairs)
  PROVE  ListRead(input)
  <1>1. PICK params, headers : /\ params = Set!ParseParams(Join(input, Set!Equals))
                               /\ headers = Set!ParseHeaders(Join(input, Set!Colon))
    OBVIOUS
  <1>2. /\ DOMAIN params = {input[n][1] : n \in DOMAIN input}
        /\ \A k \in DOMAIN params :
             params[k] = input[Xml!Min({n \in DOMAIN input : KeyIn(input, n, FALSE) = k})][2]
    <2>1. PICK eq : eq = Set!Equals /\ eq \in {"=", ":"}
      BY Zenon DEF Set!Equals
    <2>2. params = Set!ParsePairs(Join(input, eq), eq, FALSE)
      BY <1>1, <2>1, Zenon DEF Set!ParseParams
    <2>3. /\ DOMAIN params = {KeyIn(input, n, FALSE) : n \in DOMAIN input}
          /\ \A k \in DOMAIN params :
               params[k] = input[Xml!Min({n \in DOMAIN input : KeyIn(input, n, FALSE) = k})][2]
      BY <2>1, <2>2, ListsAreRead, Zenon
    <2> QED BY <2>3 DEF KeyIn
  <1>3. /\ DOMAIN headers = {Set!Lower(input[n][1]) : n \in DOMAIN input}
        /\ \A k \in DOMAIN headers :
             headers[k] = input[Xml!Min({n \in DOMAIN input : KeyIn(input, n, TRUE) = k})][2]
    <2>1. PICK co : co = Set!Colon /\ co \in {"=", ":"}
      BY Zenon DEF Set!Colon
    <2>2. headers = Set!ParsePairs(Join(input, co), co, TRUE)
      BY <1>1, <2>1, Zenon DEF Set!ParseHeaders
    <2>3. /\ DOMAIN headers = {KeyIn(input, n, TRUE) : n \in DOMAIN input}
          /\ \A k \in DOMAIN headers :
               headers[k] = input[Xml!Min({n \in DOMAIN input : KeyIn(input, n, TRUE) = k})][2]
      BY <2>1, <2>2, ListsAreRead, Zenon
    <2> QED BY <2>3 DEF KeyIn
  <1> QED BY <1>1, <1>2, <1>3 DEF ListRead, KeyIn

-----------------------------------------------------------------------------
(* Headers of answers.                                                     *)

\* The signs are no words.
LEMMA SignsAreNoWords ==
  LET Words == {"Content", "content", "Length", "length", "x", "meta", "etag", "ETag", "e1",
                "e2", "W", "date", "tue", "10", "20", "empty", "5", "7"}
      Signs == {Ans!Space, Ans!Colon, Ans!Dash, Ans!Slash, Ans!Quote, Ans!Entity}
  IN /\ \A w \in Words : w \notin Signs
     /\ Ans!Space \notin {Ans!Colon, Ans!Dash, Ans!Slash, Ans!Quote, Ans!Entity}
     /\ Ans!Colon \notin {Ans!Dash, Ans!Slash, Ans!Quote, Ans!Entity}
     /\ Ans!Dash \notin {Ans!Slash, Ans!Quote, Ans!Entity}
     /\ Ans!Slash \notin {Ans!Quote, Ans!Entity}
  BY Zenon DEF Ans!Space, Ans!Colon, Ans!Dash, Ans!Slash, Ans!Quote, Ans!Entity

\* The names that are looked for.
Sought == {"Length", "length", "ETag", "etag"}

\* The names that are sought are told apart in either case of their letters.
LEMMA SoughtNames ==
  /\ \A w : Ans!Lower(w) = "length" <=> w \in {"Length", "length"}
  /\ \A w : Ans!Lower(w) = "etag" <=> w \in {"ETag", "etag"}
  <1>1. ASSUME NEW w PROVE /\ Ans!Lower(w) = "length" <=> w \in {"Length", "length"}
                           /\ Ans!Lower(w) = "etag" <=> w \in {"ETag", "etag"}
    <2>1. CASE w = "Length"
      BY <2>1 DEF Ans!Lower
    <2>2. CASE w = "ETag"
      BY <2>2 DEF Ans!Lower
    <2>3. CASE w \notin {"Length", "ETag"}
      <3>1. Ans!Lower(w) = w
        BY <2>3 DEF Ans!Lower
      <3> QED BY <2>3, <3>1
    <2> QED BY <2>1, <2>2, <2>3
  <1> QED BY <1>1

\* A header: its name ends with the only name that is looked for.
IsHeader(u, v, T) ==
  /\ u \in Seq(T) /\ v \in Seq(T) /\ {Ans!Space, Ans!Colon} \subseteq T
  /\ 1 <= Len(u) /\ u[Len(u)] \notin Ans!Marks
  /\ \A k \in 1 .. Len(u) - 1 : u[k] \notin Sought
  /\ \A k \in 1 .. Len(v) : v[k] \notin Sought
  /\ u[Len(u)] \in {"Length", "length"} =>
       /\ 2 <= Len(u) /\ u[Len(u) - 1] = Ans!Dash
       /\ v \in {<<"5">>, <<"7">>}
  /\ u[Len(u)] \in {"ETag", "etag"} =>
       /\ 1 <= Len(v) /\ \A k \in 1 .. Len(v) : v[k] # Ans!Space
       /\ Ans!TrimETag(v) = IF v[1] \in {Ans!Quote, Ans!Entity} THEN <<"e1">> ELSE v

\* Everything an answer of the samples is made of.
AnswerPieces ==
  {"Content", "content", "Length", "length", "x", "meta", "etag", "ETag", "e1", "e2", "W",
   "date", "tue", "10", "20", "empty", "5", "7",
   Ans!Space, Ans!Colon, Ans!Dash, Ans!Slash, Ans!Quote, Ans!Entity}

\* No sign between the words is a name that is sought.
LEMMA SignsNotSought ==
  \A s \in {Ans!Space, Ans!Colon, Ans!Dash, Ans!Slash, Ans!Quote, Ans!Entity} : s \notin Sought
  BY SignsAreNoWords DEF Sought

\* Every line of the samples has the form of a header.
LEMMA LinesAreHeaders ==
  ASSUME NEW line \in AnswerLines
  PROVE  IsHeader(line[1], line[2], AnswerPieces)
  <1> DEFINE T == AnswerPieces
             sp == Ans!Space
             co == Ans!Colon
             da == Ans!Dash
             sl == Ans!Slash
             qu == Ans!Quote
             en == Ans!Entity
  <1>0. PICK space, colon, dash, slash, quote, entity :
          /\ space = Ans!Space /\ colon = Ans!Colon /\ dash = Ans!Dash /\ slash = Ans!Slash
          /\ quote = Ans!Quote /\ entity = Ans!Entity
    OBVIOUS
  <1>1. /\ {space, colon, dash, slash, quote, entity} \subseteq T
        /\ Ans!Marks = {space, quote, entity, colon, dash, slash}
        /\ \A s \in {space, colon, dash, slash, quote, entity} : s \notin Sought
        /\ \A w \in {"Content", "content", "Length", "length", "x", "meta", "etag", "ETag", "e1",
                     "e2", "W", "date", "tue", "10", "20", "empty", "5", "7"} :
             w \notin {space, colon, dash, slash, quote, entity}
        /\ space \notin {colon, dash, slash, quote, entity}
        /\ slash \notin {quote, entity}
    BY <1>0, SignsAreNoWords, SignsNotSought DEF AnswerPieces, Ans!Marks
  <1>2. {"Content", "content", "Length", "length", "x", "meta", "etag", "ETag", "e1", "e2", "W",
         "date", "tue", "10", "20", "empty", "5", "7"} \subseteq T
    BY DEF AnswerPieces
  <1>3. PICK u, v : u = line[1] /\ v = line[2]
    OBVIOUS
  <1>4. \/ u = <<"Content", dash, "Length">> /\ v = <<"5">>
        \/ u = <<"content", dash, "length">> /\ v = <<"5">>
        \/ u = <<"x", dash, "meta", dash, "length">> /\ v = <<"7">>
        \/ u = <<"x", dash, "meta", dash, "etag">> /\ v = <<"e2">>
        \/ u = <<"ETag">> /\ v = <<quote, "e1", quote>>
        \/ u = <<"ETag">> /\ v = <<"W", slash, quote, "e1", quote>>
        \/ u = <<"ETag">> /\ v = <<entity, "e1", entity>>
        \/ u = <<"date">> /\ v = <<"tue", space, "10", colon, "20">>
        \/ u = <<"x", dash, "empty">> /\ v = <<>>
    BY <1>0, <1>3 DEF AnswerLines, CapitalLength, LowerLength
  <1> HIDE DEF T
  <1>5. IsHeader(u, v, T)
    <2>1. CASE u = <<"Content", dash, "Length">> /\ v = <<"5">>
      <3>1. u \in Seq(T) /\ Len(u) = 3 /\ v \in Seq(T) /\ Len(v) = 1
        BY <1>1, <1>2, <2>1
      <3> QED BY <1>0, <1>1, <2>1, <3>1 DEF IsHeader, Sought
    <2>2. CASE u = <<"content", dash, "length">> /\ v = <<"5">>
      <3>1. u \in Seq(T) /\ Len(u) = 3 /\ v \in Seq(T) /\ Len(v) = 1
        BY <1>1, <1>2, <2>2
      <3> QED BY <1>0, <1>1, <2>2, <3>1 DEF IsHeader, Sought
    <2>3. CASE u = <<"x", dash, "meta", dash, "length">> /\ v = <<"7">>
      <3>1. u \in Seq(T) /\ Len(u) = 5 /\ v \in Seq(T) /\ Len(v) = 1
        BY <1>1, <1>2, <2>3
      <3> QED BY <1>0, <1>1, <2>3, <3>1 DEF IsHeader, Sought
    <2>4. CASE u = <<"x", dash, "meta", dash, "etag">> /\ v = <<"e2">>
      <3>1. u \in Seq(T) /\ Len(u) = 5 /\ v \in Seq(T) /\ Len(v) = 1
        BY <1>1, <1>2, <2>4
      <3>2. Ans!TrimETag(v) = IF v[1] \in {quote, entity} THEN <<"e1">> ELSE v
        <4>1. v[1] \notin {Ans!Quote, Ans!Entity}
          BY <1>0, <1>1, <2>4
        <4> QED BY <1>0, <4>1 DEF Ans!TrimETag
      <3> QED BY <1>0, <1>1, <2>4, <3>1, <3>2 DEF IsHeader, Sought
    <2>5. CASE u = <<"ETag">> /\ v = <<quote, "e1", quote>>
      <3>1. u \in Seq(T) /\ Len(u) = 1 /\ v \in Seq(T) /\ Len(v) = 3
        BY <1>1, <1>2, <2>5
      <3>2. Ans!TrimETag(v) = IF v[1] \in {quote, entity} THEN <<"e1">> ELSE v
        <4>1. v[1] \in {Ans!Quote, Ans!Entity} /\ v # <<>> /\ Len(v) - 1 = 2
          BY <1>0, <2>5, <3>1
        <4>2. Ans!TrimETag(v) = SubSeq(v, 2, 2)
          BY <4>1 DEF Ans!TrimETag
        <4>3. SubSeq(v, 2, 2) = <<"e1">>
          <5>0. PICK m \in Int : m = 2
            OBVIOUS
          <5>1. PICK w : w = SubSeq(v, m, m)
            OBVIOUS
          <5>2. \A k \in m .. m : v[k] \in T
            BY <3>1, <5>0
          <5>3. w \in Seq(T) /\ Len(w) = 1 /\ w[1] = v[2]
            <6>1. /\ w \in Seq(T) /\ Len(w) = IF m <= m THEN m - m + 1 ELSE 0
                  /\ \A k \in 1 .. m - m + 1 : w[k] = v[m + k - 1]
              BY <5>1, <5>2, SubSeqProperties
            <6> QED BY <5>0, <6>1
          <5>4. v[2] = "e1"
            BY <2>5
          <5>5. PICK e : e = <<"e1">>
            OBVIOUS
          <5>6. e \in Seq(T) /\ Len(e) = 1 /\ e[1] = "e1"
            BY <1>2, <5>5
          <5>7. w = e
            BY <5>3, <5>4, <5>6, SeqEqual
          <5> QED BY <5>0, <5>1, <5>5, <5>7
        <4> QED BY <1>0, <4>1, <4>2, <4>3
      <3> QED BY <1>0, <1>1, <2>5, <3>1, <3>2 DEF IsHeader, Sought
    <2>6. CASE u = <<"ETag">> /\ v = <<"W", slash, quote, "e1", quote>>
      <3>1. u \in Seq(T) /\ Len(u) = 1 /\ v \in Seq(T) /\ Len(v) = 5
        BY <1>1, <1>2, <2>6
      <3>2. Ans!TrimETag(v) = IF v[1] \in {quote, entity} THEN <<"e1">> ELSE v
        <4>1. v[1] \notin {Ans!Quote, Ans!Entity}
          BY <1>0, <1>1, <2>6
        <4> QED BY <1>0, <4>1 DEF Ans!TrimETag
      <3> QED BY <1>0, <1>1, <2>6, <3>1, <3>2 DEF IsHeader, Sought
    <2>9. CASE u = <<"ETag">> /\ v = <<entity, "e1", entity>>
      <3>1. u \in Seq(T) /\ Len(u) = 1 /\ v \in Seq(T) /\ Len(v) = 3
        BY <1>1, <1>2, <2>9
      <3>2. Ans!TrimETag(v) = IF v[1] \in {quote, entity} THEN <<"e1">> ELSE v
        <4>1. v[1] \in {Ans!Quote, Ans!Entity} /\ v # <<>> /\ Len(v) - 1 = 2
          BY <1>0, <2>9, <3>1
        <4>2. Ans!TrimETag(v) = SubSeq(v, 2, 2)
          BY <4>1 DEF Ans!TrimETag
        <4>3. SubSeq(v, 2, 2) = <<"e1">>
          <5>0. PICK m \in Int : m = 2
            OBVIOUS
          <5>1. PICK w : w = SubSeq(v, m, m)
            OBVIOUS
          <5>2. \A k \in m .. m : v[k] \in T
            BY <3>1, <5>0
          <5>3. w \in Seq(T) /\ Len(w) = 1 /\ w[1] = v[2]
            <6>1. /\ w \in Seq(T) /\ Len(w) = IF m <= m THEN m - m + 1 ELSE 0
                  /\ \A k \in 1 .. m - m + 1 : w[k] = v[m + k - 1]
              BY <5>1, <5>2, SubSeqProperties
            <6> QED BY <5>0, <6>1
          <5>4. v[2] = "e1"
            BY <2>9
          <5>5. PICK e : e = <<"e1">>
            OBVIOUS
          <5>6. e \in Seq(T) /\ Len(e) = 1 /\ e[1] = "e1"
            BY <1>2, <5>5
          <5>7. w = e
            BY <5>3, <5>4, <5>6, SeqEqual
          <5> QED BY <5>0, <5>1, <5>5, <5>7
        <4> QED BY <1>0, <4>1, <4>2, <4>3
      <3> QED BY <1>0, <1>1, <2>9, <3>1, <3>2 DEF IsHeader, Sought
    <2>7. CASE u = <<"date">> /\ v = <<"tue", space, "10", colon, "20">>
      <3>1. u \in Seq(T) /\ Len(u) = 1 /\ v \in Seq(T) /\ Len(v) = 5
        BY <1>1, <1>2, <2>7
      <3> QED BY <1>0, <1>1, <2>7, <3>1 DEF IsHeader, Sought
    <2>8. CASE u = <<"x", dash, "empty">> /\ v = <<>>
      <3>1. u \in Seq(T) /\ Len(u) = 3 /\ v \in Seq(T) /\ Len(v) = 0
        BY <1>1, <1>2, <2>8
      <3> QED BY <1>0, <1>1, <2>8, <3>1 DEF IsHeader, Sought
    <2> QED BY <1>4, <2>1, <2>2, <2>3, <2>4, <2>5, <2>6, <2>7, <2>8, <2>9
  <1> QED BY <1>3, <1>5 DEF T

\* One text behind another.
LEMMA BehindIs ==
  ASSUME NEW T, NEW s \in Seq(T), NEW t \in Seq(T)
  PROVE  LET r == s \o t
         IN /\ r \in Seq(T) /\ Len(r) = Len(s) + Len(t)
            /\ \A k \in 1 .. Len(s) : r[k] = s[k]
            /\ \A k \in 1 .. Len(t) : r[Len(s) + k] = t[k]
  <1>1. PICK r : r = s \o t
    OBVIOUS
  <1>2. PICK a \in Nat, b \in Nat : a = Len(s) /\ b = Len(t)
    OBVIOUS
  <1>3. /\ r \in Seq(T) /\ Len(r) = a + b
        /\ \A k \in 1 .. a + b : r[k] = IF k <= a THEN s[k] ELSE t[k - a]
    BY <1>1, <1>2, ConcatProperties
  <1>4. ASSUME NEW k \in 1 .. b PROVE r[a + k] = t[k]
    <2>1. a + k \in 1 .. a + b /\ ~(a + k <= a) /\ (a + k) - a = k
      OBVIOUS
    <2> QED BY <1>3, <2>1
  <1>5. ASSUME NEW k \in 1 .. a PROVE r[k] = s[k]
    BY <1>3
  <1> QED BY <1>1, <1>2, <1>3, <1>4, <1>5

\* The text of a header.
LineParts(u, v, t, T) ==
  /\ t \in Seq(T) /\ Len(t) = Len(u) + Len(v) + 3
  /\ \A k \in 1 .. Len(u) : t[k] = u[k]
  /\ t[Len(u) + 1] = Ans!Colon /\ t[Len(u) + 2] = Ans!Space
  /\ \A k \in 1 .. Len(v) : t[Len(u) + 2 + k] = v[k]
  /\ t[Len(u) + Len(v) + 3] = Ans!Space

\* Where the parts of a header are in its text.
LEMMA LineTextIs ==
  ASSUME NEW line, NEW T, IsHeader(line[1], line[2], T)
  PROVE  LineParts(line[1], line[2], LineText(line), T)
  <1>1. PICK u \in Seq(T), v \in Seq(T), co \in T, sp \in T :
          u = line[1] /\ v = line[2] /\ co = Ans!Colon /\ sp = Ans!Space
    BY DEF IsHeader
  <1>2. PICK a \in Nat, b \in Nat : a = Len(u) /\ b = Len(v)
    OBVIOUS
  <1>3. PICK empty : empty = <<>>
    OBVIOUS
  <1>4. PICK front, e : front = <<sp>> \o v /\ e = <<sp>>
    OBVIOUS
  <1>5. e \in Seq(T) /\ Len(e) = 1 /\ e[1] = sp
    BY <1>4
  <1>6. /\ front \in Seq(T) /\ Len(front) = 1 + b /\ front[1] = sp
        /\ \A k \in 1 .. b : front[1 + k] = v[k]
    <2>1. PICK one \in Nat : one = 1
      OBVIOUS
    <2>0. front = e \o v /\ Len(e) = one /\ Len(v) = b
      BY <1>2, <1>4, <1>5, <2>1
    <2>2. /\ front \in Seq(T) /\ Len(front) = one + b
          /\ \A k \in 1 .. one : front[k] = e[k]
          /\ \A k \in 1 .. b : front[one + k] = v[k]
      <3>1. /\ front \in Seq(T) /\ Len(front) = Len(e) + Len(v)
            /\ \A k \in 1 .. Len(e) : front[k] = e[k]
            /\ \A k \in 1 .. Len(v) : front[Len(e) + k] = v[k]
        <4>1. e \in Seq(T) /\ front = e \o v
          BY <1>5, <2>0
        <4> QED BY ONLY <4>1, BehindIs
      <3> QED BY <2>0, <3>1
    <2> QED BY <1>4, <1>5, <2>1, <2>2
  <1>7. PICK back : back = front \o e
    OBVIOUS
  <1>8. /\ back \in Seq(T) /\ Len(back) = b + 2 /\ back[1] = sp
        /\ \A k \in 1 .. b : back[1 + k] = v[k]
        /\ back[b + 2] = sp
    <2>1. PICK one \in Nat, c \in Nat : one = 1 /\ c = 1 + b
      OBVIOUS
    <2>2. /\ back \in Seq(T) /\ Len(back) = c + one
          /\ \A k \in 1 .. c : back[k] = front[k]
          /\ \A k \in 1 .. one : back[c + k] = e[k]
      <3>1. Len(front) = c /\ Len(e) = one
        BY <1>5, <1>6, <2>1
      <3>2. /\ back \in Seq(T) /\ Len(back) = Len(front) + Len(e)
            /\ \A k \in 1 .. Len(front) : back[k] = front[k]
            /\ \A k \in 1 .. Len(e) : back[Len(front) + k] = e[k]
        <4>1. e \in Seq(T) /\ front \in Seq(T)
          BY <1>5, <1>6
        <4> QED BY ONLY <1>7, <4>1, BehindIs
      <3> QED BY <3>1, <3>2
    <2>3. \A k \in 1 .. b : 1 + k \in 1 .. c
      BY <2>1
    <2>4. 1 \in 1 .. c /\ 1 \in 1 .. one /\ c + 1 = b + 2
      BY <2>1
    <2> QED BY <1>5, <1>6, <2>1, <2>2, <2>3, <2>4
  <1>9. PICK t : t = u \o <<co>> \o back
    OBVIOUS
  <1>10. /\ t \in Seq(T) /\ Len(t) = a + 1 + (b + 2)
         /\ \A k \in 1 .. a : t[k] = u[k]
         /\ t[a + 1] = co
         /\ \A k \in 1 .. b + 2 : t[a + 1 + k] = back[k]
    <2>1. /\ t \in Seq(T) /\ Len(t) = Len(u) + 1 + Len(back)
          /\ \A k \in 1 .. Len(u) : t[k] = u[k]
          /\ t[Len(u) + 1] = co
          /\ \A k \in 1 .. Len(back) : t[Len(u) + 1 + k] = back[k]
      <3>1. back \in Seq(T)
        BY <1>8
      <3> QED BY ONLY <1>9, <3>1, TextIs, u \in Seq(T), co \in T
    <2>2. Len(back) = b + 2 /\ Len(u) = a
      BY <1>2, <1>8
    <2> QED BY <2>1, <2>2
  <1>11. t[a + 2] = sp /\ t[a + b + 3] = sp
    <2>1. /\ 1 \in 1 .. b + 2 /\ b + 2 \in 1 .. b + 2
          /\ a + 1 + 1 = a + 2 /\ a + 1 + (b + 2) = a + b + 3
      OBVIOUS
    <2> QED BY <1>8, <1>10, <2>1
  <1>12. ASSUME NEW k \in 1 .. b PROVE t[a + 2 + k] = v[k]
    <2>1. 1 + k \in 1 .. b + 2 /\ a + 1 + (1 + k) = a + 2 + k
      OBVIOUS
    <2> QED BY <1>8, <1>10, <2>1
  <1>13. t = LineText(line)
    BY <1>1, <1>4, <1>7, <1>9 DEF LineText
  <1>14. Len(t) = a + b + 3
    BY <1>10
  <1>15. LineParts(u, v, t, T)
    BY <1>1, <1>2, <1>10, <1>11, <1>12, <1>14 DEF LineParts
  <1> QED BY <1>1, <1>13, <1>15

\* A header u: v in a text, its name ending at a place.
Told(text, at, u, v) ==
  /\ at \in Nat /\ 1 <= Len(u) /\ Len(u) <= at /\ at + Len(v) + 3 <= Len(text)
  /\ \A k \in 1 .. Len(u) : text[at - Len(u) + k] = u[k]
  /\ text[at + 1] = Ans!Colon /\ text[at + 2] = Ans!Space
  /\ \A k \in 1 .. Len(v) : text[at + 2 + k] = v[k]
  /\ text[at + Len(v) + 3] = Ans!Space

\* Headers in a text, one behind the other; what is looked for ends a name.
Laid(lines, top, at, text, T) ==
  /\ text \in Seq(T)
  /\ \A n \in 1 .. top : Told(text, at[n], lines[n][1], lines[n][2])
  /\ \A m, n \in 1 .. top : m < n => at[m] < at[n]
  /\ \A k \in 1 .. Len(text) : text[k] \in Sought => \E n \in 1 .. top : k = at[n]

\* A header that is told stays told when the text grows.
LEMMA StillTold ==
  ASSUME NEW T, NEW text \in Seq(T), NEW r \in Seq(T), NEW at,
         NEW u \in Seq(T), NEW v \in Seq(T), Told(text, at, u, v),
         Len(text) <= Len(r), \A k \in 1 .. Len(text) : r[k] = text[k]
  PROVE  Told(r, at, u, v)
  <1>1. PICK a \in Nat, b \in Nat, c \in Nat, d \in Nat, e \in Nat :
          a = Len(u) /\ b = Len(v) /\ c = Len(text) /\ d = Len(r) /\ e = at
    BY DEF Told
  <1>2. /\ 1 <= a /\ a <= e /\ e + b + 3 <= c /\ c <= d
        /\ \A k \in 1 .. a : text[e - a + k] = u[k]
        /\ text[e + 1] = Ans!Colon /\ text[e + 2] = Ans!Space
        /\ \A k \in 1 .. b : text[e + 2 + k] = v[k]
        /\ text[e + b + 3] = Ans!Space
    BY <1>1 DEF Told
  <1>3. \A k \in 1 .. c : r[k] = text[k]
    BY <1>1
  <1>4. /\ \A k \in 1 .. a : e - a + k \in 1 .. c
        /\ \A k \in 1 .. b : e + 2 + k \in 1 .. c
        /\ e + 1 \in 1 .. c /\ e + 2 \in 1 .. c /\ e + b + 3 \in 1 .. c /\ e + b + 3 <= d
    <2>1. 1 <= a /\ a <= e /\ e + b + 3 <= c /\ c <= d
      BY <1>2
    <2>2. ASSUME NEW k \in 1 .. a PROVE e - a + k \in 1 .. c
      BY <2>1
    <2>3. ASSUME NEW k \in 1 .. b PROVE e + 2 + k \in 1 .. c
      BY <2>1
    <2>4. e + 1 \in 1 .. c /\ e + 2 \in 1 .. c /\ e + b + 3 \in 1 .. c /\ e + b + 3 <= d
      BY <2>1
    <2> QED BY <2>2, <2>3, <2>4
  <1> QED BY <1>1, <1>2, <1>3, <1>4 DEF Told

\* A text with one header more.
LEMMA HeaderAdded ==
  ASSUME NEW T, NEW lines, NEW m \in Nat, NEW at, NEW s, Laid(lines, m, at, s, T),
         \A n \in 1 .. m + 1 : IsHeader(lines[n][1], lines[n][2], T),
         NEW t, LineParts(lines[m + 1][1], lines[m + 1][2], t, T),
         at[m + 1] = Len(s) + Len(lines[m + 1][1])
  PROVE  Laid(lines, m + 1, at, s \o t, T)
  <1>1. PICK q \in Nat : q = m + 1
    OBVIOUS
  <1>2. PICK u \in Seq(T), v \in Seq(T) : u = lines[q][1] /\ v = lines[q][2]
    <2>1. q \in 1 .. m + 1
      BY <1>1
    <2> QED BY <1>1, <2>1 DEF IsHeader
  <1>3. PICK a \in Nat, b \in Nat, c \in Nat, e \in Nat :
          a = Len(u) /\ b = Len(v) /\ c = Len(s) /\ e = at[q]
    <2>1. Len(u) \in Nat /\ Len(v) \in Nat
      OBVIOUS
    <2>2. Len(s) \in Nat
      BY DEF Laid
    <2>3. at[q] = Len(s) + Len(u)
      BY <1>1, <1>2
    <2>4. at[q] \in Nat
      BY ONLY <2>1, <2>2, <2>3
    <2> QED BY ONLY <2>1, <2>2, <2>4
  <1>4. e = c + a
    BY <1>1, <1>2, <1>3
  <1>5. /\ IsHeader(u, v, T)
        /\ LineParts(u, v, t, T)
    BY <1>1, <1>2
  <1>6. /\ t \in Seq(T) /\ Len(t) = a + b + 3
        /\ \A k \in 1 .. a : t[k] = u[k]
        /\ t[a + 1] = Ans!Colon /\ t[a + 2] = Ans!Space
        /\ \A k \in 1 .. b : t[a + 2 + k] = v[k]
        /\ t[a + b + 3] = Ans!Space
    BY <1>3, <1>5 DEF LineParts
  <1>7. PICK d \in Nat : d = a + b + 3
    OBVIOUS
  <1>8. PICK r : r = s \o t
    OBVIOUS
  <1>9. /\ r \in Seq(T) /\ Len(r) = c + d
        /\ \A k \in 1 .. c : r[k] = s[k]
        /\ \A k \in 1 .. d : r[c + k] = t[k]
    <2>1. s \in Seq(T)
      BY DEF Laid
    <2>2. Len(s) = c /\ Len(t) = d
      BY <1>3, <1>6, <1>7
    <2>3. /\ r \in Seq(T) /\ Len(r) = Len(s) + Len(t)
          /\ \A k \in 1 .. Len(s) : r[k] = s[k]
          /\ \A k \in 1 .. Len(t) : r[Len(s) + k] = t[k]
      <3>1. t \in Seq(T)
        BY <1>6
      <3> QED BY ONLY <1>8, <2>1, <3>1, BehindIs
    <2> QED BY <2>2, <2>3
  <1>10. 1 <= a
    BY <1>3, <1>5 DEF IsHeader
  <1>11. Told(r, e, u, v)
    <2>1. /\ \A k \in 1 .. a : e - a + k = c + k /\ k \in 1 .. d
          /\ \A k \in 1 .. b : e + 2 + k = c + (a + 2 + k) /\ a + 2 + k \in 1 .. d
          /\ e + 1 = c + (a + 1) /\ a + 1 \in 1 .. d
          /\ e + 2 = c + (a + 2) /\ a + 2 \in 1 .. d
          /\ e + b + 3 = c + (a + b + 3) /\ a + b + 3 \in 1 .. d
      BY <1>4, <1>7
    <2>2. a <= e /\ e + b + 3 <= c + d
      BY <1>4, <1>7
    <2>3. \A k \in 1 .. a : r[e - a + k] = u[k]
      BY <1>6, <1>9, <2>1
    <2>4. ASSUME NEW k \in 1 .. b PROVE r[e + 2 + k] = v[k]
      <3>1. e + 2 + k = c + (a + 2 + k) /\ a + 2 + k \in 1 .. d
        BY <2>1
      <3>2. r[c + (a + 2 + k)] = t[a + 2 + k]
        BY <1>9, <3>1
      <3> QED BY <1>6, <3>1, <3>2
    <2>5. r[e + 1] = Ans!Colon /\ r[e + 2] = Ans!Space /\ r[e + b + 3] = Ans!Space
      <3>1. /\ r[c + (a + 1)] = t[a + 1] /\ r[c + (a + 2)] = t[a + 2]
            /\ r[c + (a + b + 3)] = t[a + b + 3]
        BY <1>9, <2>1
      <3> QED BY <1>6, <2>1, <3>1
    <2> QED BY <1>3, <1>9, <1>10, <2>2, <2>3, <2>4, <2>5 DEF Told
  <1>12. ASSUME NEW n \in 1 .. q PROVE Told(r, at[n], lines[n][1], lines[n][2])
    <2>1. CASE n = q
      BY <1>2, <1>3, <1>11, <2>1
    <2>2. CASE n \in 1 .. m
      <3>1. PICK f, g : f = lines[n][1] /\ g = lines[n][2]
        OBVIOUS
      <3>2. f \in Seq(T) /\ g \in Seq(T)
        <4>1. n \in 1 .. m + 1
          BY <2>2
        <4> QED BY <3>1, <4>1 DEF IsHeader
      <3>3. s \in Seq(T) /\ Told(s, at[n], f, g)
        BY <2>2, <3>1 DEF Laid
      <3>4. Len(s) <= Len(r) /\ \A k \in 1 .. Len(s) : r[k] = s[k]
        BY <1>3, <1>9
      <3>5. PICK h : h = at[n]
        OBVIOUS
      <3>6. Told(r, h, f, g)
        BY <1>9, <3>2, <3>3, <3>4, <3>5, StillTold
      <3> QED BY <3>1, <3>5, <3>6
    <2> QED BY <1>1, <2>1, <2>2
  <1>13. ASSUME NEW i \in 1 .. q, NEW n \in 1 .. q, i < n PROVE at[i] < at[n]
    <2>1. CASE n \in 1 .. m
      <3>1. i \in 1 .. m
        BY <1>13, <2>1
      <3> QED BY <1>13, <2>1, <3>1 DEF Laid
    <2>2. CASE n = q
      <3>1. i \in 1 .. m
        BY <1>1, <1>13, <2>2
      <3>2. Told(s, at[i], lines[i][1], lines[i][2])
        BY <3>1 DEF Laid
      <3>3. PICK f \in Nat, g \in Nat : f = at[i] /\ g = Len(lines[i][2])
        <4>1. i \in 1 .. m + 1
          BY <3>1
        <4>2. lines[i][2] \in Seq(T)
          BY <4>1 DEF IsHeader
        <4>3. Len(lines[i][2]) \in Nat
          BY ONLY <4>2
        <4>4. at[i] \in Nat
          BY ONLY <3>2 DEF Told
        <4> QED BY ONLY <4>3, <4>4
      <3>4. f + g + 3 <= c
        BY <1>3, <3>2, <3>3 DEF Told
      <3>5. f < e
        BY <1>4, <3>4
      <3> QED BY <1>3, <2>2, <3>3, <3>5
    <2> QED BY <1>1, <2>1, <2>2
  <1>14. ASSUME NEW k \in 1 .. c + d, r[k] \in Sought PROVE \E n \in 1 .. q : k = at[n]
    <2>1. CASE k \in 1 .. c
      <3>1. s[k] \in Sought
        BY <1>9, <1>14, <2>1
      <3>2. PICK n \in 1 .. m : k = at[n]
        BY <1>3, <2>1, <3>1 DEF Laid
      <3> QED BY <1>1, <3>2
    <2>2. CASE k \in c + 1 .. c + d
      <3>1. PICK j \in 1 .. d : k = c + j
        <4>1. k - c \in 1 .. d /\ k = c + (k - c)
          BY <2>2
        <4> QED BY <4>1
      <3>2. t[j] \in Sought
        BY <1>9, <1>14, <3>1
      <3>3. CASE j \in 1 .. a - 1
        <4>1. t[j] = u[j] /\ u[j] \notin Sought
          <5>1. j \in 1 .. a
            BY <3>3
          <5> QED BY <1>3, <1>5, <1>6, <3>3, <5>1 DEF IsHeader
        <4> QED BY <3>2, <4>1
      <3>4. CASE j = a
        <4>1. k = e
          BY <1>4, <3>1, <3>4
        <4>2. q \in 1 .. q
          BY <1>1
        <4> QED BY <1>3, <4>1, <4>2
      <3>5. CASE j = a + 1 \/ j = a + 2 \/ j = a + b + 3
        <4>1. t[j] \in {Ans!Colon, Ans!Space}
          BY <1>6, <3>5
        <4> QED BY <3>2, <4>1, SignsNotSought
      <3>6. CASE j \in a + 3 .. a + b + 2
        <4>1. PICK i \in 1 .. b : j = a + 2 + i
          <5>1. j - (a + 2) \in 1 .. b /\ j = a + 2 + (j - (a + 2))
            BY <3>6
          <5> QED BY <5>1
        <4>2. t[j] = v[i] /\ v[i] \notin Sought
          BY <1>3, <1>5, <1>6, <4>1 DEF IsHeader
        <4> QED BY <3>2, <4>2
      <3>7. j \in 1 .. a + b + 3
        BY <1>7
      <3>8. \/ j \in 1 .. a - 1 \/ j = a
            \/ j = a + 1 \/ j = a + 2 \/ j = a + b + 3
            \/ j \in a + 3 .. a + b + 2
        BY <1>10, <3>7
      <3> QED BY <3>3, <3>4, <3>5, <3>6, <3>8
    <2> QED BY <2>1, <2>2
  <1>15. Laid(lines, q, at, r, T)
    BY <1>9, <1>12, <1>13, <1>14 DEF Laid
  <1> QED BY <1>1, <1>8, <1>15

\* The text of the first headers, for every number of them.
LEMMA AnswerUptoAre ==
  ASSUME NEW lines, NEW top \in Nat, Len(lines) = top
  PROVE  LET upto == AnswerUpto(lines)
         IN /\ upto[0] = <<>>
            /\ \A n \in 1 .. top : upto[n] = upto[n - 1] \o LineText(lines[n])
  <1> DEFINE Is(f, m) ==
               f = [n \in 0 .. m |-> IF n = 0 THEN <<>> ELSE f[n - 1] \o LineText(lines[n])]
             P == {m \in Nat : \E f : Is(f, m)}
  <1>1. \A m \in Nat : m \in P <=> \E f : Is(f, m)
    OBVIOUS
  <1> HIDE DEF P
  <1>2. 0 \in P
    <2>1. Is([n \in 0 .. 0 |-> <<>>], 0)
      OBVIOUS
    <2>2. \E f : Is(f, 0)
      BY <2>1
    <2> QED BY <1>1, <2>2
  <1>3. ASSUME NEW m \in Nat, m \in P PROVE m + 1 \in P
    <2>1. PICK f : Is(f, m)
      BY <1>1, <1>3
    <2> DEFINE g == [n \in 0 .. m + 1 |-> IF n <= m THEN f[n] ELSE f[m] \o LineText(lines[n])]
    <2>2. Is(g, m + 1)
      <3>1. \A n \in 0 .. m : g[n] = f[n]
        OBVIOUS
      <3>2. ASSUME NEW n \in 0 .. m + 1
            PROVE  g[n] = IF n = 0 THEN <<>> ELSE g[n - 1] \o LineText(lines[n])
        <4>1. CASE n = 0
          BY <2>1, <3>1, <4>1
        <4>2. CASE n \in 1 .. m
          <5>1. g[n] = f[n] /\ g[n - 1] = f[n - 1]
            BY <3>1, <4>2
          <5>2. f[n] = f[n - 1] \o LineText(lines[n]) /\ n # 0
            <6>1. n \in 0 .. m /\ n # 0
              BY <4>2
            <6> HIDE DEF g
            <6> QED BY <2>1, <6>1
          <5> HIDE DEF g
          <5> QED BY <5>1, <5>2
        <4>3. CASE n = m + 1
          BY <3>1, <4>3
        <4> QED BY <4>1, <4>2, <4>3
      <3> HIDE DEF g
      <3>3. g = [n \in 0 .. m + 1 |-> g[n]]
        BY DEF g
      <3> QED BY <3>2, <3>3
    <2> HIDE DEF g, Is
    <2>3. \E h : Is(h, m + 1)
      BY <2>2
    <2> QED BY <1>1, <2>3
  <1>4. \A n \in 0 .. top : n \in P
    <2>1. \A n \in 0 .. top - 1 : n \in P => n + 1 \in P
      BY <1>3
    <2> QED BY <1>2, <2>1, Upwards
  <1>5. \E f : Is(f, top)
    <2>1. top \in P
      BY <1>4
    <2> QED BY <1>1, <2>1
  <1>6. Is(AnswerUpto(lines), top)
    BY <1>5 DEF AnswerUpto
  <1>7. PICK upto : upto = AnswerUpto(lines)
    OBVIOUS
  <1>8. upto = [n \in 0 .. top |-> IF n = 0 THEN <<>> ELSE upto[n - 1] \o LineText(lines[n])]
    BY <1>6, <1>7
  <1> HIDE DEF Is
  <1>9. upto[0] = <<>>
    BY <1>8
  <1>10. ASSUME NEW n \in 1 .. top PROVE upto[n] = upto[n - 1] \o LineText(lines[n])
    <2>1. n \in 0 .. top /\ n # 0
      OBVIOUS
    <2> QED BY <1>8, <2>1
  <1> QED BY <1>7, <1>9, <1>10

\* What is matched, for every number of characters.
LEMMA ScannedAre ==
  ASSUME NEW text, NEW top \in Nat, Len(text) = top
  PROVE  LET scan == Ans!Scanned(text)
         IN /\ scan[0] = [headers |-> [h \in {} |-> h], si |-> 1]
            /\ \A n \in 1 .. top : scan[n] = Ans!Matched(scan[n - 1], text, n)
  <1> DEFINE none == [headers |-> [h \in {} |-> h], si |-> 1]
             Is(f, m) ==
               f = [n \in 0 .. m |-> IF n = 0 THEN none ELSE Ans!Matched(f[n - 1], text, n)]
             P == {m \in Nat : \E f : Is(f, m)}
  <1>1. \A m \in Nat : m \in P <=> \E f : Is(f, m)
    OBVIOUS
  <1> HIDE DEF P
  <1>2. 0 \in P
    <2>1. Is([n \in 0 .. 0 |-> none], 0)
      OBVIOUS
    <2>2. \E f : Is(f, 0)
      BY <2>1
    <2> QED BY <1>1, <2>2
  <1>3. ASSUME NEW m \in Nat, m \in P PROVE m + 1 \in P
    <2>1. PICK f : Is(f, m)
      BY <1>1, <1>3
    <2> DEFINE g == [n \in 0 .. m + 1 |-> IF n <= m THEN f[n] ELSE Ans!Matched(f[m], text, n)]
    <2>2. Is(g, m + 1)
      <3>1. \A n \in 0 .. m : g[n] = f[n]
        OBVIOUS
      <3>2. ASSUME NEW n \in 0 .. m + 1
            PROVE  g[n] = IF n = 0 THEN none ELSE Ans!Matched(g[n - 1], text, n)
        <4>1. CASE n = 0
          BY <2>1, <3>1, <4>1
        <4>2. CASE n \in 1 .. m
          <5>1. g[n] = f[n] /\ g[n - 1] = f[n - 1]
            BY <3>1, <4>2
          <5> QED BY <2>1, <4>2, <5>1
        <4>3. CASE n = m + 1
          BY <3>1, <4>3
        <4> QED BY <4>1, <4>2, <4>3
      <3> HIDE DEF g
      <3>3. g = [n \in 0 .. m + 1 |-> g[n]]
        BY DEF g
      <3> QED BY <3>2, <3>3
    <2> HIDE DEF g, Is
    <2>3. \E h : Is(h, m + 1)
      BY <2>2
    <2> QED BY <1>1, <2>3
  <1>4. \A n \in 0 .. top : n \in P
    <2>1. \A n \in 0 .. top - 1 : n \in P => n + 1 \in P
      BY <1>3
    <2> QED BY <1>2, <2>1, Upwards
  <1>5. \E f : Is(f, top)
    <2>1. top \in P
      BY <1>4
    <2> QED BY <1>1, <2>1
  <1>6. Is(Ans!Scanned(text), top)
    BY <1>5 DEF Ans!Scanned
  <1> QED BY <1>6

\* The headers of an answer are laid in its text.
NameEnd(lines) ==
  [n \in 1 .. Len(lines) |-> Len(AnswerUpto(lines)[n - 1]) + Len(lines[n][1])]

\* The text of an answer has each of its headers, in their order.
LEMMA AnswerIsLaid ==
  ASSUME NEW T, NEW lines, NEW top \in Nat, Len(lines) = top,
         \A n \in 1 .. top : IsHeader(lines[n][1], lines[n][2], T)
  PROVE  Laid(lines, top, NameEnd(lines), AnswerText(lines), T)
  <1>1. PICK upto : upto = AnswerUpto(lines)
    OBVIOUS
  <1>2. /\ upto[0] = <<>>
        /\ \A n \in 1 .. top : upto[n] = upto[n - 1] \o LineText(lines[n])
    BY <1>1, AnswerUptoAre
  <1>3. PICK at : at = NameEnd(lines)
    OBVIOUS
  <1>4. \A n \in 1 .. top : at[n] = Len(upto[n - 1]) + Len(lines[n][1])
    BY <1>1, <1>3 DEF NameEnd
  <1> DEFINE P == {m \in 0 .. top : Laid(lines, m, at, upto[m], T)}
  <1>5. 0 \in P
    <2>1. PICK s : s = upto[0]
      OBVIOUS
    <2>2. s \in Seq(T) /\ Len(s) = 0
      BY <1>2, <2>1
    <2>3. Laid(lines, 0, at, s, T)
      BY <2>2 DEF Laid
    <2> QED BY <2>1, <2>3
  <1>6. ASSUME NEW m \in 0 .. top - 1, m \in P PROVE m + 1 \in P
    <2>1. PICK s, r, t, line :
            s = upto[m] /\ r = upto[m + 1] /\ line = lines[m + 1] /\ t = LineText(line)
      OBVIOUS
    <2>2. m + 1 \in 1 .. top /\ (m + 1) - 1 = m /\ m \in Nat
      OBVIOUS
    <2>3. Laid(lines, m, at, s, T)
      BY <1>6, <2>1
    <2>4. \A n \in 1 .. m + 1 : IsHeader(lines[n][1], lines[n][2], T)
      OBVIOUS
    <2>5. LineParts(lines[m + 1][1], lines[m + 1][2], t, T)
      <3>1. IsHeader(line[1], line[2], T)
        BY <2>1, <2>2
      <3>2. LineParts(line[1], line[2], t, T)
        BY <2>1, <3>1, LineTextIs
      <3> QED BY <2>1, <3>2
    <2>6. at[m + 1] = Len(s) + Len(lines[m + 1][1])
      BY <1>4, <2>1, <2>2
    <2>7. r = s \o t
      BY <1>2, <2>1, <2>2
    <2>8. Laid(lines, m + 1, at, s \o t, T)
      BY <2>2, <2>3, <2>4, <2>5, <2>6, HeaderAdded
    <2>9. Laid(lines, m + 1, at, upto[m + 1], T)
      BY <2>1, <2>7, <2>8
    <2> QED BY <2>2, <2>9
  <1> HIDE DEF P
  <1>7. top \in P
    <2>1. \A n \in 0 .. top : n \in P
      BY <1>5, <1>6, Upwards
    <2> QED BY <2>1
  <1>8. AnswerText(lines) = upto[top]
    BY <1>1 DEF AnswerText
  <1> QED BY <1>3, <1>7, <1>8 DEF P

\* The least of a set of places, as the search takes it.
LEMMA LeastOf ==
  ASSUME NEW S, S \subseteq Nat, S # {}
  PROVE  Ans!Min(S) \in S /\ \A n \in S : Ans!Min(S) <= n
  <1>1. \E x \in S : \A y \in S : x <= y
    BY LowestOf
  <1> QED BY <1>1, Zenon DEF Ans!Min

\* Spaces are skipped up to the next other character.
LEMMA SpacesSkipped ==
  ASSUME NEW text, NEW top \in Nat, Len(text) = top, NEW k \in 1 .. top + 1
  PROVE  LET a == Ans!AfterSpaces(text, k)
         IN /\ a \in k .. top + 1
            /\ \A p \in k .. a - 1 : text[p] = Ans!Space
            /\ a <= top => text[a] # Ans!Space
  <1> DEFINE S == {n \in k .. Len(text) + 1 : n = Len(text) + 1 \/ text[n] # Ans!Space}
  <1>1. S \subseteq Nat /\ top + 1 \in S
    OBVIOUS
  <1>2. PICK a : a = Ans!AfterSpaces(text, k)
    OBVIOUS
  <1>3. a = Ans!Min(S)
    BY <1>2 DEF Ans!AfterSpaces
  <1>4. a \in S /\ \A n \in S : a <= n
    <2> HIDE DEF S
    <2>1. S # {}
      BY <1>1
    <2> QED BY <1>1, <1>3, <2>1, LeastOf
  <1>5. a \in k .. top + 1 /\ (a <= top => text[a] # Ans!Space)
    BY <1>4
  <1>6. ASSUME NEW p \in k .. a - 1 PROVE text[p] = Ans!Space
    <2>1. p \in k .. Len(text) + 1 /\ ~(a <= p)
      BY <1>5
    <2> QED BY <1>4, <2>1
  <1> QED BY <1>2, <1>5, <1>6

\* A value is behind a colon and spaces.
LEMMA ValueIsAt ==
  ASSUME NEW text, NEW top \in Nat, Len(text) = top, NEW k \in 1 .. top,
         NEW v, v = Ans!ValueAt(text, k), v # 0
  PROVE  /\ v \in k + 2 .. top + 1
         /\ \A p \in k + 1 .. v - 1 : text[p] \in {Ans!Space, Ans!Colon}
  <1>1. PICK c : c = Ans!AfterSpaces(text, k + 1)
    OBVIOUS
  <1>2. c \in k + 1 .. top + 1 /\ \A p \in k + 1 .. c - 1 : text[p] = Ans!Space
    <2>1. k + 1 \in 1 .. top + 1
      OBVIOUS
    <2> QED BY <1>1, <2>1, SpacesSkipped
  <1>3. c <= top /\ text[c] = Ans!Colon /\ v = Ans!AfterSpaces(text, c + 1)
    BY <1>1 DEF Ans!ValueAt
  <1>4. v \in c + 1 .. top + 1 /\ \A p \in c + 1 .. v - 1 : text[p] = Ans!Space
    <2>1. c + 1 \in 1 .. top + 1
      BY <1>2, <1>3
    <2> QED BY <1>3, <2>1, SpacesSkipped
  <1>5. ASSUME NEW p \in k + 1 .. v - 1 PROVE text[p] \in {Ans!Space, Ans!Colon}
    <2>1. p \in k + 1 .. c - 1 \/ p = c \/ p \in c + 1 .. v - 1
      BY <1>2, <1>4
    <2> QED BY <1>2, <1>3, <1>4, <2>1
  <1> QED BY <1>2, <1>4, <1>5

\* The value of a header is found unless it is empty.
LEMMA ValueOf ==
  ASSUME NEW T, NEW text \in Seq(T), NEW at, NEW u \in Seq(T), NEW v \in Seq(T),
         Told(text, at, u, v), 1 <= Len(v), v[1] # Ans!Space
  PROVE  Ans!ValueAt(text, at) = at + 3
  <1>1. PICK e \in Nat, b \in Nat, top \in Nat : e = at /\ b = Len(v) /\ top = Len(text)
    <2>1. Len(v) \in Nat /\ Len(text) \in Nat
      OBVIOUS
    <2>2. at \in Nat
      BY DEF Told
    <2> QED BY <2>1, <2>2
  <1>2. 1 <= e /\ e + b + 3 <= top /\ 1 <= b
    BY <1>1 DEF Told
  <1>3. text[e + 1] = Ans!Colon /\ text[e + 2] = Ans!Space /\ text[e + 3] # Ans!Space
    <2>1. text[e + 2 + 1] = v[1] /\ e + 2 + 1 = e + 3
      BY <1>1, <1>2 DEF Told
    <2> QED BY <1>1, <2>1 DEF Told
  <1>4. Ans!Colon # Ans!Space
    BY SignsAreNoWords
  <1>5. PICK c : c = Ans!AfterSpaces(text, e + 1)
    OBVIOUS
  <1>6. c = e + 1
    <2>1. e + 1 \in 1 .. top + 1
      BY <1>2
    <2>2. c \in e + 1 .. top + 1 /\ \A p \in e + 1 .. c - 1 : text[p] = Ans!Space
      BY <1>1, <1>5, <2>1, SpacesSkipped
    <2>3. c # e + 1 => text[e + 1] = Ans!Space
      BY <2>2
    <2> QED BY <1>3, <1>4, <2>3
  <1>7. PICK d : d = Ans!AfterSpaces(text, c + 1)
    OBVIOUS
  <1>8. d = e + 3
    <2>1. PICK f \in Nat : f = e + 2
      OBVIOUS
    <2>2. f \in 1 .. top + 1 /\ f = c + 1 /\ f <= top
      BY <1>2, <1>6, <2>1
    <2>3. /\ d \in f .. top + 1 /\ \A p \in f .. d - 1 : text[p] = Ans!Space
          /\ d <= top => text[d] # Ans!Space
      BY <1>1, <1>7, <2>2, SpacesSkipped
    <2>4. d # f
      BY <1>3, <2>1, <2>2, <2>3
    <2>5. d > f + 1 => text[f + 1] = Ans!Space
      BY <2>2, <2>3
    <2>6. text[f + 1] # Ans!Space
      BY <1>3, <2>1
    <2>7. d \in Nat /\ d >= f
      BY ONLY <2>3, f \in Nat
    <2>8. d = f + 1
      BY ONLY <2>4, <2>5, <2>6, <2>7, f \in Nat
    <2> QED BY ONLY <2>1, <2>8, e \in Nat
  <1>9. c <= top /\ text[c] = Ans!Colon
    BY <1>2, <1>3, <1>6
  <1> QED BY <1>1, <1>5, <1>7, <1>8, <1>9 DEF Ans!ValueAt

\* The end of a name, which is all of it that the search compares.
LastWord(line) == line[1][Len(line[1])]
LengthNames == {"Length", "length"}

\* What has been found up to a character: the last of the headers that are a
\* length, none of which is in a value.
ScanInv(lines, top, at, p, scan) ==
  /\ scan.si \in Nat
  /\ \A n \in 1 .. top : LastWord(lines[n]) \in LengthNames /\ at[n] > p => at[n] >= scan.si
  /\ \A w \in LengthNames :
       w \in DOMAIN scan.headers <=> \E n \in 1 .. top : at[n] <= p /\ LastWord(lines[n]) = w
  /\ \A n \in 1 .. top :
       /\ LastWord(lines[n]) \in LengthNames /\ at[n] <= p
       /\ \A j \in 1 .. top : n < j /\ at[j] <= p => LastWord(lines[j]) # LastWord(lines[n])
       => scan.headers[LastWord(lines[n])] = lines[n][2][1]

\* A header that is a length, in the text.
LEMMA LengthTold ==
  ASSUME NEW T, NEW lines, NEW top \in Nat, NEW at, NEW text, Laid(lines, top, at, text, T),
         \A n \in 1 .. top : IsHeader(lines[n][1], lines[n][2], T),
         NEW n \in 1 .. top, LastWord(lines[n]) \in LengthNames
  PROVE  /\ at[n] \in 2 .. Len(text) - 3
         /\ text[at[n]] = LastWord(lines[n]) /\ text[at[n] - 1] = Ans!Dash
         /\ Ans!ValueAt(text, at[n]) = at[n] + 3
         /\ text[at[n] + 3] = lines[n][2][1] /\ lines[n][2][1] \in {"5", "7"}
  <1>1. PICK u \in Seq(T), v \in Seq(T), e \in Nat :
          u = lines[n][1] /\ v = lines[n][2] /\ e = at[n] /\ Told(text, e, u, v)
    <2>1. lines[n][1] \in Seq(T) /\ lines[n][2] \in Seq(T)
      BY DEF IsHeader
    <2>2. Told(text, at[n], lines[n][1], lines[n][2]) /\ at[n] \in Nat
      BY DEF Laid, Told
    <2> QED BY <2>1, <2>2
  <1>2. PICK a \in Nat, b \in Nat, c \in Nat : a = Len(u) /\ b = Len(v) /\ c = Len(text)
    <2>1. text \in Seq(T)
      BY DEF Laid
    <2> QED BY <2>1
  <1>3. IsHeader(u, v, T)
    BY <1>1
  <1>4. u[a] = LastWord(lines[n]) /\ u[a] \in LengthNames
    BY <1>1, <1>2 DEF LastWord
  <1>5. /\ 2 <= a /\ u[a - 1] = Ans!Dash /\ v \in {<<"5">>, <<"7">>}
    BY <1>2, <1>3, <1>4 DEF IsHeader, LengthNames
  <1>6. b = 1 /\ v[1] \in {"5", "7"}
    BY <1>2, <1>5
  <1>7. /\ a <= e /\ e + 1 + 3 <= c
        /\ \A k \in 1 .. a : text[e - a + k] = u[k]
        /\ text[e + 2 + 1] = v[1]
    <2>1. 1 \in 1 .. b
      BY <1>6
    <2> QED BY <1>1, <1>2, <1>6, <2>1 DEF Told
  <1>8. text[e] = u[a] /\ text[e - 1] = Ans!Dash
    <2>1. a \in 1 .. a /\ a - 1 \in 1 .. a /\ e - a + a = e /\ e - a + (a - 1) = e - 1
      BY <1>5
    <2>2. text[e - a + a] = u[a] /\ text[e - a + (a - 1)] = u[a - 1]
      BY <1>7, <2>1
    <2> QED BY <1>5, <2>1, <2>2
  <1>9. Ans!ValueAt(text, e) = e + 3
    <2>1. v[1] # Ans!Space
      BY <1>6, SignsAreNoWords
    <2>2. text \in Seq(T) /\ 1 <= Len(v)
      BY <1>2, <1>6 DEF Laid
    <2> QED BY <1>1, <2>1, <2>2, ValueOf
  <1>10. e \in 2 .. c - 3
    <2>1. 2 <= a /\ a <= e /\ e + 1 + 3 <= c
      BY <1>5, <1>7
    <2> QED BY <2>1
  <1>11. e + 2 + 1 = e + 3
    OBVIOUS
  <1> QED BY <1>1, <1>2, <1>4, <1>6, <1>7, <1>8, <1>9, <1>10, <1>11

\* One character more: a match at the end of a length puts its value in the
\* place of the one before; no other match is a length.
LEMMA ScanStep ==
  ASSUME NEW T, NEW lines, NEW top \in Nat, NEW at, NEW text, Laid(lines, top, at, text, T),
         \A n \in 1 .. top : IsHeader(lines[n][1], lines[n][2], T),
         NEW p \in 0 .. Len(text) - 1, NEW scan, ScanInv(lines, top, at, p, scan)
  PROVE  ScanInv(lines, top, at, p + 1, Ans!Matched(scan, text, p + 1))
  <1>0. PICK new : new = Ans!Matched(scan, text, p + 1)
    OBVIOUS
  <1>1. PICK q \in Nat, c \in Nat :
          q = p + 1 /\ c = Len(text) /\ new = Ans!Matched(scan, text, q)
    <2>1. text \in Seq(T)
      BY DEF Laid
    <2>2. p + 1 \in Nat /\ Len(text) \in Nat
      BY <2>1
    <2> QED BY <1>0, <2>2
  <1>2. q \in 1 .. c
    BY <1>1
  <1>3. \A n \in 1 .. top : at[n] \in Nat
    BY DEF Laid, Told
  <1>4. \A n \in 1 .. top :
          (at[n] <= q <=> at[n] <= p \/ at[n] = q) /\ (at[n] > p <=> at[n] > q \/ at[n] = q)
    BY <1>1, <1>3
  <1>5. \A m, n \in 1 .. top : m < n => at[m] < at[n]
    BY DEF Laid
  <1>l. ASSUME NEW n \in 1 .. top, LastWord(lines[n]) \in LengthNames
        PROVE  /\ at[n] \in 2 .. c - 3
               /\ text[at[n]] = LastWord(lines[n]) /\ text[at[n] - 1] = Ans!Dash
               /\ Ans!ValueAt(text, at[n]) = at[n] + 3
               /\ text[at[n] + 3] = lines[n][2][1] /\ lines[n][2][1] \in {"5", "7"}
    <2>1. /\ at[n] \in 2 .. Len(text) - 3
          /\ text[at[n]] = LastWord(lines[n]) /\ text[at[n] - 1] = Ans!Dash
          /\ Ans!ValueAt(text, at[n]) = at[n] + 3
          /\ text[at[n] + 3] = lines[n][2][1] /\ lines[n][2][1] \in {"5", "7"}
      BY <1>l, LengthTold
    <2> QED BY <1>1, <2>1
  <1> DEFINE Match == q >= scan.si /\ Ans!IsWord(text, q) /\ Ans!IsWord(text, Ans!ValueAt(text, q))
  <1>6. ASSUME NEW n \in 1 .. top, LastWord(lines[n]) \in LengthNames, at[n] = q
        PROVE  Match
    <2>1. /\ text[q] \in LengthNames /\ Ans!ValueAt(text, q) = q + 3 /\ q + 3 \in 1 .. c
          /\ text[q + 3] \in {"5", "7"}
      <3>1. at[n] + 3 \in 1 .. c
        BY <1>l, <1>6
      <3> QED BY <1>l, <1>6, <3>1
    <2>2. q >= scan.si
      BY <1>4, <1>6 DEF ScanInv
    <2>3. text[q] \notin Ans!Marks /\ text[q + 3] \notin Ans!Marks
      BY <2>1, SignsAreNoWords DEF LengthNames, Ans!Marks
    <2>4. q \in DOMAIN text /\ q + 3 \in DOMAIN text
      <3>1. text \in Seq(T)
        BY DEF Laid
      <3>2. DOMAIN text = 1 .. c
        BY <1>1, <3>1
      <3> QED BY <1>2, <2>1, <3>2
    <2> QED BY <2>1, <2>2, <2>3, <2>4 DEF Ans!IsWord
  <1>7. CASE ~Match
    <2>1. new = scan
      BY <1>1, <1>7 DEF Ans!Matched
    <2>2. \A n \in 1 .. top : LastWord(lines[n]) \in LengthNames => at[n] # q
      BY <1>6, <1>7
    <2> HIDE DEF Match
    <2>3. \A n \in 1 .. top : LastWord(lines[n]) \in LengthNames
            => (at[n] <= q <=> at[n] <= p) /\ (at[n] > p <=> at[n] > q)
      BY <1>4, <2>2
    <2>4. ScanInv(lines, top, at, q, scan)
      <3>1. /\ scan.si \in Nat
            /\ \A n \in 1 .. top :
                 LastWord(lines[n]) \in LengthNames /\ at[n] > q => at[n] >= scan.si
        BY <2>3 DEF ScanInv
      <3>2. ASSUME NEW w \in LengthNames
            PROVE  w \in DOMAIN scan.headers
                     <=> \E n \in 1 .. top : at[n] <= q /\ LastWord(lines[n]) = w
        BY <2>3 DEF ScanInv
      <3>3. ASSUME NEW n \in 1 .. top, LastWord(lines[n]) \in LengthNames, at[n] <= q,
                   \A j \in 1 .. top :
                     n < j /\ at[j] <= q => LastWord(lines[j]) # LastWord(lines[n])
            PROVE  scan.headers[LastWord(lines[n])] = lines[n][2][1]
        <4>1. /\ at[n] <= p
              /\ \A j \in 1 .. top :
                   n < j /\ at[j] <= p => LastWord(lines[j]) # LastWord(lines[n])
          BY <1>4, <2>3, <3>3
        <4> QED BY <3>3, <4>1 DEF ScanInv
      <3> QED BY <3>1, <3>2, <3>3 DEF ScanInv
    <2> QED BY <1>1, <2>1, <2>4
  <1>8. CASE Match
    <2>1. PICK v, name, value, hs :
            v = Ans!ValueAt(text, q) /\ name = text[q] /\ value = text[v] /\ hs = scan.headers
      OBVIOUS
    <2>2. new = [headers |-> Ans!Put(hs, name, value), si |-> v + 1]
      BY <1>1, <1>8, <2>1 DEF Ans!Matched
    <2>3. v \in 1 .. c /\ name \notin Ans!Marks /\ v # 0
      <3>1. text \in Seq(T)
        BY DEF Laid
      <3>2. DOMAIN text = 1 .. c
        BY <1>1, <3>1
      <3> QED BY <1>8, <2>1, <3>2 DEF Ans!IsWord
    <2> HIDE DEF Match
    <2>4. v >= q + 2 /\ \A k \in q + 1 .. v - 1 : text[k] \in {Ans!Space, Ans!Colon}
      BY <1>1, <1>2, <2>1, <2>3, ValueIsAt
    <2>5. /\ new.si = v + 1 /\ new.si \in Nat
          /\ DOMAIN new.headers = DOMAIN hs \cup {name}
          /\ new.headers[name] = value
          /\ \A h \in DOMAIN hs : h # name => new.headers[h] = hs[h]
      BY <2>2, <2>3 DEF Ans!Put
    <2>6. ASSUME NEW n \in 1 .. top, LastWord(lines[n]) \in LengthNames, at[n] > q
          PROVE  at[n] >= v + 1
      <3>1. PICK e \in Nat : e = at[n]
        BY <1>3
      <3>2. text[e - 1] = Ans!Dash
        BY <1>l, <2>6, <3>1
      <3> SUFFICES ASSUME e <= v PROVE FALSE
        BY <2>3, <3>1
      <3>3. e - 1 = q \/ e - 1 \in q + 1 .. v - 1
        <4>1. q < e /\ e <= v /\ v \in Nat
          BY <2>3, <2>6, <3>1
        <4> QED BY <4>1
      <3>4. text[e - 1] # Ans!Dash
        <4>1. Ans!Dash \in Ans!Marks /\ Ans!Dash \notin {Ans!Space, Ans!Colon}
          BY SignsAreNoWords DEF Ans!Marks
        <4> QED BY <2>1, <2>3, <2>4, <3>3, <4>1
      <3> QED BY <3>2, <3>4
    <2>7. ASSUME NEW w \in LengthNames
          PROVE  /\ w = name <=> \E n \in 1 .. top : at[n] = q /\ LastWord(lines[n]) = w
      <3>1. ASSUME NEW n \in 1 .. top, at[n] = q, LastWord(lines[n]) = w PROVE w = name
        BY <1>l, <2>1, <3>1
      <3>2. ASSUME w = name PROVE \E n \in 1 .. top : at[n] = q /\ LastWord(lines[n]) = w
        <4>1. text[q] \in Sought
          BY <2>1, <3>2 DEF Sought, LengthNames
        <4>2. PICK n \in 1 .. top : q = at[n]
          BY <1>1, <1>2, <4>1 DEF Laid
        <4>0. PICK u : u = lines[n][1]
          OBVIOUS
        <4>3. PICK e \in Nat, a \in Nat :
                e = at[n] /\ a = Len(u) /\ Told(text, e, u, lines[n][2])
          <5>1. Told(text, at[n], lines[n][1], lines[n][2])
            BY DEF Laid
          <5>2. lines[n][1] \in Seq(T)
            BY DEF IsHeader
          <5>3. Len(lines[n][1]) \in Nat
            BY <5>2
          <5> QED BY <1>3, <4>0, <5>1, <5>3
        <4>4. text[e - a + a] = u[a]
          <5>1. 1 <= a
            BY <4>3 DEF Told
          <5>2. a \in 1 .. a
            BY <5>1
          <5> QED BY <4>3, <5>2 DEF Told
        <4>5. e - a + a = e
          OBVIOUS
        <4>6. LastWord(lines[n]) = w
          BY <2>1, <3>2, <4>0, <4>2, <4>3, <4>4, <4>5 DEF LastWord
        <4> QED BY <4>2, <4>6
      <3> QED BY <3>1, <3>2
    <2>8. ASSUME NEW w \in LengthNames
          PROVE  w \in DOMAIN new.headers
                   <=> \E n \in 1 .. top : at[n] <= q /\ LastWord(lines[n]) = w
      <3>1. w \in DOMAIN hs <=> \E n \in 1 .. top : at[n] <= p /\ LastWord(lines[n]) = w
        BY <2>1 DEF ScanInv
      <3> QED BY <1>4, <2>5, <2>7, <3>1
    <2>9. ASSUME NEW n \in 1 .. top, LastWord(lines[n]) \in LengthNames, at[n] <= q,
                 \A j \in 1 .. top : n < j /\ at[j] <= q => LastWord(lines[j]) # LastWord(lines[n])
          PROVE  new.headers[LastWord(lines[n])] = lines[n][2][1]
      <3>1. CASE at[n] = q
        <4>1. LastWord(lines[n]) = name
          BY <2>7, <2>9, <3>1
        <4>2. value = lines[n][2][1]
          <5>1. text[at[n] + 3] = lines[n][2][1] /\ Ans!ValueAt(text, at[n]) = at[n] + 3
            BY <1>l, <2>9
          <5> QED BY <2>1, <3>1, <5>1
        <4> QED BY <2>5, <4>1, <4>2
      <3>2. CASE at[n] <= p
        <4>1. PICK w \in LengthNames : w = LastWord(lines[n])
          BY <2>9
        <4>2. w # name
          <5> SUFFICES ASSUME w = name PROVE FALSE
            OBVIOUS
          <5>1. PICK j \in 1 .. top : at[j] = q /\ LastWord(lines[j]) = w
            BY <2>7
          <5>2. n < j
            <6>1. at[n] < at[j]
              BY <1>1, <1>3, <3>2, <5>1
            <6>2. n # j /\ ~(j < n)
              BY <1>3, <1>5, <6>1
            <6> QED BY <6>2
          <5>3. at[j] <= q
            BY <1>3, <5>1
          <5> QED BY <2>9, <4>1, <5>1, <5>2, <5>3
        <4>3. \A j \in 1 .. top : n < j /\ at[j] <= p => LastWord(lines[j]) # LastWord(lines[n])
          BY <1>4, <2>9
        <4>4. hs[w] = lines[n][2][1]
          BY <2>1, <2>9, <3>2, <4>1, <4>3 DEF ScanInv
        <4>5. w \in DOMAIN hs
          BY <2>1, <3>2, <4>1 DEF ScanInv
        <4> QED BY <2>5, <4>1, <4>2, <4>4, <4>5
      <3> QED BY <1>4, <2>9, <3>1, <3>2
    <2>10. ScanInv(lines, top, at, q, new)
      BY <2>5, <2>6, <2>8, <2>9 DEF ScanInv
    <2> QED BY <1>1, <2>10
  <1> QED BY <1>7, <1>8

\* What the headers of a text are.
LEMMA ScanHolds ==
  ASSUME NEW T, NEW lines, NEW top \in Nat, NEW at, NEW text, Laid(lines, top, at, text, T),
         \A n \in 1 .. top : IsHeader(lines[n][1], lines[n][2], T)
  PROVE  ScanInv(lines, top, at, Len(text), Ans!Scanned(text)[Len(text)])
  <1>0. PICK scan : scan = Ans!Scanned(text)
    OBVIOUS
  <1>1. PICK c \in Nat : c = Len(text) /\ scan = Ans!Scanned(text)
    <2>1. text \in Seq(T)
      BY DEF Laid
    <2> QED BY <1>0, <2>1
  <1>2. PICK none : none = [headers |-> [h \in {} |-> h], si |-> 1]
    OBVIOUS
  <1>3. scan[0] = none /\ \A n \in 1 .. c : scan[n] = Ans!Matched(scan[n - 1], text, n)
    BY <1>1, <1>2, ScannedAre
  <1> DEFINE P == {p \in 0 .. c : ScanInv(lines, top, at, p, scan[p])}
  <1>4. 0 \in P
    <2>1. none.si = 1 /\ DOMAIN none.headers = {}
      BY <1>2
    <2>2. \A n \in 1 .. top : at[n] \in Nat /\ 1 <= at[n]
      <3>1. ASSUME NEW n \in 1 .. top PROVE at[n] \in Nat /\ 1 <= at[n]
        <4>1. Told(text, at[n], lines[n][1], lines[n][2])
          BY DEF Laid
        <4>2. PICK a \in Nat : a = Len(lines[n][1])
          <5>1. lines[n][1] \in Seq(T)
            BY DEF IsHeader
          <5> QED BY <5>1
        <4>3. at[n] \in Nat /\ 1 <= a /\ a <= at[n]
          BY <4>1, <4>2 DEF Told
        <4> QED BY <4>3
      <3> QED BY <3>1
    <2>3. \A n \in 1 .. top : ~(at[n] <= 0)
      BY <2>2
    <2>4. ScanInv(lines, top, at, 0, none)
      BY <2>1, <2>2, <2>3 DEF ScanInv
    <2> QED BY <1>3, <2>4
  <1>5. ASSUME NEW p \in 0 .. c - 1, p \in P PROVE p + 1 \in P
    <2>1. p + 1 \in 1 .. c /\ (p + 1) - 1 = p /\ p \in 0 .. Len(text) - 1
      BY <1>1
    <2>2. PICK s : s = scan[p] /\ ScanInv(lines, top, at, p, s)
      BY <1>5
    <2>3. ScanInv(lines, top, at, p + 1, Ans!Matched(s, text, p + 1))
      BY <2>1, <2>2, ScanStep
    <2>4. scan[p + 1] = Ans!Matched(s, text, p + 1)
      BY <1>3, <2>1, <2>2
    <2>5. ScanInv(lines, top, at, p + 1, scan[p + 1])
      BY <2>3, <2>4
    <2> QED BY <2>1, <2>5
  <1> HIDE DEF P
  <1>6. \A p \in 0 .. c : p \in P
    BY <1>4, <1>5, Upwards
  <1>7. c \in P
    BY <1>6
  <1> QED BY <1>1, <1>7 DEF P

\* Every set of places has a highest.
LEMMA HighestOf ==
  ASSUME NEW top \in Nat, NEW S, S \subseteq 1 .. top, S # {}
  PROVE  \E m \in S : \A n \in S : n <= m
  <1> DEFINE R == {top - n : n \in S}
  <1>1. R \subseteq Nat /\ R # {}
    <2>1. ASSUME NEW n \in S PROVE top - n \in Nat
      <3>1. n \in 1 .. top
        OBVIOUS
      <3> QED BY <3>1
    <2> QED BY <2>1
  <1>2. PICK r \in R : \A q \in R : r <= q
    <2> HIDE DEF R
    <2> QED BY <1>1, LowestOf
  <1>3. PICK m \in S : r = top - m
    OBVIOUS
  <1>4. ASSUME NEW n \in S PROVE n <= m
    <2>1. top - n \in R /\ top - m <= top - n
      BY <1>2, <1>3
    <2> QED BY <2>1
  <1> QED BY <1>4

\* The headers whose name ends with a word.
EndingWith(lines, top, w) == {n \in 1 .. top : LastWord(lines[n]) = w}

\* The length that is taken for the size: of the last such header.
LEMMA LastLength ==
  ASSUME NEW T, NEW lines, NEW top \in Nat, NEW at, NEW text, Laid(lines, top, at, text, T),
         \A n \in 1 .. top : IsHeader(lines[n][1], lines[n][2], T),
         NEW headers, headers = Ans!HTTPHeaders(text), NEW w \in LengthNames
  PROVE  LET S == EndingWith(lines, top, w)
         IN /\ w \in DOMAIN headers <=> S # {}
            /\ S # {} => /\ headers[w] = lines[Xml!Max(S)][2][1] /\ headers[w] \in {"5", "7"}
                         /\ (headers[w] = "5") = (lines[Xml!Max(S)][2] = <<"5">>)
  <1> DEFINE S == EndingWith(lines, top, w)
  <1> USE DEF EndingWith
  <1>0. PICK scan : /\ scan = Ans!Scanned(text)[Len(text)]
                    /\ ScanInv(lines, top, at, Len(text), scan)
    BY ScanHolds
  <1>1. PICK c \in Nat :
          c = Len(text) /\ scan = Ans!Scanned(text)[c] /\ ScanInv(lines, top, at, c, scan)
    <2>1. text \in Seq(T)
      BY DEF Laid
    <2>2. Len(text) \in Nat
      BY <2>1
    <2> QED BY <1>0, <2>2
  <1>2. headers = scan.headers
    BY <1>1 DEF Ans!HTTPHeaders
  <1>3. ASSUME NEW n \in 1 .. top, LastWord(lines[n]) \in LengthNames
        PROVE  at[n] <= c /\ lines[n][2][1] \in {"5", "7"}
    <2>1. at[n] \in 2 .. Len(text) - 3 /\ lines[n][2][1] \in {"5", "7"}
      BY <1>3, LengthTold
    <2> QED BY <1>1, <2>1
  <1>4. w \in DOMAIN headers <=> S # {}
    <2>1. w \in DOMAIN headers <=> \E n \in 1 .. top : at[n] <= c /\ LastWord(lines[n]) = w
      BY <1>1, <1>2 DEF ScanInv
    <2>2. \A n \in 1 .. top : LastWord(lines[n]) = w => at[n] <= c
      BY <1>3
    <2> QED BY <2>1, <2>2
  <1>5. ASSUME S # {}
        PROVE  /\ headers[w] = lines[Xml!Max(S)][2][1] /\ headers[w] \in {"5", "7"}
               /\ (headers[w] = "5") = (lines[Xml!Max(S)][2] = <<"5">>)
    <2>1. PICK m \in S : \A n \in S : n <= m
      <3>1. S \subseteq 1 .. top
        OBVIOUS
      <3> HIDE DEF S
      <3> QED BY <1>5, <3>1, HighestOf
    <2>2. Xml!Max(S) = m
      <3>1. S \subseteq Nat
        OBVIOUS
      <3> HIDE DEF S
      <3> QED BY <2>1, <3>1, MaxIs
    <2>3. m \in 1 .. top /\ LastWord(lines[m]) = w
      OBVIOUS
    <2>4. \A j \in 1 .. top : m < j /\ at[j] <= c => LastWord(lines[j]) # LastWord(lines[m])
      <3>1. ASSUME NEW j \in 1 .. top, m < j, LastWord(lines[j]) = w PROVE FALSE
        <4>1. j \in S
          BY <3>1
        <4>2. j <= m
          BY <2>1, <4>1
        <4> QED BY <2>3, <3>1, <4>2
      <3> QED BY <2>3, <3>1
    <2>5. at[m] <= c /\ lines[m][2][1] \in {"5", "7"}
      BY <1>3, <2>3
    <2>6. headers[w] = lines[m][2][1]
      BY <1>1, <1>2, <2>3, <2>4, <2>5 DEF ScanInv
    <2>7. lines[m][2] \in {<<"5">>, <<"7">>}
      BY <2>3 DEF IsHeader, LastWord, LengthNames
    <2>8. (lines[m][2][1] = "5") = (lines[m][2] = <<"5">>)
      BY <2>7
    <2> QED BY <2>2, <2>5, <2>6, <2>8
  <1> QED BY <1>4, <1>5

\* The size read from an answer.
LEMMA SizeIsRead ==
  ASSUME NEW T, NEW lines, NEW top \in Nat, NEW at, NEW text, Laid(lines, top, at, text, T),
         \A n \in 1 .. top : IsHeader(lines[n][1], lines[n][2], T)
  PROVE  LET capital == EndingWith(lines, top, "Length")
             small   == EndingWith(lines, top, "length")
             lengths == IF capital # {} THEN capital ELSE small
         IN Ans!GetObjectSize(text) = IF lengths = {} THEN -1
                                      ELSE IF lines[Xml!Max(lengths)][2] = <<"5">> THEN 5 ELSE 7
  <1>1. PICK capital, small :
          capital = EndingWith(lines, top, "Length") /\ small = EndingWith(lines, top, "length")
    OBVIOUS
  <1>2. PICK hs, value, number : /\ hs = Ans!HTTPHeaders(text) /\ value = Ans!LengthIn(hs)
                                /\ number = Ans!GetObjectSize(text)
    OBVIOUS
  <1>3. /\ "Length" \in DOMAIN hs <=> capital # {}
        /\ capital # {} => /\ hs["Length"] \in {"5", "7"}
                           /\ (hs["Length"] = "5") = (lines[Xml!Max(capital)][2] = <<"5">>)
    <2>1. PICK w \in LengthNames : w = "Length"
      BY DEF LengthNames
    <2>2. LET S == EndingWith(lines, top, w)
          IN /\ w \in DOMAIN hs <=> S # {}
             /\ S # {} => /\ hs[w] = lines[Xml!Max(S)][2][1] /\ hs[w] \in {"5", "7"}
                          /\ (hs[w] = "5") = (lines[Xml!Max(S)][2] = <<"5">>)
      BY <1>2, LastLength
    <2> QED BY <1>1, <2>1, <2>2
  <1>4. /\ "length" \in DOMAIN hs <=> small # {}
        /\ small # {} => /\ hs["length"] \in {"5", "7"}
                         /\ (hs["length"] = "5") = (lines[Xml!Max(small)][2] = <<"5">>)
    <2>1. PICK w \in LengthNames : w = "length"
      BY DEF LengthNames
    <2>2. LET S == EndingWith(lines, top, w)
          IN /\ w \in DOMAIN hs <=> S # {}
             /\ S # {} => /\ hs[w] = lines[Xml!Max(S)][2][1] /\ hs[w] \in {"5", "7"}
                          /\ (hs[w] = "5") = (lines[Xml!Max(S)][2] = <<"5">>)
      BY <1>2, LastLength
    <2> QED BY <1>1, <2>1, <2>2
  <1>5. number = IF value \in {"5", "7"} THEN IF value = "5" THEN 5 ELSE 7 ELSE -1
    BY <1>2 DEF Ans!GetObjectSize, Ans!Numbers
  <1>6. CASE capital # {}
    <2>1. value = hs["Length"]
      BY <1>2, <1>3, <1>6 DEF Ans!LengthIn
    <2> QED BY <1>1, <1>2, <1>3, <1>5, <1>6, <2>1
  <1>7. CASE capital = {} /\ small # {}
    <2>1. value = hs["length"]
      BY <1>2, <1>3, <1>4, <1>7 DEF Ans!LengthIn
    <2> QED BY <1>1, <1>2, <1>4, <1>5, <1>7, <2>1
  <1>8. CASE capital = {} /\ small = {}
    <2>1. value = Ans!NoValue
      BY <1>2, <1>3, <1>4, <1>8 DEF Ans!LengthIn
    <2>2. Ans!NoValue \notin {"5", "7"}
      BY Zenon DEF Ans!NoValue
    <2> QED BY <1>1, <1>2, <1>5, <1>8, <2>1, <2>2
  <1> QED BY <1>6, <1>7, <1>8

\* The headers that are an ETag.
Tagged(lines, top) == {n \in 1 .. top : LastWord(lines[n]) \in {"ETag", "etag"}}

\* The ETag read from an answer.
LEMMA ETagIsRead ==
  ASSUME NEW T, NEW lines, NEW top \in Nat, NEW at, NEW text, Laid(lines, top, at, text, T),
         \A n \in 1 .. top : IsHeader(lines[n][1], lines[n][2], T)
  PROVE  LET etags == Tagged(lines, top)
         IN Ans!HTTPHeader(text, "ETag") = IF etags = {} THEN <<>> ELSE lines[Xml!Min(etags)][2]
  <1> USE DEF Tagged
  <1>1. PICK etags, named :
          /\ etags = Tagged(lines, top)
          /\ named = {k \in DOMAIN text : /\ Ans!Lower(text[k]) = Ans!Lower("ETag")
                                          /\ Ans!ValueAt(text, k) \in DOMAIN text}
    OBVIOUS
  <1>2. PICK c \in Nat : c = Len(text) /\ DOMAIN text = 1 .. c
    <2>1. text \in Seq(T)
      BY DEF Laid
    <2> QED BY <2>1
  <1>3. ASSUME NEW n \in etags
        PROVE  /\ n \in 1 .. top /\ lines[n][2] \in Seq(T) /\ 1 <= Len(lines[n][2])
               /\ \A k \in 1 .. Len(lines[n][2]) : lines[n][2][k] # Ans!Space
               /\ Told(text, at[n], lines[n][1], lines[n][2])
               /\ Ans!ValueAt(text, at[n]) = at[n] + 3 /\ at[n] \in named
    <2>1. n \in 1 .. top /\ LastWord(lines[n]) \in {"ETag", "etag"}
      BY <1>1
    <2>2. PICK u \in Seq(T), v \in Seq(T), e \in Nat :
            /\ u = lines[n][1] /\ v = lines[n][2] /\ e = at[n]
            /\ Told(text, e, u, v) /\ IsHeader(u, v, T)
      <3>1. Told(text, at[n], lines[n][1], lines[n][2]) /\ at[n] \in Nat
        BY <2>1 DEF Laid, Told
      <3>2. IsHeader(lines[n][1], lines[n][2], T)
        BY <2>1
      <3> QED BY <3>1, <3>2 DEF IsHeader
    <2>3. PICK a \in Nat, b \in Nat : a = Len(u) /\ b = Len(v)
      OBVIOUS
    <2>4. u[a] \in {"ETag", "etag"}
      BY <2>1, <2>2, <2>3 DEF LastWord
    <2>5. 1 <= b /\ \A k \in 1 .. b : v[k] # Ans!Space
      BY <2>2, <2>3, <2>4 DEF IsHeader
    <2>6. Ans!ValueAt(text, e) = e + 3
      <3>1. v[1] # Ans!Space /\ 1 <= Len(v)
        BY <2>3, <2>5
      <3>2. text \in Seq(T)
        BY DEF Laid
      <3> QED BY <2>2, <3>1, <3>2, ValueOf
    <2>7. 1 <= a /\ a <= e /\ e + b + 3 <= c /\ text[e - a + a] = u[a]
      <3>1. 1 <= a
        BY <2>2, <2>3 DEF Told
      <3>2. a \in 1 .. a
        BY <3>1
      <3> QED BY <1>2, <2>2, <2>3, <3>1, <3>2 DEF Told
    <2>8. e - a + a = e
      OBVIOUS
    <2>9. e \in 1 .. c /\ e + 3 \in 1 .. c
      BY <2>5, <2>7
    <2>10. Ans!Lower(text[e]) = "etag" /\ Ans!Lower("ETag") = "etag"
      BY <2>4, <2>7, <2>8, SoughtNames
    <2>11. e \in named
      BY <1>1, <1>2, <2>6, <2>9, <2>10
    <2> QED BY <2>1, <2>2, <2>3, <2>5, <2>6, <2>11
  <1>4. ASSUME NEW k \in named PROVE \E n \in etags : k = at[n]
    <2>1. k \in 1 .. c /\ text[k] \in {"ETag", "etag"}
      BY <1>1, <1>2, SoughtNames
    <2>2. PICK n \in 1 .. top : k = at[n]
      BY <1>2, <2>1 DEF Laid, Sought
    <2>3. PICK u : u = lines[n][1]
      OBVIOUS
    <2>4. PICK e \in Nat, a \in Nat : e = at[n] /\ a = Len(u) /\ Told(text, e, u, lines[n][2])
      <3>1. Told(text, at[n], lines[n][1], lines[n][2]) /\ at[n] \in Nat
        BY DEF Laid, Told
      <3>2. lines[n][1] \in Seq(T)
        BY DEF IsHeader
      <3>3. Len(lines[n][1]) \in Nat
        BY <3>2
      <3> QED BY <2>3, <3>1, <3>3
    <2>5. text[e - a + a] = u[a]
      <3>1. 1 <= a
        BY <2>4 DEF Told
      <3>2. a \in 1 .. a
        BY <3>1
      <3> QED BY <2>4, <3>2 DEF Told
    <2>6. e - a + a = e
      OBVIOUS
    <2>7. LastWord(lines[n]) \in {"ETag", "etag"}
      BY <2>1, <2>2, <2>3, <2>4, <2>5, <2>6 DEF LastWord
    <2> QED BY <1>1, <2>2, <2>7
  <1>5. CASE etags = {}
    <2>1. named = {}
      BY <1>4, <1>5
    <2>2. Ans!HTTPHeader(text, "ETag") = <<>>
      BY <1>1, <2>1 DEF Ans!HTTPHeader
    <2> QED BY <1>1, <1>5, <2>2
  <1>6. CASE etags # {}
    <2>1. PICK m \in etags : \A n \in etags : m <= n
      <3>1. etags \subseteq Nat
        BY <1>1
      <3> QED BY <1>6, <3>1, LowestOf
    <2>2. Xml!Min(etags) = m
      <3>1. etags \subseteq Nat
        BY <1>1
      <3> QED BY <2>1, <3>1, MinIs
    <2>3. PICK v \in Seq(T), e \in Nat, b \in Nat :
            /\ v = lines[m][2] /\ e = at[m] /\ b = Len(v) /\ 1 <= b
            /\ \A k \in 1 .. b : v[k] # Ans!Space
            /\ Told(text, e, lines[m][1], v) /\ Ans!ValueAt(text, e) = e + 3 /\ e \in named
      <3>1. at[m] \in Nat
        BY <1>3 DEF Told
      <3>2. lines[m][2] \in Seq(T) /\ Len(lines[m][2]) \in Nat
        BY <1>3
      <3> QED BY <1>3, <3>1, <3>2
    <2>4. \A k \in named : e <= k
      <3>1. ASSUME NEW k \in named PROVE e <= k
        <4>1. PICK n \in etags : k = at[n]
          BY <1>4
        <4>2. m = n \/ m < n
          BY <1>1, <2>1
        <4>3. m < n => at[m] < at[n]
          BY <1>3 DEF Laid
        <4>4. at[n] \in Nat
          BY <1>3 DEF Told
        <4> QED BY <2>3, <4>1, <4>2, <4>3, <4>4
      <3> QED BY <3>1
    <2>5. named \subseteq Nat
      BY <1>1, <1>2
    <2>6. Ans!Min(named) = e
      <3>1. named # {}
        BY <2>3
      <3>2. Ans!Min(named) \in named /\ \A k \in named : Ans!Min(named) <= k
        BY <2>5, <3>1, LeastOf
      <3>3. PICK x \in Nat : x = Ans!Min(named)
        BY <2>5, <3>2
      <3>4. x <= e /\ e <= x
        BY <2>3, <2>4, <3>2, <3>3
      <3> QED BY <3>3, <3>4
    <2>7. /\ e + b + 3 <= c
          /\ \A k \in 1 .. b : text[e + 2 + k] = v[k]
          /\ text[e + b + 3] = Ans!Space
      BY <1>2, <2>3 DEF Told
    <2> DEFINE E == {n \in e + 3 .. Len(text) + 1 : n = Len(text) + 1 \/ text[n] = Ans!Space}
    <2>8. Ans!Min(E) = e + b + 3
      <3>1. e + b + 3 \in E /\ E \subseteq Nat
        BY <1>2, <2>7
      <3>2. ASSUME NEW n \in E PROVE e + b + 3 <= n
        <4>1. CASE n \in e + 3 .. e + b + 2
          <5>1. PICK k \in 1 .. b : e + 2 + k = n
            <6>1. n - (e + 2) \in 1 .. b /\ e + 2 + (n - (e + 2)) = n
              BY <4>1
            <6> QED BY <6>1
          <5>2. text[n] # Ans!Space
            BY <2>3, <2>7, <5>1
          <5>3. n # Len(text) + 1
            BY <1>2, <2>7, <4>1
          <5> QED BY <5>2, <5>3
        <4>2. n \in Nat /\ n >= e + 3
          OBVIOUS
        <4> QED BY <4>1, <4>2
      <3> HIDE DEF E
      <3>3. PICK x \in Nat, y \in Nat :
              x = Ans!Min(E) /\ y = e + b + 3 /\ x \in E /\ \A n \in E : x <= n
        <4>1. E # {}
          BY <3>1
        <4>2. Ans!Min(E) \in E /\ \A n \in E : Ans!Min(E) <= n
          BY <3>1, <4>1, LeastOf
        <4> QED BY <3>1, <4>2
      <3>4. x <= y /\ y <= x
        BY <3>1, <3>2, <3>3
      <3> QED BY <3>3, <3>4
    <2>9. Ans!HTTPHeader(text, "ETag") = SubSeq(text, e + 3, e + b + 2)
      <3>1. named # {}
        BY <2>3
      <3>2. Ans!ValueAt(text, Ans!Min(named)) = e + 3
        BY <2>3, <2>6
      <3>3. (e + b + 3) - 1 = e + b + 2
        OBVIOUS
      <3>4. Ans!HTTPHeader(text, "ETag") = SubSeq(text, e + 3, (e + b + 3) - 1)
        BY <1>1, <2>8, <3>1, <3>2 DEF Ans!HTTPHeader
      <3> QED BY <3>3, <3>4
    <2>10. SubSeq(text, e + 3, e + b + 2) = v
      <3>1. PICK m0 \in Int, n0 \in Int : m0 = e + 3 /\ n0 = e + b + 2
        OBVIOUS
      <3>2. PICK w : w = SubSeq(text, m0, n0)
        OBVIOUS
      <3>3. \A k \in m0 .. n0 : text[k] \in T
        <4>1. text \in Seq(T)
          BY DEF Laid
        <4>2. \A k \in m0 .. n0 : k \in 1 .. c
          BY <2>7, <3>1
        <4> QED BY <1>2, <4>1, <4>2
      <3>4. /\ w \in Seq(T) /\ Len(w) = IF m0 <= n0 THEN n0 - m0 + 1 ELSE 0
            /\ \A k \in 1 .. n0 - m0 + 1 : w[k] = text[m0 + k - 1]
        BY <3>2, <3>3, SubSeqProperties
      <3>5. n0 - m0 + 1 = b /\ \A k \in 1 .. b : m0 + k - 1 = e + 2 + k
        BY ONLY <3>1, e \in Nat, b \in Nat
      <3>6. Len(w) = b
        <4>1. m0 <= n0
          <5>1. 1 <= b
            BY <2>3
          <5> QED BY ONLY <3>1, <5>1, e \in Nat, b \in Nat
        <4> QED BY ONLY <3>4, <3>5, <4>1
      <3>7. \A k \in 1 .. b : w[k] = v[k]
        BY <2>7, <3>4, <3>5
      <3>8. w = v
        <4>1. w \in Seq(T) /\ Len(w) = Len(v) /\ \A k \in 1 .. Len(w) : w[k] = v[k]
          BY <2>3, <3>4, <3>6, <3>7
        <4> QED BY <4>1, SeqEqual
      <3> QED BY <3>1, <3>2, <3>8
    <2> QED BY <1>1, <1>6, <2>2, <2>3, <2>9, <2>10
  <1> QED BY <1>5, <1>6

\* The lengths of the sampled answers are told from those of users' metadata.
LEMMA LengthsAre ==
  ASSUME NEW line \in AnswerLines
  PROVE  /\ LastWord(line) = "Length" => line[2] = <<"5">>
         /\ line[1] = CapitalLength => LastWord(line) = "Length"
         /\ line[1] = LowerLength => LastWord(line) = "length" /\ line[2] = <<"5">>
  <1>0. PICK dash : dash = Ans!Dash
    OBVIOUS
  <1>1. PICK u, v, w : u = line[1] /\ v = line[2] /\ w = LastWord(line)
    OBVIOUS
  <1>2. \/ u = <<"Content", dash, "Length">> /\ v = <<"5">>
        \/ u = <<"content", dash, "length">> /\ v = <<"5">>
        \/ u = <<"x", dash, "meta", dash, "length">>
        \/ u = <<"x", dash, "meta", dash, "etag">>
        \/ u = <<"ETag">>
        \/ u = <<"date">>
        \/ u = <<"x", dash, "empty">>
    BY <1>0, <1>1 DEF AnswerLines, CapitalLength, LowerLength
  <1>3. w = u[Len(u)]
    BY <1>1 DEF LastWord
  <1>4. PICK a, b : a = CapitalLength /\ b = LowerLength
    OBVIOUS
  <1>5. a = <<"Content", dash, "Length">> /\ b = <<"content", dash, "length">>
    BY <1>0, <1>4 DEF CapitalLength, LowerLength
  <1>6. Len(a) = 3 /\ a[1] = "Content" /\ a[3] = "Length"
    BY <1>5
  <1>7. Len(b) = 3 /\ b[1] = "content" /\ b[3] = "length"
    BY <1>5
  <1> DEFINE Means == /\ w = "Length" => v = <<"5">>
                      /\ u = a => w = "Length"
                      /\ u = b => w = "length" /\ v = <<"5">>
  <1> SUFFICES Means
    BY <1>1, <1>4
  <1>8. CASE u = <<"Content", dash, "Length">> /\ v = <<"5">>
    <2>1. u = a
      BY <1>5, <1>8
    <2>2. w = "Length" /\ u # b
      BY <1>3, <1>6, <1>7, <2>1
    <2> QED BY <1>8, <2>2
  <1>9. CASE u = <<"content", dash, "length">> /\ v = <<"5">>
    <2>1. u = b
      BY <1>5, <1>9
    <2>2. w = "length" /\ u # a
      BY <1>3, <1>6, <1>7, <2>1
    <2> QED BY <1>9, <2>2
  <1>10. CASE u = <<"x", dash, "meta", dash, "length">>
    <2>1. Len(u) = 5 /\ u[5] = "length"
      BY <1>10
    <2> QED BY <1>3, <1>6, <1>7, <2>1
  <1>11. CASE u = <<"x", dash, "meta", dash, "etag">>
    <2>1. Len(u) = 5 /\ u[5] = "etag"
      BY <1>11
    <2> QED BY <1>3, <1>6, <1>7, <2>1
  <1>12. CASE u = <<"ETag">>
    <2>1. Len(u) = 1 /\ u[1] = "ETag"
      BY <1>12
    <2> QED BY <1>3, <1>6, <1>7, <2>1
  <1>13. CASE u = <<"date">>
    <2>1. Len(u) = 1 /\ u[1] = "date"
      BY <1>13
    <2> QED BY <1>3, <1>6, <1>7, <2>1
  <1>14. CASE u = <<"x", dash, "empty">>
    <2>1. Len(u) = 3 /\ u[3] = "empty" /\ u[1] = "x"
      BY <1>14
    <2> QED BY <1>3, <1>6, <1>7, <2>1
  <1> QED BY <1>2, <1>8, <1>9, <1>10, <1>11, <1>12, <1>13, <1>14

\* What is read from the headers of every sampled answer: the size from the
\* last name that ends in "Length" or, without such, in "length", the ETag from
\* the first that ends in "etag".
LEMMA AnswerIsRead ==
  ASSUME NEW lines \in Seq(AnswerLines)
  PROVE  LET text       == AnswerText(lines)
             Ending(w)  == {n \in DOMAIN lines : Ans!Lower(Xml!Last(lines[n][1])) = w}
             capital    == {n \in Ending("length") : Xml!Last(lines[n][1]) = "Length"}
             lengths    == IF capital # {} THEN capital ELSE Ending("length")
             etag       == Ans!TrimETag(Ans!HTTPHeader(text, "ETag"))
             first      == lines[Xml!Min(Ending("etag"))]
         IN /\ Ans!GetObjectSize(text) =
                 IF lengths = {} THEN -1
                 ELSE IF lines[Xml!Max(lengths)][2] = <<"5">> THEN 5 ELSE 7
            /\ IF Ending("etag") = {} THEN etag = <<>>
               ELSE etag = IF first[2][1] \in {Ans!Quote, Ans!Entity} THEN <<"e1">> ELSE first[2]
  <1>1. PICK top \in Nat : top = Len(lines) /\ DOMAIN lines = 1 .. top
    OBVIOUS
  <1>2. PICK T, at, text : T = AnswerPieces /\ at = NameEnd(lines) /\ text = AnswerText(lines)
    OBVIOUS
  <1>3. \A n \in 1 .. top : IsHeader(lines[n][1], lines[n][2], T)
    <2>1. ASSUME NEW n \in 1 .. top PROVE IsHeader(lines[n][1], lines[n][2], T)
      <3>1. PICK line \in AnswerLines : line = lines[n]
        BY <1>1
      <3>2. IsHeader(line[1], line[2], AnswerPieces)
        BY LinesAreHeaders
      <3> QED BY <1>2, <3>1, <3>2
    <2> QED BY <2>1
  <1>4. Laid(lines, top, at, text, T)
    BY <1>1, <1>2, <1>3, AnswerIsLaid
  <1>5. \A n \in 1 .. top : Xml!Last(lines[n][1]) = LastWord(lines[n])
    BY DEF Xml!Last, LastWord
  <1>6. PICK capital, small, ending, lengths, etags, number, header :
          /\ ending = {n \in DOMAIN lines : Ans!Lower(Xml!Last(lines[n][1])) = "length"}
          /\ capital = {n \in ending : Xml!Last(lines[n][1]) = "Length"}
          /\ small = EndingWith(lines, top, "length")
          /\ lengths = IF capital # {} THEN capital ELSE ending
          /\ etags = {n \in DOMAIN lines : Ans!Lower(Xml!Last(lines[n][1])) = "etag"}
          /\ number = Ans!GetObjectSize(text) /\ header = Ans!HTTPHeader(text, "ETag")
    OBVIOUS
  <1>7. capital = EndingWith(lines, top, "Length")
    BY <1>1, <1>5, <1>6, SoughtNames DEF EndingWith
  <1>8. lengths = IF capital # {} THEN capital ELSE small
    <2>1. ending = capital \cup small
      BY <1>1, <1>5, <1>6, <1>7, SoughtNames DEF EndingWith
    <2> QED BY <1>6, <2>1
  <1>9. number = IF lengths = {} THEN -1 ELSE IF lines[Xml!Max(lengths)][2] = <<"5">> THEN 5 ELSE 7
    <2>1. LET a == EndingWith(lines, top, "Length")
              b == EndingWith(lines, top, "length")
              l == IF a # {} THEN a ELSE b
          IN number = IF l = {} THEN -1 ELSE IF lines[Xml!Max(l)][2] = <<"5">> THEN 5 ELSE 7
      BY <1>3, <1>4, <1>6, SizeIsRead
    <2> QED BY <1>6, <1>7, <1>8, <2>1
  <1>10. etags = Tagged(lines, top)
    BY <1>1, <1>5, <1>6, SoughtNames DEF Tagged
  <1>11. header = IF etags = {} THEN <<>> ELSE lines[Xml!Min(etags)][2]
    <2>1. LET e == Tagged(lines, top)
          IN Ans!HTTPHeader(text, "ETag") = IF e = {} THEN <<>> ELSE lines[Xml!Min(e)][2]
      BY <1>3, <1>4, ETagIsRead
    <2> QED BY <1>6, <1>10, <2>1
  <1>12. PICK etag : etag = Ans!TrimETag(header)
    OBVIOUS
  <1>13. CASE etags = {}
    <2>1. header = <<>>
      BY <1>11, <1>13
    <2>2. etag = <<>>
      BY <1>12, <2>1 DEF Ans!TrimETag
    <2> QED BY <1>2, <1>6, <1>9, <1>12, <1>13, <2>2
  <1>14. CASE etags # {}
    <2>1. PICK m \in etags : \A n \in etags : m <= n
      <3>1. etags \subseteq Nat
        BY <1>10 DEF Tagged
      <3> QED BY <1>14, <3>1, LowestOf
    <2>2. Xml!Min(etags) = m
      <3>1. etags \subseteq Nat
        BY <1>10 DEF Tagged
      <3> QED BY <2>1, <3>1, MinIs
    <2>3. PICK v : v = lines[m][2]
      OBVIOUS
    <2>4. etag = IF v[1] \in {Ans!Quote, Ans!Entity} THEN <<"e1">> ELSE v
      <3>1. m \in 1 .. top /\ LastWord(lines[m]) \in {"ETag", "etag"}
        BY <1>10 DEF Tagged
      <3>2. Ans!TrimETag(v) = IF v[1] \in {Ans!Quote, Ans!Entity} THEN <<"e1">> ELSE v
        BY <1>3, <2>3, <3>1 DEF IsHeader, LastWord
      <3>3. header = v
        BY <1>11, <1>14, <2>2, <2>3
      <3> QED BY <1>12, <3>2, <3>3
    <2> QED BY <1>2, <1>6, <1>9, <1>12, <1>14, <2>2, <2>3, <2>4
  <1> QED BY <1>13, <1>14

\* What AnswersRead says of an answer.
AnswerRead(lines) ==
  LET text       == AnswerText(lines)
      Ending(w)  == {n \in DOMAIN lines : Ans!Lower(Xml!Last(lines[n][1])) = w}
      Named(w)   == {n \in DOMAIN lines : lines[n][1] = w}
      etag       == Ans!TrimETag(Ans!HTTPHeader(text, "ETag"))
      first      == lines[Xml!Min(Ending("etag"))][2]
  IN /\ \/ Named(CapitalLength) # {}
        \/ Ending("length") # {} /\ Ending("length") = Named(LowerLength)
        => Ans!GetObjectSize(text) = 5
     /\ Ending("length") = {} => Ans!GetObjectSize(text) = -1
     /\ Ending("etag") = {} => etag = <<>>
     /\ Ending("etag") # {} /\ Ending("etag") = Named(<<"ETag">>) =>
          etag = IF first[1] \in {Ans!Quote, Ans!Entity} THEN <<"e1">> ELSE first

\* Of the headers that are read, those that are the ones asked for.
LEMMA NamedAreRead ==
  ASSUME NEW lines \in Seq(AnswerLines)
  PROVE  AnswerRead(lines)
  <1>1. PICK top \in Nat : top = Len(lines) /\ DOMAIN lines = 1 .. top
    OBVIOUS
  <1>2. PICK text, ending, capital, lengths, etags, small, large, named, bytes, etag, first :
          /\ text = AnswerText(lines)
          /\ ending = {n \in DOMAIN lines : Ans!Lower(Xml!Last(lines[n][1])) = "length"}
          /\ capital = {n \in ending : Xml!Last(lines[n][1]) = "Length"}
          /\ lengths = IF capital # {} THEN capital ELSE ending
          /\ etags = {n \in DOMAIN lines : Ans!Lower(Xml!Last(lines[n][1])) = "etag"}
          /\ small = {n \in DOMAIN lines : lines[n][1] = LowerLength}
          /\ large = {n \in DOMAIN lines : lines[n][1] = CapitalLength}
          /\ named = {n \in DOMAIN lines : lines[n][1] = <<"ETag">>}
          /\ bytes = Ans!GetObjectSize(text)
          /\ etag = Ans!TrimETag(Ans!HTTPHeader(text, "ETag"))
          /\ first = lines[Xml!Min(etags)][2]
    OBVIOUS
  <1>3. /\ bytes = IF lengths = {} THEN -1 ELSE IF lines[Xml!Max(lengths)][2] = <<"5">> THEN 5 ELSE 7
        /\ IF etags = {} THEN etag = <<>>
           ELSE etag = IF first[1] \in {Ans!Quote, Ans!Entity} THEN <<"e1">> ELSE first
    <2>1. /\ Ans!GetObjectSize(text) =
               IF lengths = {} THEN -1
               ELSE IF lines[Xml!Max(lengths)][2] = <<"5">> THEN 5 ELSE 7
          /\ IF etags = {} THEN etag = <<>>
             ELSE etag = IF lines[Xml!Min(etags)][2][1] \in {Ans!Quote, Ans!Entity}
                           THEN <<"e1">> ELSE lines[Xml!Min(etags)][2]
      BY <1>2, AnswerIsRead
    <2> QED BY <1>2, <2>1
  <1>4. ASSUME NEW n \in 1 .. top
        PROVE  /\ LastWord(lines[n]) = Xml!Last(lines[n][1])
               /\ LastWord(lines[n]) = "Length" => lines[n][2] = <<"5">>
               /\ lines[n][1] = CapitalLength => LastWord(lines[n]) = "Length"
               /\ lines[n][1] = LowerLength => /\ LastWord(lines[n]) = "length"
                                               /\ lines[n][2] = <<"5">>
    <2>1. PICK line \in AnswerLines : line = lines[n]
      BY <1>1
    <2> QED BY <2>1, LengthsAre DEF Xml!Last, LastWord
  <1>5. ASSUME lengths # {} PROVE Xml!Max(lengths) \in lengths
    <2>1. lengths \subseteq 1 .. top
      BY <1>1, <1>2
    <2>2. PICK m \in lengths : \A n \in lengths : n <= m
      BY <1>5, <2>1, HighestOf
    <2>3. lengths \subseteq Nat
      BY <2>1
    <2> QED BY <2>2, <2>3, MaxIs
  <1>6. ASSUME large # {} PROVE bytes = 5
    <2>1. PICK n \in 1 .. top : lines[n][1] = CapitalLength
      BY <1>1, <1>2, <1>6
    <2>2. Xml!Last(lines[n][1]) = "Length"
      BY <1>4, <2>1
    <2>3. n \in capital
      BY <1>1, <1>2, <2>1, <2>2, SoughtNames
    <2>4. PICK m \in capital : m = Xml!Max(lengths)
      BY <1>2, <1>5, <2>3
    <2>5. m \in 1 .. top /\ Xml!Last(lines[m][1]) = "Length"
      BY <1>1, <1>2, <2>4
    <2>6. lines[m][2] = <<"5">>
      BY <1>4, <2>5
    <2> QED BY <1>2, <1>3, <2>3, <2>4, <2>6
  <1>7. ASSUME ending # {}, ending = small PROVE bytes = 5
    <2>1. PICK m \in small : m = Xml!Max(lengths)
      BY <1>2, <1>5, <1>7
    <2>2. m \in 1 .. top /\ lines[m][1] = LowerLength
      BY <1>1, <1>2, <2>1
    <2>3. lines[m][2] = <<"5">>
      BY <1>4, <2>2
    <2> QED BY <1>2, <1>3, <1>7, <2>1, <2>3
  <1>8. ending = {} => bytes = -1
    BY <1>2, <1>3
  <1>9. /\ etags = {} => etag = <<>>
        /\ etags # {} => etag = IF first[1] \in {Ans!Quote, Ans!Entity} THEN <<"e1">> ELSE first
    BY <1>3
  <1> QED BY <1>2, <1>6, <1>7, <1>8, <1>9 DEF AnswerRead

-----------------------------------------------------------------------------
(* The samples: lists grow, requests and lengths stay as they are.         *)

SampleInv ==
  /\ sample = [tag |-> sample.tag, input |-> sample.input]
  /\ sample.tag = "request" => sample.input \in Requests
  /\ sample.tag = "digest" => sample.input \in Lengths
  /\ sample.tag = "file" => sample.input \in Seq(LineKinds)
  /\ sample.tag = "list" => sample.input \in Seq(Pairs)
  /\ sample.tag = "answer" => sample.input \in Seq(AnswerLines)

LEMMA SampleAlways == SampleSpec => []SampleInv
  <1>1. SampleInit => SampleInv
    <2> SUFFICES ASSUME SampleInit PROVE SampleInv
      OBVIOUS
    <2>1. <<>> \in Seq(LineKinds) /\ <<>> \in Seq(Pairs) /\ <<>> \in Seq(AnswerLines)
      OBVIOUS
    <2>2. CASE \E tag \in DOMAIN Growing : sample = [tag |-> tag, input |-> <<>>]
      <3>1. PICK tag : /\ tag \in {"file", "list", "tags", "objects", "grants", "answer"}
                       /\ sample = [tag |-> tag, input |-> <<>>]
        BY <2>2 DEF Growing
      <3> QED BY <2>1, <3>1 DEF SampleInv
    <2>3. CASE \E r \in Requests : sample = [tag |-> "request", input |-> r]
      BY <2>3 DEF SampleInv
    <2>4. CASE \E l \in Lengths : sample = [tag |-> "digest", input |-> l]
      BY <2>4 DEF SampleInv
    <2> QED BY <2>2, <2>3, <2>4 DEF SampleInit
  <1>2. SampleInv /\ [SampleNext]_sample => SampleInv'
    <2> SUFFICES ASSUME SampleInv, Grow PROVE SampleInv'
      BY DEF SampleNext, SampleInv
    <2>1. /\ sample.tag \notin {"request", "digest"}
          /\ sample.tag = "file" => Growing[sample.tag] = LineKinds
          /\ sample.tag = "list" => Growing[sample.tag] = Pairs
          /\ sample.tag = "answer" => Growing[sample.tag] = AnswerLines
      BY DEF Grow, Growing
    <2>2. PICK item \in Growing[sample.tag] : sample' = [sample EXCEPT !.input = Append(@, item)]
      BY DEF Grow
    <2>3. sample' = [tag |-> sample.tag, input |-> Append(sample.input, item)]
      BY <2>2 DEF SampleInv
    <2>4. sample.tag = "file" => Append(sample.input, item) \in Seq(LineKinds)
      <3> SUFFICES ASSUME sample.tag = "file" PROVE Append(sample.input, item) \in Seq(LineKinds)
        OBVIOUS
      <3>1. PICK input \in Seq(LineKinds), line \in LineKinds : input = sample.input /\ line = item
        BY <2>1, <2>2 DEF SampleInv
      <3> QED BY <3>1
    <2>5. sample.tag = "list" => Append(sample.input, item) \in Seq(Pairs)
      <3> SUFFICES ASSUME sample.tag = "list" PROVE Append(sample.input, item) \in Seq(Pairs)
        OBVIOUS
      <3>1. PICK input \in Seq(Pairs), pair \in Pairs : input = sample.input /\ pair = item
        BY <2>1, <2>2 DEF SampleInv
      <3> QED BY <3>1
    <2>6. sample.tag = "answer" => Append(sample.input, item) \in Seq(AnswerLines)
      <3> SUFFICES ASSUME sample.tag = "answer"
                   PROVE  Append(sample.input, item) \in Seq(AnswerLines)
        OBVIOUS
      <3>1. PICK input \in Seq(AnswerLines), line \in AnswerLines :
              input = sample.input /\ line = item
        BY <2>1, <2>2 DEF SampleInv
      <3> QED BY <3>1
    <2>7. sample'.tag = sample.tag /\ sample'.input = Append(sample.input, item)
      BY <2>3
    <2> QED BY <2>1, <2>3, <2>4, <2>5, <2>6, <2>7 DEF SampleInv
  <1> QED BY <1>1, <1>2, PTL DEF SampleSpec

(* What is signed as it should be is accepted, and what is accepted is     *)
(* what the caller asked for, of every request that is sampled and of the  *)
(* URL made of it (aws_sign.cpp, s3-client.cpp).                           *)
THEOREM SignaturesVerify == SampleSpec => []SignatureVerifies
  <1>1. SampleInv => SignatureVerifies
    <2> SUFFICES ASSUME SampleInv, sample.tag = "request"
                 PROVE  RequestAccepted(sample.input) /\ UrlAccepted(sample.input)
      BY DEF SignatureVerifies
    <2> DEFINE args == sample.input
               Text == {"access", "secret", "endpoint", "today", "region", "s3", "params"}
    <2>1. args \in Requests
      BY DEF SampleInv
    <2>2. /\ args \in Signable(Text, Headers)
          /\ args.access # "" /\ args.host # "" /\ args.date # ""
          /\ args.headers \in Headers
      BY <2>1 DEF Requests, Signable, Methods
    <2>3. "Authorization" \notin DOMAIN args.headers
      <3>1. PICK N \in SUBSET Names : args.headers \in [N -> {"v", ""}]
        BY <2>2 DEF Headers
      <3>2. "Authorization" \notin N
        BY <3>1 DEF Names
      <3> QED BY <3>1, <3>2
    <2> HIDE DEF args, Text
    <2>4. RequestAccepted(args) /\ UrlAccepted(args)
      BY <2>2, <2>3, RequestIsAccepted, UrlIsAccepted
    <2> QED BY <2>4 DEF args
  <1> QED BY <1>1, SampleAlways, PTL

(* sha256() and hmac256() are what the standards say at every length of    *)
(* the data and of the key (sha256.c, hmac256.cpp), a key being longer     *)
(* than a block only if it is as long as the data.                         *)
THEOREM DigestsStandard == SampleSpec => []DigestsAreStandard
  <1>1. SampleInv => DigestsAreStandard
    <2> SUFFICES ASSUME SampleInv, sample.tag = "digest"
                 PROVE  DigestsAreStandard
      BY DEF DigestsAreStandard
    <2>1. PICK k \in Nat, d \in Nat : sample.input[1] = k /\ sample.input[2] = d
      BY SamplesAssumption DEF SampleInv, Lengths
    <2>2. PICK key, data : key = KeyOf(sample.input) /\ data = DataOf(sample.input)
      OBVIOUS
    <2> DEFINE T == {<<"key", n>> : n \in Nat} \cup {<<"data", n>> : n \in Nat}
    <2>3. key \in Seq(T) /\ data \in Seq(T)
      <3>1. key = [n \in 1 .. k |-> <<"key", n>>] /\ data = [n \in 1 .. d |-> <<"data", n>>]
        BY <2>1, <2>2 DEF KeyOf, DataOf
      <3>2. key \in [1 .. k -> T] /\ data \in [1 .. d -> T]
        BY <3>1
      <3> HIDE DEF T
      <3> QED BY <3>2, FunctionIsSeq
    <2> HIDE DEF T
    <2>4. Sha256(data, Len(data)) = PadTo(data)
      BY <2>3, OneShotIsStandard
    <2>5. Len(key) <= Block \/ Len(key) = Len(data) => Hmac256(data, key) = HmacFormula(data, key)
      BY <2>3, KeyedHashIsFormula
    <2> QED BY <2>2, <2>4, <2>5 DEF DigestsAreStandard
  <1> QED BY <1>1, SampleAlways, PTL

(* Whatever the file of credentials holds, those of a profile come from    *)
(* its own section and not from a comment, and in a plain file they are    *)
(* what it says; a list of parameters or headers gives every key its first *)
(* value (utility.cpp, s3-client.cpp, url_utility.cpp).                    *)
THEOREM SettingsAreRead == SampleSpec => []SettingsRead
  <1>1. SampleInv => SettingsRead
    <2> SUFFICES ASSUME SampleInv PROVE SettingsRead
      OBVIOUS
    <2>1. PICK input : input = sample.input
      OBVIOUS
    <2>2. CASE sample.tag = "file"
      <3>1. input \in Seq(LineKinds)
        BY <2>1, <2>2 DEF SampleInv
      <3>2. sample.tag # "list"
        BY <2>2
      <3> QED BY <2>1, <3>1, <3>2, FileIsRead DEF SettingsRead
    <2>3. CASE sample.tag = "list"
      <3>1. input \in Seq(Pairs)
        BY <2>1, <2>3 DEF SampleInv
      <3>2. sample.tag # "file"
        BY <2>3
      <3>3. ListRead(sample.input)
        BY <2>1, <3>1, SampledListIsRead
      <3> QED BY <3>2, <3>3, Zenon DEF SettingsRead, ListRead
    <2>4. CASE sample.tag \notin {"file", "list"}
      BY <2>4 DEF SettingsRead
    <2> QED BY <2>2, <2>3, <2>4
  <1> QED BY <1>1, SampleAlways, PTL

(* However many headers an answer has, its size and its ETag are read      *)
(* right, quotes and entities around it taken off, when no other name ends *)
(* as theirs (response_parser.cpp, s3-api.h).                              *)
THEOREM AnswersAreRead == SampleSpec => []AnswersRead
  <1>1. SampleInv => AnswersRead
    <2> SUFFICES ASSUME SampleInv, sample.tag = "answer" PROVE AnswersRead
      BY DEF AnswersRead
    <2>1. PICK lines \in Seq(AnswerLines) : lines = sample.input
      BY DEF SampleInv
    <2>2. AnswerRead(lines)
      BY NamedAreRead
    <2> QED BY <2>1, <2>2, Zenon DEF AnswersRead, AnswerRead
  <1> QED BY <1>1, SampleAlways, PTL
=============================================================================
