------------------------------- MODULE Digests -------------------------------
(***************************************************************************)
(* What the hashes of lib/hash are fed: blocks of a message, padding, and  *)
(* the length.  The rounds on a block are left out: the state of a hash is *)
(* the bytes it has been fed, in whole blocks, and its value stands for    *)
(* them.  A byte is a tuple that says what it is.                          *)
(***************************************************************************)
EXTENDS Naturals, Sequences

CONSTANTS
  Block,    \* bytes of a block: 64
  LenBytes  \* bytes of the length at the end: 8

ASSUME DigestAssumption ==
  /\ Block \in Nat /\ LenBytes \in Nat \ {0}
  /\ 1 + LenBytes <= Block /\ Block % 2 = 0

One    == <<"0x80">>
Zero   == <<"0">>
Beyond == <<"beyond the buffer">>

Bytes(f(_), n) == [k \in 1 .. n |-> f(k)]
Zeros(n)       == Bytes(LAMBDA k : Zero, n)
Length(n)      == Bytes(LAMBDA k : <<"length", n, k>>, LenBytes)

\* n bytes from the start of a buffer, which may have fewer.
First(data, n) == Bytes(LAMBDA k : IF k <= Len(data) THEN data[k] ELSE Beyond, n)

-----------------------------------------------------------------------------
\* Variant: there is always a byte to add.
NextDivByAbove(n, d) == (n \div d + 1) * d

NextDivBy(n, d) == ((n + d - 1) \div d) * d

\* A buffer for size bytes, 0x80, zeros, and the number of bits at its end.
\* buffer_size, the length of the whole message, is not looked at.
AllocPadded(size) ==
  LET n == NextDivBy(size + 1 + LenBytes, Block) IN
    Zeros(size) \o <<One>> \o Zeros(n - size - 1 - LenBytes) \o Length(8 * size)

\* memcpy
Over(buffer, from, data) ==
  [k \in DOMAIN buffer |-> IF k - from \in DOMAIN data THEN data[k - from] ELSE buffer[k]]

\* sha256_stream takes the whole blocks, md5_stream also what a block lacks.
Sha256Stream(hash, data, length) == hash \o First(data, (length \div Block) * Block)
Md5Stream(hash, data, length)    == hash \o First(data, NextDivBy(length, Block))

Value(hash, k) == <<"hash", hash, k>>
HashBytes(hash) == Bytes(LAMBDA k : Value(hash, k), Block \div 2)

Padded(data)         == Over(AllocPadded(Len(data)), 0, data)
Sha256(data, length) ==
  LET message == Padded(First(data, length)) IN Sha256Stream(<<>>, message, Len(message))

-----------------------------------------------------------------------------
(* hmac256                                                                 *)

Xor(pad, key) == Bytes(LAMBDA k : <<pad, key[k]>>, Block)

\* A key longer than a block is hashed, over as many bytes as the data has.
HmacKey(data, key) ==
  Over(Zeros(Block), 0,
       IF Len(key) <= Block THEN key ELSE HashBytes(Sha256(key, Len(data))))

Hmac256(data, key) ==
  LET K      == HmacKey(data, key)
      inner  == Over(AllocPadded(Block + Len(data)), 0, Xor("ipad", K) \o data)
      hinner == Sha256Stream(<<>>, inner, Len(inner))
      outer  == Over(AllocPadded(Block + Block \div 2), 0, Xor("opad", K) \o HashBytes(hinner))
  IN Sha256Stream(<<>>, outer, Len(outer))

-----------------------------------------------------------------------------
(* References: FIPS 180-4 for the padding, and the formula of hmac256.cpp. *)

PadTo(data) ==
  LET zeros == CHOOSE z \in 0 .. Block - 1 : (Len(data) + 1 + z + LenBytes) % Block = 0
  IN data \o <<One>> \o Zeros(zeros) \o Length(8 * Len(data))

StandardHash(data) == HashBytes(PadTo(data))

HmacFormula(data, key) ==
  LET short == IF Len(key) <= Block THEN key ELSE StandardHash(key)
      K     == short \o Zeros(Block - Len(short))
  IN PadTo(Xor("opad", K) \o StandardHash(Xor("ipad", K) \o data))
=============================================================================
