------------------------------- MODULE Streams -------------------------------
(***************************************************************************)
(* Bytes that are read in pieces.  A body is read by the callback that     *)
(* libcurl calls (lib/src/webclient.cpp) with as much room as it has;      *)
(* a file is hashed piece by piece by sha256_file and md5_file (lib/hash). *)
(* Meanwhile another process may cut the file.                             *)
(***************************************************************************)
EXTENDS Digests

CONSTANTS
  MaxSize,  \* bound: bytes of a file
  MaxRoom,  \* bound: room libcurl gives to a callback
  BufSize   \* pieces of the hashes: 16 MiB

ASSUME StreamAssumption ==
  /\ MaxSize \in Nat /\ MaxRoom \in Nat
  /\ BufSize \in Nat \ {0} /\ BufSize % Block = 0

BodyWays == {"ReadFile", "ReadFileUnbuffered", "MemReader", "mapped MemReader"}
HashWays == {"sha256_file", "md5_file"}

VARIABLES
  way,    \* who reads
  size,   \* bytes of the file, or of the buffer
  offset, \* where the body starts
  want,   \* its size: the Content-Length
  out,    \* what has been read: the body, or what the hash was fed
  taken,  \* bytes taken from the file
  state,
  cut     \* history: the file was cut while it was read

vars == <<way, size, offset, want, out, taken, state, cut>>

DataByte(k)       == <<"data", k>>
FileBytes(n)  == Bytes(DataByte, n)
Smallest(a, b) == IF a <= b THEN a ELSE b
Left(n)       == IF n < size THEN size - n ELSE 0

Init ==
  /\ way \in BodyWays \cup HashWays
  /\ size \in 0 .. MaxSize
  /\ offset \in IF way \in HashWays THEN {0} ELSE 0 .. size
  /\ want \in IF way \in HashWays THEN {0} ELSE 1 .. size - offset
  /\ out = <<>> /\ taken = 0 /\ state = "reading" /\ cut = FALSE

-----------------------------------------------------------------------------
(* Bodies.                                                                 *)

\* Variants: the size is not counted down, or it is one of the file.
RoomUncounted(room) == Smallest(room, want)

\* min(nmemb * size, fi.size - fi.offset); min(b + size, end).
Room(room) == Smallest(room, want - taken)

\* Byte k of a body.  Behind the end of its file a mapping has zeros, up to
\* the end of the page; what MemReader reads in memory is always there.
BodyByte(k) == IF offset + k <= size THEN DataByte(offset + k) ELSE Zero

\* What a call of the callback gets: a descriptor may give less than was asked
\* for, and an error of read counts as the end.
Given(n) ==
  CASE way = "ReadFile"           -> {Smallest(n, Left(offset + taken))}
    [] way = "ReadFileUnbuffered" -> 0 .. Smallest(n, Left(offset + taken))
    [] OTHER                      -> {n}

\* libcurl calls until it has the Content-Length, or nothing is given.
Callback(room) ==
  /\ way \in BodyWays /\ state = "reading"
  /\ \E n \in Given(Room(room)) :
       /\ out' = out \o Bytes(LAMBDA k : BodyByte(taken + k), n)
       /\ taken' = taken + n
       /\ state' = IF taken + n >= want THEN "sent"
                   ELSE IF n = 0 THEN "short" ELSE "reading"
  /\ UNCHANGED <<way, size, offset, want, cut>>

\* The page of a mapping is behind the end of the file: SIGBUS.
Killed ==
  /\ way = "mapped MemReader" /\ state = "reading" /\ offset + taken >= size
  /\ state' = "killed"
  /\ UNCHANGED <<way, size, offset, want, out, taken, cut>>

-----------------------------------------------------------------------------
(* Hashes of files.                                                        *)

Fed(hash, data) ==
  IF way = "sha256_file" THEN Sha256Stream(hash, data, Len(data))
                         ELSE Md5Stream(hash, data, Len(data))

Piece(bytes) == Bytes(LAMBDA k : DataByte(taken + k), bytes)

\* Variant: the length of the last piece.
LastPieceAlone(bytes) == Padded(Piece(bytes))

\* The last piece, padded with the length of the whole message.
LastPiece(bytes) ==
  LET n == NextDivBy(bytes + 1 + LenBytes, Block) IN
    Over(Over(Zeros(n), 0, Piece(bytes) \o <<One>>),
         n - LenBytes, Length(8 * (taken + bytes)))

\* fread, and a look at the next byte.
ReadPiece ==
  /\ way \in HashWays /\ state = "reading"
  /\ LET bytes == Smallest(BufSize, Left(taken))
         eof   == bytes < BufSize \/ Left(taken + bytes) = 0
     IN IF bytes = 0
          THEN state' = "exit" /\ UNCHANGED <<out, taken>>
          ELSE /\ out' = Fed(out, IF eof THEN LastPiece(bytes) ELSE Piece(BufSize))
               /\ taken' = taken + bytes
               /\ state' = IF eof THEN "hashed" ELSE state
  /\ UNCHANGED <<way, size, offset, want, cut>>

-----------------------------------------------------------------------------
\* Somebody cuts the file, or the buffer is in memory and cannot be cut.
Cut(n) ==
  /\ way # "MemReader" /\ state = "reading"
  /\ n < size
  /\ size' = n /\ cut' = TRUE
  /\ UNCHANGED <<way, offset, want, out, taken, state>>

Ended == state # "reading" /\ UNCHANGED vars

Next ==
  \/ \E room \in 1 .. MaxRoom : Callback(room)
  \/ Killed \/ ReadPiece \/ Ended
  \/ \E n \in 0 .. MaxSize : Cut(n)

Spec == Init /\ [][Next]_vars

-----------------------------------------------------------------------------
(* Properties                                                              *)

\* A request that is complete has the bytes of its range, in order, whatever
\* room libcurl gave and however the file was cut: a body that comes short is
\* never taken for a whole one.  Only a mapping is filled up with zeros when
\* its file is cut.
BodyIsRange ==
  state = "sent" => /\ Len(out) = want
                    /\ \/ way = "mapped MemReader" /\ cut
                       \/ \A k \in 1 .. want : out[k] = DataByte(offset + k)

\* The hash of a file is that of the bytes that were read of it, as one
\* message: the pieces, and where the last one ends, do not show.
HashIsOfFile == state = "hashed" => out = PadTo(FileBytes(taken))
=============================================================================
