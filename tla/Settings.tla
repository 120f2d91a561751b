------------------------------ MODULE Settings ------------------------------
(***************************************************************************)
(* What users write: the file of credentials (ParseTomlFile of             *)
(* lib/src/utility.cpp, GetS3Credentials of lib/src/s3-client.cpp), and    *)
(* lists of parameters and headers (Split of lib/include/utility.h,        *)
(* ParseParams and ParseHeaders of lib/src/url_utility.cpp).               *)
(***************************************************************************)
EXTENDS Naturals, Sequences, FiniteSetsExt

\* map[key] = value, and map.insert, which leaves a key that is there alone.
Put(map, key, value) ==
  [k \in DOMAIN map \cup {key} |-> IF k = key THEN value ELSE map[k]]
Insert(map, key, value) == IF key \in DOMAIN map THEN map ELSE Put(map, key, value)
NoMap     == [k \in {} |-> k]
At(map, key) == IF key \in DOMAIN map THEN map[key] ELSE <<>>

-----------------------------------------------------------------------------
(* The file of credentials.  A line is a section header, a pair, some text *)
(* or blank, a comment being a blank; a value or a text is a sequence of   *)
(* words, Mark starting a comment, and a key the path of its parts.         *)

\* The empty string: no section and no key.
NoName           == ""
Section(name)    == [kind |-> "section", name |-> name, words |-> <<>>]
Pair(key, words) == [kind |-> "pair", name |-> key, words |-> words]
Text(words)      == [kind |-> "text", name |-> NoName, words |-> words]
Blank            == [kind |-> "blank", name |-> NoName, words |-> <<>>]

Mark == <<"#">>
TrimLine(words) ==
  LET marks == {k \in DOMAIN words : words[k] = Mark}
  IN IF marks = {} THEN words ELSE SubSeq(words, 1, Min(marks) - 1)

\* toml, curSection, curSectionData, lastKey.
Parsing == [toml |-> NoMap, section |-> NoName, data |-> NoMap, last |-> NoName, ok |-> TRUE]

\* Variant: what a section has set is not cleared.
AtSectionKept(p, line) ==
  IF p.section = NoName THEN [p EXCEPT !.section = line.name]
  ELSE [p EXCEPT !.toml = Put(@, p.section, p.data), !.last = NoName, !.section = line.name]

\* A section ends where the next one starts.  Before the first, nothing is
\* stored, and nothing is cleared either.
AtSection(p, line) ==
  IF p.section = NoName THEN [p EXCEPT !.section = line.name]
  ELSE [p EXCEPT !.toml = Put(@, p.section, p.data), !.data = NoMap, !.last = NoName,
                 !.section = line.name]

\* Under a key without a value, keys are nested; curSectionData[lastKey]
\* makes an entry when there is none, as after a nested key.
AtPair(p, line) ==
  LET bare   == p.last # NoName /\ At(p.data, <<p.last>>) = <<>>
      data   == IF p.last = NoName THEN p.data ELSE Insert(p.data, <<p.last>>, <<>>)
      key    == IF bare THEN <<p.last, line.name>> ELSE <<line.name>>
  IN [p EXCEPT !.data = Put(data, key, TrimLine(line.words)), !.last = line.name]

\* Any other line goes on with the last value.
AtText(p, line) ==
  IF p.last = NoName THEN [p EXCEPT !.ok = FALSE]
  ELSE [p EXCEPT !.data = Put(@, <<p.last>>, At(@, <<p.last>>) \o TrimLine(line.words))]

AtLine(p, line) ==
  IF ~p.ok THEN p
  ELSE CASE line.kind = "section" -> AtSection(p, line)
         [] line.kind = "pair"    -> AtPair(p, line)
         [] line.kind = "text"    -> AtText(p, line)
         [] OTHER                 -> p

\* What is known after every line.
LinesRead(lines) ==
  LET After[n \in 0 .. Len(lines)] ==
        IF n = 0 THEN Parsing ELSE AtLine(After[n - 1], lines[n])
  IN After

\* The last section is stored unless an earlier one has its name.
ParseTomlFile(lines) ==
  LET p == LinesRead(lines)[Len(lines)]
  IN [p EXCEPT !.toml = Insert(@, p.section, p.data)]

Profile(name) == IF name = "" THEN "default" ELSE name
GetS3Credentials(lines, profile) ==
  LET p == ParseTomlFile(lines) IN
  IF ~p.ok \/ Profile(profile) \notin DOMAIN p.toml
    THEN [found |-> FALSE, access |-> <<>>, secret |-> <<>>]
    ELSE [found |-> TRUE,
          access |-> At(p.toml[Profile(profile)], <<"aws_access_key_id">>),
          secret |-> At(p.toml[Profile(profile)], <<"aws_secret_access_key">>)]

-----------------------------------------------------------------------------
(* Lists of parameters, "a=b;c", and of headers, "A:b;c:d": sequences of   *)
(* letters.                                                                *)

Separator == ";"
Equals    == "="
Colon     == ":"

\* Where the piece from `start' on ends: before the next delimiter, or before
\* the place behind the end of the text.
EndOf(s, delim, start) ==
  Min({k \in start .. Len(s) : s[k] = delim} \cup {Len(s) + 1})
StartsOf(s, delim) ==
  LET Start[n \in 1 .. Len(s) + 1] ==
        IF n = 1 THEN 1 ELSE EndOf(s, delim, Start[n - 1]) + 1
  IN Start

\* Pieces between delimiters, the last of which may still hold some when only
\* so many are to be looked at.
Split(s, delim, count) ==
  LET start == StartsOf(s, delim)
      last  == Min({n \in DOMAIN start : \/ n = count + 1
                                         \/ EndOf(s, delim, start[n]) = Len(s) + 1})
  IN [n \in 1 .. last |->
        SubSeq(s, start[n], IF n = last THEN Len(s) ELSE EndOf(s, delim, start[n]) - 1)]
All(s) == Len(s)

\* ToLower, for the one letter that has a case.
Lower(s) == [k \in DOMAIN s |-> IF s[k] = "A" THEN "a" ELSE s[k]]

\* Keys of headers are lowered, those of parameters are not.
AddPair(map, piece, delim, lowered) ==
  LET kv == Split(piece, delim, 1) IN
  Insert(map, IF lowered THEN Lower(kv[1]) ELSE kv[1], IF Len(kv) = 2 THEN kv[2] ELSE <<>>)

PairsRead(pieces, delim, lowered) ==
  LET After[n \in 0 .. Len(pieces)] ==
        IF n = 0 THEN NoMap ELSE AddPair(After[n - 1], pieces[n], delim, lowered)
  IN After
ParsePairs(s, delim, lowered) ==
  LET pieces == Split(s, Separator, All(s))
  IN IF s = <<>> THEN NoMap ELSE PairsRead(pieces, delim, lowered)[Len(pieces)]

ParseParams(s)  == ParsePairs(s, Equals, FALSE)
ParseHeaders(s) == ParsePairs(s, Colon, TRUE)
=============================================================================
