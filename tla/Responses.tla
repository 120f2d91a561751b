------------------------------ MODULE Responses ------------------------------
(***************************************************************************)
(* What is read from the headers of an answer (lib/src/                    *)
(* response_parser.cpp) by regular expressions that know nothing of lines  *)
(* or of whole names.  A text is the sequence of its pieces: words, each   *)
(* of them all the letters and digits there are in a row, single           *)
(* characters that are neither, " " for any white space, the end of a line *)
(* included, and &#34; whole: the digits in it are no name and no value    *)
(* for the expressions, as no colon is next to them.                       *)
(***************************************************************************)
EXTENDS Naturals, Integers, Sequences, FiniteSetsExt

Space == " "
Colon == ":"
Dash  == "-"
Slash == "/"
Quote == "quote"
Entity == "&#34;"
Marks == {Space, Quote, Entity, Colon, Dash, Slash}

\* icase, for the words that are looked for.
Lower(word) == CASE word = "Length" -> "length" [] word = "ETag" -> "etag" [] OTHER -> word

\* \s* from k on: where the next piece is that is not a space.
AfterSpaces(text, k) ==
  Min({n \in k .. Len(text) + 1 : n = Len(text) + 1 \/ text[n] # Space})

\* \s*:\s* behind the word at k: where a value would be, or 0.
ValueAt(text, k) ==
  LET colon == AfterSpaces(text, k + 1) IN
  IF colon <= Len(text) /\ text[colon] = Colon THEN AfterSpaces(text, colon + 1) ELSE 0

IsWord(text, k) == k \in DOMAIN text /\ text[k] \notin Marks

\* headers[name] = value: a later value replaces an earlier one.
Put(headers, name, value) ==
  [h \in DOMAIN headers \cup {name} |-> IF h = name THEN value ELSE headers[h]]

\* (\w+)\s*:\s*(\w+) at k, unless k is in what has been matched: the search
\* goes on behind the value.
Matched(scan, text, k) ==
  IF k >= scan.si /\ IsWord(text, k) /\ IsWord(text, ValueAt(text, k))
    THEN [headers |-> Put(scan.headers, text[k], text[ValueAt(text, k)]),
          si |-> ValueAt(text, k) + 1]
    ELSE scan

\* As often as it is found: of a name with dashes the last word is left, and an
\* empty value is the next name.
Scanned(text) ==
  LET Scan[k \in 0 .. Len(text)] ==
        IF k = 0 THEN [headers |-> [h \in {} |-> h], si |-> 1]
        ELSE Matched(Scan[k - 1], text, k)
  IN Scan
HTTPHeaders(text) == Scanned(text)[Len(text)].headers

\* The value up to the next white space of the first name that ends with this
\* word.
HTTPHeader(text, header) ==
  LET named == {k \in DOMAIN text : /\ Lower(text[k]) = Lower(header)
                                    /\ ValueAt(text, k) \in DOMAIN text}
      v     == ValueAt(text, Min(named))
      end   == Min({n \in v .. Len(text) + 1 : n = Len(text) + 1 \/ text[n] = Space})
  IN IF named = {} THEN <<>> ELSE SubSeq(text, v, end - 1)

\* Variant: only the character is looked for.
TrimETagQuote(etag) ==
  IF etag # <<>> /\ etag[1] = Quote THEN SubSeq(etag, 2, Len(etag) - 1) ELSE etag

\* A quote in front takes the last character with it, an entity in front the
\* last five, which are one here when they are the same.
TrimETag(etag) ==
  IF etag # <<>> /\ etag[1] \in {Quote, Entity} THEN SubSeq(etag, 2, Len(etag) - 1) ELSE etag

\* GetValue: the first in the order of the names, capitals first.
NoValue == ""
LengthIn(headers) ==
  CASE "Length" \in DOMAIN headers -> headers["Length"]
    [] "Length" \notin DOMAIN headers /\ "length" \in DOMAIN headers -> headers["length"]
    [] OTHER -> NoValue

\* stoll: a word that is no number throws.
Numbers == [word \in {"5", "7"} |-> IF word = "5" THEN 5 ELSE 7]
GetObjectSize(text) ==
  LET v == LengthIn(HTTPHeaders(text)) IN IF v \in DOMAIN Numbers THEN Numbers[v] ELSE -1
=============================================================================
