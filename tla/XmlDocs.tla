------------------------------- MODULE XmlDocs -------------------------------
(***************************************************************************)
(* XML documents as the library writes and reads them: the stream that     *)
(* builds them (lib/include/xmlstreams.h), the lookups (lib/src/           *)
(* xml_path.cpp), and what is made of the answers of a server              *)
(* (lib/src/api/xml_parser.cpp).  A document is the sequence of its        *)
(* elements in the order of their start tags, each with its name, its      *)
(* parent (0 for the root) and its text, "" when it has none; a path is    *)
(* the sequence of the names on it, and one starts with another when the   *)
(* names do: none of those used here is the beginning of another name.     *)
(***************************************************************************)
EXTENDS Naturals, Sequences, SequencesExt

\* tolower, for the names that are not in lower case.
ToLower(name) ==
  CASE name = "Tagging"            -> "tagging"
    [] name = "TagSet"             -> "tagset"
    [] name = "Tag"                -> "tag"
    [] name = "Key"                -> "key"
    [] name = "Value"              -> "value"
    [] name = "ListVersionsResult" -> "listversionsresult"
    [] name = "Version"            -> "version"
    [] name = "DeleteMarker"       -> "deletemarker"
    [] OTHER                       -> name

Element(name, parent, text) == [name |-> name, parent |-> parent, text |-> text]

-----------------------------------------------------------------------------
(* XMLOStream: the document, and the current element.                      *)

\* A first insertion makes the path, and goes to its end.
Root(path) ==
  [doc |-> [k \in DOMAIN path |-> Element(path[k], k - 1, "")], cur |-> Len(path)]

Insert(os, name) == [os EXCEPT !.doc = Append(@, Element(name, os.cur, ""))]
\* os[name]
Down(os, name)   == [Insert(os, name) EXCEPT !.cur = Len(os.doc) + 1]
\* os["/"]
Up(os)           == [os EXCEPT !.cur = os.doc[@].parent]

\* os = text: the text, and up.
Text(os, text)   == Up([os EXCEPT !.doc[os.cur].text = text])

Leaf(os, name, text) == Text(Down(os, name), text)
OptionalLeaf(os, name, text) == IF text = "" THEN os ELSE Leaf(os, name, text)

-----------------------------------------------------------------------------
(* xml_path.cpp                                                            *)

\* The path of an element, in lower case, below (and with) element `top'.
PathTo(doc, k, top) ==
  LET Names[n \in DOMAIN doc] ==
        IF n = top \/ doc[n].parent = 0 THEN <<ToLower(doc[n].name)>>
        ELSE Append(Names[doc[n].parent], ToLower(doc[n].name))
  IN Names[k]
Path(doc, k) == PathTo(doc, k, 1)

\* The elements in S as they are visited, among the first ones.
Visited(S, last) ==
  LET Upto[k \in 0 .. last] ==
        IF k = 0 THEN <<>> ELSE IF k \in S THEN Append(Upto[k - 1], k) ELSE Upto[k - 1]
  IN Upto
InOrder(doc, S) == Visited(S, Len(doc))[Len(doc)]
Texts(doc, S)   == [n \in DOMAIN InOrder(doc, S) |-> doc[InOrder(doc, S)[n]].text]

\* All the texts with the same path, in the order of the document; an element
\* without a text leaves nothing.
DOMToDict(doc) ==
  LET full == {k \in DOMAIN doc : doc[k].text # ""} IN
  [p \in {Path(doc, k) : k \in full} |-> Texts(doc, {k \in full : Path(doc, k) = p})]

Below(prefix, p) == SubSeq(p, Len(prefix) + 1, Len(p))
ExtractSubPaths(prefix, dict) ==
  LET found == {p \in DOMAIN dict : IsPrefix(prefix, p)} IN
  [q \in {Below(prefix, p) : p \in found} |-> dict[prefix \o q]]

\* Variant: counted from 0 up to the size.
RecordListShort(prefix, dict) ==
  LET r    == ExtractSubPaths(prefix, dict)
      size == Max({0} \cup {Len(r[q]) : q \in DOMAIN r})
  IN [n \in 1 .. size |-> [q \in DOMAIN r |-> IF n < Len(r[q]) THEN r[q][n] ELSE ""]]

\* Record n has the n-th text of every path: records are told apart by
\* counting, not by their elements.
RecordList(prefix, dict) ==
  LET r    == ExtractSubPaths(prefix, dict)
      size == Max({0} \cup {Len(r[q]) : q \in DOMAIN r})
  IN [n \in 1 .. size |-> [q \in DOMAIN r |-> IF n <= Len(r[q]) THEN r[q][n] ELSE ""]]

\* The one text at a path of a dictionary.
Only(dict, path) == IF path \in DOMAIN dict /\ Len(dict[path]) = 1 THEN dict[path][1] ELSE ""

Get(record, path) == IF path \in DOMAIN record THEN record[path] ELSE ""

\* FindVisitor, PathVisitor: the first element there is.
TextOfFirst(doc, S) == IF S = {} THEN "" ELSE doc[Min(S)].text
FindElementText(doc, name) ==
  TextOfFirst(doc, {k \in DOMAIN doc : ToLower(doc[k].name) = ToLower(name)})
ParseXMLPath(doc, path) == TextOfFirst(doc, {k \in DOMAIN doc : Path(doc, k) = path})

\* MultiPathVisitor: the children of that name of every element at the path,
\* up to the first that has none.
Children(doc, k, name) == {c \in DOMAIN doc : doc[c].parent = k /\ doc[c].name = name}
Inside(doc, c) ==
  {k \in DOMAIN doc : c <= k /\ \A m \in c + 1 .. k : doc[m].parent >= c}
ParseXMLMultiPathText(doc, path, childPath) ==
  LET at     == {k \in DOMAIN doc : Path(doc, k) = path}
      barren == {k \in at : Children(doc, k, Head(childPath)) = {}}
      seen   == {k \in at : \A b \in barren : k < b}
      found  == InOrder(doc, UNION {Children(doc, k, Head(childPath)) : k \in seen})
  IN [n \in DOMAIN found |->
        TextOfFirst(doc, {k \in Inside(doc, found[n]) : PathTo(doc, k, found[n]) = childPath})]

-----------------------------------------------------------------------------
(* Documents as text: start tags, texts as they are, and end tags.         *)

Marked == {"markup"}  \* texts that would have to be escaped

EndTag(e)   == <<<<"end", e.name>>>>
StartTag(e) ==
  IF e.text = "" THEN <<<<"start", e.name>>>> ELSE <<<<"start", e.name>>, <<"text", e.text>>>>

\* The end tags from an element up to one that is around it.
EndTags(doc, around) ==
  LET From[k \in 0 .. Len(doc)] ==
        IF k <= around THEN <<>> ELSE EndTag(doc[k]) \o From[doc[k].parent]
  IN From

\* ToTextVisitor, without the layout: XMLText() asks for none.  It leaves the
\* elements that are not around the next one before it enters that.
Written(doc) ==
  LET Upto[k \in 0 .. Len(doc)] ==
        IF k = 0 THEN <<>>
        ELSE Upto[k - 1] \o (EndTags(doc, doc[k].parent)[k - 1] \o StartTag(doc[k]))
  IN Upto
XMLText(doc) == Written(doc)[Len(doc)] \o EndTags(doc, 0)[Len(doc)]

\* XMLDocument::Parse, which fails at a text that was not escaped.
Take(os, piece) ==
  CASE piece[1] = "start" -> Down(os, piece[2])
    [] piece[1] = "text"  -> [os EXCEPT !.doc[os.cur].text = piece[2]]
    [] piece[1] = "end"   -> Up(os)
Taken(text) ==
  LET Upto[n \in 0 .. Len(text)] ==
        IF n = 0 THEN [doc |-> <<>>, cur |-> 0] ELSE Take(Upto[n - 1], text[n])
  IN Upto
Parse(text) ==
  [ok  |-> \A n \in DOMAIN text : text[n][2] \notin Marked,
   doc |-> Taken(text)[Len(text)].doc]

-----------------------------------------------------------------------------
(* xml_parser.cpp                                                          *)

\* Field values of the records at a path.
Fields(doc, path, fields) ==
  LET r == RecordList(path, DOMToDict(doc)) IN
  [n \in DOMAIN r |-> [f \in fields |-> Get(r[n], f)]]

ParseBuckets(doc) ==
  LET r == ExtractSubPaths(<<"listallmybucketsresult", "buckets">>, DOMToDict(doc))
      At(f) == IF <<"bucket", f>> \in DOMAIN r THEN r[<<"bucket", f>>] ELSE <<>>
  IN IF Len(At("name")) # Len(At("creationdate")) THEN [ok |-> FALSE, buckets |-> <<>>]
     ELSE [ok |-> TRUE,
           buckets |-> [n \in DOMAIN At("name") |-> <<At("name")[n], At("creationdate")[n]>>]]

\* The flag is looked for above the root, where it never is.
ObjectFields == {<<"key">>, <<"etag">>, <<"owner", "id">>}
ParseObjects(doc) ==
  [truncated |-> <<"istruncated">> \in DOMAIN DOMToDict(doc),
   keys |-> Fields(doc, <<"listbucketresult", "contents">>, ObjectFields)]

GrantFields == {<<"grantee", "id">>, <<"grantee", "displayname">>, <<"permission">>}
ParseACL(doc) ==
  LET dict     == DOMToDict(doc)
      owner(f) == Only(dict, <<"accesscontrolpolicy", "owner", f>>) IN
  [ownerDisplayName |-> owner("displayname"), ownerID |-> owner("id"),
   grants |-> Fields(doc, <<"accesscontrolpolicy", "accesscontrollist", "grant">>, GrantFields)]

\* A grant [id, displayname, permission]: the stream is left inside of it.
AddGrant(os, g) ==
  LET grant   == Down(os, "grant")
      named   == g.id # "" \/ g.displayname # ""
      inside  == IF named
                   THEN OptionalLeaf(OptionalLeaf(Down(grant, "grantee"),
                                                  "displayname", g.displayname), "id", g.id)
                   ELSE grant
  IN Leaf(Up(inside), "permission", g.permission)

GenerateAclXML(acl) ==
  LET list  == Root(<<"accesscontrolpolicy", "accesscontrollist">>)
      owner == OptionalLeaf(OptionalLeaf(Down(list, "owner"), "displayname", acl.ownerDisplayName),
                            "ownerid", IF acl.ownerID = "" THEN "" ELSE acl.ownerDisplayName)
      start == IF acl.ownerDisplayName = "" /\ acl.ownerID = "" THEN list ELSE Up(owner)
      Upto[n \in 0 .. Len(acl.grants)] ==
        IF n = 0 THEN start ELSE AddGrant(Upto[n - 1], acl.grants[n])
  IN Upto[Len(acl.grants)].doc

AddTag(os, tag) == Up(Leaf(Leaf(Down(os, "Tag"), "Key", tag.key), "Value", tag.value))
Tagged(tags) ==
  LET Upto[n \in 0 .. Len(tags)] ==
        IF n = 0 THEN Root(<<"Tagging", "TagSet">>) ELSE AddTag(Upto[n - 1], tags[n])
  IN Upto
GenerateTagging(tags) == Tagged(tags)[Len(tags)].doc

\* Tags without a key or without a value are skipped; m[k] = v.
PutTag(m, e) ==
  LET key == Get(e, <<"key">>) value == Get(e, <<"value">>) IN
  IF key = "" \/ value = "" THEN m
  ELSE [k \in DOMAIN m \cup {key} |-> IF k = key THEN value ELSE m[k]]
TagsIn(records) ==
  LET Upto[n \in 0 .. Len(records)] ==
        IF n = 0 THEN <<>> ELSE PutTag(Upto[n - 1], records[n])
  IN Upto[Len(records)]
ParseTaggingResponse(doc) == TagsIn(RecordList(<<"tagging", "tagset", "tag">>, DOMToDict(doc)))

\* The paths looked for have upper-case letters, those of a dictionary never.
ParseListObjectVersions(doc) ==
  LET Ids(name) == RecordList(<<"ListVersionsResult", name>>, DOMToDict(doc)) IN
  [versions |-> Ids("Version"), deleteMarkers |-> Ids("DeleteMarker")]
=============================================================================
