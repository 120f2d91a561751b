---------------------------- MODULE MCAlgorithms ----------------------------
(***************************************************************************)
(* The algorithms of the library on all small inputs: a state is one       *)
(* input, and the properties compare what is computed from it with a       *)
(* reference.  Inputs that are lists grow by one element with every step.  *)
(***************************************************************************)
EXTENDS Naturals, Integers, Sequences, FiniteSets, Signing, Digests

CONSTANTS
  MaxLines,         \* bound: lines of a file of credentials
  MaxItems,         \* bound: items of a list, elements of a listing
  MaxBytes          \* bound: bytes of a key, and of the data hashed with it

ASSUME SamplesAssumption == MaxLines \in Nat /\ MaxItems \in Nat /\ MaxBytes \in Nat

Set == INSTANCE Settings
Xml == INSTANCE XmlDocs
Ans == INSTANCE Responses

VARIABLE sample

-----------------------------------------------------------------------------
(* Inputs                                                                  *)

\* Lines of a file; the words of a line are told from those of others by its
\* number.
LineKinds == {"[default]", "[a]", "access", "access, no value", "access # comment",
              "secret", "text", "blank"}
Access == "aws_access_key_id"
Secret == "aws_secret_access_key"
Word(n)      == <<"word", n>>
Line(kind, n) ==
  CASE kind = "[default]"        -> Set!Section("default")
    [] kind = "[a]"              -> Set!Section("a")
    [] kind = "access"           -> Set!Pair(Access, <<Word(n)>>)
    [] kind = "access, no value" -> Set!Pair(Access, <<>>)
    [] kind = "access # comment" -> Set!Pair(Access, <<Word(n), Set!Mark, <<"remark">>>>)
    [] kind = "secret"           -> Set!Pair(Secret, <<Word(n)>>)
    [] kind = "text"             -> Set!Text(<<Word(n)>>)
    [] kind = "blank"            -> Set!Blank
Lines(kinds) == [n \in DOMAIN kinds |-> Line(kinds[n], n)]

\* Items of lists "key=value;...": "A" is the upper case of "a".
Pairs == {<<"a">>, <<"A">>, <<"b", "a">>} \X {<<>>, <<"b">>, <<"=", "b">>, <<":", "a">>}
PairText(p, delim) == p[1] \o <<delim>> \o p[2]
AddText(text, p, delim) == text \o <<Set!Separator>> \o PairText(p, delim)
Joined(pairs, delim) ==
  LET Upto[n \in DOMAIN pairs] ==
        IF n = 1 THEN PairText(pairs[1], delim) ELSE AddText(Upto[n - 1], pairs[n], delim)
  IN Upto
Join(pairs, delim) == IF pairs = <<>> THEN <<>> ELSE Joined(pairs, delim)[Len(pairs)]

\* Elements of answers; "" is an element without a text.
Tags    == [key : {"k1", "k2"}, value : {"", "v1", "v2", "markup"}]
Objects == [key : {"k1", "k2"}, etag : {"", "e1", "e2"}, id : {"", "i1"}]
Grants  == [id : {"", "i1", "i2"}, displayname : {"", "d1"}, permission : {"p1", "p2"}]

\* Headers of answers: the words of a name, and the value.
CapitalLength == <<"Content", Ans!Dash, "Length">>
LowerLength   == <<"content", Ans!Dash, "length">>
AnswerLines ==
  LET Of(a, b)     == <<a, Ans!Dash, b>>
      OfUser(name) == <<"x", Ans!Dash, "meta", Ans!Dash, name>>
  IN {<<CapitalLength, <<"5">>>>, <<LowerLength, <<"5">>>>,
      <<OfUser("length"), <<"7">>>>, <<OfUser("etag"), <<"e2">>>>,
      <<<<"ETag">>, <<Ans!Quote, "e1", Ans!Quote>>>>,
      <<<<"ETag">>, <<"W", Ans!Slash, Ans!Quote, "e1", Ans!Quote>>>>,
      <<<<"ETag">>, <<Ans!Entity, "e1", Ans!Entity>>>>,
      <<<<"date">>, <<"tue", Ans!Space, "10", Ans!Colon, "20">>>>, <<Of("x", "empty"), <<>>>>}
LineText(line) ==
  line[1] \o <<Ans!Colon>> \o (<<Ans!Space>> \o line[2] \o <<Ans!Space>>)
AnswerUpto(lines) ==
  LET Upto[n \in 0 .. Len(lines)] ==
        IF n = 0 THEN <<>> ELSE Upto[n - 1] \o LineText(lines[n])
  IN Upto
AnswerText(lines) == AnswerUpto(lines)[Len(lines)]

Growing == [file |-> LineKinds, list |-> Pairs, tags |-> Tags, objects |-> Objects,
            grants |-> Grants, answer |-> AnswerLines]
Bound(tag) == IF tag = "file" THEN MaxLines ELSE MaxItems

Names    == {"x-amz-meta-a", "x-amz-date", "content-length", "content-type", "host"}
Headers  == UNION {[N -> {"v", ""}] : N \in SUBSET Names}
Requests ==
  [access : {"access"}, secret : {"secret"}, host : {"endpoint"}, date : {"today"},
   region : {"region"}, service : {"s3"}, params : {"params"},
   method : Methods, key : {"plain", "special"}, headers : Headers,
   data : Data \cup {NoData}, dataIsFileName : BOOLEAN]

\* A key and data, by their lengths.
Lengths    == (0 .. MaxBytes) \X (0 .. MaxBytes)
KeyOf(l)   == [k \in 1 .. l[1] |-> <<"key", k>>]
DataOf(l)  == [k \in 1 .. l[2] |-> <<"data", k>>]

SampleInit ==
  \/ \E tag \in DOMAIN Growing : sample = [tag |-> tag, input |-> <<>>]
  \/ \E r \in Requests : sample = [tag |-> "request", input |-> r]
  \/ \E l \in Lengths : sample = [tag |-> "digest", input |-> l]

Grow ==
  /\ sample.tag \in DOMAIN Growing
  /\ Len(sample.input) < Bound(sample.tag)
  /\ \E item \in Growing[sample.tag] : sample' = [sample EXCEPT !.input = Append(@, item)]

SampleNext == Grow
SampleSpec == SampleInit /\ [][SampleNext]_sample

-----------------------------------------------------------------------------
(* Properties                                                              *)

\* One-shot and keyed hashes are padded as the standards say, at every length
\* around the end of a block; the key of a keyed hash may be longer than a
\* block only if it happens to be as long as the data.
DigestsAreStandard ==
  sample.tag = "digest" =>
    LET key == KeyOf(sample.input) data == DataOf(sample.input) IN
    /\ Sha256(data, Len(data)) = PadTo(data)
    /\ Len(key) <= Block \/ Len(key) = Len(data) =>
         Hmac256(data, key) = HmacFormula(data, key)

\* The section a line belongs to: the last that starts before it, or the first
\* of the file.
SectionOf(lines, n) ==
  LET heads  == {k \in DOMAIN lines : lines[k].kind = "section"}
      before == {k \in heads : k <= n}
  IN IF heads = {} THEN Set!NoName
     ELSE lines[IF before = {} THEN Xml!Min(heads) ELSE Xml!Max(before)].name

\* Section headers that differ come first, and a section has every key once,
\* with a value.
Plainly(lines) ==
  /\ lines # <<>> /\ lines[1].kind = "section"
  /\ \A n \in DOMAIN lines : lines[n].kind # "text"
                             /\ (lines[n].kind = "pair" => lines[n].words # <<>>)
  /\ \A m, n \in DOMAIN lines :
       m # n /\ lines[m].kind = lines[n].kind /\ lines[m].kind \in {"section", "pair"}
       /\ lines[m].name = lines[n].name =>
         lines[m].kind = "pair" /\ SectionOf(lines, m) # SectionOf(lines, n)

\* Whatever the file of credentials looks like, those of a profile come from
\* its own section and not from a comment; in a plain file they are what it says.
\* Lists of parameters and headers give every key its first value.
SettingsRead ==
  /\ sample.tag = "file" =>
       \A profile \in {"default", "a"} :
         LET lines == Lines(sample.input)
             c     == Set!GetS3Credentials(lines, profile)
             Own(key) == {n \in DOMAIN lines : SectionOf(lines, n) = profile
                                               /\ lines[n].kind = "pair" /\ lines[n].name = key}
         IN /\ \A v \in {c.access, c.secret} : \A k \in DOMAIN v :
                 \E n \in DOMAIN lines : v[k] = Word(n) /\ SectionOf(lines, n) = profile
            /\ Plainly(lines) =>
                 /\ c.found = \E n \in DOMAIN lines : lines[n].name = profile
                 /\ \A n \in Own(Access) : c.access = <<Word(n)>>
                 /\ \A n \in Own(Secret) : c.secret = <<Word(n)>>
  /\ sample.tag = "list" =>
       LET pairs == sample.input
           FirstWith(k, lower) ==
             Xml!Min({n \in DOMAIN pairs :
                        (IF lower THEN Set!Lower(pairs[n][1]) ELSE pairs[n][1]) = k})
           params  == Set!ParseParams(Join(pairs, Set!Equals))
           headers == Set!ParseHeaders(Join(pairs, Set!Colon))
       IN /\ DOMAIN params = {pairs[n][1] : n \in DOMAIN pairs}
          /\ \A k \in DOMAIN params : params[k] = pairs[FirstWith(k, FALSE)][2]
          /\ DOMAIN headers = {Set!Lower(pairs[n][1]) : n \in DOMAIN pairs}
          /\ \A k \in DOMAIN headers : headers[k] = pairs[FirstWith(k, TRUE)][2]

\* What the library signs is accepted, and what is accepted is what the caller
\* asked for; Signing says of which requests and URLs.
SignatureVerifies ==
  sample.tag = "request" => RequestAccepted(sample.input) /\ UrlAccepted(sample.input)

\* A URL made for any method that is offered is accepted: "HTTP method: get |
\* put | post | delete" (apps/presign_url.cpp:71).  The method is signed in the
\* case it is given in (aws_sign.cpp:130-185), and goes out in upper case.
PresignedMethodsWork ==
  sample.tag = "request" =>
    LET args == sample.input IN
    /\ args.method \in Offered
    /\ args.key = "plain"
    /\ DOMAIN args.headers \cap AmzNames = {}
    /\ Valued(args, DOMAIN args.headers)
    => UrlVerifies(args, SignedURL(args))

-----------------------------------------------------------------------------
(* Answers as documents.                                                   *)

\* Some elements are around all the records; the elements of a record are in
\* the innermost of those (under 0), or in one of the same record.
Under(name, under) == [name |-> name, under |-> under]
AnswerDoc(around, shape, rows) ==
  LET Row(before, row) ==
        [j \in DOMAIN shape |->
           Xml!Element(shape[j].name,
                       IF shape[j].under = 0 THEN Len(around) ELSE before + shape[j].under,
                       row[j])]
      Upto[n \in 0 .. Len(rows)] ==
        IF n = 0 THEN Xml!Root(around).doc
        ELSE Upto[n - 1] \o Row(Len(Upto[n - 1]), rows[n])
  IN Upto[Len(rows)]

Listing(objects) ==
  AnswerDoc(<<"listbucketresult">>,
            <<Under("contents", 0), Under("key", 1), Under("etag", 1), Under("owner", 1),
              Under("id", 4)>>,
            [n \in DOMAIN objects |->
               <<"", objects[n].key, objects[n].etag, "", objects[n].id>>])
Buckets(objects) ==
  AnswerDoc(<<"listallmybucketsresult", "buckets">>,
            <<Under("bucket", 0), Under("name", 1), Under("creationdate", 1)>>,
            [n \in DOMAIN objects |-> <<"", objects[n].key, objects[n].etag>>])
AclAnswer(grants) ==
  AnswerDoc(<<"accesscontrolpolicy", "accesscontrollist">>,
            <<Under("grant", 0), Under("grantee", 1), Under("id", 2), Under("displayname", 2),
              Under("permission", 1)>>,
            [n \in DOMAIN grants |->
               <<"", "", grants[n].id, grants[n].displayname, grants[n].permission>>])

AsObject(r) == [key |-> r[<<"key">>], etag |-> r[<<"etag">>], id |-> r[<<"owner", "id">>]]
AsGrant(r)  == [id |-> r[<<"grantee", "id">>], displayname |-> r[<<"grantee", "displayname">>],
                permission |-> r[<<"permission">>]]
All(f(_), records) == [n \in DOMAIN records |-> f(records[n])]

\* All the records have a text for the same fields.
Alike(records) ==
  \A m, n \in DOMAIN records : \A f \in DOMAIN records[m] :
    (records[m][f] = "") = (records[n][f] = "")

\* A document written as a text and read again.
Reread(doc) == Xml!Parse(Xml!XMLText(doc))

\* Objects of a listing, and buckets.
ObjectsRead(records) ==
  LET found == Xml!ParseBuckets(Buckets(records)) IN
  /\ Alike(records) => All(AsObject, Xml!ParseObjects(Listing(records)).keys) = records
  /\ Xml!ParseXMLMultiPathText(Listing(records), <<"listbucketresult">>,
                               <<"contents", "owner", "id">>)
       = [n \in DOMAIN records |-> records[n].id]
  /\ found.ok = \A n \in DOMAIN records : records[n].etag # ""
  /\ found.ok => found.buckets = [n \in DOMAIN records |-> <<records[n].key, records[n].etag>>]

\* The tags that are sent.
TagsRead(records) ==
  LET written == Reread(Xml!GenerateTagging(records))
      m       == Xml!ParseTaggingResponse(written.doc) IN
  /\ written.ok = \A n \in DOMAIN records : records[n].value \notin Xml!Marked
  /\ Alike(records) => \A n \in DOMAIN records :
       records[n].value # "" /\ (\A k \in n + 1 .. Len(records) : records[k].key # records[n].key)
         => records[n].key \in DOMAIN m /\ m[records[n].key] = records[n].value

\* The grants of an answer, and a grant that is sent.
GrantsRead(records) ==
  LET Read(doc) == All(AsGrant, Xml!ParseACL(doc).grants)
      acl == [ownerDisplayName |-> "o", ownerID |-> "o", grants |-> records]
  IN /\ Alike(records) => Read(AclAnswer(records)) = records
     /\ Len(records) = 1 /\ (records[1].id # "" \/ records[1].displayname # "") =>
          Read(Reread(Xml!GenerateAclXML(acl)).doc) = records

\* When all the records of an answer have the same fields, they are read as
\* they are; texts looked up under each record are right even when they are
\* not.  A number of names that is not that of the dates is noticed.  What the
\* library writes can be read unless a text would have had to be escaped.
RecordsRead ==
  /\ sample.tag = "objects" => ObjectsRead(sample.input)
  /\ sample.tag = "tags" => TagsRead(sample.input)
  /\ sample.tag = "grants" => GrantsRead(sample.input)

\* The size of an object is what Content-Length says when it is written so; in
\* lower case, as HTTP/2 has it, when no other name ends in "length"; without
\* such a name there is none.  When no other name ends in "etag", the ETag is
\* that of the first ETag header, without quotes if it begins with one.
AnswersRead ==
  sample.tag = "answer" =>
    LET lines      == sample.input
        text       == AnswerText(lines)
        Ending(w)  == {n \in DOMAIN lines : Ans!Lower(Xml!Last(lines[n][1])) = w}
        Named(w)   == {n \in DOMAIN lines : lines[n][1] = w}
        etag       == Ans!TrimETag(Ans!HTTPHeader(text, "ETag"))
        first      == lines[Xml!Min(Ending("etag"))][2]
    IN /\ \/ Named(CapitalLength) # {}
          \/ Ending("length") # {} /\ Ending("length") = Named(LowerLength)
          => Ans!GetObjectSize(text) = 5
       /\ Ending("length") = {} => Ans!GetObjectSize(text) = -1
       /\ Ending("etag") = {} => etag = <<>>
       /\ Ending("etag") # {} /\ Ending("etag") = Named(<<"ETag">>) =>
            etag = IF first[1] \in {Ans!Quote, Ans!Entity} THEN <<"e1">> ELSE first

\* The header that is looked for is the one of that name: "Extract and return
\* HTTP header" (response_parser.h:69).  The expression is not tied to the
\* beginning of a name (response_parser.cpp:104-112).
HeaderIsOfName ==
  sample.tag = "answer" =>
    LET lines == sample.input
        value == Ans!HTTPHeader(AnswerText(lines), "ETag")
    IN value # <<>> => \E n \in DOMAIN lines : lines[n] = <<<<"ETag">>, value>>

\* Tags that are written as a document and read back have their own values or
\* none: "An XML subtree is represented as record" (xmlstreams.h:254).
TagsKeepTheirValues ==
  sample.tag = "tags" =>
    LET written == Reread(Xml!GenerateTagging(sample.input))
        m       == Xml!ParseTaggingResponse(written.doc) IN
    written.ok =>
      \A k \in DOMAIN m : \E n \in DOMAIN sample.input :
        sample.input[n].key = k /\ sample.input[n].value = m[k]
=============================================================================
