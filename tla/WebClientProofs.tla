--------------------------- MODULE WebClientProofs ---------------------------
(***************************************************************************)
(* Theorems about WebClient: no handle outlives libcurl, for every set of  *)
(* objects (CurlEnv); what the requests of one handle carry, for whatever  *)
(* callers send and however many calls are made (CurlHandle); and which    *)
(* bytes and descriptors the threads that send files get, for any threads, *)
(* descriptors and number of tries (FileParts).                            *)
(***************************************************************************)
EXTENDS CurlEnv, CurlHandle, FileParts, FiniteSetTheorems, WellFoundedInduction, TLAPS

-----------------------------------------------------------------------------
(* The life of libcurl.                                                    *)

EnvIInv == LibraryTypeOK /\ EnvInv

\* The counted objects are finitely many.
LEMMA CountedFinite == IsFiniteSet(Counted) /\ Cardinality(Counted) \in Nat
  <1>1. Counted \subseteq Clients
    BY DEF Counted
  <1>2. IsFiniteSet(Counted)
    BY <1>1, ClientsAssumption, FS_Subset
  <1> QED BY <1>2, FS_CardinalityType

LEMMA EnvInit == ASSUME LibraryInit PROVE EnvIInv
  <1>1. Counted = {}
    BY DEF LibraryInit, Counted
  <1>2. CountIsRight
    BY <1>1, FS_EmptySet DEF LibraryInit, CountIsRight
  <1> QED BY <1>2, ClientsAssumption
          DEF LibraryInit, EnvIInv, EnvInv, LibraryTypeOK, Stages, MutexInv, LibraryInv, Inside

\* One object is counted, or discounted.
LEMMA CountedGrows ==
  ASSUME NEW c, c \notin Counted, Counted' = Counted \cup {c}
  PROVE  Cardinality(Counted') = Cardinality(Counted) + 1
  BY CountedFinite, FS_AddElement

LEMMA CountedShrinks ==
  ASSUME NEW c, c \in Counted, Counted' = Counted \ {c}
  PROVE  Cardinality(Counted') = Cardinality(Counted) - 1
  BY CountedFinite, FS_RemoveElement

\* Two objects that change places keep the count.
LEMMA CountedSwaps ==
  ASSUME NEW c, NEW d, c \in Counted, d \notin Counted,
         Counted' = (Counted \ {c}) \cup {d}
  PROVE  Cardinality(Counted') = Cardinality(Counted)
  <1>1. /\ IsFiniteSet(Counted \ {c})
        /\ Cardinality(Counted \ {c}) = Cardinality(Counted) - 1
    BY CountedFinite, FS_RemoveElement
  <1>2. d \notin Counted \ {c}
    OBVIOUS
  <1>3. Cardinality((Counted \ {c}) \cup {d}) = Cardinality(Counted \ {c}) + 1
    BY <1>1, <1>2, FS_AddElement
  <1> QED BY <1>1, <1>3, CountedFinite

LEMMA EnvStep == ASSUME EnvIInv, [LibraryNext]_libraryVars PROVE EnvIInv'
  <1> USE DEF EnvIInv, EnvInv
  <1> DEFINE n == Cardinality(Counted)
  <1>0. n \in Nat /\ numInstances_ = n + failed /\ failed \in Nat
    BY CountedFinite, ClientsAssumption DEF CountIsRight, LibraryTypeOK
  <1> HIDE DEF n
  <1>1. ASSUME NEW c \in Clients, LockToInit(c) PROVE EnvIInv'
    <2>1. Counted' = Counted
      BY <1>1 DEF LockToInit, Goto, Counted, LibraryTypeOK
    <2>2. LibraryTypeOK' /\ MutexInv' /\ LibraryInv'
      BY <1>1, ClientsAssumption
         DEF LockToInit, Goto, LibraryTypeOK, Stages, MutexInv, LibraryInv, Inside
    <2> QED BY <1>1, <2>1, <2>2 DEF LockToInit, CountIsRight
  <1>2. ASSUME NEW c \in Clients, GlobalInit(c) PROVE EnvIInv'
    <2>1. Counted' = Counted
      BY <1>2 DEF GlobalInit, Goto, Counted, LibraryTypeOK
    <2>2. \A d \in Clients : pc[d] \notin {"ready", "left"}
      BY <1>2 DEF GlobalInit, MutexInv, Inside
    <2>3. LibraryTypeOK' /\ MutexInv' /\ LibraryInv'
      BY <1>2, <2>2, <1>0 DEF GlobalInit, Goto, LibraryTypeOK, Stages, MutexInv, LibraryInv, Inside
    <2> QED BY <1>2, <2>1, <2>3 DEF GlobalInit, CountIsRight
  <1>3. ASSUME NEW c \in Clients, GlobalInitFails(c) PROVE EnvIInv'
    <2>1. Counted' = Counted
      BY <1>3 DEF GlobalInitFails, Goto, Counted, LibraryTypeOK
    <2>2. LibraryTypeOK' /\ MutexInv' /\ LibraryInv'
      BY <1>3, ClientsAssumption
         DEF GlobalInitFails, Goto, LibraryTypeOK, Stages, MutexInv, LibraryInv, Inside
    <2> QED BY <1>3, <2>1, <2>2 DEF GlobalInitFails, CountIsRight
  <1>4. ASSUME NEW c \in Clients, Count(c) PROVE EnvIInv'
    <2>1. c \notin Counted /\ Counted' = Counted \cup {c}
      BY <1>4 DEF Count, Goto, Counted, LibraryTypeOK
    <2>2. LibraryTypeOK' /\ MutexInv' /\ LibraryInv'
      BY <1>4, <1>0 DEF Count, Goto, LibraryTypeOK, Stages, MutexInv, LibraryInv, Inside
    <2>3. CountIsRight'
      <3>1. Cardinality(Counted') = Cardinality(Counted) + 1
        BY <2>1, CountedGrows
      <3> QED BY <1>4, <1>0, <3>1 DEF Count, CountIsRight, n
    <2> QED BY <2>2, <2>3
  <1>5. ASSUME NEW c \in Clients, EasyInit(c) PROVE EnvIInv'
    <2>1. Counted' = Counted
      BY <1>5 DEF EasyInit, Goto, Counted, LibraryTypeOK
    <2>2. LibraryTypeOK' /\ MutexInv' /\ LibraryInv'
      BY <1>5, ClientsAssumption
         DEF EasyInit, Goto, LibraryTypeOK, Stages, MutexInv, LibraryInv, Inside
    <2> QED BY <1>5, <2>1, <2>2 DEF EasyInit, CountIsRight
  <1>6. ASSUME NEW c \in Clients, EasyInitFails(c) PROVE EnvIInv'
    <2>1. c \in Counted /\ Counted' = Counted \ {c}
      BY <1>6 DEF EasyInitFails, Goto, Counted, LibraryTypeOK
    <2>2. LibraryTypeOK' /\ MutexInv' /\ LibraryInv'
      BY <1>6, <1>0, ClientsAssumption
         DEF EasyInitFails, Goto, LibraryTypeOK, Stages, MutexInv, LibraryInv, Inside
    <2>3. CountIsRight'
      BY <1>6, <1>0, <2>1, CountedShrinks DEF EasyInitFails, CountIsRight, n
    <2> QED BY <2>2, <2>3
  <1>7. ASSUME NEW c \in Clients, DestroyMoved(c) PROVE EnvIInv'
    <2>1. Counted' = Counted
      BY <1>7 DEF DestroyMoved, Goto, Counted, LibraryTypeOK
    <2>2. LibraryTypeOK' /\ MutexInv' /\ LibraryInv'
      BY <1>7 DEF DestroyMoved, Goto, LibraryTypeOK, Stages, MutexInv, LibraryInv, Inside
    <2> QED BY <1>7, <2>1, <2>2 DEF DestroyMoved, CountIsRight
  <1>8. ASSUME NEW c \in Clients, EasyCleanup(c) PROVE EnvIInv'
    <2>1. Counted' = Counted
      BY <1>8 DEF EasyCleanup, Goto, Counted, LibraryTypeOK
    <2>2. LibraryTypeOK' /\ MutexInv' /\ LibraryInv'
      BY <1>8 DEF EasyCleanup, Goto, LibraryTypeOK, Stages, MutexInv, LibraryInv, Inside
    <2> QED BY <1>8, <2>1, <2>2 DEF EasyCleanup, CountIsRight
  <1>9. ASSUME NEW c \in Clients, LockToLeave(c) PROVE EnvIInv'
    <2>1. Counted' = Counted
      BY <1>9 DEF LockToLeave, Goto, Counted, LibraryTypeOK
    <2>2. LibraryTypeOK' /\ MutexInv' /\ LibraryInv'
      BY <1>9, ClientsAssumption
         DEF LockToLeave, Goto, LibraryTypeOK, Stages, MutexInv, LibraryInv, Inside
    <2> QED BY <1>9, <2>1, <2>2 DEF LockToLeave, CountIsRight
  <1>10. ASSUME NEW c \in Clients, Discount(c) PROVE EnvIInv'
    <2>1. c \in Counted /\ Counted' = Counted \ {c}
      BY <1>10 DEF Discount, Goto, Counted, LibraryTypeOK
    <2>2. n >= 1
      BY <2>1, CountedFinite, FS_EmptySet DEF n
    <2>3. LibraryTypeOK' /\ MutexInv' /\ LibraryInv'
      BY <1>10, <1>0, <2>2
         DEF Discount, Goto, LibraryTypeOK, Stages, MutexInv, LibraryInv, Inside
    <2>4. CountIsRight'
      BY <1>10, <1>0, <2>1, CountedShrinks DEF Discount, CountIsRight, n
    <2> QED BY <2>3, <2>4
  <1>11. ASSUME NEW c \in Clients, GlobalCleanup(c) PROVE EnvIInv'
    <2>1. Counted' = Counted
      BY <1>11 DEF GlobalCleanup, Goto, Counted, LibraryTypeOK
    <2>2. \A d \in Clients \ {c} : pc[d] \notin {"ready", "left"}
      BY <1>11 DEF GlobalCleanup, MutexInv, Inside
    <2>3. library = 1
      BY <1>11 DEF GlobalCleanup, LibraryInv
    <2>4. LibraryTypeOK' /\ MutexInv' /\ LibraryInv'
      BY <1>11, <1>0, <2>2, <2>3, ClientsAssumption
         DEF GlobalCleanup, Goto, LibraryTypeOK, Stages, MutexInv, LibraryInv, Inside
    <2> QED BY <1>11, <2>1, <2>4 DEF GlobalCleanup, CountIsRight
  <1>12. ASSUME NEW c \in Clients, NEW d \in Clients, MoveHandle(c, d) PROVE EnvIInv'
    <2>1. c \in Counted /\ d \notin Counted /\ Counted' = (Counted \ {c}) \cup {d}
      BY <1>12 DEF MoveHandle, Counted, LibraryTypeOK
    <2>2. LibraryTypeOK' /\ MutexInv' /\ LibraryInv'
      BY <1>12 DEF MoveHandle, LibraryTypeOK, Stages, MutexInv, LibraryInv, Inside
    <2>3. CountIsRight'
      BY <1>12, <2>1, CountedSwaps DEF MoveHandle, CountIsRight
    <2> QED BY <2>2, <2>3
  <1>13. CASE UNCHANGED libraryVars
    BY <1>13 DEF libraryVars, LibraryTypeOK, MutexInv, CountIsRight, LibraryInv, Counted
  <1> QED BY <1>1, <1>2, <1>3, <1>4, <1>5, <1>6, <1>7, <1>8, <1>9, <1>10, <1>11,
             <1>12, <1>13 DEF LibraryNext, Construct, Destroy

LEMMA EnvAlways == LibrarySpec => []EnvIInv
  BY EnvInit, EnvStep, PTL DEF LibrarySpec

(* No thread ever has a handle while libcurl is not initialised, and the   *)
(* library is never initialised twice (webclient.cpp:148-163, 460-480).    *)
THEOREM LibraryOutlivesHandles == LibrarySpec => [](HandlesNeedLibrary /\ InitialisedOnce)
  <1>1. EnvIInv => HandlesNeedLibrary /\ InitialisedOnce
    <2> SUFFICES ASSUME EnvIInv PROVE HandlesNeedLibrary /\ InitialisedOnce
      OBVIOUS
    <2>1. InitialisedOnce
      BY DEF EnvIInv, EnvInv, LibraryInv, InitialisedOnce
    <2>2. WithHandle # {} => Counted # {}
      BY DEF WithHandle, Counted
    <2>3. Counted # {} => Cardinality(Counted) > 0
      BY CountedFinite, FS_EmptySet
    <2>4. Counted # {} => numInstances_ > 0
      BY <2>3, CountedFinite, ClientsAssumption
         DEF EnvIInv, EnvInv, CountIsRight, LibraryTypeOK
    <2> QED BY <2>1, <2>2, <2>4 DEF EnvIInv, EnvInv, LibraryInv, HandlesNeedLibrary
  <1> QED BY <1>1, EnvAlways, PTL

(* The instance counter is exact, and when every object is gone the        *)
(* library has been cleaned up, unless the construction of one failed.     *)
THEOREM LibraryCleanedUp == LibrarySpec => [](CountIsRight /\ CleanedUp)
  <1>1. EnvIInv => CountIsRight /\ CleanedUp
    <2> SUFFICES ASSUME EnvIInv, \A c \in Clients : pc[c] = "none", failed = 0
                 PROVE  library = 0
      BY DEF EnvIInv, EnvInv, CleanedUp
    <2>1. Counted = {}
      BY DEF Counted
    <2>2. numInstances_ = 0
      BY <2>1, FS_EmptySet DEF EnvIInv, EnvInv, CountIsRight
    <2> QED BY <2>2 DEF EnvIInv, EnvInv, LibraryInv
  <1> QED BY <1>1, EnvAlways, PTL

-----------------------------------------------------------------------------
(* The options of a handle, and what they owe to the calls.                *)

Methods == {"GET", "HEAD", "DELETE", "POST", "PUT", "get", "head", "delete", "post", "put"}
Gets == {"GET", "get"}
Puts == {"PUT", "put"}

Outcomes == {"returned", "runtime_error", "logic_error"}

(* What the options owe to the calls made so far: the name that stays is   *)
(* that of one of them, and only a HEAD since the last GET or PUT keeps    *)
(* the bodies from being read.                                             *)
OptInv ==
  /\ opt.custom \in {"none"} \cup customs
  /\ opt.nobody => headSeen
  /\ ~moved => opt.header = "this"

HandleInv ==
  /\ TypeOK /\ OptInv
  /\ MethodKept /\ BodyIsOwn /\ OwnBuffers /\ ReturnsAnswered /\ ResultIsOwnAnswer

\* What the options that c is sent with owe to it, and to those before it.
Configured(o, c) ==
  /\ o \in Options
  /\ o.custom = (IF c.method \in Sticky THEN c.method ELSE opt.custom)
  /\ c.method \in Gets => o.req = "GET"
  /\ c.method \in Puts => o.req = "PUT"
  /\ c.method \in Gets \cup Puts => ~o.nobody
  /\ c.method \notin Gets \cup Puts \cup {"HEAD"} => o.nobody = opt.nobody
  /\ o.list = "this" /\ o.header = opt.header

-----------------------------------------------------------------------------
(* The calls.                                                              *)

\* The requests of the API: what every one of a set has in common.
LEMMA RequestFields ==
  ASSUME NEW kind \in {"send", "getfile", "putfile"},
         NEW m \in {"GET", "HEAD", "DELETE", "POST", "PUT"},
         NEW D \in SUBSET (Data \cup {NoData}), NEW reads \in {"nothing", "headers", "body"},
         NEW needs \in {"none", "runtime_error", "logic_error"},
         NEW c \in Request(kind, m, D, reads, needs)
  PROVE  c \in SendParams /\ c.kind = kind /\ c.method = m /\ c.data \in D /\ ~c.encode
  <1>1. PICK d \in D : c = [kind |-> kind, method |-> m, data |-> d, encode |-> FALSE,
                            reads |-> reads, needs |-> needs]
    BY DEF Request
  <1>2. d \in Data \cup {NoData}
    OBVIOUS
  <1>3. /\ c.kind = kind /\ c.method = m /\ c.data = d /\ c.encode = FALSE
        /\ c.reads = reads /\ c.needs = needs
    BY <1>1
  <1>4. c \in SendParams
    BY <1>1, <1>2 DEF SendParams
  <1> QED BY <1>3, <1>4

LEMMA AskFields ==
  ASSUME NEW m \in {"GET", "HEAD", "DELETE", "POST", "PUT"},
         NEW reads \in {"nothing", "headers", "body"}, NEW c \in Ask(m, reads)
  PROVE  c \in SendParams /\ c.kind = "send" /\ c.data = NoData /\ ~c.encode
  <1>1. {NoData} \in SUBSET (Data \cup {NoData})
    OBVIOUS
  <1>2. c \in Request("send", m, {NoData}, reads, "none")
    BY DEF Ask
  <1> QED BY <1>1, <1>2, RequestFields

LEMMA TellFields ==
  ASSUME NEW m \in {"PUT", "POST"}, NEW reads \in {"nothing", "headers", "body"},
         NEW c \in Tell(m, reads)
  PROVE  c \in SendParams /\ c.kind = "send" /\ c.method = m /\ ~c.encode
  <1>1. Data \in SUBSET (Data \cup {NoData})
    OBVIOUS
  <1>2. c \in Request("send", m, Data, reads, "none")
    BY DEF Tell
  <1> QED BY <1>1, <1>2, RequestFields

LEMMA CallTypes ==
  ASSUME NEW c \in Calls
  PROVE  /\ c \in SendParams
         /\ c.encode => c.data # NoData /\ c \in RawSend
         /\ c.kind = "getfile" => c.method = "GET" /\ c.data = NoData
         /\ c.kind = "putfile" => c.method = "PUT"
         /\ c.kind = "functions" => c.data = NoData /\ c.reads = "nothing"
         /\ c.kind = "send" /\ c.data # NoData =>
              c \in RawSend \/ c.method \in {"PUT", "POST"}
  <1>1. CASE c \in RawSend
    BY <1>1 DEF RawSend
  <1>2. CASE c \in SendFunctions
    BY <1>2 DEF SendFunctions
  <1>3. CASE c \in BucketCalls
    BY <1>3, AskFields, TellFields DEF BucketCalls, TestBucket, CreateBucket, DeleteBucket, HeadBucket,
       ListBuckets, GetBucketAcl, PutBucketAcl, GetBucketTagging, PutBucketTagging,
       DeleteBucketTagging, PutBucketVersioning, GetBucketVersioning
  <1> DEFINE D == Data \cup {NoData}
  <1>4. D \in SUBSET D /\ Data \in SUBSET D /\ {NoData} \in SUBSET D
    OBVIOUS
  <1> HIDE DEF D
  <1>5. CASE c \in PutObject \cup UploadPart \cup CompleteMultipartUpload
    BY <1>4, <1>5, RequestFields DEF PutObject, UploadPart, CompleteMultipartUpload, D
  <1>6. CASE c \in PutFileObject \cup UploadFilePart \cup GetFileObject
    BY <1>4, <1>6, RequestFields DEF PutFileObject, UploadFilePart, GetFileObject, D
  <1>7. CASE c \in ObjectCalls \ (PutObject \cup PutFileObject \cup GetFileObject)
    BY <1>7, AskFields, TellFields DEF ObjectCalls, GetObject, DeleteObject, HeadObject,
       TestObject, GetObjectSize, ListObjectsV2, GetObjectAcl, PutObjectAcl,
       GetObjectTagging, PutObjectTagging, DeleteObjectTagging, ListObjectVersions
  <1>8. CASE c \in MultipartCalls \ (UploadPart \cup UploadFilePart \cup CompleteMultipartUpload)
    BY <1>8, AskFields DEF MultipartCalls, CreateMultipartUpload, AbortMultipartUpload
  <1> QED BY <1>1, <1>2, <1>3, <1>5, <1>6, <1>7, <1>8 DEF Calls, ApiCalls, ObjectCalls,
          MultipartCalls

LEMMA NoCallTypes ==
  /\ NoCall.call \in SendParams
  /\ NoCall.request = NothingSent /\ NoCall.outcome = "none" /\ NoCall.got = TRUE
  <1>1. ListBuckets # {}
    BY DEF ListBuckets, Ask, Request
  <1>2. (CHOOSE c \in ListBuckets : TRUE) \in ListBuckets
    BY <1>1
  <1>3. ListBuckets \subseteq SendParams
    BY AskFields DEF ListBuckets
  <1> QED BY <1>2, <1>3 DEF NoCall

LEMMA BodyTypes ==
  /\ NoBodyAtAll \in Bodies
  /\ \A d \in Data \cup {NoData} : Plain(d) \in Bodies /\ UrlEncoded(d) \in Bodies
  BY DEF NoBodyAtAll, Plain, UrlEncoded, Bodies

-----------------------------------------------------------------------------
(* The options.                                                            *)

LEMMA ClearOptions ==
  ASSUME NEW o \in Options
  PROVE  /\ Clear(o) \in Options
         /\ Clear(o).read = "this" /\ Clear(o).write = "this" /\ Clear(o).list = "this"
         /\ Clear(o).req = "POST" /\ Clear(o).fields = NoBodyAtAll
         /\ Clear(o).custom = o.custom /\ Clear(o).nobody = o.nobody
         /\ Clear(o).header = o.header
  BY BodyTypes DEF Clear, ResetRWFunctions, SetWriteFunction, SetReadFunction, Post,
     SetHeaders, Options, Places

\* What S3Api::Config leaves, whatever it finds.
LEMMA ConfigOptions ==
  ASSUME NEW o \in Options, encoded \in Bodies, NEW m \in Methods
  PROVE  LET p == Config(o, m) IN
         /\ p \in Options
         /\ p.custom = (IF m \in Sticky THEN m ELSE o.custom)
         /\ m \in Gets => p.req = "GET"
         /\ m \in Puts => p.req = "PUT"
         /\ m = "HEAD" => p.req = "HEAD"
         /\ m = "DELETE" => p.req = "GET"
         /\ m \in {"POST", "head", "delete", "post"} => p.req = "POST"
         /\ m \in Gets \cup Puts => ~p.nobody
         /\ m \notin Gets \cup Puts \cup {"HEAD"} => p.nobody = o.nobody
         /\ p.list = "this" /\ p.header = o.header /\ p.write = "this" /\ p.read = "this"
         /\ p.fields = (IF m = "POST" THEN encoded ELSE NoBodyAtAll)
  <1> DEFINE q == Clear(o)
  <1>1. /\ q \in Options /\ q.read = "this" /\ q.write = "this" /\ q.list = "this"
        /\ q.req = "POST" /\ q.fields = NoBodyAtAll /\ q.custom = o.custom
        /\ q.nobody = o.nobody /\ q.header = o.header
    BY ClearOptions
  <1>2. m \in {"GET", "HEAD", "DELETE", "POST", "PUT", "get", "head", "delete", "post", "put"}
    BY DEF Methods
  <1>3. Config(o, m) = SetHeaders(SetMethod(q, m, encoded))
    BY DEF Config
  <1> HIDE DEF q
  <1>4. CASE m \in Gets
    <2>1. SetMethod(q, m, encoded) = HttpGet(Upload(q, FALSE))
      BY <1>4 DEF SetMethod, Gets
    <2>2. m \notin Puts \cup Sticky \cup {"head", "delete", "post"}
      BY <1>4 DEF Gets, Puts, Sticky
    <2>3. SetHeaders(HttpGet(Upload(q, FALSE))) =
            [q EXCEPT !.req = "GET", !.nobody = FALSE, !.list = "this"]
      BY <1>1 DEF SetHeaders, HttpGet, Upload, Options
    <2> DEFINE r == [q EXCEPT !.req = "GET", !.nobody = FALSE, !.list = "this"]
    <2>4. r \in Options
      BY <1>1 DEF Options
    <2>5. /\ r.req = "GET" /\ r.nobody = FALSE /\ r.list = "this" /\ r.custom = q.custom
          /\ r.fields = q.fields /\ r.read = q.read /\ r.write = q.write /\ r.header = q.header
      BY <1>1 DEF Options
    <2>6. Config(o, m) = r
      BY <1>3, <2>1, <2>3
    <2> HIDE DEF r
    <2> QED BY <1>1, <1>4, <2>2, <2>4, <2>5, <2>6 DEF Sticky, Gets, Puts
  <1>5. CASE m \in Puts
    <2>1. SetMethod(q, m, encoded) = Upload(q, TRUE)
      BY <1>5 DEF SetMethod, Puts
    <2>2. m \notin Gets \cup Sticky \cup {"head", "delete", "post"}
      BY <1>5 DEF Gets, Puts, Sticky
    <2>3. SetHeaders(Upload(q, TRUE)) =
            [q EXCEPT !.req = "PUT", !.nobody = FALSE, !.list = "this"]
      BY <1>1 DEF SetHeaders, Upload, Options
    <2> DEFINE r == [q EXCEPT !.req = "PUT", !.nobody = FALSE, !.list = "this"]
    <2>4. r \in Options
      BY <1>1 DEF Options
    <2>5. /\ r.req = "PUT" /\ r.nobody = FALSE /\ r.list = "this" /\ r.custom = q.custom
          /\ r.fields = q.fields /\ r.read = q.read /\ r.write = q.write /\ r.header = q.header
      BY <1>1 DEF Options
    <2>6. Config(o, m) = r
      BY <1>3, <2>1, <2>3
    <2> HIDE DEF r
    <2> QED BY <1>1, <1>5, <2>2, <2>4, <2>5, <2>6 DEF Sticky, Gets, Puts
  <1>6. CASE m = "HEAD"
    <2>1. SetMethod(q, m, encoded) = Custom(NoBody(Upload(q, FALSE)), "HEAD")
      BY <1>6 DEF SetMethod
    <2> DEFINE r == [q EXCEPT !.custom = "HEAD", !.req = "HEAD", !.nobody = TRUE, !.list = "this"]
    <2>2. SetHeaders(Custom(NoBody(Upload(q, FALSE)), "HEAD")) = r
      BY <1>1 DEF SetHeaders, Custom, NoBody, Upload, Options
    <2>3. r \in Options
      BY <1>1 DEF Options
    <2>4. /\ r.custom = "HEAD" /\ r.req = "HEAD" /\ r.nobody = TRUE /\ r.list = "this"
          /\ r.fields = q.fields /\ r.read = q.read /\ r.write = q.write /\ r.header = q.header
      BY <1>1 DEF Options
    <2>5. Config(o, m) = r
      BY <1>3, <2>1, <2>2
    <2> HIDE DEF r
    <2> QED BY <1>1, <1>6, <2>3, <2>4, <2>5 DEF Sticky, Gets, Puts
  <1>7. CASE m = "DELETE"
    <2>1. SetMethod(q, m, encoded) = Custom(Upload(q, FALSE), "DELETE")
      BY <1>7 DEF SetMethod
    <2> DEFINE r == [q EXCEPT !.custom = "DELETE", !.req = "GET", !.list = "this"]
    <2>2. SetHeaders(Custom(Upload(q, FALSE), "DELETE")) = r
      BY <1>1 DEF SetHeaders, Custom, Upload, Options
    <2>3. r \in Options
      BY <1>1 DEF Options
    <2>4. /\ r.custom = "DELETE" /\ r.req = "GET" /\ r.nobody = q.nobody /\ r.list = "this"
          /\ r.fields = q.fields /\ r.read = q.read /\ r.write = q.write /\ r.header = q.header
      BY <1>1 DEF Options
    <2>5. Config(o, m) = r
      BY <1>3, <2>1, <2>2
    <2> HIDE DEF r
    <2> QED BY <1>1, <1>7, <2>3, <2>4, <2>5 DEF Sticky, Gets, Puts
  <1>8. CASE m = "POST"
    <2>1. SetMethod(q, m, encoded) = Post(Custom(Upload(q, FALSE), "POST"), encoded)
      BY <1>8 DEF SetMethod
    <2> DEFINE r == [q EXCEPT !.custom = "POST", !.req = "POST", !.fields = encoded, !.list = "this"]
    <2>2. SetHeaders(Post(Custom(Upload(q, FALSE), "POST"), encoded)) = r
      BY <1>1 DEF SetHeaders, Post, Custom, Upload, Options
    <2>3. r \in Options
      BY <1>1 DEF Options
    <2>4. /\ r.custom = "POST" /\ r.req = "POST" /\ r.nobody = q.nobody /\ r.list = "this"
          /\ r.fields = encoded /\ r.read = q.read /\ r.write = q.write /\ r.header = q.header
      BY <1>1 DEF Options
    <2>5. Config(o, m) = r
      BY <1>3, <2>1, <2>2
    <2> HIDE DEF r
    <2> QED BY <1>1, <1>8, <2>3, <2>4, <2>5 DEF Sticky, Gets, Puts
  <1>9. CASE m \in {"head", "delete", "post"}
    <2>1. SetMethod(q, m, encoded) = q
      BY <1>9 DEF SetMethod
    <2>2. m \notin Gets \cup Puts \cup Sticky
      BY <1>9 DEF Gets, Puts, Sticky
    <2>3. SetHeaders(q) = [q EXCEPT !.list = "this"]
      BY DEF SetHeaders
    <2> DEFINE r == [q EXCEPT !.list = "this"]
    <2>4. r \in Options
      BY <1>1 DEF Options
    <2>5. /\ r.req = q.req /\ r.nobody = q.nobody /\ r.list = "this" /\ r.custom = q.custom
          /\ r.fields = q.fields /\ r.read = q.read /\ r.write = q.write /\ r.header = q.header
      BY <1>1 DEF Options
    <2>6. Config(o, m) = r
      BY <1>3, <2>1, <2>3
    <2> HIDE DEF r
    <2> QED BY <1>1, <1>9, <2>2, <2>4, <2>5, <2>6 DEF Sticky, Gets, Puts
  <1> QED BY <1>2, <1>4, <1>5, <1>6, <1>7, <1>8, <1>9 DEF Gets, Puts

LEMMA ConfigBody ==
  ASSUME NEW o \in Options, encoded \in Bodies, NEW m \in Methods, NEW buffer
  PROVE  BodySent(Config(o, m), buffer) = (IF m = "POST" THEN encoded ELSE NoBodyAtAll)
  <1> DEFINE p == Config(o, m)
  <1>1. /\ m \in Gets => p.req = "GET"
        /\ m \in Puts => p.req = "PUT"
        /\ m = "HEAD" => p.req = "HEAD"
        /\ m = "DELETE" => p.req = "GET"
        /\ m \in {"POST", "head", "delete", "post"} => p.req = "POST"
        /\ p.read = "this" /\ p.fields = (IF m = "POST" THEN encoded ELSE NoBodyAtAll)
    BY ConfigOptions
  <1> HIDE DEF p
  <1>2. CASE m \in {"POST", "head", "delete", "post"}
    BY <1>1, <1>2 DEF BodySent, p
  <1>3. CASE m \notin {"POST", "head", "delete", "post"}
    <2>1. m # "POST" /\ p.req \in {"GET", "PUT", "HEAD"}
      BY <1>1, <1>3 DEF Methods, Gets, Puts
    <2> QED BY <1>1, <2>1 DEF BodySent, p
  <1> QED BY <1>2, <1>3

-----------------------------------------------------------------------------
(* The steps.                                                              *)

\* A request that goes out keeps the invariant, when its body, its buffers
\* and its outcome are those of its call.
LEMMA RequestStep ==
  ASSUME HandleInv, NEW c \in Calls, NEW answer \in Answers, NEW o, Configured(o, c),
         NEW p \in Options, p.custom = o.custom, p.nobody = o.nobody, p.header = o.header,
         NEW outcome \in Outcomes, NEW got \in BOOLEAN,
         Done(c, p, Sent(c, o, answer), outcome, got),
         status' = StatusOf(answer), encoded' \in Bodies,
         o.write = (IF c.kind = "getfile" THEN "file" ELSE "this"),
         o.read \in {"this", "memory", "file"},
         BodySent(o, Plain(c.data)) \in Bodies,
         \/ BodySent(o, Plain(c.data)) = Own(c)
         \/ c.method = "POST" /\ c.data = NoData /\ BodySent(o, Plain(c.data)) = encoded',
         outcome = "returned" => answer \in {"complete", "broken", "cut"},
         outcome = "returned" /\ c.kind = "putfile" => answer # "cut",
         ~got => ~Got(c, o, answer)
  PROVE  HandleInv'
  <1> DEFINE r == Sent(c, o, answer)
  <1>1. /\ opt' = p /\ moved' = moved
        /\ last' = [call |-> c, request |-> r, outcome |-> outcome, got |-> got]
        /\ customs' = customs \cup ({c.method} \cap Sticky)
        /\ headSeen' = (CASE c.method \in {"GET", "get", "PUT", "put"} -> FALSE
                          [] c.method = "HEAD" -> TRUE
                          [] OTHER -> headSeen)
    BY DEF Done, Ends
  <1>2. /\ last'.call = c /\ last'.request = r /\ last'.outcome = outcome /\ last'.got = got
    BY <1>1
  <1>3. /\ r.sent = TRUE /\ r.method = MethodSent(o) /\ r.body = BodySent(o, Plain(c.data))
        /\ r.answer = answer /\ r.read = o.read /\ r.write = o.write /\ r.list = o.list
    BY DEF Sent
  <1> HIDE DEF r
  <1>4. /\ c \in SendParams /\ c.method \in Methods /\ c.reads \in {"nothing", "headers", "body"}
    BY CallTypes DEF SendParams, Methods
  <1>5. /\ TypeOK /\ OptInv
    BY DEF HandleInv
  <1>6. TypeOK'
    <2>1. status' \in {0, 200, 404}
      BY DEF StatusOf, Answers
    <2>2. headSeen' \in BOOLEAN
      BY <1>1, <1>5 DEF TypeOK
    <2>3. customs' \subseteq Sticky
      BY <1>1, <1>5 DEF TypeOK
    <2>4. opt' \in Options /\ moved' \in BOOLEAN
      BY <1>1, <1>5 DEF TypeOK
    <2>5. last'.call \in SendParams /\ last'.request.body \in Bodies
      BY <1>2, <1>3, <1>4
    <2>6. last'.outcome \in {"none", "returned", "runtime_error", "logic_error"}
      BY <1>2 DEF Outcomes
    <2> QED BY <2>1, <2>2, <2>3, <2>4, <2>5, <2>6 DEF TypeOK
  <1>7. o.custom \in {"none"} \cup customs'
    BY <1>1, <1>5 DEF Configured, OptInv
  <1>8. o.nobody => headSeen'
    <2>1. CASE c.method \in {"GET", "get", "PUT", "put"}
      BY <2>1 DEF Configured, Gets, Puts
    <2>2. CASE c.method = "HEAD"
      BY <1>1, <2>2
    <2>3. CASE c.method \notin {"GET", "get", "PUT", "put"} /\ c.method # "HEAD"
      <3>1. headSeen' = headSeen
        BY <1>1, <2>3
      <3>2. o.nobody = opt.nobody
        BY <2>3 DEF Configured, Gets, Puts
      <3> QED BY <1>5, <3>1, <3>2 DEF OptInv
    <2> QED BY <2>1, <2>2, <2>3
  <1>9. OptInv'
    BY <1>1, <1>5, <1>7, <1>8 DEF OptInv, Configured
  <1>10. MethodKept'
    <2>1. CASE c.method \in Sticky
      <3>1. MethodSent(o) = c.method
        BY <2>1 DEF MethodSent, Configured, Sticky
      <3>2. Asked(c) = c.method
        BY <2>1 DEF Asked, Sticky
      <3> QED BY <1>2, <1>3, <3>1, <3>2 DEF MethodKept
    <2>2. CASE c.method \in Gets \cup Puts
      <3>1. c.method \notin Sticky /\ ~o.nobody
        BY <2>2 DEF Gets, Puts, Sticky, Configured
      <3>2. o.req = Asked(c)
        BY <2>2 DEF Asked, Gets, Puts, Configured
      <3>3. CASE o.custom = "none"
        <4>1. MethodSent(o) = Asked(c)
          BY <3>1, <3>2, <3>3 DEF MethodSent
        <4> QED BY <1>2, <1>3, <4>1 DEF MethodKept
      <3>4. CASE o.custom # "none"
        <4>1. MethodSent(o) \in customs'
          BY <1>7, <3>4 DEF MethodSent
        <4> QED BY <1>2, <1>3, <3>1, <4>1 DEF MethodKept
      <3> QED BY <3>3, <3>4
    <2> QED BY <1>2, <2>1, <2>2 DEF MethodKept, Gets, Puts
  <1>11. BodyIsOwn'
    BY <1>2, <1>3 DEF BodyIsOwn, Own, Plain, UrlEncoded
  <1>12. OwnBuffers'
    BY <1>2, <1>3 DEF OwnBuffers, Given, Configured
  <1>13. ReturnsAnswered'
    BY <1>2, <1>3 DEF ReturnsAnswered
  <1>14. ResultIsOwnAnswer'
    <2> SUFFICES ASSUME answer = "complete", ~got
                 PROVE  \/ c.reads = "headers" /\ moved'
                        \/ c.reads = "body" /\ (headSeen' \/ MethodSent(o) = "HEAD")
      BY <1>2, <1>3 DEF ResultIsOwnAnswer
    <2>1. ~Got(c, o, answer)
      OBVIOUS
    <2>2. CASE c.reads = "headers"
      BY <1>1, <1>5, <2>1, <2>2 DEF Got, OptInv, Configured
    <2>3. CASE c.reads = "body"
      BY <1>8, <2>1, <2>3 DEF Got
    <2> QED BY <1>4, <2>1, <2>2, <2>3 DEF Got
  <1> QED BY <1>6, <1>9, <1>10, <1>11, <1>12, <1>13, <1>14 DEF HandleInv

LEMMA QuietStep ==
  ASSUME HandleInv, NEW c \in Calls, NEW outcome \in Outcomes, NEW got \in BOOLEAN,
         Done(c, Config(opt, c.method), NothingSent, outcome, got),
         UNCHANGED <<encoded, status>>,
         outcome = "returned" => c.kind = "send" /\ c \in RawSend
  PROVE  HandleInv'
  <1> DEFINE p == Config(opt, c.method)
  <1>1. /\ opt' = p /\ moved' = moved
        /\ last' = [call |-> c, request |-> NothingSent, outcome |-> outcome, got |-> got]
        /\ customs' = customs \cup ({c.method} \cap Sticky)
        /\ headSeen' = (CASE c.method \in {"GET", "get", "PUT", "put"} -> FALSE
                          [] c.method = "HEAD" -> TRUE
                          [] OTHER -> headSeen)
    BY DEF Done, Ends
  <1>2. /\ last'.call = c /\ last'.outcome = outcome
        /\ last'.request.sent = FALSE /\ last'.request.body = NoBodyAtAll
    BY <1>1 DEF NothingSent
  <1>3. c \in SendParams /\ c.method \in Methods
    BY CallTypes DEF SendParams, Methods
  <1>4. TypeOK /\ OptInv
    BY DEF HandleInv
  <1>5. Configured(p, c)
    BY <1>3, <1>4, ConfigOptions DEF TypeOK, Configured
  <1> HIDE DEF p
  <1>6. TypeOK'
    <2>1. headSeen' \in BOOLEAN
      BY <1>1, <1>4 DEF TypeOK
    <2>2. customs' \subseteq Sticky
      BY <1>1, <1>4 DEF TypeOK
    <2> QED BY <1>1, <1>2, <1>3, <1>4, <1>5, <2>1, <2>2, BodyTypes
            DEF TypeOK, Outcomes, Configured
  <1>7. p.nobody => headSeen'
    <2>1. CASE c.method \in {"GET", "get", "PUT", "put"}
      BY <1>5, <2>1 DEF Configured, Gets, Puts
    <2>2. CASE c.method = "HEAD"
      BY <1>1, <2>2
    <2>3. CASE c.method \notin {"GET", "get", "PUT", "put"} /\ c.method # "HEAD"
      <3>1. headSeen' = headSeen
        BY <1>1, <2>3
      <3>2. p.nobody = opt.nobody
        BY <1>5, <2>3 DEF Configured, Gets, Puts
      <3> QED BY <1>4, <3>1, <3>2 DEF OptInv
    <2> QED BY <2>1, <2>2, <2>3
  <1>8. OptInv'
    BY <1>1, <1>4, <1>5, <1>7 DEF OptInv, Configured
  <1>9. (MethodKept /\ BodyIsOwn /\ OwnBuffers /\ ResultIsOwnAnswer)'
    BY <1>2 DEF MethodKept, BodyIsOwn, OwnBuffers, ResultIsOwnAnswer
  <1>10. ReturnsAnswered'
    BY <1>2 DEF ReturnsAnswered
  <1> QED BY <1>6, <1>8, <1>9, <1>10 DEF HandleInv
-----------------------------------------------------------------------------
(* The actions.                                                            *)

\* How a request is judged by its answer.
LEMMA JudgedRight ==
  ASSUME NEW c \in SendParams, NEW o, NEW answer \in Answers
  PROVE  /\ Judged(c, o, answer) \in Outcomes
         /\ HandleError(StatusOf(answer)) \in Outcomes
         /\ Judged(c, o, answer) = "returned" => answer \in {"complete", "broken", "cut"}
         /\ HandleError(StatusOf(answer)) = "returned" =>
              answer \in {"complete", "broken", "cut"}
  <1>1. StatusOf(answer) \in {0, 200, 404}
    BY DEF StatusOf, Answers
  <1>2. /\ HandleError(StatusOf(answer)) \in Outcomes
        /\ HandleError(StatusOf(answer)) = "returned" => answer \in {"complete", "broken", "cut"}
    BY DEF StatusOf, HandleError, Answers, Outcomes
  <1>3. c.needs \in {"none", "runtime_error", "logic_error"}
    BY DEF SendParams
  <1> QED BY <1>2, <1>3 DEF Judged, Outcomes

LEMMA SendPlainStep ==
  ASSUME HandleInv, NEW c \in Calls, NEW answer \in Answers, SendPlain(c, answer)
  PROVE  HandleInv'
  <1> DEFINE o == Config(opt, c.method)
  <1>1. /\ c \in SendParams /\ c.method \in Methods /\ ~c.encode
        /\ c.kind = "send" /\ c.data = NoData
    BY CallTypes DEF SendPlain, SendParams, Methods
  <1>2. opt \in Options /\ encoded \in Bodies
    BY DEF HandleInv, TypeOK
  <1>3. /\ Configured(o, c) /\ o.write = "this" /\ o.read = "this"
        /\ o.fields = (IF c.method = "POST" THEN encoded ELSE NoBodyAtAll)
    BY <1>1, <1>2, ConfigOptions DEF Configured
  <1>4. /\ status' = StatusOf(answer) /\ encoded' = encoded
        /\ Done(c, o, Sent(c, o, answer), Judged(c, o, answer), Got(c, o, answer))
    BY DEF SendPlain, Perform
  <1> HIDE DEF o
  <1>5. o \in Options
    BY <1>3 DEF Configured
  <1>6. BodySent(o, Plain(c.data)) = IF c.method = "POST" THEN encoded ELSE NoBodyAtAll
    BY <1>1, <1>2, ConfigBody DEF o
  <1>7. Own(c) = NoBodyAtAll
    BY <1>1 DEF Own, NoBodyAtAll
  <1> DEFINE outcome == Judged(c, o, answer)
             got == Got(c, o, answer)
  <1>8. /\ outcome \in Outcomes
        /\ outcome = "returned" => answer \in {"complete", "broken", "cut"}
    BY <1>1, JudgedRight
  <1>9. got \in BOOLEAN /\ (~got => ~Got(c, o, answer))
    BY DEF Got
  <1>10. Done(c, o, Sent(c, o, answer), outcome, got)
    BY <1>4
  <1> HIDE DEF outcome, got
  <1> QED BY <1>1, <1>2, <1>3, <1>4, <1>5, <1>6, <1>7, <1>8, <1>9, <1>10, BodyTypes, RequestStep
\* What is put from memory or from a file is sent as it is.
LEMMA PutOptions ==
  ASSUME NEW q \in Options, NEW place
  PROVE  SetMethod(SetReadFunction(q, place), "PUT", encoded) =
           [q EXCEPT !.read = place, !.req = "PUT", !.nobody = FALSE]
  <1>1. SetMethod(SetReadFunction(q, place), "PUT", encoded)
          = Upload(SetReadFunction(q, place), TRUE)
    BY DEF SetMethod
  <1> QED BY <1>1 DEF Upload, SetReadFunction, Options

LEMMA SendPutStep ==
  ASSUME HandleInv, NEW c \in Calls, NEW answer \in Answers, SendPut(c, answer)
  PROVE  HandleInv'
  <1> DEFINE q == Config(opt, c.method)
             o == SetMethod(SetReadFunction(q, "memory"), "PUT", encoded)
             outcome == Judged(c, o, answer)
             got == Got(c, o, answer)
  <1>1. /\ c \in SendParams /\ c.method \in Methods /\ c.data \in Data \cup {NoData}
        /\ c.kind = "send" /\ c.method \in Puts
    BY CallTypes DEF SendPut, SendParams, Methods, Puts
  <1>2. opt \in Options /\ encoded \in Bodies
    BY DEF HandleInv, TypeOK
  <1>3. /\ q \in Options /\ q.list = "this" /\ q.header = opt.header /\ q.write = "this"
        /\ q.custom = opt.custom
    BY <1>1, <1>2, ConfigOptions DEF Puts, Sticky
  <1>4. /\ status' = StatusOf(answer) /\ encoded' = encoded
        /\ Done(c, o, Sent(c, o, answer), outcome, got)
    BY DEF SendPut, Perform
  <1> HIDE DEF q
  <1>put. o = [q EXCEPT !.read = "memory", !.req = "PUT", !.nobody = FALSE]
    BY <1>3, PutOptions
  <1> HIDE DEF o
  <1>5. /\ o \in Options /\ o.req = "PUT" /\ o.nobody = FALSE /\ o.read = "memory"
        /\ o.custom = q.custom /\ o.write = q.write /\ o.list = q.list /\ o.header = q.header
    BY <1>3, <1>put DEF Options, Places
  <1>sent. BodySent(o, Plain(c.data)) = Plain(c.data)
    BY <1>5 DEF BodySent
  <1>6. outcome \in Outcomes /\ (outcome = "returned" => answer \in {"complete", "broken", "cut"})
    BY <1>1, JudgedRight
  <1>7. got \in BOOLEAN /\ (~got => ~Got(c, o, answer))
    BY DEF Got
  <1> HIDE DEF o, outcome, got
  <1>8. Configured(o, c)
    BY <1>1, <1>3, <1>5 DEF Configured, Gets, Puts, Sticky
  <1>9. Own(c) = Plain(c.data)
    BY <1>1 DEF Own, Puts
  <1> QED BY <1>1, <1>2, <1>3, <1>4, <1>5, <1>sent, <1>6, <1>7, <1>8, <1>9, BodyTypes, RequestStep

LEMMA SendPostStep ==
  ASSUME HandleInv, NEW c \in Calls, NEW answer \in Answers, SendPost(c, answer)
  PROVE  HandleInv'
  <1> DEFINE q == Config(opt, c.method)
             body == IF c.encode THEN UrlEncoded(c.data) ELSE Plain(c.data)
             o == Post(q, body)
             outcome == Judged(c, o, answer)
             got == Got(c, o, answer)
  <1>1. /\ c \in SendParams /\ c.method \in Methods /\ c.data \in Data \cup {NoData}
        /\ c.kind = "send" /\ c.method \in {"POST", "post"}
    BY CallTypes DEF SendPost, SendParams, Methods
  <1>2. opt \in Options /\ encoded \in Bodies
    BY DEF HandleInv, TypeOK
  <1>3. /\ q \in Options /\ q.list = "this" /\ q.header = opt.header /\ q.write = "this"
        /\ q.custom = (IF c.method \in Sticky THEN c.method ELSE opt.custom)
        /\ q.nobody = opt.nobody /\ q.read = "this"
    BY <1>1, <1>2, ConfigOptions DEF Gets, Puts
  <1>4. /\ status' = StatusOf(answer) /\ encoded' = (IF c.encode THEN body ELSE encoded)
        /\ Done(c, o, Sent(c, o, answer), outcome, got)
    BY DEF SendPost, Perform
  <1>5. body \in Bodies /\ body = Own(c)
    BY <1>1, BodyTypes DEF Own
  <1> HIDE DEF q, body
  <1>6. /\ o \in Options /\ o.req = "POST" /\ o.nobody = q.nobody /\ o.read = q.read
        /\ o.custom = q.custom /\ o.write = q.write /\ o.list = q.list /\ o.header = q.header
        /\ o.fields = body
    BY <1>3, <1>5 DEF Post, Options
  <1>7. outcome \in Outcomes /\ (outcome = "returned" => answer \in {"complete", "broken", "cut"})
    BY <1>1, JudgedRight
  <1>8. got \in BOOLEAN /\ (~got => ~Got(c, o, answer))
    BY DEF Got
  <1> HIDE DEF o, outcome, got
  <1>9. BodySent(o, Plain(c.data)) = body
    BY <1>6 DEF BodySent
  <1>10. Configured(o, c)
    BY <1>1, <1>3, <1>6 DEF Configured, Gets, Puts
  <1>11. encoded' \in Bodies
    BY <1>2, <1>4, <1>5
  <1> QED BY <1>1, <1>3, <1>4, <1>5, <1>6, <1>7, <1>8, <1>9, <1>10, <1>11, RequestStep

LEMMA SendNothingStep ==
  ASSUME HandleInv, NEW c \in Calls, SendNothing(c)
  PROVE  HandleInv'
  <1> DEFINE outcome == HandleError(status)
             got == c.reads = "nothing"
  <1>1. c.kind = "send" /\ c \in RawSend
    BY CallTypes DEF SendNothing
  <1>2. Done(c, Config(opt, c.method), NothingSent, outcome, got) /\ UNCHANGED <<encoded, status>>
    BY DEF SendNothing
  <1>3. outcome \in Outcomes
    BY DEF HandleError, Outcomes, HandleInv, TypeOK
  <1>4. got \in BOOLEAN
    OBVIOUS
  <1> HIDE DEF outcome, got
  <1> QED BY <1>1, <1>2, <1>3, <1>4, QuietStep

LEMMA SendWithFunctionsStep ==
  ASSUME HandleInv, NEW c \in Calls, NEW answer \in Answers, SendWithFunctions(c, answer)
  PROVE  HandleInv'
  <1> DEFINE mine == SetReadFunction(SetWriteFunction(opt, "caller"), "caller")
             o == Config(mine, c.method)
             outcome == Judged(c, o, answer)
             got == Got(c, o, answer)
  <1>1. /\ c \in SendParams /\ c.method \in Methods /\ c.data = NoData /\ ~c.encode
        /\ c.kind = "functions"
    BY CallTypes DEF SendWithFunctions, SendParams, Methods
  <1>2. opt \in Options /\ encoded \in Bodies
    BY DEF HandleInv, TypeOK
  <1>3. /\ mine \in Options /\ mine.custom = opt.custom /\ mine.nobody = opt.nobody
        /\ mine.header = opt.header
    BY <1>2 DEF SetReadFunction, SetWriteFunction, Options, Places
  <1>4. /\ status' = StatusOf(answer) /\ encoded' = encoded
        /\ Done(c, o, Sent(c, o, answer), outcome, got)
    BY DEF SendWithFunctions, Perform
  <1>5. outcome \in Outcomes /\ (outcome = "returned" => answer \in {"complete", "broken", "cut"})
    BY <1>1, JudgedRight
  <1>6. got \in BOOLEAN /\ (~got => ~Got(c, o, answer))
    BY DEF Got
  <1> HIDE DEF mine, outcome, got
  <1>7. /\ Configured(o, c) /\ o.write = "this" /\ o.read = "this"
    BY <1>1, <1>2, <1>3, ConfigOptions DEF Configured
  <1>8. BodySent(o, Plain(c.data)) = IF c.method = "POST" THEN encoded ELSE NoBodyAtAll
    BY <1>1, <1>2, <1>3, ConfigBody
  <1>9. Own(c) = NoBodyAtAll
    BY <1>1 DEF Own, NoBodyAtAll
  <1> HIDE DEF o
  <1>10. o \in Options
    BY <1>7 DEF Configured
  <1> QED BY <1>1, <1>2, <1>4, <1>5, <1>6, <1>7, <1>8, <1>9, <1>10, BodyTypes, RequestStep
LEMMA GetFileStep ==
  ASSUME HandleInv, NEW c \in Calls, NEW answer \in Answers, GetFile(c, answer)
  PROVE  HandleInv'
  <1> DEFINE q == Config(opt, c.method)
             o == SetWriteFunction(q, "file")
             p == SetWriteFunction(o, "closed")
             outcome == HandleError(StatusOf(answer))
             got == TRUE
  <1>1. /\ c \in SendParams /\ c.method \in Methods /\ c.data = NoData /\ ~c.encode
        /\ c.kind = "getfile" /\ c.method = "GET"
    BY CallTypes DEF GetFile, SendParams, Methods
  <1>2. opt \in Options /\ encoded \in Bodies
    BY DEF HandleInv, TypeOK
  <1>3. /\ q \in Options /\ q.list = "this" /\ q.header = opt.header /\ q.read = "this"
        /\ q.custom = opt.custom /\ q.req = "GET" /\ ~q.nobody
    BY <1>1, <1>2, ConfigOptions DEF Gets, Puts, Sticky
  <1>4. /\ status' = StatusOf(answer) /\ encoded' = encoded
        /\ Done(c, p, Sent(c, o, answer), outcome, got)
    BY DEF GetFile
  <1>5. outcome \in Outcomes /\ (outcome = "returned" => answer \in {"complete", "broken", "cut"})
    BY <1>1, JudgedRight
  <1> HIDE DEF q, outcome
  <1>6. /\ o \in Options /\ o.write = "file" /\ o.read = q.read /\ o.list = q.list
        /\ o.header = q.header /\ o.custom = q.custom /\ o.req = q.req /\ o.nobody = q.nobody
    BY <1>3 DEF SetWriteFunction, Options, Places
  <1> HIDE DEF o
  <1>7. /\ p \in Options /\ p.custom = o.custom /\ p.nobody = o.nobody /\ p.header = o.header
    BY <1>6 DEF SetWriteFunction, Options, Places
  <1> HIDE DEF p
  <1>8. BodySent(o, Plain(c.data)) = NoBodyAtAll
    BY <1>3, <1>6 DEF BodySent
  <1>9. Own(c) = NoBodyAtAll
    BY <1>1 DEF Own, NoBodyAtAll
  <1>10. Configured(o, c)
    BY <1>1, <1>3, <1>6 DEF Configured, Gets, Puts, Sticky
  <1> QED BY <1>1, <1>2, <1>3, <1>4, <1>5, <1>6, <1>7, <1>8, <1>9, <1>10, BodyTypes, RequestStep

LEMMA PutFileStep ==
  ASSUME HandleInv, NEW c \in Calls, NEW answer \in Answers, PutFile(c, answer)
  PROVE  HandleInv'
  <1> DEFINE q == Config(opt, c.method)
             o == SetMethod(SetReadFunction(q, "file"), "PUT", encoded)
             p == SetReadFunction(o, "closed")
             outcome == IF answer \in {"failed", "cut"} THEN "runtime_error"
                                                        ELSE Judged(c, o, answer)
             got == Got(c, o, answer)
  <1>1. /\ c \in SendParams /\ c.method \in Methods /\ c.data \in Data \cup {NoData}
        /\ c.kind = "putfile" /\ c.method = "PUT"
    BY CallTypes DEF PutFile, SendParams, Methods
  <1>2. opt \in Options /\ encoded \in Bodies
    BY DEF HandleInv, TypeOK
  <1>3. /\ q \in Options /\ q.list = "this" /\ q.header = opt.header /\ q.write = "this"
        /\ q.custom = opt.custom
    BY <1>1, <1>2, ConfigOptions DEF Puts, Sticky
  <1>4. /\ status' = StatusOf(answer) /\ encoded' = encoded
        /\ Done(c, p, Sent(c, o, answer), outcome, got)
    BY DEF PutFile
  <1> HIDE DEF q
  <1>put. o = [q EXCEPT !.read = "file", !.req = "PUT", !.nobody = FALSE]
    BY <1>3, PutOptions
  <1> HIDE DEF o
  <1>5. /\ o \in Options /\ o.req = "PUT" /\ o.nobody = FALSE /\ o.read = "file"
        /\ o.custom = q.custom /\ o.write = q.write /\ o.list = q.list /\ o.header = q.header
    BY <1>3, <1>put DEF Options, Places
  <1>sent. BodySent(o, Plain(c.data)) = Plain(c.data)
    BY <1>5 DEF BodySent
  <1>6. outcome \in Outcomes /\ (outcome = "returned" => answer \in {"complete", "broken"})
    BY <1>1, JudgedRight DEF Outcomes
  <1>7. got \in BOOLEAN /\ (~got => ~Got(c, o, answer))
    BY DEF Got
  <1> HIDE DEF o, outcome, got
  <1>8. /\ p \in Options /\ p.custom = o.custom /\ p.nobody = o.nobody /\ p.header = o.header
    BY <1>5 DEF SetReadFunction, Options, Places
  <1> HIDE DEF p
  <1>9. Configured(o, c)
    BY <1>1, <1>3, <1>5 DEF Configured, Gets, Puts, Sticky
  <1>10. Own(c) = Plain(c.data)
    BY <1>1 DEF Own
  <1> QED BY <1>1, <1>2, <1>3, <1>4, <1>5, <1>sent, <1>6, <1>7, <1>8, <1>9, <1>10, BodyTypes, RequestStep

LEMMA NoFileStep ==
  ASSUME HandleInv, NEW c \in Calls, NoFile(c)
  PROVE  HandleInv'
  <1>1. CASE c.kind = "putfile" /\ Done(c, Config(opt, c.method), NothingSent, "runtime_error", FALSE)
    <2>1. UNCHANGED <<encoded, status>>
      BY DEF NoFile
    <2> QED BY <1>1, <2>1, QuietStep DEF Outcomes
  <1>2. CASE /\ Ends(c, NothingSent, "runtime_error", FALSE)
             /\ UNCHANGED <<opt, moved, customs, headSeen>>
    <2>1. UNCHANGED <<opt, moved, customs, headSeen, encoded, status>>
      BY <1>2 DEF NoFile
    <2>2. /\ last'.call = c /\ last'.outcome = "runtime_error"
          /\ last'.request.sent = FALSE /\ last'.request.body = NoBodyAtAll
      BY <1>2 DEF Ends, NothingSent
    <2>3. TypeOK /\ OptInv
      BY DEF HandleInv
    <2>4. TypeOK'
      BY <2>1, <2>2, <2>3, CallTypes, BodyTypes DEF TypeOK
    <2>5. OptInv'
      BY <2>1, <2>3 DEF OptInv
    <2>6. (MethodKept /\ BodyIsOwn /\ OwnBuffers /\ ReturnsAnswered /\ ResultIsOwnAnswer)'
      BY <2>2 DEF MethodKept, BodyIsOwn, OwnBuffers, ReturnsAnswered, ResultIsOwnAnswer
    <2> QED BY <2>4, <2>5, <2>6 DEF HandleInv
  <1> QED BY <1>1, <1>2 DEF NoFile

LEMMA MoveStep ==
  ASSUME HandleInv, Move
  PROVE  HandleInv'
  <1>1. /\ moved' = TRUE /\ opt' = MovedHandle(opt) /\ encoded' = NoBodyAtAll
        /\ status' = 0 /\ last' = NoCall /\ customs' = customs /\ headSeen' = headSeen
    BY DEF Move
  <1>2. TypeOK /\ OptInv
    BY DEF HandleInv
  <1>3. /\ opt' \in Options /\ opt'.custom = opt.custom /\ opt'.nobody = opt.nobody
    <2> DEFINE Left(place) == IF place \in {"this", "memory"} THEN "other" ELSE place
    <2>1. opt \in Options /\ Left(opt.read) \in Places /\ Left(opt.write) \in Places
      BY <1>2 DEF TypeOK, Options, Places
    <2>2. opt' = [opt EXCEPT !.read = Left(opt.read), !.write = Left(opt.write),
                             !.list = "other", !.header = "other"]
      BY <1>1, <2>1 DEF MovedHandle, Options
    <2> HIDE DEF Left
    <2> QED BY <2>1, <2>2 DEF Options
  <1>4. /\ last'.call \in SendParams /\ last'.outcome = "none"
        /\ last'.request.sent = FALSE /\ last'.request.body = NoBodyAtAll
    BY <1>1, NoCallTypes DEF NothingSent
  <1>5. TypeOK'
    BY <1>1, <1>2, <1>3, <1>4, BodyTypes DEF TypeOK
  <1>6. OptInv'
    BY <1>1, <1>2, <1>3 DEF OptInv
  <1>7. (MethodKept /\ BodyIsOwn /\ OwnBuffers /\ ReturnsAnswered /\ ResultIsOwnAnswer)'
    BY <1>4 DEF MethodKept, BodyIsOwn, OwnBuffers, ReturnsAnswered, ResultIsOwnAnswer
  <1> QED BY <1>5, <1>6, <1>7 DEF HandleInv

LEMMA HandleInit == Init => HandleInv
  <1> SUFFICES ASSUME Init PROVE HandleInv
    OBVIOUS
  <1>1. /\ opt \in Options /\ opt.custom = "none" /\ opt.nobody = FALSE /\ opt.header = "this"
    BY BodyTypes DEF Init, FreshHandle, Options, Places
  <1>2. /\ last.call \in SendParams /\ last.outcome = "none"
        /\ last.request.sent = FALSE /\ last.request.body = NoBodyAtAll
    BY NoCallTypes DEF Init, NothingSent
  <1>3. TypeOK
    BY <1>1, <1>2, BodyTypes DEF Init, TypeOK
  <1>4. OptInv
    BY <1>1 DEF Init, OptInv
  <1>5. MethodKept /\ BodyIsOwn /\ OwnBuffers /\ ReturnsAnswered /\ ResultIsOwnAnswer
    BY <1>2 DEF MethodKept, BodyIsOwn, OwnBuffers, ReturnsAnswered, ResultIsOwnAnswer
  <1> QED BY <1>3, <1>4, <1>5 DEF HandleInv

LEMMA HandleAlways == Spec => []HandleInv
  <1>1. HandleInv /\ [Next]_vars => HandleInv'
    <2> SUFFICES ASSUME HandleInv, [Next]_vars PROVE HandleInv'
      OBVIOUS
    <2>1. CASE Move
      BY <2>1, MoveStep
    <2>2. ASSUME NEW c \in Calls, NoFile(c) \/ SendNothing(c) PROVE HandleInv'
      BY <2>2, NoFileStep, SendNothingStep
    <2>3. ASSUME NEW c \in Calls, NEW answer \in Answers,
                 \/ SendPlain(c, answer) \/ SendPut(c, answer) \/ SendPost(c, answer)
                 \/ SendWithFunctions(c, answer) \/ GetFile(c, answer) \/ PutFile(c, answer)
          PROVE  HandleInv'
      BY <2>3, SendPlainStep, SendPutStep, SendPostStep, SendWithFunctionsStep, GetFileStep,
         PutFileStep
    <2>4. CASE UNCHANGED vars
      BY <2>4 DEF vars, HandleInv, TypeOK, OptInv, MethodKept, BodyIsOwn, OwnBuffers,
         ReturnsAnswered, ResultIsOwnAnswer
    <2>5. \A c \in Calls : AnswersTo(c) \subseteq Answers
      BY DEF AnswersTo
    <2> QED BY <2>1, <2>2, <2>3, <2>4, <2>5 DEF Next
  <1> QED BY <1>1, HandleInit, PTL DEF Spec

-----------------------------------------------------------------------------
(* What the requests of a handle carry.                                    *)

\* The options of a handle and what is remembered of its last call have their
\* types after any number of calls and a move (webclient.cpp, s3-api.h).
THEOREM TypeCorrect == Spec => []TypeOK
  <1>1. HandleInv => TypeOK
    BY DEF HandleInv
  <1> QED BY <1>1, HandleAlways, PTL

\* A request goes out with the method of its call, or with one that an earlier
\* HEAD, DELETE or POST has left in the options (WebClient::SetMethod).
THEOREM MethodsKept == Spec => []MethodKept
  <1>1. HandleInv => MethodKept
    BY DEF HandleInv
  <1> QED BY <1>1, HandleAlways, PTL

\* No data of one call goes out with another, for any set of data, but for
\* what was posted url-encoded (S3Api::Clear, Send, WebClient::SetPostData).
THEOREM BodiesAreOwn == Spec => []BodyIsOwn
  <1>1. HandleInv => BodyIsOwn
    BY DEF HandleInv
  <1> QED BY <1>1, HandleAlways, PTL

\* No call reads or writes through the functions, the files or the moved
\* object of the calls before it (WebClient::ResetRWFunctions); whether the
\* functions its own caller gave it are used is not claimed.
THEOREM BuffersAreOwn == Spec => []OwnBuffers
  <1>1. HandleInv => OwnBuffers
    BY DEF HandleInv
  <1> QED BY <1>1, HandleAlways, PTL

\* A call that returns was answered, and not with an error (S3Api::HandleError),
\* but for a Send that sends nothing; no file is left half put by a call that
\* returns, but where WebClient::Status discards a broken pipe.
THEOREM ReturnsAreAnswered == Spec => []ReturnsAnswered
  <1>1. HandleInv => ReturnsAnswered
    BY DEF HandleInv
  <1> QED BY <1>1, HandleAlways, PTL

\* What a call returns is made from its own answer, if it was complete, the
\* handle was not moved and no HEAD keeps the body from being read (the methods
\* of S3Api that read an answer).
THEOREM ResultsAreOwn == Spec => []ResultIsOwnAnswer
  <1>1. HandleInv => ResultIsOwnAnswer
    BY DEF HandleInv
  <1> QED BY <1>1, HandleAlways, PTL

-----------------------------------------------------------------------------
(* Threads that send parts of files (FileParts): who closes what another   *)
(* thread has opened, and what holds of the parts and of the table of      *)
(* descriptors until that happens.                                         *)

\* A descriptor is closed twice only after reading without buffers.
TwiceUnbuffered == \A t \in Threads : stage[t] = "close" => mode[t] = "UNBUFFERED"

\* A thread has the descriptor it will use or close, unless it has closed it
\* already and is about to close it once more.
OwnsDescriptor ==
  \A t \in Threads :
    /\ stage[t] \in {"seek", "send", "close"} => table[fd[t]] = t
    /\ stage[t] = "closeLast" => table[fd[t]] = t \/ mode[t] = "UNBUFFERED"

FilesInv ==
  /\ PartsTypeOK /\ TwiceUnbuffered /\ OnlyUnbufferedStrays
  /\ ~stray => spoilt = {} /\ OwnsDescriptor
  /\ OwnBytes /\ DescriptorsAccounted

-----------------------------------------------------------------------------
\* A free descriptor has a lowest one below it.
LEMMA LowestIn ==
  ASSUME NEW S, S \subseteq Nat, S # {}
  PROVE  Lowest(S) \in S
  <1>1. \E f \in S : \A g \in S : ~(<<g, f>> \in OpToRel(<, Nat))
    BY NatLessThanWellFounded, WFMin
  <1>2. PICK f \in S : \A g \in S : ~(<<g, f>> \in OpToRel(<, Nat))
    BY <1>1
  <1>3. \A g \in S : ~(g < f)
    BY <1>2 DEF OpToRel
  <1>4. \A g \in S : f <= g
    BY <1>3
  <1> QED
    BY <1>4 DEF Lowest

LEMMA FilesInit == PartsInit => FilesInv
  <1> SUFFICES ASSUME PartsInit PROVE FilesInv
    OBVIOUS
  <1> USE FilesAssumption
  <1>1. Lowest(Fds) \in Fds
    BY LowestIn
  <1>2. PartsTypeOK
    <2>1. fd \in [Threads -> Fds] /\ mode \in [Threads -> Modes]
      BY <1>1 DEF PartsInit
    <2>2. tryNum \in [Threads -> 1 .. MaxTries]
      BY DEF PartsInit
    <2> QED
      BY <2>1, <2>2 DEF PartsInit, PartsTypeOK
  <1>3. TwiceUnbuffered /\ OnlyUnbufferedStrays /\ OwnsDescriptor
    BY DEF PartsInit, TwiceUnbuffered, OnlyUnbufferedStrays, OwnsDescriptor
  <1>4. OwnBytes /\ DescriptorsAccounted /\ spoilt = {}
    BY DEF PartsInit, OwnBytes, DescriptorsAccounted, Holding
  <1> QED
    BY <1>2, <1>3, <1>4 DEF FilesInv

\* Whatever a failure leads to is one of the places of a thread.
LEMMA CaughtGoes ==
  ASSUME NEW t \in Threads, PartsTypeOK, Caught(t)
  PROVE  /\ tryNum' \in [Threads -> 1 .. MaxTries]
         /\ \E p \in {"open", "threw"} : stage' = [stage EXCEPT ![t] = p]
  <1> USE FilesAssumption DEF PartsTypeOK
  <1>1. CASE tryNum[t] = MaxTries
    BY <1>1 DEF Caught
  <1>2. CASE tryNum[t] # MaxTries
    <2>1. tryNum[t] \in 1 .. MaxTries /\ MaxTries \in Nat
      OBVIOUS
    <2>2. tryNum[t] + 1 \in 1 .. MaxTries
      BY <2>1, <1>2
    <2> QED
      BY <2>2, <1>2 DEF Caught
  <1> QED
    BY <1>1, <1>2

-----------------------------------------------------------------------------
\* A descriptor that is opened is free before: no other thread has it.
LEMMA OpenKeeps ==
  ASSUME NEW t \in Threads, FilesInv, Open(t)
  PROVE  FilesInv'
  <1> USE FilesAssumption DEF FilesInv, PartsTypeOK
  <1>1. PICK f \in Fds :
          /\ table[f] = Free
          /\ fd' = [fd EXCEPT ![t] = f] /\ table' = [table EXCEPT ![f] = t]
    <2>1. FreeFds \subseteq Nat /\ FreeFds # {}
      BY DEF Open, FreeFds
    <2>2. Lowest(FreeFds) \in FreeFds
      BY <2>1, LowestIn
    <2> QED
      BY <2>2 DEF Open, FreeFds
  <1>2. /\ stage[t] = "open" /\ stage' = [stage EXCEPT ![t] = "seek"]
        /\ spoilt' = spoilt \ {t}
        /\ UNCHANGED <<mode, tryNum, sent, part, leaked, stray, mapped>>
    BY DEF Open
  <1>3. PartsTypeOK'
    BY <1>1, <1>2
  <1>4. TwiceUnbuffered' /\ OnlyUnbufferedStrays' /\ OwnBytes'
    BY <1>2 DEF TwiceUnbuffered, OnlyUnbufferedStrays, OwnBytes
  <1>5. ASSUME ~stray' PROVE spoilt' = {} /\ OwnsDescriptor'
    <2>1. ~stray /\ spoilt' = {}
      BY <1>2, <1>5
    <2>2. ASSUME NEW u \in Threads
          PROVE  /\ stage'[u] \in {"seek", "send", "close"} => table'[fd'[u]] = u
                 /\ stage'[u] = "closeLast" => table'[fd'[u]] = u \/ mode'[u] = "UNBUFFERED"
      <3>1. CASE u = t
        BY <3>1, <1>1, <1>2
      <3>2. CASE u # t
        <4>1. stage'[u] = stage[u] /\ fd'[u] = fd[u] /\ mode'[u] = mode[u] /\ fd[u] \in Fds
          BY <3>2, <1>1, <1>2
        <4>2. table[fd[u]] = u => table'[fd[u]] = u
          BY <1>1, <4>1
        <4> QED
          BY <4>1, <4>2, <2>1 DEF OwnsDescriptor
      <3> QED
        BY <3>1, <3>2
    <2> QED
      BY <2>1, <2>2 DEF OwnsDescriptor
  <1>6. DescriptorsAccounted'
    <2> SUFFICES ASSUME ~stray'
                 PROVE  /\ \A u \in Threads :
                             stage'[u] \in {"seek", "send", "close"} => table'[fd'[u]] = u
                        /\ \A g \in Fds : table'[g] # Free =>
                             g \in leaked' \/
                             (/\ stage'[table'[g]] \in {"seek", "send", "close", "closeLast"}
                              /\ fd'[table'[g]] = g)
      BY DEF DescriptorsAccounted, Holding
    <2>1. OwnsDescriptor'
      BY <1>5
    <2>2. ASSUME NEW g \in Fds, table'[g] # Free
          PROVE  g \in leaked' \/
                 (/\ stage'[table'[g]] \in {"seek", "send", "close", "closeLast"}
                  /\ fd'[table'[g]] = g)
      <3>1. CASE g = f
        BY <3>1, <1>1, <1>2 DEF Holding
      <3>2. CASE g # f /\ table[g] # t
        <4>1. table'[g] = table[g] /\ table[g] \in Threads
          BY <3>2, <2>2, <1>1
        <4>2. stage'[table[g]] = stage[table[g]] /\ fd'[table[g]] = fd[table[g]] /\ leaked' = leaked
          BY <3>2, <4>1, <1>1, <1>2
        <4>3. g \in leaked \/ (Holding(table[g]) /\ fd[table[g]] = g)
          BY <4>1, <2>2, <1>2 DEF DescriptorsAccounted
        <4> QED
          BY <4>1, <4>2, <4>3 DEF Holding
      <3>3. CASE g # f /\ table[g] = t
        <4>1. ~Holding(t)
          BY <1>2 DEF Holding
        <4>2. g \in leaked
          BY <3>3, <4>1, <1>2 DEF DescriptorsAccounted
        <4> QED
          BY <4>2, <1>2
      <3> QED
        BY <3>1, <3>2, <3>3
    <2> QED
      BY <2>1, <2>2 DEF OwnsDescriptor
  <1> QED
    BY <1>3, <1>4, <1>5, <1>6

-----------------------------------------------------------------------------
\* The steps that open and close nothing: all that matters is where the thread
\* goes from the place it was at.
LEMMA MoveKeeps ==
  ASSUME NEW t \in Threads, FilesInv, PartsTypeOK',
         NEW p, stage' = [stage EXCEPT ![t] = p],
         \/ stage[t] \in {"seek", "send"} /\ p = "send"
         \/ stage[t] \in {"seek", "send"} /\ p = "closeLast"
         \/ stage[t] = "send" /\ p = "close" /\ mode[t] = "UNBUFFERED"
         \/ stage[t] = "open" /\ p \in {"open", "threw"}
         \/ stage[t] = "seek" /\ p \in {"open", "threw"} /\ fd[t] \in leaked',
         leaked \subseteq leaked',
         ~stray => spoilt' = {} /\ \A u \in Threads : part'[u] # "foreign",
         UNCHANGED <<mode, fd, table, stray>>
  PROVE  FilesInv'
  <1> USE DEF FilesInv, PartsTypeOK
  <1>1. TwiceUnbuffered'
    BY DEF TwiceUnbuffered
  <1>2. OnlyUnbufferedStrays' /\ OwnBytes'
    BY DEF OnlyUnbufferedStrays, OwnBytes
  <1>3. ~stray => OwnsDescriptor'
    BY DEF OwnsDescriptor
  <1>4. DescriptorsAccounted'
    <2> SUFFICES ASSUME ~stray
                 PROVE  /\ \A u \in Threads :
                             stage'[u] \in {"seek", "send", "close"} => table[fd[u]] = u
                        /\ \A g \in Fds : table[g] # Free =>
                             g \in leaked' \/ (Holding(table[g])' /\ fd[table[g]] = g)
      BY DEF DescriptorsAccounted, Holding
    <2>1. ASSUME NEW g \in Fds, table[g] # Free
          PROVE  g \in leaked' \/ (Holding(table[g])' /\ fd[table[g]] = g)
      <3>1. table[g] \in Threads /\ (g \in leaked \/ (Holding(table[g]) /\ fd[table[g]] = g))
        BY <2>1 DEF DescriptorsAccounted
      <3>2. CASE g \in leaked
        BY <3>2
      <3>3. CASE g \notin leaked /\ table[g] # t
        BY <3>1, <3>3 DEF Holding
      <3>4. CASE g \notin leaked /\ table[g] = t
        BY <3>1, <3>4 DEF Holding
      <3> QED
        BY <3>2, <3>3, <3>4
    <2> QED
      BY <2>1, <1>3 DEF OwnsDescriptor
  <1> QED
    BY <1>1, <1>2, <1>3, <1>4

LEMMA OpenFailsKeeps ==
  ASSUME NEW t \in Threads, FilesInv, OpenFails(t)
  PROVE  FilesInv'
  <1> USE DEF FilesInv, PartsTypeOK
  <1>1. PICK p \in {"open", "threw"} : stage' = [stage EXCEPT ![t] = p]
    BY CaughtGoes DEF OpenFails
  <1>2. tryNum' \in [Threads -> 1 .. MaxTries]
    BY CaughtGoes DEF OpenFails
  <1>3. /\ stage[t] = "open"
        /\ UNCHANGED <<mode, fd, table, spoilt, sent, part, leaked, stray, mapped>>
    BY DEF OpenFails
  <1>4. PartsTypeOK'
    BY <1>1, <1>2, <1>3
  <1> QED
    BY <1>1, <1>3, <1>4, MoveKeeps DEF OwnBytes

LEMMA SeekKeeps ==
  ASSUME NEW t \in Threads, FilesInv, Seek(t)
  PROVE  FilesInv'
  <1> USE DEF FilesInv, PartsTypeOK
  <1>1. /\ stage[t] = "seek" /\ stage' = [stage EXCEPT ![t] = "send"]
        /\ UNCHANGED <<mode, fd, tryNum, table, spoilt, sent, part, leaked, stray>>
    BY DEF Seek
  <1>2. mapped' \subseteq Threads \X (1 .. MaxTries)
    BY DEF Seek
  <1>3. PartsTypeOK'
    BY <1>1, <1>2
  <1> QED
    BY <1>1, <1>3, MoveKeeps DEF OwnBytes

LEMMA SeekFailsKeeps ==
  ASSUME NEW t \in Threads, FilesInv, SeekFails(t)
  PROVE  FilesInv'
  <1> USE DEF FilesInv, PartsTypeOK
  <1>1. /\ stage[t] = "seek"
        /\ UNCHANGED <<mode, fd, table, spoilt, part, stray, mapped>>
    BY DEF SeekFails
  <1>2. CASE mode[t] = "BUFFERED"
    <2>1. PICK p \in {"open", "threw"} : stage' = [stage EXCEPT ![t] = p]
      BY <1>2, CaughtGoes DEF SeekFails
    <2>2. /\ tryNum' \in [Threads -> 1 .. MaxTries]
          /\ leaked' = leaked \cup {fd[t]} /\ sent' = sent
      BY <1>2, CaughtGoes DEF SeekFails
    <2>3. PartsTypeOK'
      BY <1>1, <2>1, <2>2
    <2> QED
      BY <1>1, <2>1, <2>2, <2>3, MoveKeeps DEF OwnBytes
  <1>3. CASE mode[t] # "BUFFERED"
    <2>1. /\ stage' = [stage EXCEPT ![t] = "closeLast"]
          /\ sent' = [sent EXCEPT ![t] = "failed"]
          /\ UNCHANGED <<leaked, tryNum>>
      BY <1>3 DEF SeekFails
    <2>2. PartsTypeOK'
      BY <1>1, <2>1
    <2> QED
      BY <1>1, <2>1, <2>2, MoveKeeps DEF OwnBytes
  <1> QED
    BY <1>2, <1>3

\* A thread that sends has its own file open and unread by others.
LEMMA SendKeeps ==
  ASSUME NEW t \in Threads, NEW result \in {"answered", "refused"}, FilesInv, Send(t, result)
  PROVE  FilesInv'
  <1> USE DEF FilesInv, PartsTypeOK
  <1>1. /\ stage[t] = "send" /\ stage' = [stage EXCEPT ![t] = AfterSend(t)]
        /\ sent' = [sent EXCEPT ![t] = result]
        /\ UNCHANGED <<mode, fd, tryNum, table, leaked, stray>>
    BY DEF Send
  <1>2. AfterSend(t) = "closeLast" \/ (AfterSend(t) = "close" /\ mode[t] = "UNBUFFERED")
    BY DEF AfterSend
  <1>3. mapped' \subseteq Threads \X (1 .. MaxTries)
    BY DEF Send, Unmapped
  <1>4. part' \in [Threads -> {"none", "own", "foreign"}]
    BY DEF Send
  <1>5. spoilt' \subseteq Threads
    <2>1. table[fd[t]] \in Threads \cup {Free}
      OBVIOUS
    <2>2. mode[t] # "MEMORY_MAPPED" => table[fd[t]] # Free
      BY DEF Send, ReadsNothing
    <2> QED
      BY <2>1, <2>2 DEF Send
  <1>6. PartsTypeOK'
    BY <1>1, <1>2, <1>3, <1>4, <1>5
  <1>7. ~stray => spoilt' = {} /\ \A u \in Threads : part'[u] # "foreign"
    <2> SUFFICES ASSUME ~stray
                 PROVE  spoilt' = {} /\ \A u \in Threads : part'[u] # "foreign"
      OBVIOUS
    <2>1. table[fd[t]] = t /\ spoilt = {}
      BY <1>1 DEF OwnsDescriptor
    <2>2. ReadsOwn(t)
      BY <2>1 DEF ReadsOwn
    <2>3. spoilt' = {}
      BY <2>1 DEF Send
    <2>4. \A u \in Threads : part[u] # "foreign"
      BY DEF OwnBytes
    <2>5. part' = part \/ part' = [part EXCEPT ![t] = "own"]
      BY <2>2 DEF Send
    <2> QED
      BY <2>3, <2>4, <2>5
  <1> QED
    BY <1>1, <1>2, <1>6, <1>7, MoveKeeps

LEMMA SendFailsKeeps ==
  ASSUME NEW t \in Threads, FilesInv, SendFails(t)
  PROVE  FilesInv'
  <1> USE DEF FilesInv, PartsTypeOK
  <1>1. /\ stage[t] = "send" /\ stage' = [stage EXCEPT ![t] = AfterSend(t)]
        /\ sent' = [sent EXCEPT ![t] = "failed"] /\ mapped' = mapped
        /\ UNCHANGED <<mode, fd, tryNum, table, spoilt, part, leaked, stray>>
    BY DEF SendFails, Unmapped
  <1>2. AfterSend(t) = "closeLast" \/ (AfterSend(t) = "close" /\ mode[t] = "UNBUFFERED")
    BY DEF AfterSend
  <1>3. PartsTypeOK'
    BY <1>1, <1>2
  <1> QED
    BY <1>1, <1>2, <1>3, MoveKeeps DEF OwnBytes

-----------------------------------------------------------------------------
\* What a close does to the table, and to the others.
LEMMA ClosesOwn ==
  ASSUME NEW t \in Threads, FilesInv, Close(t),
         stage[t] \in {"close", "closeLast"}, UNCHANGED mode
  PROVE  /\ table' \in [Fds -> Threads \cup {Free}] /\ stray' \in BOOLEAN
         /\ OnlyUnbufferedStrays'
         /\ ~stray' => /\ ~stray
                       /\ \A u \in Threads : u # t /\ table[fd[u]] = u => table'[fd[u]] = u
  <1> USE FilesAssumption DEF FilesInv, PartsTypeOK
  <1>1. /\ table' = [table EXCEPT ![fd[t]] = Free]
        /\ stray' = (stray \/ table[fd[t]] \notin {t, Free})
    BY DEF Close
  <1>2. table' \in [Fds -> Threads \cup {Free}] /\ stray' \in BOOLEAN
    BY <1>1
  <1>3. OnlyUnbufferedStrays'
    <2>1. CASE stray
      BY <2>1 DEF OnlyUnbufferedStrays
    <2>2. CASE ~stray
      <3>1. mode[t] # "UNBUFFERED" => table[fd[t]] = t
        BY <2>2 DEF OwnsDescriptor
      <3>2. mode[t] # "UNBUFFERED" => ~stray'
        BY <3>1, <2>2, <1>1
      <3> QED
        BY <3>2 DEF OnlyUnbufferedStrays
    <2> QED
      BY <2>1, <2>2
  <1>4. ASSUME ~stray', NEW u \in Threads, u # t, table[fd[u]] = u
        PROVE  table'[fd[u]] = u
    <2>1. table[fd[t]] \in {t, Free}
      BY <1>1, <1>4
    <2>2. fd[u] # fd[t] /\ fd[u] \in Fds
      BY <2>1, <1>4
    <2> QED
      BY <2>2, <1>1, <1>4
  <1> QED
    BY <1>1, <1>2, <1>3, <1>4

\* A thread that has closed its descriptor leaves the others theirs.
LEMMA CloseKeeps ==
  ASSUME NEW t \in Threads, FilesInv, Close(t), PartsTypeOK', NEW p,
         stage' = [stage EXCEPT ![t] = p],
         \/ stage[t] = "close" /\ p = "closeLast"
         \/ stage[t] = "closeLast" /\ p \in {"done", "open", "threw"},
         UNCHANGED <<mode, fd, spoilt, part, leaked>>
  PROVE  FilesInv'
  <1> USE FilesAssumption DEF FilesInv, PartsTypeOK
  <1>1. /\ OnlyUnbufferedStrays'
        /\ ~stray' => /\ ~stray
                      /\ \A u \in Threads : u # t /\ table[fd[u]] = u => table'[fd[u]] = u
    BY ClosesOwn
  <1>2. TwiceUnbuffered'
    BY DEF TwiceUnbuffered
  <1>3. OwnBytes' /\ (~stray' => spoilt' = {})
    BY <1>1 DEF OwnBytes
  <1>4. ASSUME ~stray' PROVE OwnsDescriptor'
    <2>1. \A u \in Threads : u # t => stage'[u] = stage[u]
      OBVIOUS
    <2>2. stage[t] = "close" => mode[t] = "UNBUFFERED"
      BY DEF TwiceUnbuffered
    <2>3. stage'[t] = p
      OBVIOUS
    <2> SUFFICES ASSUME NEW u \in Threads
                 PROVE  /\ stage'[u] \in {"seek", "send", "close"} => table'[fd[u]] = u
                        /\ stage'[u] = "closeLast" => table'[fd[u]] = u \/ mode[u] = "UNBUFFERED"
      BY DEF OwnsDescriptor
    <2>4. CASE u = t
      BY <2>2, <2>3, <2>4
    <2>5. CASE u # t
      BY <1>1, <1>4, <2>1, <2>5 DEF OwnsDescriptor
    <2> QED
      BY <2>4, <2>5
  <1>5. DescriptorsAccounted'
    <2> SUFFICES ASSUME ~stray'
                 PROVE  /\ \A u \in Threads :
                             stage'[u] \in {"seek", "send", "close"} => table'[fd[u]] = u
                        /\ \A g \in Fds : table'[g] # Free =>
                             g \in leaked \/
                             (/\ stage'[table'[g]] \in {"seek", "send", "close", "closeLast"}
                              /\ fd[table'[g]] = g)
      BY DEF DescriptorsAccounted, Holding
    <2>1. ASSUME NEW g \in Fds, table'[g] # Free
          PROVE  g \in leaked \/
                 (stage'[table'[g]] \in {"seek", "send", "close", "closeLast"} /\ fd[table'[g]] = g)
      <3>1. g # fd[t] /\ table'[g] = table[g] /\ table[g] \in Threads
        BY <2>1 DEF Close
      <3>2. g \in leaked \/ (Holding(table[g]) /\ fd[table[g]] = g)
        BY <3>1, <2>1, <1>1 DEF DescriptorsAccounted
      <3>3. fd[table[g]] = g => table[g] # t
        BY <3>1
      <3> QED
        BY <3>1, <3>2, <3>3 DEF Holding
    <2> QED
      BY <2>1, <1>4 DEF OwnsDescriptor
  <1> QED
    BY <1>1, <1>2, <1>3, <1>4, <1>5

LEMMA CloseFirstKeeps ==
  ASSUME NEW t \in Threads, FilesInv, CloseFirst(t)
  PROVE  FilesInv'
  <1>1. /\ stage[t] = "close" /\ Close(t) /\ stage' = [stage EXCEPT ![t] = "closeLast"]
        /\ UNCHANGED <<mode, fd, tryNum, spoilt, sent, part, leaked, mapped>>
    BY DEF CloseFirst
  <1>2. table' \in [Fds -> Threads \cup {Free}] /\ stray' \in BOOLEAN
    BY <1>1, ClosesOwn
  <1>3. PartsTypeOK'
    BY <1>1, <1>2 DEF FilesInv, PartsTypeOK
  <1> QED
    BY <1>1, <1>3, CloseKeeps

LEMMA CloseLastKeeps ==
  ASSUME NEW t \in Threads, FilesInv, CloseLast(t)
  PROVE  FilesInv'
  <1>1. /\ stage[t] = "closeLast" /\ Close(t)
        /\ UNCHANGED <<mode, fd, spoilt, sent, part, leaked, mapped>>
    BY DEF CloseLast
  <1>2. /\ tryNum' \in [Threads -> 1 .. MaxTries]
        /\ \E p \in {"done", "open", "threw"} : stage' = [stage EXCEPT ![t] = p]
    <2>1. CASE sent[t] = "answered"
      BY <2>1 DEF CloseLast, FilesInv, PartsTypeOK
    <2>2. CASE sent[t] # "answered"
      BY <2>2, CaughtGoes DEF CloseLast, FilesInv
    <2> QED
      BY <2>1, <2>2
  <1>3. PICK p \in {"done", "open", "threw"} : stage' = [stage EXCEPT ![t] = p]
    BY <1>2
  <1>4. table' \in [Fds -> Threads \cup {Free}] /\ stray' \in BOOLEAN
    BY <1>1, ClosesOwn
  <1>5. PartsTypeOK'
    BY <1>1, <1>2, <1>3, <1>4 DEF FilesInv, PartsTypeOK
  <1> QED
    BY <1>1, <1>3, <1>5, CloseKeeps

-----------------------------------------------------------------------------
\* The invariant holds in every state.
THEOREM FilesInvariant == PartsSpec => []FilesInv
  <1>1. PartsInit => FilesInv
    BY FilesInit
  <1>2. FilesInv /\ [PartsNext]_partsVars => FilesInv'
    <2> SUFFICES ASSUME FilesInv, [PartsNext]_partsVars PROVE FilesInv'
      OBVIOUS
    <2>1. CASE UNCHANGED partsVars
      BY <2>1 DEF partsVars, FilesInv, PartsTypeOK, TwiceUnbuffered, OnlyUnbufferedStrays,
        OwnsDescriptor, OwnBytes, DescriptorsAccounted, Holding
    <2>2. CASE PartsRest
      BY <2>1, <2>2 DEF PartsRest, partsVars, FilesInv, PartsTypeOK,
                        TwiceUnbuffered, OnlyUnbufferedStrays,
        OwnsDescriptor, OwnBytes, DescriptorsAccounted, Holding
    <2>3. ASSUME NEW t \in Threads, PartStep(t) PROVE FilesInv'
      BY <2>3, OpenKeeps, OpenFailsKeeps, SeekKeeps, SeekFailsKeeps, SendKeeps,
        SendFailsKeeps, CloseFirstKeeps, CloseLastKeeps DEF PartStep
    <2> QED
      BY <2>1, <2>2, <2>3 DEF PartsNext
  <1> QED
    BY <1>1, <1>2, PTL DEF PartsSpec

\* Nobody but a thread that reads without buffers closes what is not its own.
THEOREM StraysAreUnbuffered == PartsSpec => [](PartsTypeOK /\ OnlyUnbufferedStrays)
  <1>1. FilesInv => PartsTypeOK /\ OnlyUnbufferedStrays
    BY DEF FilesInv
  <1> QED
    BY <1>1, FilesInvariant, PTL

\* Until a thread does, parts are made of the bytes of their own file.
THEOREM PartsAreOwn == PartsSpec => []OwnBytes
  <1>1. FilesInv => OwnBytes
    BY DEF FilesInv
  <1> QED
    BY <1>1, FilesInvariant, PTL

\* ... and descriptors are open as long as they are used.
THEOREM DescriptorsUsed == PartsSpec => []DescriptorsAccounted
  <1>1. FilesInv => DescriptorsAccounted
    BY DEF FilesInv
  <1> QED
    BY <1>1, FilesInvariant, PTL
=============================================================================
