----------------------------- MODULE S3Requests -----------------------------
(***************************************************************************)
(* The methods of S3Api (lib/src/api) as the requests they make of a       *)
(* handle: how the request is made, its method, what is sent with it and   *)
(* what of the answer the result is made from.  Names, parameters and      *)
(* headers, which every call sets anew, are left out.                      *)
(***************************************************************************)
CONSTANTS
  Data,    \* what callers send: documents, objects, parts
  NoData   \* an empty string, or a buffer of no bytes

ASSUME DataAssumption == NoData \notin Data

\* The body of a request, as it is or url-encoded.
Bodies        == [data : Data \cup {NoData}, urlEncoded : BOOLEAN]
Plain(d)      == [data |-> d, urlEncoded |-> FALSE]
UrlEncoded(d) == [data |-> d, urlEncoded |-> TRUE]
NoBodyAtAll   == Plain(NoData)

\* kind: which of the ways of sending; needs: the exception thrown when what
\* the method reads from the answer is missing.
SendParams ==
  [kind   : {"send", "functions", "getfile", "putfile"},
   method : {"GET", "HEAD", "DELETE", "POST", "PUT", "get", "head", "delete", "post", "put"},
   data   : Data \cup {NoData},
   encode : BOOLEAN,
   reads  : {"nothing", "headers", "body"},
   needs  : {"none", "runtime_error", "logic_error"}]

Request(kind, m, D, reads, needs) ==
  {[kind |-> kind, method |-> m, data |-> d, encode |-> FALSE,
    reads |-> reads, needs |-> needs] : d \in D}

Ask(m, reads)     == Request("send", m, {NoData}, reads, "none")
\* A document made by the method, never empty.
Tell(m, reads)    == Request("send", m, Data, reads, "none")

-----------------------------------------------------------------------------
(* Buckets *)
TestBucket           == Ask("GET", "nothing")
CreateBucket         == Ask("PUT", "headers") \cup Tell("PUT", "headers")
DeleteBucket         == Ask("DELETE", "nothing")
HeadBucket           == Ask("HEAD", "body")
ListBuckets          == Ask("GET", "body")
GetBucketAcl         == Ask("GET", "body")
PutBucketAcl         == Tell("PUT", "nothing")
GetBucketTagging     == Ask("GET", "body")
PutBucketTagging     == Tell("PUT", "nothing")
DeleteBucketTagging  == Ask("DELETE", "nothing")
PutBucketVersioning  == Tell("PUT", "nothing")
GetBucketVersioning  == Ask("GET", "body")

(* Objects *)
PutObject            == Request("send", "PUT", Data \cup {NoData}, "headers", "runtime_error")
PutFileObject        == Request("putfile", "PUT", Data, "headers", "none")
GetObject            == Ask("GET", "body")
GetFileObject        == Request("getfile", "GET", {NoData}, "nothing", "none")
DeleteObject         == Ask("DELETE", "nothing")
HeadObject           == Ask("HEAD", "headers")
ListObjectsV2        == Ask("GET", "body")
GetObjectAcl         == Ask("GET", "body")
PutObjectAcl         == Tell("PUT", "nothing")
GetObjectTagging     == Ask("GET", "body")
PutObjectTagging     == Tell("PUT", "nothing")
DeleteObjectTagging  == Ask("DELETE", "nothing")
ListObjectVersions   == Ask("GET", "body")

\* TestObject and GetObjectSize catch what HeadObject throws.
TestObject           == HeadObject
GetObjectSize        == HeadObject

(* Multipart uploads *)
CreateMultipartUpload   == Ask("POST", "body")
UploadPart              == Request("send", "PUT", Data \cup {NoData}, "headers", "runtime_error")
UploadFilePart          == Request("putfile", "PUT", Data, "headers", "runtime_error")
CompleteMultipartUpload == Request("send", "POST", Data, "body", "logic_error")
AbortMultipartUpload    == Ask("DELETE", "nothing")

\* Send itself is public: any method, in any case, with any data.
RawSend ==
  {c \in SendParams : c.kind = "send" /\ c.reads = "body" /\ c.needs = "none"
                      /\ (c.encode => c.data # NoData)}
SendFunctions ==
  {c \in SendParams : c.kind = "functions" /\ c.data = NoData /\ ~c.encode
                      /\ c.reads = "nothing" /\ c.needs = "none"}

BucketCalls ==
  TestBucket \cup CreateBucket \cup DeleteBucket \cup HeadBucket \cup ListBuckets
  \cup GetBucketAcl \cup PutBucketAcl \cup GetBucketTagging \cup PutBucketTagging
  \cup DeleteBucketTagging \cup PutBucketVersioning \cup GetBucketVersioning
ObjectCalls ==
  PutObject \cup PutFileObject \cup GetObject \cup GetFileObject \cup DeleteObject
  \cup HeadObject \cup TestObject \cup GetObjectSize \cup ListObjectsV2 \cup GetObjectAcl
  \cup PutObjectAcl \cup GetObjectTagging \cup PutObjectTagging \cup DeleteObjectTagging
  \cup ListObjectVersions
MultipartCalls ==
  CreateMultipartUpload \cup UploadPart \cup UploadFilePart
  \cup CompleteMultipartUpload \cup AbortMultipartUpload

\* HeadBucket reads a body that an answer to HEAD never has.
ApiCalls == BucketCalls \cup ObjectCalls \cup MultipartCalls
Calls    == ApiCalls \cup RawSend \cup SendFunctions
=============================================================================
