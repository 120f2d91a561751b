----------------------------- MODULE CurlHandle -----------------------------
(***************************************************************************)
(* A WebClient and the S3Api that owns it (lib/src/webclient.cpp,          *)
(* lib/include/s3-api.h): a libcurl handle whose options stay set from one *)
(* request to the next, and the requests one thread makes with it, one     *)
(* after the other.  Every method of S3Api is one `Call': it configures    *)
(* the handle, sends at most one request and judges the answer.            *)
(*                                                                         *)
(* What libcurl does with its options, and what a server answers, are      *)
(* modelled from what the code expects of them.                            *)
(***************************************************************************)
EXTENDS CurlOptions, Naturals

VARIABLES
  opt,      \* the options of the handle
  encoded,  \* urlEncodedPostData_
  status,   \* responseCode_: 0, 200 or 404
  moved,    \* the object was made by the move constructor
  last,     \* history: the last call and what became of it
  customs,  \* history: the sticky methods of the calls made
  headSeen  \* history: a HEAD was configured after the last GET or PUT

vars == <<opt, encoded, status, moved, last, customs, headSeen>>

-----------------------------------------------------------------------------
(* S3Api                                                                   *)

Config(o, m) == SetHeaders(SetMethod(Clear(o), m, encoded))

\* Variant: a transfer that failed is no exception.
OnlyErrorStatus(code)  == IF code >= 400 THEN "logic_error" ELSE "returned"

HandleError(code) ==
  CASE code = 0    -> "runtime_error"
    [] code >= 400 -> "logic_error"
    [] OTHER       -> "returned"

-----------------------------------------------------------------------------
(* The calls.                                                              *)

\* complete: a success, received in full; cut: the connection breaks after the
\* status; broken: the same while the body is being sent, with an error that
\* Status takes for a broken pipe, and so for none; refused: an error; failed:
\* no answer.
Answers == {"complete", "cut", "broken", "refused", "failed"}
AnswersTo(c) ==
  IF c.kind = "putfile" \/ c.data # NoData THEN Answers ELSE Answers \ {"broken"}
StatusOf(answer) ==
  CASE answer = "failed" -> 0 [] answer = "refused" -> 404 [] OTHER -> 200

\* What the method returns is made from the answer it was sent, or it is made
\* from nothing.
Got(c, o, answer) ==
  \/ c.reads = "nothing"
  \/ c.reads = "headers" /\ o.header = "this"
  \/ c.reads = "body" /\ answer = "complete" /\ ~o.nobody /\ MethodSent(o) # "HEAD"

NothingSent == [sent |-> FALSE, method |-> "none", body |-> NoBodyAtAll, answer |-> "failed",
                read |-> "this", write |-> "this", list |-> "this"]
Sent(c, o, answer) ==
  [sent |-> TRUE, method |-> MethodSent(o), body |-> BodySent(o, Plain(c.data)),
   answer |-> answer, read |-> o.read, write |-> o.write, list |-> o.list]

\* The methods whose name stays in the options.
Sticky == {"HEAD", "DELETE", "POST"}

\* The end of a call that has configured the handle: the options it leaves,
\* what was sent, how it ends.
Ends(c, request, outcome, got) ==
  last' = [call |-> c, request |-> request, outcome |-> outcome, got |-> got]
Done(c, o, request, outcome, got) ==
  /\ opt' = o
  /\ Ends(c, request, outcome, got)
  /\ customs' = customs \cup ({c.method} \cap Sticky)
  /\ headSeen' = CASE c.method \in {"GET", "get", "PUT", "put"} -> FALSE
                   [] c.method = "HEAD" -> TRUE
                   [] OTHER -> headSeen
  /\ UNCHANGED moved

\* An ETag that is missing from the answer is an error of its own.
Judged(c, o, answer) ==
  IF HandleError(StatusOf(answer)) = "returned" /\ c.needs # "none" /\ ~Got(c, o, answer)
    THEN c.needs
    ELSE HandleError(StatusOf(answer))

Perform(c, o, answer) ==
  /\ status' = StatusOf(answer)
  /\ Done(c, o, Sent(c, o, answer), Judged(c, o, answer), Got(c, o, answer))

\* S3Api::Send without data: the request is what Config has left.
SendPlain(c, answer) ==
  /\ c.kind = "send" /\ c.data = NoData
  /\ Perform(c, Config(opt, c.method), answer)
  /\ UNCHANGED encoded

\* ... with data, put from memory: UploadDataFromBuffer.
SendPut(c, answer) ==
  /\ c.kind = "send" /\ c.data # NoData /\ c.method \in {"PUT", "put"}
  /\ Perform(c, SetMethod(SetReadFunction(Config(opt, c.method), "memory"), "PUT", encoded), answer)
  /\ UNCHANGED encoded

\* ... with data, posted as it is or url-encoded.
SendPost(c, answer) ==
  /\ c.kind = "send" /\ c.data # NoData /\ c.method \in {"POST", "post"}
  /\ LET body == IF c.encode THEN UrlEncoded(c.data) ELSE Plain(c.data)
     IN /\ encoded' = IF c.encode THEN body ELSE encoded
        /\ Perform(c, Post(Config(opt, c.method), body), answer)

\* ... with data for any other method: nothing is sent, and the status that
\* HandleError looks at is that of an earlier request.
SendNothing(c) ==
  /\ c.kind = "send" /\ c.data # NoData
  /\ c.method \notin {"PUT", "put", "POST", "post"}
  /\ Done(c, Config(opt, c.method), NothingSent, HandleError(status), c.reads = "nothing")
  /\ UNCHANGED <<encoded, status>>

\* The overload of Send with functions: Send configures the handle again.
SendWithFunctions(c, answer) ==
  /\ c.kind = "functions"
  /\ LET mine == SetReadFunction(SetWriteFunction(opt, "caller"), "caller")
         o    == Config(mine, c.method)
     IN Perform(c, o, answer)
  /\ UNCHANGED encoded

\* GetFileObject: the result of the transfer is not looked at, the file is
\* closed and stays in the options.
GetFile(c, answer) ==
  /\ c.kind = "getfile"
  /\ LET o == SetWriteFunction(Config(opt, c.method), "file")
     IN /\ status' = StatusOf(answer)
        /\ Done(c, SetWriteFunction(o, "closed"), Sent(c, o, answer),
                HandleError(StatusOf(answer)), TRUE)
  /\ UNCHANGED encoded

\* A file, or a part of one, is put: WebClient::UploadFile* throws when Status
\* says that the transfer failed, and what it read from is gone when it leaves.
PutFile(c, answer) ==
  /\ c.kind = "putfile"
  /\ LET o == SetMethod(SetReadFunction(Config(opt, c.method), "file"), "PUT", encoded)
     IN /\ status' = StatusOf(answer)
        /\ Done(c, SetReadFunction(o, "closed"), Sent(c, o, answer),
                IF answer \in {"failed", "cut"} THEN "runtime_error" ELSE Judged(c, o, answer),
                Got(c, o, answer))
  /\ UNCHANGED encoded

\* The file cannot be opened: GetFileObject throws before it configures the
\* handle, WebClient::UploadFile* after it.
NoFile(c) ==
  /\ \/ /\ c.kind = "getfile"
        /\ Ends(c, NothingSent, "runtime_error", FALSE)
        /\ UNCHANGED <<opt, moved, customs, headSeen>>
     \/ /\ c.kind = "putfile"
        /\ Done(c, Config(opt, c.method), NothingSent, "runtime_error", FALSE)
  /\ UNCHANGED <<encoded, status>>

NoCall == [call |-> CHOOSE c \in ListBuckets : TRUE, request |-> NothingSent,
           outcome |-> "none", got |-> TRUE]

\* S3Api(S3Api &&): the calls go on with the new object.
Move ==
  /\ ~moved
  /\ moved' = TRUE
  /\ opt' = MovedHandle(opt)
  /\ encoded' = NoBodyAtAll /\ status' = 0 /\ last' = NoCall
  /\ UNCHANGED <<customs, headSeen>>

-----------------------------------------------------------------------------
Init ==
  /\ opt = FreshHandle
  /\ encoded = NoBodyAtAll /\ status = 0
  /\ moved = FALSE
  /\ last = NoCall
  /\ customs = {} /\ headSeen = FALSE

Next ==
  \/ Move
  \/ \E c \in Calls :
       \/ NoFile(c) \/ SendNothing(c)
       \/ \E answer \in AnswersTo(c) :
            \/ SendPlain(c, answer) \/ SendPut(c, answer) \/ SendPost(c, answer)
            \/ SendWithFunctions(c, answer) \/ GetFile(c, answer) \/ PutFile(c, answer)

Spec == Init /\ [][Next]_vars

-----------------------------------------------------------------------------
(* Properties                                                              *)

Asked(c) == CASE c.method = "get" -> "GET" [] c.method = "put" -> "PUT" [] OTHER -> c.method
Own(c)   == IF c.encode /\ c.method \in {"POST", "post"} THEN UrlEncoded(c.data) ELSE Plain(c.data)

\* Types of the options and of what was sent last.
TypeOK ==
  /\ opt \in Options /\ encoded \in Bodies /\ status \in {0, 200, 404}
  /\ moved \in BOOLEAN /\ headSeen \in BOOLEAN
  /\ last.call \in SendParams /\ last.request.body \in Bodies
  /\ last.outcome \in {"none", "returned", "runtime_error", "logic_error"}
  /\ customs \subseteq Sticky

\* A request goes out with the method of its call, except that a GET or a PUT
\* on a handle that has made a HEAD, a DELETE or a POST goes out with the name
\* of the last of these: nothing but this order of calls makes it wrong, which
\* is why the transfers have a handle for each kind of request.
MethodKept ==
  LET c == last.call IN
  last.request.sent /\ c.method \in {"GET", "get", "PUT", "put"} \cup Sticky =>
    \/ last.request.method = Asked(c)
    \/ c.method \notin Sticky /\ last.request.method \in customs

\* What one call sends never goes out with another: not what a previous call
\* had put in memory, posted, or read from a file.  The one exception is what
\* was posted url-encoded, which is sent again with every POST without data.
BodyIsOwn ==
  LET c == last.call IN
  last.request.sent =>
    \/ last.request.body = Own(c)
    \/ c.method = "POST" /\ c.data = NoData /\ last.request.body = encoded

\* Whatever the calls before it left in the options, closed files, functions
\* of a caller or buffers of the object moved from, what a call reads and
\* writes is its own, or what its own caller gave it.
Given(c) == IF c.kind = "functions" THEN {"caller"} ELSE {}

OwnBuffers ==
  LET c == last.call IN
  last.request.sent =>
    /\ last.request.write \in {IF c.kind = "getfile" THEN "file" ELSE "this"} \cup Given(c)
    /\ last.request.read \in {"this", "memory", "file"} \cup Given(c)
    /\ last.request.list = "this"

\* The request of the Send that is given functions reads and writes with them,
\* as its documentation says (s3-api.h:362-374).  It does not: Send configures
\* the handle, and Clear sets both functions back (s3-api.h:307-314, 380).
FunctionsAreUsed ==
  last.request.sent /\ last.call.kind = "functions" =>
    last.request.read = "caller" /\ last.request.write = "caller"

\* A call that returns has sent its request and was not answered with an
\* error; one that returns after putting a file has put all of it, unless the
\* pipe broke and Status discarded that (webclient.cpp:445-457).  Only Send with
\* data for another method than PUT and POST is left: it judges what an earlier
\* call was answered.
ReturnsAnswered ==
  LET c == last.call IN
  last.outcome = "returned" =>
    \/ last.request.sent /\ last.request.answer \in {"complete", "broken", "cut"}
         /\ (c.kind = "putfile" => last.request.answer # "cut")
    \/ ~last.request.sent /\ c.kind = "send" /\ c \in RawSend

\* A call of the API that returns made its result from its own answer, unless
\* that was cut, the object was moved (the headers then go to the object it was
\* moved from) or a HEAD was made since the last GET or PUT (no body is read).
ResultIsOwnAnswer ==
  LET c == last.call IN
  last.outcome = "returned" /\ last.request.sent /\ last.request.answer = "complete" =>
    \/ last.got
    \/ c.reads = "headers" /\ moved
    \/ c.reads = "body" /\ (headSeen \/ last.request.method = "HEAD")
=============================================================================
