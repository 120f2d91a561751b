---------------------------- MODULE CurlOptions ----------------------------
(***************************************************************************)
(* The options of a libcurl handle and what WebClient                      *)
(* (lib/src/webclient.cpp) and S3Api::Clear (lib/include/s3-api.h) set of  *)
(* them, as operators from the options before to the options after.       *)
(***************************************************************************)
EXTENDS S3Requests

-----------------------------------------------------------------------------
(* libcurl: `req' is the kind of request, `custom' the name put in its     *)
(* place, `nobody' that no body is read from the answer; "this" and        *)
(* "other" say whose buffer a pointer points to, "other" being the object  *)
(* this one was moved from.                                                *)

Places  == {"this", "other", "memory", "file", "caller", "closed"}
Options == [custom : {"none", "HEAD", "DELETE", "POST", "PUT"},
            req    : {"GET", "HEAD", "PUT", "POST"},
            nobody : BOOLEAN,
            fields : Bodies,
            read   : Places,
            write  : Places,
            list   : {"this", "other"},
            header : {"this", "other"}]

Upload(o, on) == IF on THEN [o EXCEPT !.req = "PUT", !.nobody = FALSE]
                       ELSE [o EXCEPT !.req = "GET"]
NoBody(o)     == [o EXCEPT !.nobody = TRUE, !.req = "HEAD"]
HttpGet(o)    == [o EXCEPT !.nobody = FALSE, !.req = "GET"]
Post(o, body) == [o EXCEPT !.req = "POST", !.fields = body]
Custom(o, m)  == [o EXCEPT !.custom = m]

\* The method that goes out, and the body that goes with it.
MethodSent(o) ==
  IF o.custom # "none" THEN o.custom ELSE IF o.nobody THEN "HEAD" ELSE o.req
BodySent(o, buffer) ==
  CASE o.req = "POST" -> o.fields
    [] o.req = "PUT" /\ o.read \in {"memory", "file"} -> buffer
    [] OTHER -> NoBodyAtAll

-----------------------------------------------------------------------------
(* WebClient                                                               *)

\* Variants: a request with PUT for a name, and a GET or PUT that leaves
\* NOBODY as it is.
SetMethodNamesPut(o, m, enc) ==
  CASE m \in {"GET", "get"} -> HttpGet(Upload(o, FALSE))
    [] m = "HEAD"           -> Custom(NoBody(Upload(o, FALSE)), "HEAD")
    [] m = "DELETE"         -> Custom(Upload(o, FALSE), "DELETE")
    [] m = "POST"           -> Post(Custom(Upload(o, FALSE), "POST"), enc)
    [] m \in {"PUT", "put"} -> Custom(Upload(o, TRUE), "PUT")
    [] OTHER                -> o
SetMethodKeepsNoBody(o, m, enc) ==
  CASE m \in {"GET", "get"} -> Upload(o, FALSE)
    [] m = "HEAD"           -> Custom(NoBody(Upload(o, FALSE)), "HEAD")
    [] m = "DELETE"         -> Custom(Upload(o, FALSE), "DELETE")
    [] m = "POST"           -> Post(Custom(Upload(o, FALSE), "POST"), enc)
    [] m \in {"PUT", "put"} -> Upload(o, TRUE)
    [] OTHER                -> o

\* GET and PUT are compared in upper case, the others as they were given.
SetMethod(o, m, enc) ==
  CASE m \in {"GET", "get"} -> HttpGet(Upload(o, FALSE))
    [] m = "HEAD"           -> Custom(NoBody(Upload(o, FALSE)), "HEAD")
    [] m = "DELETE"         -> Custom(Upload(o, FALSE), "DELETE")
    [] m = "POST"           -> Post(Custom(Upload(o, FALSE), "POST"), enc)
    [] m \in {"PUT", "put"} -> Upload(o, TRUE)
    [] OTHER                -> o

SetReadFunction(o, place)  == [o EXCEPT !.read = place]
SetWriteFunction(o, place) == [o EXCEPT !.write = place]
SetHeaders(o)              == [o EXCEPT !.list = "this"]
ResetRWFunctions(o) == SetWriteFunction(SetReadFunction(o, "this"), "this")

\* What curl_easy_init and Init leave.
FreshHandle ==
  [custom |-> "none", req |-> "GET", nobody |-> FALSE, fields |-> NoBodyAtAll,
   read |-> "this", write |-> "this", list |-> "this", header |-> "this"]

\* The move constructor takes the handle with all its pointers into the other
\* object, and none of the data behind them.
MovedHandle(o) ==
  LET Left(place) == IF place \in {"this", "memory"} THEN "other" ELSE place
  IN [o EXCEPT !.read = Left(@), !.write = Left(@), !.list = "other", !.header = "other"]

-----------------------------------------------------------------------------
(* S3Api                                                                   *)

\* Variants: the functions are not reset, and the data to post is not.
ClearKeepsFunctions(o) == Post(SetHeaders(o), NoBodyAtAll)
ClearKeepsData(o)      == ResetRWFunctions(SetHeaders(o))

Clear(o) == ResetRWFunctions(Post(SetHeaders(o), NoBodyAtAll))
=============================================================================
