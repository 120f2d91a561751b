------------------------------- MODULE Signing -------------------------------
(***************************************************************************)
(* Requests that are signed (lib/src/aws_sign.cpp) and sent by the         *)
(* low-level client (lib/src/s3-client.cpp), and what a server makes of    *)
(* them.  Headers and parameters are functions from names to values; a     *)
(* digest is the tuple of what it is computed from, so that two are equal  *)
(* when their texts are; a text that is joined from fields is the record   *)
(* of the fields.  Names of headers are in lower case, as ParseHeaders     *)
(* makes them and ComputeSignature requires.                               *)
(***************************************************************************)
EXTENDS CurlOptions, Functions

\* The escaped form of a key that has characters to escape.
Escaped(key) == IF key = "special" THEN "%special" ELSE key

Upper(m) ==
  CASE m = "get" -> "GET" [] m = "put" -> "PUT" [] m = "post" -> "POST"
    [] m = "delete" -> "DELETE" [] m = "head" -> "HEAD" [] OTHER -> m

-----------------------------------------------------------------------------
(* aws_sign.cpp.  cfg has access, secret, host, method, key, headers,      *)
(* params, region, service and date.                                       *)

SHA256(text)   == <<"SHA256", text>>
Hash(key, msg) == <<"HMAC", key, msg>>
CreateSignatureKey(secret, date, region, service) ==
  Hash(Hash(Hash(Hash(<<"AWS4", secret>>, date), region), service), "aws4_request")

\* The text to sign, and its signature.
Sign(cfg, request) ==
  Hash(CreateSignatureKey(cfg.secret, cfg.date, cfg.region, cfg.service),
       [time |-> cfg.date, scope |-> <<cfg.date, cfg.region, cfg.service>>,
        request |-> SHA256(request)])

AmzNames == {"x-amz-content-sha256", "x-amz-date", "x-amz-meta-a"}
Canonical(cfg, headers, signed, query, payload) ==
  [method |-> cfg.method, uri |-> cfg.key, query |-> query,
   headers |-> headers, signed |-> signed, payload |-> payload]

\* map::insert: a header that is there already keeps its value.
Insert(headers, others) ==
  [h \in DOMAIN headers \cup DOMAIN others |->
     IF h \in DOMAIN headers THEN headers[h] ELSE others[h]]
Header(name, value) == [h \in {name} |-> value]

DefaultHeaders(cfg) ==
  Insert(Header("host", cfg.host),
         Insert(Header("x-amz-content-sha256", "UNSIGNED-PAYLOAD"),
                Header("x-amz-date", cfg.date)))

ComputeSignature(cfg) ==
  LET added     == Restrict(cfg.headers, DOMAIN cfg.headers \cap (AmzNames \cup {"content-length"}))
      canonical == Insert(DefaultHeaders(cfg), added)
      request   == Canonical([cfg EXCEPT !.method = Upper(@)], canonical, DOMAIN canonical,
                             cfg.params, "UNSIGNED-PAYLOAD")
  IN [signature |-> Sign(cfg, request), signed |-> DOMAIN canonical]

Authorization(cfg) ==
  LET s == ComputeSignature(cfg) IN
  Header("Authorization",
         [access |-> cfg.access, scope |-> <<cfg.date, cfg.region, cfg.service>>,
          signed |-> s.signed, signature |-> s.signature])

\* Variant: the caller's headers are inserted first.
SignHeadersCallersFirst(cfg) ==
  Insert(cfg.headers, Insert(DefaultHeaders(cfg), Authorization(cfg)))

SignHeaders(cfg) ==
  Insert(Insert(DefaultHeaders(cfg), Authorization(cfg)), cfg.headers)

\* Headers whose name does not start with x-amz- are signed, all of them are
\* canonical; the method is taken as it is.
SignedURL(cfg) ==
  LET others    == Restrict(cfg.headers, DOMAIN cfg.headers \ AmzNames)
      signed    == DOMAIN others \cup {"host"}
      canonical == Insert(cfg.headers, Header("host", cfg.host))
      query     == [access |-> cfg.access, scope |-> <<cfg.date, cfg.region, "s3">>,
                    date |-> cfg.date, signed |-> signed, params |-> cfg.params]
      request   == Canonical(cfg, canonical, signed, query, "UNSIGNED-PAYLOAD")
  IN [key |-> cfg.key, query |-> query,
      signature |-> Sign([cfg EXCEPT !.service = "s3"], request)]

-----------------------------------------------------------------------------
(* s3-client.cpp.  args has also data and dataIsFileName.                  *)

\* A file is only put, or posted by a method in lower case.
WrongMethod(args) ==
  args.data # NoData /\ args.dataIsFileName /\ Upper(args.method) # "PUT" /\ args.method # "post"

\* The options after everything that is set before the request.
ReadyToSend(args) ==
  LET o       == SetMethod(FreshHandle, args.method, NoBodyAtAll)
      posted  == UrlEncoded(args.data)
      Put(place) == SetMethod(SetReadFunction(o, place), "PUT", NoBodyAtAll)
  IN CASE args.data = NoData            -> o
       [] args.data # NoData /\ ~args.dataIsFileName ->
            IF Upper(args.method) = "POST" THEN SetMethod(Post(o, posted), "POST", posted)
                                           ELSE Put("memory")
       [] args.data # NoData /\ args.dataIsFileName ->
            IF Upper(args.method) = "PUT" THEN Put("file")
            ELSE Post(SetMethod(o, "POST", NoBodyAtAll), Plain(args.data))

\* libcurl leaves out a header that has no value.
WithValue(headers) ==
  Restrict(headers, {h \in DOMAIN headers : h = "Authorization" \/ headers[h] # ""})

SendS3Request(args) ==
  LET o       == ReadyToSend(args)
      headers == IF args.access = "" THEN args.headers ELSE SignHeaders(args)
  IN IF WrongMethod(args) THEN [sent |-> FALSE]
     ELSE [sent |-> TRUE, method |-> MethodSent(o), key |-> args.key, query |-> args.params,
           headers |-> WithValue(headers), body |-> BodySent(o, Plain(args.data))]

-----------------------------------------------------------------------------
(* The server: the signature is computed again from what has arrived.      *)

Verifies(cfg, r) ==
  LET a == r.headers["Authorization"] IN
  /\ a.signed \subseteq DOMAIN r.headers
  /\ DOMAIN r.headers \cap AmzNames \subseteq a.signed
  /\ a.signature =
       Sign([secret |-> cfg.secret, date |-> r.headers["x-amz-date"],
             region |-> a.scope[2], service |-> a.scope[3]],
            Canonical([method |-> r.method, key |-> Escaped(r.key)],
                      Restrict(r.headers, a.signed), a.signed, r.query,
                      r.headers["x-amz-content-sha256"]))

\* A URL that was signed is used with the method and the headers it is for.
UrlVerifies(cfg, url) ==
  LET headers == Insert(WithValue(cfg.headers), Header("host", cfg.host))
      q       == url.query
  IN /\ q.signed \subseteq DOMAIN headers
     /\ url.signature =
          Sign([secret |-> cfg.secret, date |-> q.date, region |-> q.scope[2],
                service |-> q.scope[3]],
               Canonical([method |-> Upper(cfg.method), key |-> Escaped(url.key)],
                         Restrict(headers, q.signed), q.signed, q, "UNSIGNED-PAYLOAD"))

-----------------------------------------------------------------------------
(* Which signatures are accepted.                                          *)

Methods == {"GET", "HEAD", "DELETE", "POST", "PUT", "get", "head", "delete", "post", "put"}

\* The requests and the URLs a caller may ask for, over any texts.
Signable(Text, Maps) ==
  [access : Text, secret : Text, host : Text, date : Text, region : Text, service : Text,
   params : Text, method : Methods, key : {"plain", "special"}, headers : Maps,
   data : Data \cup {NoData}, dataIsFileName : BOOLEAN]

\* The method that is signed is the one that goes out.
MethodGoesOut(args) ==
  CASE args.data = NoData -> args.method \notin {"head", "delete", "post"}
    [] args.data # NoData /\ ~args.dataIsFileName ->
         args.method \notin {"GET", "get", "head", "delete"}
    [] OTHER -> TRUE

\* What the caller gives for these headers has a value.
Valued(args, names) == \A h \in names \cap DOMAIN args.headers : args.headers[h] # ""

\* Headers of a caller that are signed and that no default stands in for.
SignedAsGiven == {"x-amz-meta-a", "content-length"}

\* A request for a key with nothing to escape whose method goes out and whose
\* signed headers have values is accepted, whatever other headers go with it,
\* those that clash with the defaults included.  Whenever one is accepted it is
\* what the caller asked for: the method, in whatever case, and the headers.
\* What is sent is the data of the call.
RequestAccepted(args) ==
  LET sent == SendS3Request(args) IN
  sent.sent =>
    /\ sent.body.data = args.data
    /\ MethodGoesOut(args) /\ args.key = "plain" /\ Valued(args, SignedAsGiven) =>
         Verifies(args, sent)
    /\ Verifies(args, sent) =>
         /\ sent.method = Upper(args.method)
         /\ \A h \in SignedAsGiven \cap DOMAIN args.headers :
              h \in DOMAIN sent.headers /\ sent.headers[h] = args.headers[h]

\* A URL for a method in upper case, a key with nothing to escape and headers
\* with values, none of them x-amz-, is accepted.  No URL is accepted with
\* another method than that it was made for.
UrlAccepted(args) ==
  /\ /\ args.method = Upper(args.method)
     /\ args.key = "plain"
     /\ DOMAIN args.headers \cap AmzNames = {}
     /\ Valued(args, DOMAIN args.headers)
     => UrlVerifies(args, SignedURL(args))
  /\ \A m \in Methods :
       UrlVerifies([args EXCEPT !.method = m], SignedURL(args)) => Upper(m) = Upper(args.method)

\* The methods the program that signs URLs offers (apps/presign_url.cpp:71).
Offered == {"get", "put", "post", "delete"}
=============================================================================
