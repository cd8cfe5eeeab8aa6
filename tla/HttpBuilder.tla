---------------------------- MODULE HttpBuilder ----------------------------
(***************************************************************************)
(* HTTPToolsService apart from its fetch loop (OutboundFetch): a request   *)
(* is put together, rendered as a curl command and sent, its response      *)
(* reported; raw headers are written and URLs are taken apart.             *)
(*                                                                         *)
(* A URL is [scheme, user, host, port, query], scheme "none" if it has no  *)
(* "://"; headers are a function from names to [from, length].             *)
(***************************************************************************)
EXTENDS ToolCall, Lists

CONSTANTS
  Urls, Requests, Outcomes, HeaderLists,   \* what clients send, how fetches end
  MaxHeaders, MaxValue,   \* http_tools_max_headers, length of a header value
  PreviewLimit            \* characters of a body that inspect shows

-----------------------------------------------------------------------------
\* normalize_url: the first thing that is wrong with a URL.
UrlFault(u) ==
  Reason(<<<<u.scheme = "ftp", "scheme">>, <<u.host = "", "host">>, <<u.user, "userinfo">>,
           <<u.port = "bad", "port">>, <<u.host = "bad", "name">>>>)

\* urllib takes what precedes the first colon for a scheme if it looks like one.
ReadAsScheme(u) == u.scheme = "none" /\ (u.user \/ (u.port # "none" /\ u.host \in {"name", "bad"}))

\* parse_url: the port is read after the last "except".
Parsed(u) ==
  Reason(<<<<u.scheme = "ftp" \/ ReadAsScheme(u), "unsupported_scheme">>, <<u.host = "", "no_host">>,
           <<u.port = "bad", "raises">>, <<TRUE, "valid">>>>)

UrlReply(u) == [fault |-> UrlFault(u), parsed |-> Parsed(u)]

-----------------------------------------------------------------------------
\* validate_header_map; its bound on the sum follows from the other two.
Fits(headers) ==
  /\ Cardinality(DOMAIN headers) <= MaxHeaders
  /\ \A name \in DOMAIN headers : headers[name].length <= MaxValue

Header(from, length) == [from |-> from, length |-> length]

\* "Basic " and the base64 of the credential, "Bearer " and the token.
Credential(r) ==
  IF r.auth = "basic" THEN Header("basic", 6 + 4 * ((r.secret + 2) \div 3)) ELSE Header("bearer", 7 + r.secret)

\* Names are keys of a dict: "authorization" of the client stays beside it.
Authorized(r) ==
  IF r.auth = "none" THEN r.headers
  ELSE [n \in DOMAIN r.headers \cup {"Authorization"} |-> IF n = "Authorization" THEN Credential(r) ELSE r.headers[n]]

\* Mutant: the headers are only looked at before Authorization is among them.
RefusedEarly(r) ==
  Reason(<<<<UrlFault(r.url) # "none", "url">>, <<~Fits(r.headers), "headers">>,
           <<r.body = "invalid" /\ r.type = "json", "body">>, <<r.body = "large", "size">>>>)

\* build_request: where it raises.
Refused(r) ==
  Reason(<<<<UrlFault(r.url) # "none", "url">>, <<~Fits(r.headers), "headers">>,
           <<r.body = "invalid" /\ r.type = "json", "body">>, <<r.body = "large", "size">>,
           <<~Fits(Authorized(r)), "headers">>>>)

\* _encode_body: a form is decoded and encoded again, so a loose one changes.
Encoded(r) == IF r.type = "form" /\ r.body = "loose" THEN "canonical" ELSE r.body

\* _build_curl: the query of the URL is dropped, the other one follows an "&";
\* a method without a body drops the body; JSON and forms name their type.
Curl(r) ==
  [query   |-> IF r.extra THEN <<"&", "extra">> ELSE << >>,
   headers |-> Authorized(r),
   typed   |-> r.type \in {"json", "form"} /\ r.body # "none",
   user    |-> r.auth = "basic",
   data    |-> IF r.method \in {"GET", "HEAD", "OPTIONS"} THEN "none" ELSE Encoded(r)]

\* execute and _fetch: the body is sent as the client wrote it.
Sent(r) ==
  [query   |-> IF r.extra THEN <<"?", "extra">> ELSE IF r.url.query THEN <<"?", "own">> ELSE << >>,
   headers |-> [n \in DOMAIN Authorized(r) \cup {"User-Agent"} |->
                  IF n \in DOMAIN Authorized(r) THEN Authorized(r)[n] ELSE Header("default", 1)],
   data    |-> r.body]

Decodes(o) == o.error = "none" /\ o.size > 0

\* The outcome of a fetch as execute merges it and as inspect reports it.  A
\* Set-Cookie that occurs twice is one value to httpx, read up to the first ";".
Merged(o) ==
  [status |-> o.status, body |-> Decodes(o), json |-> Decodes(o) /\ o.typed /\ o.parses]

Inspected(o) ==
  IF o.error # "none" THEN [valid |-> FALSE]
  ELSE [valid   |-> TRUE, status |-> o.status,
        cookies |-> IF o.cookies = 0 THEN 0 ELSE 1,
        preview |-> IF o.size <= PreviewLimit THEN o.size ELSE PreviewLimit,
        cut     |-> FALSE,
        json    |-> o.typed,
        kind    |-> o.typed /\ Decodes(o) /\ o.parses]

RequestReply(r) ==
  IF Refused(r) # "none" THEN [refused |-> Refused(r)]
  ELSE [refused |-> "none", curl |-> Curl(r), sent |-> Sent(r),
        length |-> IF r.body = "none" THEN 0 ELSE 1]

OutcomeReply(o) == [merged |-> Merged(o), inspected |-> Inspected(o)]

-----------------------------------------------------------------------------
\* generate_headers: a header is [name, upper, length], its name "blank" if
\* it is; two names are the same if they differ in case only.
Written(headers) == Among(headers, {h \in {headers[i] : i \in DOMAIN headers} : h.name # "blank"})

Repeats(headers) ==
  {i \in DOMAIN headers : headers[i].name # "blank" /\ \E j \in 1..(i - 1) : headers[j].name = headers[i].name}

Lengths(headers) ==
  LET sum[i \in 0..Len(headers)] == IF i = 0 THEN 0 ELSE sum[i - 1] + headers[i].length
  IN sum[Len(headers)]

HeadersReply(headers) ==
  [lines  |-> Written(headers),
   blank  |-> {i \in DOMAIN headers : headers[i].name = "blank"},
   again  |-> Repeats(headers),
   length |-> Lengths(Written(headers))]

-----------------------------------------------------------------------------
HttpCalled ==
  \/ Called("url", Urls)
  \/ Called("request", Requests)
  \/ Called("outcome", Outcomes)
  \/ Called("headers", HeaderLists)

HttpAnswers ==
  \/ Answers("url", UrlReply)
  \/ Answers("request", RequestReply)
  \/ Answers("outcome", OutcomeReply)
  \/ Answers("headers", HeadersReply)

\* What is asked: URLs, requests and lists of headers in their forms.
HttpIsTyped ==
  LET forms == [scheme : {"none", "http", "ftp"}, user : BOOLEAN, host : {"", "ip", "name", "bad"},
                port : {"none", "good", "bad"}, query : BOOLEAN]
  IN /\ Urls \subseteq forms
     /\ \A r \in Requests : r.url \in forms /\ r.auth \in {"none", "basic", "bearer"}
     /\ \A headers \in HeaderLists : DOMAIN headers = 1..Len(headers) /\ Len(headers) \in Nat

HttpSpec == HttpCalled /\ [][HttpAnswers]_callVars

-----------------------------------------------------------------------------
\* What is sent keeps the limits whatever the credentials make of the headers:
\* only the user agent comes on top.  A header of the client is sent as it was
\* given unless the credentials replace it, the command has the same ones, and
\* what is refused has a reason in the request.
RequestExact ==
  Answered("request") =>
    LET r == call[2]
        built == result[1]
        names == DOMAIN r.headers \cup (IF r.auth = "none" THEN {} ELSE {"Authorization"})
    IN IF built.refused = "none"
       THEN /\ DOMAIN built.sent.headers = names \cup {"User-Agent"}
            /\ Cardinality(names) <= MaxHeaders
            /\ \A n \in names : /\ built.sent.headers[n].length <= MaxValue
                                /\ built.curl.headers[n] = built.sent.headers[n]
                                /\ n # "Authorization" => built.sent.headers[n] = r.headers[n]
            /\ built.sent.data \notin {"large"} /\ (r.type = "json" => built.sent.data # "invalid")
       ELSE \/ built.refused = "headers" /\ (Cardinality(names) > MaxHeaders \/ ~Fits(Authorized(r)) \/ ~Fits(r.headers))
            \/ built.refused = "body" /\ r.body = "invalid"
            \/ built.refused = "size" /\ r.body = "large"
            \/ built.refused = "url" /\ (Parsed(r.url) # "valid" \/ r.url.user \/ r.url.host = "bad")

\* The parser and the tools that fetch agree on a URL with a scheme, but for
\* user names and the rules of host names, and no URL makes either raise
\* anything but a port that is none.
UrlsAgree ==
  Answered("url") =>
    LET u == call[2] IN
    /\ u.scheme # "none" /\ result[1].fault = "none" => result[1].parsed = "valid"
    /\ result[1].parsed = "valid" => result[1].fault \in {"none", "userinfo", "name"}
    /\ (result[1].parsed = "raises") => u.port = "bad" /\ result[1].fault # "none"

\* Every header given is written in its order or listed as blank, and one that
\* was there before, in whatever case, is listed, at its place in the request.
HeadersAccounted ==
  Answered("headers") =>
    /\ Len(result[1].lines) + Cardinality(result[1].blank) = Len(call[2])
    /\ result[1].again \cap result[1].blank = {}
    /\ Cardinality({h.name : h \in {result[1].lines[i] : i \in DOMAIN result[1].lines}})
         = Len(result[1].lines) - Cardinality(result[1].again)

\* What is sent keeps the limits, URLs and headers are read alike.
HttpExact == RequestExact /\ UrlsAgree /\ HeadersAccounted
=============================================================================
