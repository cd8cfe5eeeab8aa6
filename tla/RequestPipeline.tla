--------------------------- MODULE RequestPipeline ---------------------------
(***************************************************************************)
(* The middleware stack that app/main.py builds, as one request passes     *)
(* down and its response up: RequestContext, RateLimit, RequestLimit,      *)
(* SecurityHeaders, the exception handlers and a route.  Requests share    *)
(* only the rate limiter, whose verdict is part of the environment here    *)
(* (module RateLimiter models it).                                         *)
(*                                                                         *)
(* A request is described by the facts the layers ask about it and by its  *)
(* body (module JsonGuard); request ids by their origin: supplied by the   *)
(* client, made by RequestContext, or made by RequestLimit.                *)
(***************************************************************************)
EXTENDS JsonGuard

VARIABLES
  req,       \* the request, fixed once it has arrived
  pc,        \* the layer that acts next
  contextId, \* request_id_var and scope["request_id"]
  charged,   \* the rate limiter has counted the request
  ran,       \* the route has begun
  resp,      \* the response on its way up
  logged     \* the id in the request's log line

pipelineVars == <<req, pc, contextId, charged, ran, resp, logged>>

NoId == "no_id"

\* by: the layer that made the response.
NoResponse ==
  [by |-> "nobody", status |-> 0, bodyId |-> NoId, headerId |-> NoId, secured |-> FALSE,
   rated |-> FALSE, huge |-> FALSE]

\* The limiter is to count the request or not; X-Request-ID is absent, matches
\* the pattern of both layers that read it, or does not; the URL respects its
\* limit or not; only POST, PUT and PATCH have a body.
Arrivals ==
  [counted : BOOLEAN, id : {"absent", "valid", "invalid"}, url : {"ok", "long"},
   hasBody : BOOLEAN, length : {"absent", "declared", "junk"}]

Init ==
  /\ req \in Arrivals
  /\ GuardInit
  /\ ~req.hasBody => req.length = "absent" /\ body.text = << >>
  /\ pc = "context"
  /\ contextId = NoId
  /\ charged = FALSE
  /\ ran = FALSE
  /\ resp = NoResponse
  /\ logged = NoId

-----------------------------------------------------------------------------
\* Both layers accept the client's id under the same pattern and else make one
\* of their own.
IdFrom(maker) == IF req.id = "valid" THEN "supplied" ELSE maker

ErrorResponse(layer, status, id) ==
  [NoResponse EXCEPT !.by = layer, !.status = status, !.bodyId = id]

\* The status that each class of AwesomeAPIError brings along; a validation
\* error and ValueError are rendered as 422 as well.
AppStatuses == {401, 404, 413, 422, 429, 500, 502, 503, 504}

Down(layer) ==
  /\ pc' = layer
  /\ UNCHANGED resp

Answer(layer, response) ==
  /\ pc' = layer
  /\ resp' = response

-----------------------------------------------------------------------------
\* RequestContextMiddleware, before call_next.
EnterContext ==
  /\ pc = "context"
  /\ contextId' = IdFrom("by_context")
  /\ Down("rate_limit")
  /\ UNCHANGED <<req, charged, ran, logged>>

\* RateLimitMiddleware counts the paths under /api/, unless it is switched off.
SkipRateLimit ==
  /\ pc = "rate_limit"
  /\ ~req.counted
  /\ Down("limits")
  /\ UNCHANGED <<req, contextId, charged, ran, logged>>

PassRateLimit ==
  /\ pc = "rate_limit"
  /\ req.counted
  /\ charged' = TRUE
  /\ Down("limits")
  /\ UNCHANGED <<req, contextId, ran, logged>>

RateLimited ==
  /\ pc = "rate_limit"
  /\ req.counted
  /\ charged' = TRUE
  /\ Answer("context_out",
            [ErrorResponse("limiter", 429, contextId) EXCEPT !.headerId = contextId, !.rated = TRUE])
  /\ UNCHANGED <<req, contextId, ran, logged>>

\* RequestLimitMiddleware: the URL always, the Content-Length if a body may
\* follow.
TooLarge ==
  \/ req.url = "long"
  \/ req.hasBody /\ req.length = "junk"
  \/ req.hasBody /\ req.length = "declared" /\ Len(body.text) > ByteLimit

\* Mutant: the guard never looks at the client's id.
RejectWithNewId ==
  /\ pc = "limits"
  /\ TooLarge
  /\ Answer("rate_limit_out",
            [ErrorResponse("limits", 413, "by_limits") EXCEPT !.headerId = "by_limits"])
  /\ UNCHANGED <<req, contextId, charged, ran, logged>>

RejectSize ==
  /\ pc = "limits"
  /\ TooLarge
  /\ LET id == IdFrom("by_limits") IN
     Answer("rate_limit_out", [ErrorResponse("limits", 413, id) EXCEPT !.headerId = id])
  /\ UNCHANGED <<req, contextId, charged, ran, logged>>

PassLimits ==
  /\ pc = "limits"
  /\ ~TooLarge
  /\ Down("app")
  /\ UNCHANGED <<req, contextId, charged, ran, logged>>

\* The router knows no such path or method: http_exception_handler answers,
\* and the body is not read.
NoRoute ==
  /\ pc = "app"
  /\ verdict = "reading" /\ unread = body.text
  /\ Answer("headers_out", ErrorResponse("app", 404, contextId))
  /\ UNCHANGED <<req, contextId, charged, ran, logged>>

\* FastAPI reads the body through limited_receive before it calls a route that
\* takes one; no route reads it by itself.
ReadBody ==
  /\ pc = "app"
  /\ Complete \/ \E n \in 1..Len(unread) : Receive(n)
  /\ UNCHANGED pipelineVars

\* What limited_receive raises for a body that is too big or too deep never
\* gets back to RequestLimitMiddleware: FastAPI reports any exception while it
\* reads a body as HTTP 400, which http_exception_handler renders.
BodyUnreadable ==
  /\ pc = "app"
  /\ verdict \in {"too_large", "too_deep"}
  /\ Answer("headers_out", ErrorResponse("app", 400, contextId))
  /\ UNCHANGED <<req, contextId, charged, ran, logged>>

\* The route returns, its declared length within the response limit or not.
RouteReturns(huge) ==
  /\ pc = "app"
  /\ verdict = "read"
  /\ ran' = TRUE
  /\ Answer("headers_out", [NoResponse EXCEPT !.by = "app", !.status = 200, !.huge = huge])
  /\ UNCHANGED <<req, contextId, charged, logged>>

\* An error with a handler: the application's, each with a status of its own, a
\* validation error, ValueError.
RouteRaises(status) ==
  /\ pc = "app"
  /\ verdict = "read"
  /\ ran' = TRUE
  /\ Answer("headers_out", ErrorResponse("app", status, contextId))
  /\ UNCHANGED <<req, contextId, charged, logged>>

\* Any other exception passes through every layer; RequestContext logs it and
\* the handler for Exception answers outside of all of them.
RouteCrashes ==
  /\ pc = "app"
  /\ verdict = "read"
  /\ ran' = TRUE
  /\ logged' = contextId
  /\ Answer("done", ErrorResponse("server", 500, contextId))
  /\ UNCHANGED <<req, contextId, charged>>

\* SecurityHeadersMiddleware and RateLimitMiddleware, after call_next.
LeaveHeaders ==
  /\ pc = "headers_out"
  /\ Answer("rate_limit_out", [resp EXCEPT !.secured = TRUE])
  /\ UNCHANGED <<req, contextId, charged, ran, logged>>

LeaveRateLimit ==
  /\ pc = "rate_limit_out"
  /\ Answer("context_out", [resp EXCEPT !.rated = req.counted])
  /\ UNCHANGED <<req, contextId, charged, ran, logged>>

\* Mutant: the response limit is not enforced.
DeliveredAnySize == resp

\* RequestContextMiddleware, after call_next: the response limit, the log line
\* and the header.
Delivered ==
  IF resp.huge THEN ErrorResponse("context", 500, contextId) ELSE resp

LeaveContext ==
  /\ pc = "context_out"
  /\ Answer("done", [Delivered EXCEPT !.headerId = contextId])
  /\ logged' = contextId
  /\ UNCHANGED <<req, contextId, charged, ran>>

Handle ==
  \/ EnterContext \/ SkipRateLimit \/ PassRateLimit \/ RateLimited
  \/ RejectSize \/ PassLimits \/ NoRoute \/ BodyUnreadable
  \/ RouteReturns(FALSE) \/ RouteReturns(TRUE) \/ RouteCrashes
  \/ \E status \in AppStatuses : RouteRaises(status)
  \/ LeaveHeaders \/ LeaveRateLimit \/ LeaveContext

Next == ReadBody \/ (Handle /\ UNCHANGED guardVars)

Spec == Init /\ [][Next]_<<pipelineVars, guardVars>>

-----------------------------------------------------------------------------
\* The variables have the types the code gives them.
Ids == {NoId, "supplied", "by_context", "by_limits"}

TypeOK ==
  /\ GuardTypeOK
  /\ req \in Arrivals
  /\ contextId \in Ids /\ logged \in Ids
  /\ charged \in BOOLEAN /\ ran \in BOOLEAN
  /\ resp \in [by : {"nobody", "limiter", "limits", "app", "context", "server"},
               status : {0, 200, 400} \cup AppStatuses, bodyId : Ids, headerId : Ids,
               secured : BOOLEAN, rated : BOOLEAN, huge : BOOLEAN]

\* A client that supplies a valid id finds it in whatever it is answered, in
\* the body of an error and in the log, although two layers parse the header
\* independently and four places write it into a response.
SuppliedIdKept ==
  pc = "done" /\ req.id = "valid" =>
    /\ logged = "supplied"
    /\ resp.bodyId \in {"supplied", NoId}
    /\ resp.status # 200 => resp.bodyId = "supplied"

\* A route runs only for a request that the limiter has counted and whose URL,
\* length and nesting respect the limits, whatever length it declares and
\* however its body is cut; a response over the limit is never delivered, and
\* what replaces it carries an id.
WorkGuarded ==
  /\ ran => /\ req.counted => charged
            /\ req.url = "ok"
            /\ Len(body.text) <= ByteLimit
            /\ body.json => Allowed
  /\ pc = "done" => ~resp.huge /\ (resp.status = 200 \/ resp.bodyId # NoId)

\* What reaches the client: unless the server itself had to answer for a crash,
\* the id of the request; unless the answer was replaced for its size, the state
\* of the limiter whenever it counted the request; and the security headers on
\* whatever the application answered, errors of every status included.
Decorated ==
  pc = "done" =>
    /\ resp.by # "server" => resp.headerId = contextId
    /\ resp.by \notin {"server", "context"} => (resp.rated <=> charged)
    /\ resp.by = "app" => resp.secured

\* Whatever it is answered, a client finds its id and the headers that are
\* due.
RepliesExact == TypeOK /\ SuppliedIdKept /\ Decorated
=============================================================================
