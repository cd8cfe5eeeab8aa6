------------------------- MODULE MCRequestPipeline -------------------------
(***************************************************************************)
(* TLC instance of a request in one process (RequestPipeline) or of the    *)
(* requests of several processes that share a Redis (RedisBackend).        *)
(*                                                                         *)
(* Every kind of request, with bodies built by the grammar of JSON: a      *)
(* number, strings of up to two characters (plain, a bracket, an escaped   *)
(* quote, an escaped backslash), containers of up to two values, three     *)
(* deep; the depth and the number of containers come with the document.  A *)
(* few texts are malformed or not JSON.                                    *)
(*                                                                         *)
(* Two processes with a request each, a limit of one, and one fault.       *)
(***************************************************************************)
EXTENDS RequestPipeline, RedisBackend

VARIABLE part   \* "request" or "redis": what this behaviour is about

Characters ==
  {<<"other">>, <<"open">>, <<"close">>, <<"backslash", "quote">>, <<"backslash", "backslash">>}

Scalar(text) == [text |-> text, depth |-> 0, containers |-> 0, json |-> TRUE, scanned |-> TRUE]

Quoted(s) == Scalar(<<"quote">> \o s \o <<"quote">>)

Scalars ==
  {Scalar(<<"other">>), Quoted(<< >>)}
    \cup {Quoted(c) : c \in Characters}
    \cup {Quoted(c[1] \o c[2]) : c \in Characters \X Characters}

Bigger(m, n) == IF m > n THEN m ELSE n

Empty == [text |-> <<"open", "close">>, depth |-> 1, containers |-> 1, json |-> TRUE, scanned |-> TRUE]

One(v) ==
  [text |-> <<"open">> \o v.text \o <<"close">>, depth |-> v.depth + 1,
   containers |-> v.containers + 1, json |-> TRUE, scanned |-> TRUE]

Two(v, w) ==
  [text |-> <<"open">> \o v.text \o <<"other">> \o w.text \o <<"close">>,
   depth |-> Bigger(v.depth, w.depth) + 1,
   containers |-> v.containers + w.containers + 1, json |-> TRUE, scanned |-> TRUE]

Pairs(S, T) == {Two(p[1], p[2]) : p \in S \X T}

Flat == {Empty} \cup {One(v) : v \in Scalars}

Nested == {One(v) : v \in Flat} \cup Pairs(Flat, {Empty, Quoted(<<"close">>)})

Deep == {One(One(One(v))) : v \in Scalars} \cup {Two(One(v), One(Empty)) : v \in Flat}

Malformed(text) == [text |-> text, depth |-> 0, containers |-> 0, json |-> FALSE, scanned |-> TRUE]

Plain(text) == [text |-> text, depth |-> 0, containers |-> 0, json |-> FALSE, scanned |-> FALSE]

MCBodies ==
  Scalars \cup Flat \cup Nested \cup Deep
    \cup {Plain(<< >>), Plain(<<"open", "open", "open", "quote">>), Plain([i \in 1..13 |-> "other"])}
    \cup {Malformed(<<"close", "close", "open">>), Malformed(<<"backslash", "quote", "open">>)}

-----------------------------------------------------------------------------
MCHome == [r \in {"r1", "r2"} |-> IF r = "r1" THEN "p1" ELSE "p2"]

MCInit ==
  \/ part = "request" /\ Init /\ RedisInit /\ enabled = {} /\ server = "up"
  \/ /\ part = "redis" /\ RedisInit
     /\ Init /\ body.text = << >>
     /\ req = [counted |-> FALSE, id |-> "absent", url |-> "ok", hasBody |-> FALSE, length |-> "absent"]

MCNext ==
  /\ UNCHANGED part
  /\ \/ part = "request" /\ Next /\ UNCHANGED vars
     \/ part = "redis" /\ RedisNext /\ UNCHANGED <<pipelineVars, guardVars>>

MCSpec ==
  MCInit /\ [][MCNext]_<<part, pipelineVars, guardVars, vars>> /\ (part = "redis" => Fairness)

=============================================================================
