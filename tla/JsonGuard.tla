------------------------------ MODULE JsonGuard ------------------------------
(***************************************************************************)
(* limited_receive of RequestLimitMiddleware: a request body arrives in    *)
(* chunks of any size; its bytes are counted, and for a JSON request a     *)
(* scanner that keeps its state from one chunk to the next also counts the *)
(* open containers and all the containers, so that a body over a limit is  *)
(* cut off while it is read.                                               *)
(*                                                                         *)
(* A byte is a symbol: a quote, a backslash, an opening or a closing       *)
(* bracket of either kind, or any other byte.                              *)
(***************************************************************************)
EXTENDS Integers, Sequences, SequencesExt

CONSTANTS
  Bodies,    \* bodies that clients send: [text, depth, containers, json, scanned];
             \* json: well-formed; scanned: the Content-Type says JSON
  MaxBytes,  \* max_request_body_bytes
  MaxJson,   \* max_json_body_bytes
  MaxDepth,  \* max_json_depth
  MaxNodes   \* max_json_nodes

Symbols == {"quote", "backslash", "open", "close", "other"}

ASSUME LimitAssumption ==
  MaxBytes \in Nat /\ MaxJson \in Nat /\ MaxDepth \in Nat /\ MaxNodes \in Nat

\* What JSON says of a text t, wherever it is cut: a character is escaped by
\* an unbroken run of an odd number of backslashes before it, the other quotes
\* delimit the strings, and the brackets outside of strings nest.
RunBefore(t, first, i) ==
  /\ \A k \in first..i - 1 : t[k] = "backslash"
  /\ first = 1 \/ t[first - 1] # "backslash"

Escaped(t, i) == \E first \in 1..i : RunBefore(t, first, i) /\ (i - first) % 2 = 1

DelimitersBefore(t, i) == {k \in 1..i - 1 : t[k] = "quote" /\ ~Escaped(t, k)}

Inside(t, i) == Cardinality(DelimitersBefore(t, i)) % 2 = 1

Brackets(t, kind, i) == {k \in 1..i : t[k] = kind /\ ~Inside(t, k)}

Opened(t, i) == Cardinality(Brackets(t, "open", i))

Nesting(t, i) == Opened(t, i) - Cardinality(Brackets(t, "close", i))

\* A document has backslashes in its strings only, closes what it opens and
\* nothing else, and is as deep as its deepest place.
WellFormed(b) ==
  LET t == b.text IN
    /\ \A i \in 1..Len(t) : t[i] = "backslash" => Inside(t, i)
    /\ \A i \in 0..Len(t) : Nesting(t, i) \in 0..b.depth
    /\ \E i \in 0..Len(t) : Nesting(t, i) = b.depth
    /\ Nesting(t, Len(t)) = 0 /\ ~Inside(t, Len(t) + 1)
    /\ Opened(t, Len(t)) = b.containers

ASSUME BodyAssumption ==
  \A b \in Bodies :
    /\ b.text \in Seq(Symbols)
    /\ b.depth \in Nat /\ b.containers \in Nat
    /\ b.json \in BOOLEAN /\ b.scanned \in BOOLEAN
    /\ b.json => WellFormed(b)

VARIABLES
  body,     \* the body under way
  unread,   \* what of it has not arrived
  total,    \* bytes received
  scan,     \* [depth, nodes, inString, escaped, deep]
  verdict   \* "reading", "read", "too_large" or "too_deep"

guardVars == <<body, unread, total, scan, verdict>>

GuardInit ==
  /\ body \in Bodies
  /\ unread = body.text
  /\ total = 0
  /\ scan = [depth |-> 0, nodes |-> 0, inString |-> FALSE, escaped |-> FALSE, deep |-> FALSE]
  /\ verdict = "reading"

-----------------------------------------------------------------------------
\* A JSON body has to respect both limits.
ByteLimit == IF body.scanned /\ MaxJson < MaxBytes THEN MaxJson ELSE MaxBytes

\* One byte inside a string: only an unescaped quote ends it.
InString(s, symbol) ==
  IF s.escaped THEN [s EXCEPT !.escaped = FALSE]
  ELSE [s EXCEPT !.escaped = (symbol = "backslash"), !.inString = (symbol # "quote")]

\* One byte outside: a stray closing bracket does not take the depth below 0.
Closed(depth) == IF depth > 0 THEN depth - 1 ELSE 0

Outside(s, symbol) ==
  CASE symbol = "quote" -> [s EXCEPT !.inString = TRUE]
    [] symbol = "open"  -> [s EXCEPT !.depth = @ + 1, !.nodes = @ + 1]
    [] symbol = "close" -> [s EXCEPT !.depth = Closed(@)]
    [] OTHER            -> s

OverLimit(s) == s.depth > MaxDepth \/ s.nodes > MaxNodes

\* The scan stops at the byte that exceeds a limit.
Scan(s, symbol) ==
  IF s.deep \/ ~body.scanned THEN s
  ELSE IF s.inString THEN InString(s, symbol)
  ELSE LET t == Outside(s, symbol) IN [t EXCEPT !.deep = OverLimit(t)]

\* Mutant: the scanner forgets between two chunks whether it is in a string.
ReceiveForgetting(n) ==
  /\ verdict = "reading"
  /\ n \in 1..Len(unread)
  /\ total' = total + n
  /\ unread' = SubSeq(unread, n + 1, Len(unread))
  /\ IF total + n > ByteLimit
     THEN verdict' = "too_large" /\ UNCHANGED scan
     ELSE /\ scan' = FoldLeft(Scan, [scan EXCEPT !.inString = FALSE, !.escaped = FALSE],
                              SubSeq(unread, 1, n))
          /\ verdict' = IF scan'.deep THEN "too_deep" ELSE "reading"
  /\ UNCHANGED body

\* A chunk: its size is checked before it is scanned.
Receive(n) ==
  /\ verdict = "reading"
  /\ n \in 1..Len(unread)
  /\ total' = total + n
  /\ unread' = SubSeq(unread, n + 1, Len(unread))
  /\ IF total + n > ByteLimit
     THEN verdict' = "too_large" /\ UNCHANGED scan
     ELSE /\ scan' = FoldLeft(Scan, scan, SubSeq(unread, 1, n))
          /\ verdict' = IF scan'.deep THEN "too_deep" ELSE "reading"
  /\ UNCHANGED body

\* The last message: the body is handed over.
Complete ==
  /\ verdict = "reading" /\ unread = << >>
  /\ verdict' = "read"
  /\ UNCHANGED <<body, unread, total, scan>>

-----------------------------------------------------------------------------
\* The variables have the types the code gives them.
GuardTypeOK ==
  /\ body \in Bodies
  /\ IsSuffix(unread, body.text)
  /\ total = Len(body.text) - Len(unread)
  /\ scan \in [depth : Nat, nodes : Nat, inString : BOOLEAN, escaped : BOOLEAN, deep : BOOLEAN]
  /\ verdict \in {"reading", "read", "too_large", "too_deep"}

\* For a well-formed document, however it is cut into chunks (inside a string,
\* between a backslash and what it escapes, at a bracket), the verdict follows
\* its size, nesting and number of containers, brackets in strings not counted.
Allowed ==
  body.scanned => body.depth <= MaxDepth /\ body.containers <= MaxNodes

VerdictExact ==
  /\ verdict = "too_large" => Len(body.text) > ByteLimit
  /\ verdict = "too_deep" /\ body.json => ~Allowed

\* At the end of a well-formed document the scanner is outside every string
\* and container.
Balanced == body.json /\ verdict = "read" => scan.depth = 0 /\ ~scan.inString /\ ~scan.escaped

\* A body is refused for what it is, and a document is scanned to its end.
BodiesJudged == VerdictExact /\ Balanced
=============================================================================
