------------------------------ MODULE MockData ------------------------------
(***************************************************************************)
(* MockDataGenerator: values for a JSON schema, for a list of fields, and  *)
(* the response of an OpenAPI document.  The generator draws lots; a reply *)
(* is any value it can come to.  A value is a pair of a kind and what the  *)
(* schema restricts: a number, a length, a sequence of members.            *)
(*                                                                         *)
(* A schema is [form, typed, nullable, low, high, parts]: low and high are *)
(* the bounds of its form (None if there is none), parts the options of    *)
(* anyOf, the properties of an object or the items of an array.            *)
(***************************************************************************)
EXTENDS ToolCall

CONSTANTS
  Schemas, FieldLists, Operations,   \* what clients send
  MaxArray,                      \* max_array_length
  MaxNodes, MaxDepth,            \* _MAX_NODES, _MAX_DEPTH
  MaxInt, Spread,                  \* 2^31, 1000
  MaxLength, DefaultLength      \* 64, 32

Raised == <<"raised", 0>>
Null == <<"null", 0>>

Lesser(m, n) == IF m <= n THEN m ELSE n
Greater(m, n) == IF m >= n THEN m ELSE n
Given(n, otherwise) == IF n = None THEN otherwise ELSE n

\* "or": a zero counts as not given.
Truthy(n, otherwise) == IF n = None \/ n = 0 THEN otherwise ELSE n

\* random.randint, which raises if there is nothing to draw.
Drawn(kind, low, high) == IF low > high THEN {Raised} ELSE {<<kind, n>> : n \in low..high}

Integer(low, high) ==
  IF low # None /\ high # None THEN Drawn("integer", low, high)
  ELSE LET base == Greater(0, Given(low, 0))
           top == Lesser(MaxInt, Given(high, base + Spread))
       IN Drawn("integer", base, Greater(base, top))

\* A single bound of a number is not looked at.
Number(low, high) ==
  IF low # None /\ high # None THEN Drawn("number", Lesser(low, high), Greater(low, high))
  ELSE Drawn("number", 0, Spread)

Text(low, high) ==
  LET least == Given(low, 0)
  IN Drawn("string", least, Greater(1, Lesser(MaxLength, Greater(Truthy(high, DefaultLength), least))))

\* Mutant: the limit is applied to one of the two bounds only.
CountsLoose(low, high) ==
  LET most == Greater(Given(low, 0), Lesser(Truthy(high, MaxArray), MaxArray))
  IN Lesser(Given(low, 0), most)..most

\* _from_array_schema.
ItemCounts(low, high) ==
  LET most == Greater(Lesser(Given(low, 0), MaxArray), Lesser(Truthy(high, MaxArray), MaxArray))
  IN Lesser(Given(low, 0), most)..most

-----------------------------------------------------------------------------
\* A draw is a pair of a value and the number of calls of _from_schema it took.
Once(values) == {<<v, 1>> : v \in values}

Together(kind, draws) ==
  LET n == Len(draws)
      ticks[i \in 0..n] == IF i = 0 THEN 1 ELSE ticks[i - 1] + draws[i][2]
      members == [i \in 1..n |-> draws[i][1]]
  IN <<IF \E i \in 1..n : members[i] = Raised THEN Raised ELSE <<kind, members>>, ticks[n]>>

\* All ways to draw from every set of a sequence.
Each(sets) ==
  {draws \in [DOMAIN sets -> UNION {sets[i] : i \in DOMAIN sets}] : \A i \in DOMAIN sets : draws[i] \in sets[i]}

\* _from_object_schema: a property without a type, properties or an enum is
\* null before anything else it says is looked at.
Passed(s) == ~s.typed /\ s.form \in {"const", "anyOf", "any"}

RECURSIVE Made(_, _)
Made(s, depth) ==
  LET property(p) ==
        IF p.nullable THEN LET made == Made(p, depth + 1) IN made \cup {<<Null, d[2]>> : d \in made}
        ELSE IF Passed(p) THEN {<<Null, 0>>}
        ELSE Made(p, depth + 1)
  IN IF depth > MaxDepth THEN Once({Raised})
     ELSE CASE s.form = "const"       -> Once({<<"const", s.low>>})
          [] s.form = "anyOf"       -> {<<d[1], d[2] + 1>> : d \in UNION {Made(s.parts[i], depth) : i \in DOMAIN s.parts}}
          [] s.form = "object"      -> {Together("object", draws) : draws \in Each([i \in DOMAIN s.parts |-> property(s.parts[i])])}
          [] s.form = "array"       -> UNION {{Together("array", draws) : draws \in Each([i \in 1..n |-> Made(s.parts[1], depth + 1)])} :
                                                n \in ItemCounts(s.low, s.high)}
          [] s.form = "integer"     -> Once(Integer(s.low, s.high))
          [] s.form = "number"      -> Once(Number(s.low, s.high))
          [] s.form = "string"      -> Once(Text(s.low, s.high))
          [] s.form = "any"         -> Once({Null})

SchemaReplies(s) == {IF d[2] > MaxNodes THEN Raised ELSE d[1] : d \in Made(s, 0)}

-----------------------------------------------------------------------------
\* _from_field: two bounds make an integer of every type; whether a field may
\* be null is not looked at; an array is cut, and says so.
FieldReplies(f) ==
  LET whole(values) == {[value |-> v, cut |-> FALSE] : v \in values} IN
  IF f.type # "array" /\ f.low # None /\ f.high # None THEN whole(Drawn("integer", f.low, f.high))
  ELSE CASE f.type = "integer" -> whole(Integer(f.low, f.high))
         [] f.type = "number"  -> whole(Number(f.low, f.high))
         [] f.type = "string"  -> whole(Text(f.least, f.most))
         [] f.type = "array"   ->
              {[value |-> IF d = Raised THEN d ELSE <<"array", Lesser(d[2], MaxArray)>>, cut |-> d # Raised /\ d[2] > MaxArray] :
                 d \in Drawn("array", f.least, f.most)}

-----------------------------------------------------------------------------
\* generate_openapi: the method asked for, or the only one.
MethodOf(o) ==
  IF o.method # None THEN IF o.method \in o.methods THEN o.method ELSE None
  ELSE IF Cardinality(o.methods) = 1 THEN CHOOSE m \in o.methods : TRUE ELSE None

\* _pick_response: codes in their order, those that begin with a 2 before the
\* others; responses are a function from codes to "json", "other" or "none".
Success == {"200", "201", "2XX"}

Order == <<"200", "201", "2XX", "400", "default">>

Eligible(code, content) == code \in Success \/ (code = "default" /\ content # "none")

Response(responses) ==
  LET places == {i \in DOMAIN Order : Order[i] \in DOMAIN responses /\ Eligible(Order[i], responses[Order[i]])}
  IN IF places = {} THEN None ELSE Order[CHOOSE i \in places : \A j \in places : i <= j]

OpenapiReply(o) ==
  IF MethodOf(o) = None THEN [valid |-> FALSE]
  ELSE [valid |-> TRUE, method |-> MethodOf(o), code |-> Response(o.responses)]

-----------------------------------------------------------------------------
MockCalled == Called("schema", Schemas) \/ Called("field", FieldLists) \/ Called("openapi", Operations)

MockAnswers ==
  \/ AnswersAny("schema", SchemaReplies)
  \/ AnswersAny("field", FieldReplies)
  \/ Answers("openapi", OpenapiReply)

-----------------------------------------------------------------------------
\* What a schema asks of a value.
Between(n, low, high) == n >= Given(low, n) /\ n <= Given(high, n)

RECURSIVE Conforms(_, _)
Conforms(v, s) ==
  \/ s.nullable /\ v = Null
  \/ CASE s.form = "const"  -> v = <<"const", s.low>>
       [] s.form = "anyOf"  -> \E i \in DOMAIN s.parts : Conforms(v, s.parts[i])
       [] s.form = "object" -> v[1] = "object" /\ \A i \in DOMAIN s.parts : Conforms(v[2][i], s.parts[i])
       [] s.form = "array"  -> /\ v[1] = "array" /\ Between(Len(v[2]), s.low, s.high)
                               /\ \A i \in DOMAIN v[2] : Conforms(v[2][i], s.parts[1])
       [] s.form = "any"    -> TRUE
       [] OTHER             -> v[1] = s.form /\ Between(v[2], s.low, s.high)

\* Schemas whose bounds the generator looks at: numbers with both or none, no
\* maximum of zero, no minimum past the limits of the generator, and no
\* property that is null because it has no type.
RECURSIVE Regarded(_)
Regarded(s) ==
  /\ s.form = "number" => (s.low = None) = (s.high = None)
  /\ s.form = "integer" /\ s.high # None /\ s.low = None => s.high >= 0
  /\ s.form \in {"string", "array"} => s.high # 0 /\ Given(s.low, 0) <= MaxArray
  /\ s.low # None /\ s.high # None => s.low <= s.high
  /\ \A i \in DOMAIN s.parts : Regarded(s.parts[i]) /\ (s.form = "object" => ~Passed(s.parts[i]) \/ s.parts[i].form = "any")

RECURSIVE Lengths(_)
Lengths(v) ==
  IF v[1] \in {"array", "object"}
  THEN (IF v[1] = "array" THEN {Len(v[2])} ELSE {}) \cup UNION {Lengths(v[2][i]) : i \in DOMAIN v[2]}
  ELSE {}

\* Whatever is drawn, no array is longer than the client allows, and a value
\* conforms to its schema at every depth if that is one the generator looks at
\* in full; only a budget that is spent leaves nothing.
MockExact ==
  Answered("schema") =>
    LET v == result[1] IN
    /\ \A n \in Lengths(v) : n <= MaxArray
    /\ Regarded(call[2]) => v = Raised \/ Conforms(v, call[2])

\* No error is mocked for a success, and no success is passed over for the
\* default.
ResponseExact ==
  Answered("openapi") /\ result[1].valid =>
    LET responses == call[2].responses IN
    /\ result[1].method \in call[2].methods
    /\ DOMAIN responses \cap Success # {} => result[1].code \in Success
    /\ result[1].code # None => result[1].code \in DOMAIN responses \ {"400"}

=============================================================================
