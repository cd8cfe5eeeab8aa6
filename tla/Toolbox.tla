------------------------------ MODULE Toolbox ------------------------------
(***************************************************************************)
(* ToolboxService: JSON web tokens, time-ordered identifiers, digests that *)
(* are recognised, regular expressions and JSON under their limits, and    *)
(* the strength of passwords.  The widths of the identifiers are           *)
(* parameters, so that short ones can be enumerated.                       *)
(***************************************************************************)
EXTENDS ToolCall, TLC

CONSTANTS
  Tokens, Moments, Digests, Trees, Matches, Passwords,   \* what clients send
  NoNumber,             \* a claim that is no number
  TailBits, HeadBits,   \* 62 and 12, random bits of a UUID of version 7
  RandomBits,           \* 80, of a ULID
  Digits,               \* 26, of a ULID, of 5 bits each
  MaxDepth, MaxNodes,   \* of load_json_limited
  MaxMatches,           \* 10000
  Log                   \* bits of entropy of a character, by the size of its alphabet

-----------------------------------------------------------------------------
\* A token is [claims, expiry, issuer, extra, wait]: the claims of the payload,
\* the arguments of generate_jwt, the names of extra headers, and the seconds
\* until it is inspected.  The clock starts at 0.
Claims(t) == ("iat" :> 0 @@ "exp" :> t.expiry)
             @@ (IF t.issuer = 0 THEN << >> ELSE "iss" :> t.issuer) @@ t.claims

\* jwt.encode puts the algorithm and what is left of the extra headers together.
JwtHeader(t) == [name \in {"alg", "typ"} \cup (t.extra \ {"alg", "typ"}) |->
                   IF name = "alg" THEN "HS256" ELSE IF name = "typ" THEN "JWT" ELSE "given"]

\* inspect_jwt.
Expired(claims, now) ==
  IF "exp" \notin DOMAIN claims \/ claims["exp"] = NoNumber THEN "unknown"
  ELSE IF claims["exp"] < now THEN "yes" ELSE "no"

JwtReply(t) ==
  [claims |-> Claims(t), header |-> JwtHeader(t),
   expired |-> Expired(Claims(t), t.wait), foreign |-> Expired(t.claims, t.wait)]

-----------------------------------------------------------------------------
\* uuid_generate(7): milliseconds, version, random bits, variant, random bits.
Variant == 2

\* Mutant: the upper random bits are not shifted past the lower ones.
UuidOverlapping(ms, random) ==
  ms * 2^(TailBits + 2 + HeadBits + 4) + 7 * 2^(TailBits + 2 + HeadBits)
    + random + Variant * 2^TailBits

Uuid7(ms, random) ==
  ms * 2^(TailBits + 2 + HeadBits + 4) + 7 * 2^(TailBits + 2 + HeadBits)
    + (random \div 2^TailBits) * 2^(TailBits + 2) + Variant * 2^TailBits + (random % 2^TailBits)

UuidVersion(n) == (n \div 2^(TailBits + 2 + HeadBits)) % 16
UuidVariant(n) == (n \div 2^TailBits) % 4

\* ulid_generate and ulid_validate: digits of five bits from the top.
Ulid(ms, random) ==
  [i \in 1..Digits |-> ((ms * 2^RandomBits + random) \div 2^(5 * (Digits - i))) % 32]

UlidNumber(digits) ==
  LET n[i \in 0..Digits] == IF i = 0 THEN 0 ELSE n[i - 1] * 32 + digits[i]
  IN n[Digits]

UlidValid(digits) == digits[1] <= 7

MomentReply(m) ==
  [uuid |-> Uuid7(m.ms, m.random % 2^(TailBits + HeadBits)), ulid |-> Ulid(m.ms, m.random),
   next |-> Uuid7(m.ms + 1, 0), later |-> Ulid(m.ms + 1, 0)]

-----------------------------------------------------------------------------
Sizes == [md5 |-> 32, sha1 |-> 40, sha224 |-> 56, sha256 |-> 64, sha384 |-> 96, sha512 |-> 128,
          blake2b |-> 128, blake2s |-> 64]

\* hash_identify: a digest in Base64 has a digit for six bits, and padding; if
\* it happens to have hexadecimal digits only it is taken for one of those.
Candidates(digest) ==
  LET size == Sizes[digest.algorithm]
      base64 == 4 * ((size \div 2 + 2) \div 3)
      padded == (size \div 2) % 3 # 0
      hex == digest.form = "hex" \/ (digest.alike /\ ~padded)
      length == IF digest.form = "hex" THEN size ELSE base64
  IN {alg \in DOMAIN Sizes : IF hex THEN Sizes[alg] = length ELSE Sizes[alg] = size}

-----------------------------------------------------------------------------
\* A JSON value is the sequence of its members, << >> for a scalar.
RECURSIVE Nodes(_)
Nodes(tree) == LET sum[i \in 0..Len(tree)] == IF i = 0 THEN 1 ELSE sum[i - 1] + Nodes(tree[i]) IN sum[Len(tree)]

RECURSIVE Deep(_, _)
Deep(tree, depth) == depth = 0 \/ \E i \in DOMAIN tree : Deep(tree[i], depth - 1)

\* validate_json_structure: the last member that was pushed is looked at first.
RECURSIVE Walked(_, _)
Walked(stack, nodes) ==
  IF stack = << >> THEN "fits"
  ELSE LET top == stack[Len(stack)] IN
       IF nodes + 1 > MaxNodes THEN "nodes"
       ELSE IF top[2] > MaxDepth THEN "depth"
       ELSE Walked(SubSeq(stack, 1, Len(stack) - 1) \o [i \in DOMAIN top[1] |-> <<top[1][i], top[2] + 1>>], nodes + 1)

JsonVerdict(tree) == Walked(<<<<tree, 0>>>>, 0)

\* regex_tool: the engine stops at its time limit, the loop at its own; flags
\* and pattern are looked at first.
RegexReply(m) ==
  IF ~m.flags \/ ~m.pattern \/ m.slow <= m.count \/ m.count >= MaxMatches
  THEN [valid |-> FALSE, found |-> 0]
  ELSE [valid |-> TRUE, found |-> m.count]

-----------------------------------------------------------------------------
\* password_strength: a password is [length, classes, prefix, same]: whether
\* it begins like a common one, and whether it repeats one character.
Charset(classes) ==
  LET size == [lower |-> 26, upper |-> 26, digit |-> 10, special |-> 33, unicode |-> 100]
      part(c) == IF c \in classes THEN size[c] ELSE 0
  IN part("lower") + part("upper") + part("digit") + part("special") + part("unicode")

Entropy(p) == IF p.classes = {} THEN 0 ELSE p.length * Log[Charset(p.classes)]

Common(p) == p.prefix \/ (p.same /\ p.length > 1)

Point(b) == IF b THEN 1 ELSE 0

Score(p) ==
  LET n == Cardinality(p.classes)
      points == Point(p.length >= 8) + Point(p.length >= 12) + Point(n >= 3) + Point(n >= 4) + Point(Entropy(p) >= 60)
  IN IF Common(p) /\ points > 0 THEN points - 1 ELSE points

-----------------------------------------------------------------------------
\* What a password may become when a character of a class follows: the common
\* beginnings have eight characters at most, of letters or of digits only.
Longer(p, class) ==
  {[length |-> p.length + 1, classes |-> p.classes \cup {class}, prefix |-> b, same |-> s] :
     b \in {p.prefix} \cup {p.length < 8 /\ (p.classes \cup {class} \subseteq {"lower", "upper"} \/ p.classes \cup {class} = {"digit"})},
     s \in {FALSE, p.same /\ class \in p.classes}}

PasswordReply(p) == [score |-> Score(p), longer |-> {Score(q) : q \in UNION {Longer(p, c) : c \in {"lower", "upper", "digit", "special"}}}]

ToolboxCalled ==
  \/ Called("jwt", Tokens) \/ Called("moment", Moments) \/ Called("digest", Digests)
  \/ Called("tree", Trees) \/ Called("regex", Matches) \/ Called("password", Passwords)

ToolboxAnswers ==
  \/ Answers("jwt", JwtReply) \/ Answers("moment", MomentReply) \/ Answers("digest", Candidates)
  \/ Answers("tree", JsonVerdict) \/ Answers("regex", RegexReply) \/ Answers("password", PasswordReply)

-----------------------------------------------------------------------------
\* A generated token expires when its client was told, whatever times and
\* issuers the payload had, and its header names the algorithm that signed it.
TokensExact ==
  Answered("jwt") =>
    LET t == call[2] IN
    /\ result[1].expired = (IF t.wait > t.expiry THEN "yes" ELSE "no")
    /\ t.issuer # 0 => result[1].claims["iss"] = t.issuer
    /\ \A name \in DOMAIN t.claims \ {"exp", "iat", "iss"} : result[1].claims[name] = t.claims[name]
    /\ result[1].header["alg"] = "HS256"

\* Identifiers say their version, variant and time, and those of a later
\* millisecond are greater whatever the random bits are, also digit by digit.
IdentifiersExact ==
  Answered("moment") =>
    LET m == call[2]
        u == result[1].uuid
        d == result[1].ulid
        e == result[1].later
    IN /\ UuidVersion(u) = 7 /\ UuidVariant(u) = Variant
       /\ u \div 2^(TailBits + 2 + HeadBits + 4) = m.ms
       /\ u < result[1].next
       /\ UlidValid(d) /\ UlidNumber(d) \div 2^RandomBits = m.ms
       /\ \E i \in 1..Digits : d[i] < e[i] /\ \A j \in 1..(i - 1) : d[j] = e[j]

\* A digest is recognised, unless it is Base64 without padding that looks like
\* hexadecimal digits; what is recognised besides has the same size.
DigestsExact ==
  Answered("digest") =>
    LET d == call[2] IN
    /\ d.algorithm \notin result[1] => d.form = "base64" /\ d.alike /\ d.algorithm = "sha384"
    /\ d.algorithm \in result[1] => \A alg \in result[1] : Sizes[alg] = Sizes[d.algorithm]

\* The walk that stops at the first excess refuses exactly the documents that
\* exceed a limit, and says which one.
LimitsExact ==
  Answered("tree") =>
    /\ (result[1] = "fits") = (Nodes(call[2]) <= MaxNodes /\ ~Deep(call[2], MaxDepth + 1))
    /\ result[1] = "nodes" => Nodes(call[2]) > MaxNodes
    /\ result[1] = "depth" => Deep(call[2], MaxDepth + 1)

\* A character more never makes a password weaker.
PasswordsExact ==
  Answered("password") =>
    /\ result[1].score \in 0..5
    /\ \A s \in result[1].longer : s >= result[1].score
=============================================================================
