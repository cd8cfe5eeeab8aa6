--------------------------- MODULE RequestProofs ---------------------------
(***************************************************************************)
(* What a request meets.  For every body, however long and however it is   *)
(* cut, the scanner of JsonGuard finds what the text means; for every      *)
(* request the answer is what RequestPipeline promises; and for any number *)
(* of processes and requests that share one Redis, any limit and any       *)
(* faults, they keep the limit together (RedisBackend).                    *)
(***************************************************************************)
EXTENDS RequestPipeline, RedisBackend, FiniteSetTheorems, WellFoundedInduction, TLAPS

-----------------------------------------------------------------------------
\* Induction over the natural numbers, for a set instead of a predicate.
LEMMA LeastMember ==
  ASSUME NEW T \in SUBSET Nat, T # {}
  PROVE  \E m \in T : \A n \in T : m <= n
<1>1. PICK Less : Less = OpToRel(<, Nat)
  OBVIOUS
<1>2. IsWellFoundedOn(Less, Nat)
  BY <1>1, NatLessThanWellFounded, Zenon
<1>3. T \subseteq Nat
  OBVIOUS
<1>4. PICK m \in T : \A n \in T : <<n, m>> \notin Less
  BY <1>2, <1>3, WFMin, Zenon
<1>5. ASSUME NEW n \in T
      PROVE  m <= n
  <2>1. SUFFICES ASSUME n < m PROVE FALSE
    BY <1>3
  <2>2. PICK p : p = <<n, m>>
    OBVIOUS
  <2>3. p \in Nat \X Nat /\ p[1] < p[2]
    BY <1>3, <2>1, <2>2
  <2>4. p \in {ss \in Nat \X Nat : ss[1] < ss[2]}
    BY <2>3
  <2>5. p \in Less
    BY <1>1, <2>4, Zenon DEF OpToRel
  <2>6. QED
    BY <1>4, <2>2, <2>5
<1>6. QED
  BY <1>5

\* Induction over the natural numbers, for a set instead of a predicate.
LEMMA SetInduction ==
  ASSUME NEW S \in SUBSET Nat, 0 \in S, \A n \in S : n + 1 \in S
  PROVE  S = Nat
<1>1. SUFFICES ASSUME Nat \ S # {} PROVE FALSE
  OBVIOUS
<1>2. PICK m \in Nat \ S : \A n \in Nat \ S : m <= n
  BY <1>1, LeastMember
<1>3. m # 0 /\ m - 1 \in Nat
  BY <1>2
<1>4. m - 1 \in S
  BY <1>2, <1>3
<1>5. QED
  BY <1>2, <1>4

-----------------------------------------------------------------------------
\* Scanning a chunk byte by byte: FoldLeft is a function on the sets of
\* positions of the chunk, which adds the last one.
Folds(f, s, q, P) ==
  f = [t \in SUBSET P |-> IF t = {} THEN s ELSE Scan(f[t \ {Max(t)}], q[Max(t)])]

\* The greatest member of a set of numbers that has one.
LEMMA Greatest ==
  ASSUME NEW t \in SUBSET Int, NEW m \in t, \A i \in t : i <= m
  PROVE  Max(t) = m
<1>1. PICK x : x = CHOOSE i \in t : \A j \in t : i >= j
  OBVIOUS
<1>2. x \in t /\ \A j \in t : x >= j
  BY <1>1
<1>3. x = m
  BY <1>2
<1>4. QED
  BY <1>1, <1>3 DEF Max

\* The states of the scanner along a text exist.
LEMMA FoldsExist ==
  ASSUME NEW s, NEW q
  PROVE  \A n \in Nat : \E f : Folds(f, s, q, 1..n)
<1> DEFINE S == {n \in Nat : \E f : Folds(f, s, q, 1..n)}
<1>1. 0 \in S
  <2>1. PICK f : f = [t \in SUBSET (1..0) |-> s]
    OBVIOUS
  <2>2. SUBSET (1..0) = {{}}
    OBVIOUS
  <2>3. f = [t \in SUBSET (1..0) |-> IF t = {} THEN s ELSE Scan(f[t \ {Max(t)}], q[Max(t)])]
    BY <2>1, <2>2
  <2>4. QED
    BY <2>3 DEF Folds
<1>2. ASSUME NEW n \in S
      PROVE  n + 1 \in S
  <2>1. PICK f : Folds(f, s, q, 1..n)
    OBVIOUS
  <2>2. PICK g : g = [t \in SUBSET (1..n + 1) |->
                        IF n + 1 \in t THEN Scan(f[t \ {n + 1}], q[n + 1]) ELSE f[t]]
    OBVIOUS
  <2>3. ASSUME NEW t \in SUBSET (1..n + 1)
        PROVE  g[t] = IF t = {} THEN s ELSE Scan(g[t \ {Max(t)}], q[Max(t)])
    <3>1. CASE n + 1 \in t
      <4>1. Max(t) = n + 1
        <5>1. t \in SUBSET Int /\ \A i \in t : i <= n + 1
          OBVIOUS
        <5>2. QED
          BY <3>1, <5>1, Greatest
      <4>2. t \ {n + 1} \in SUBSET (1..n + 1) /\ n + 1 \notin t \ {n + 1}
        OBVIOUS
      <4>3. g[t \ {n + 1}] = f[t \ {n + 1}]
        BY <2>2, <4>2
      <4>4. g[t] = Scan(f[t \ {n + 1}], q[n + 1])
        BY <2>2, <3>1
      <4>5. QED
        BY <3>1, <4>1, <4>3, <4>4
    <3>2. CASE n + 1 \notin t
      <4>1. t \in SUBSET (1..n)
        BY <3>2
      <4>2. g[t] = f[t]
        BY <2>2, <3>2
      <4>3. f[t] = IF t = {} THEN s ELSE Scan(f[t \ {Max(t)}], q[Max(t)])
        BY <2>1, <4>1 DEF Folds
      <4>4. t \ {Max(t)} \in SUBSET (1..n + 1) /\ n + 1 \notin t \ {Max(t)}
        BY <3>2
      <4>5. g[t \ {Max(t)}] = f[t \ {Max(t)}]
        BY <2>2, <4>4
      <4>6. QED
        BY <4>2, <4>3, <4>5
    <3>3. QED
      BY <3>1, <3>2
  <2>4. Folds(g, s, q, 1..n + 1)
    BY <2>2, <2>3 DEF Folds
  <2>5. QED
    BY <2>4
<1>3. S = Nat
  <2> HIDE DEF S
  <2>1. S \in SUBSET Nat
    BY DEF S
  <2>2. QED
    BY <1>1, <1>2, <2>1, SetInduction
<1>4. QED
  BY <1>3

\* The states a chunk goes through, one byte at a time.
LEMMA ScanByByte ==
  ASSUME NEW s, NEW q \in Seq(Symbols)
  PROVE  \E run : /\ run[0] = s
                  /\ \A i \in 0..Len(q) - 1 : run[i + 1] = Scan(run[i], q[i + 1])
                  /\ FoldLeft(Scan, s, q) = run[Len(q)]
<1>1. DOMAIN q = 1..Len(q) /\ Len(q) \in Nat
  OBVIOUS
<1>2. PICK f : f = CHOOSE g : Folds(g, s, q, DOMAIN q)
  OBVIOUS
<1>3. Folds(f, s, q, DOMAIN q)
  <2>1. \E g : Folds(g, s, q, DOMAIN q)
    BY <1>1, FoldsExist
  <2>2. QED
    BY <1>2, <2>1, Zenon
<1>4. FoldLeft(Scan, s, q) = f[DOMAIN q]
  BY <1>2, Zenon DEF FoldLeft, MapThenFoldSet, Folds
<1>5. PICK run : run = [i \in 0..Len(q) |-> f[1..i]]
  OBVIOUS
<1>6. run[0] = s
  <2>1. 1..0 = {} /\ {} \in SUBSET DOMAIN q
    OBVIOUS
  <2>2. f[{}] = s
    BY <1>3, <2>1 DEF Folds
  <2>3. run[0] = f[1..0]
    BY <1>1, <1>5
  <2>4. QED
    BY <2>1, <2>2, <2>3
<1>7. ASSUME NEW i \in 0..Len(q) - 1
      PROVE  run[i + 1] = Scan(run[i], q[i + 1])
  <2>1. PICK t : t = 1..i + 1
    OBVIOUS
  <2>2. t \in SUBSET (1..Len(q)) /\ t # {} /\ i + 1 \in t /\ t \ {i + 1} = 1..i
    BY <1>1, <2>1
  <2>3. Max(t) = i + 1
    <3>1. t \in SUBSET Int /\ \A k \in t : k <= i + 1
      BY <1>1, <2>1
    <3>2. QED
      BY <2>2, <3>1, Greatest
  <2>4. f[t] = Scan(f[t \ {Max(t)}], q[Max(t)])
    BY <1>1, <1>3, <2>2 DEF Folds
  <2>5. run[i + 1] = f[t] /\ run[i] = f[1..i]
    BY <1>1, <1>5, <2>1
  <2>6. QED
    BY <2>2, <2>3, <2>4, <2>5
<1>8. run[Len(q)] = f[DOMAIN q]
  BY <1>1, <1>5
<1>9. QED
  BY <1>4, <1>6, <1>7, <1>8

-----------------------------------------------------------------------------
\* What a text means at a position follows from what it means one before.
LEMMA RunExists ==
  ASSUME NEW t \in Seq(Symbols), NEW i \in 1..Len(t) + 1
  PROVE  \E first \in 1..i : RunBefore(t, first, i)
<1> DEFINE S == {n \in Nat : n <= Len(t) => \E first \in 1..n + 1 : RunBefore(t, first, n + 1)}
<1>1. 0 \in S
  BY DEF RunBefore
<1>2. ASSUME NEW n \in S
      PROVE  n + 1 \in S
  <2>1. SUFFICES ASSUME n + 1 <= Len(t)
                 PROVE  \E first \in 1..n + 2 : RunBefore(t, first, n + 2)
    OBVIOUS
  <2>2. PICK first \in 1..n + 1 : RunBefore(t, first, n + 1)
    BY <2>1
  <2>3. CASE t[n + 1] = "backslash"
    BY <2>2, <2>3 DEF RunBefore
  <2>4. CASE t[n + 1] # "backslash"
    BY <2>4, SMTT(30) DEF RunBefore
  <2>5. QED
    BY <2>3, <2>4
<1>3. S = Nat
  <2> HIDE DEF S
  <2>1. S \in SUBSET Nat
    BY DEF S
  <2>2. QED
    BY <1>1, <1>2, <2>1, SetInduction
<1>4. i - 1 \in Nat /\ i - 1 <= Len(t) /\ i - 1 + 1 = i
  OBVIOUS
<1>5. i - 1 \in S
  BY <1>3, <1>4, Zenon
<1>6. QED
  BY <1>4, <1>5

\* A symbol is escaped when a backslash that is not escaped is before it.
LEMMA EscapedNext ==
  ASSUME NEW t \in Seq(Symbols), NEW i \in 1..Len(t)
  PROVE  Escaped(t, i + 1) <=> t[i] = "backslash" /\ ~Escaped(t, i)
<1>1. PICK f \in 1..i : RunBefore(t, f, i)
  BY RunExists
<1>2. ASSUME NEW g \in 1..i, RunBefore(t, g, i)
      PROVE  g = f
  <2>1. CASE g < f
    BY <1>1, <1>2, <2>1 DEF RunBefore
  <2>2. CASE f < g
    BY <1>1, <1>2, <2>2 DEF RunBefore
  <2>3. QED
    BY <2>1, <2>2
<1>3. Escaped(t, i) <=> (i - f) % 2 = 1
  BY <1>1, <1>2 DEF Escaped
<1>4. CASE t[i] # "backslash"
  <2>1. ASSUME NEW g \in 1..i + 1, RunBefore(t, g, i + 1)
        PROVE  g = i + 1
    BY <1>4, <2>1 DEF RunBefore
  <2>2. (i + 1 - (i + 1)) % 2 # 1
    OBVIOUS
  <2>3. QED
    BY <1>4, <2>1, <2>2 DEF Escaped
<1>5. CASE t[i] = "backslash"
  <2>1. RunBefore(t, f, i + 1)
    BY <1>1, <1>5 DEF RunBefore
  <2>2. ASSUME NEW g \in 1..i + 1, RunBefore(t, g, i + 1)
        PROVE  g = f
    <3>1. g # i + 1
      BY <1>5, <2>2 DEF RunBefore
    <3>2. RunBefore(t, g, i)
      BY <2>2, <3>1 DEF RunBefore
    <3>3. QED
      BY <1>2, <3>1, <3>2
  <2>3. Escaped(t, i + 1) <=> (i + 1 - f) % 2 = 1
    BY <2>1, <2>2 DEF Escaped
  <2>4. (i + 1 - f) % 2 = 1 <=> (i - f) % 2 # 1
    OBVIOUS
  <2>5. QED
    BY <1>3, <1>5, <2>3, <2>4
<1>6. QED
  BY <1>4, <1>5

\* A quote that is not escaped begins or ends a string.
LEMMA InsideNext ==
  ASSUME NEW t \in Seq(Symbols), NEW i \in 1..Len(t)
  PROVE  Inside(t, i + 1) <=>
           IF t[i] = "quote" /\ ~Escaped(t, i) THEN ~Inside(t, i) ELSE Inside(t, i)
<1>1. PICK D : D = DelimitersBefore(t, i)
  OBVIOUS
<1>2. PICK E : E = DelimitersBefore(t, i + 1)
  OBVIOUS
<1>3. IsFiniteSet(D)
  <2>1. D \subseteq 1..i - 1
    BY <1>1 DEF DelimitersBefore
  <2>2. IsFiniteSet(1..i - 1)
    BY FS_Interval
  <2>3. QED
    BY <2>1, <2>2, FS_Subset
<1>4. Cardinality(D) \in Nat
  BY <1>3, FS_CardinalityType
<1>5. CASE t[i] = "quote" /\ ~Escaped(t, i)
  <2>1. E = D \cup {i} /\ i \notin D
    BY <1>1, <1>2, <1>5 DEF DelimitersBefore
  <2>2. Cardinality(D \cup {i}) = Cardinality(D) + 1
    BY <1>3, <2>1, FS_AddElement, Zenon
  <2>3. (Cardinality(D) + 1) % 2 = 1 <=> Cardinality(D) % 2 # 1
    BY <1>4
  <2>4. QED
    BY <1>1, <1>2, <1>5, <2>1, <2>2, <2>3 DEF Inside
<1>6. CASE ~(t[i] = "quote" /\ ~Escaped(t, i))
  <2>1. E = D
    BY <1>1, <1>2, <1>6 DEF DelimitersBefore
  <2>2. QED
    BY <1>1, <1>2, <1>6, <2>1 DEF Inside
<1>7. QED
  BY <1>5, <1>6

\* One more symbol is one more bracket when it is one outside of strings.
LEMMA BracketsNext ==
  ASSUME NEW t \in Seq(Symbols), NEW i \in 1..Len(t), NEW kind
  PROVE  /\ Cardinality(Brackets(t, kind, i - 1)) \in Nat
         /\ Cardinality(Brackets(t, kind, i)) =
              Cardinality(Brackets(t, kind, i - 1)) + IF t[i] = kind /\ ~Inside(t, i) THEN 1 ELSE 0
<1>1. PICK D : D = Brackets(t, kind, i - 1)
  OBVIOUS
<1>2. PICK E : E = Brackets(t, kind, i)
  OBVIOUS
<1>3. IsFiniteSet(D)
  <2>1. D \subseteq 1..i - 1
    BY <1>1 DEF Brackets
  <2>2. IsFiniteSet(1..i - 1)
    BY FS_Interval
  <2>3. QED
    BY <2>1, <2>2, FS_Subset
<1>4. Cardinality(D) \in Nat
  BY <1>3, FS_CardinalityType
<1>5. CASE t[i] = kind /\ ~Inside(t, i)
  <2>1. E = D \cup {i} /\ i \notin D
    BY <1>1, <1>2, <1>5 DEF Brackets
  <2>2. Cardinality(D \cup {i}) = Cardinality(D) + 1
    BY <1>3, <2>1, FS_AddElement, Zenon
  <2>3. QED
    BY <1>1, <1>2, <1>4, <1>5, <2>1, <2>2
<1>6. CASE ~(t[i] = kind /\ ~Inside(t, i))
  <2>1. E = D
    BY <1>1, <1>2, <1>6 DEF Brackets
  <2>2. QED
    BY <1>1, <1>2, <1>4, <1>6, <2>1
<1>7. QED
  BY <1>5, <1>6

\* At the start nothing is open.
LEMMA AtStart ==
  ASSUME NEW t
  PROVE  ~Escaped(t, 1) /\ ~Inside(t, 1) /\ Nesting(t, 0) = 0 /\ Opened(t, 0) = 0
<1>1. ~Escaped(t, 1)
  BY DEF Escaped
<1>2. DelimitersBefore(t, 1) = {}
  BY DEF DelimitersBefore
<1>3. \A kind : Brackets(t, kind, 0) = {}
  BY DEF Brackets
<1>4. Cardinality({}) = 0
  BY FS_EmptySet
<1>5. ~Inside(t, 1)
  BY <1>2, <1>4 DEF Inside
<1>6. Opened(t, 0) = 0 /\ Cardinality(Brackets(t, "close", 0)) = 0
  BY <1>3, <1>4 DEF Opened
<1>7. Nesting(t, 0) = 0
  BY <1>6 DEF Nesting
<1>8. QED
  BY <1>1, <1>5, <1>6, <1>7

-----------------------------------------------------------------------------
\* The scanner after the first j bytes of a document: it has met every limit so
\* far and knows where it is, or it has seen a limit exceeded.
States == [depth : Nat, nodes : Nat, inString : BOOLEAN, escaped : BOOLEAN, deep : BOOLEAN]

Exceeds(t, m) == Nesting(t, m) > MaxDepth \/ Opened(t, m) > MaxNodes

Knows(s, t, j) ==
  /\ s.inString <=> Inside(t, j + 1)
  /\ s.escaped <=> Escaped(t, j + 1)
  /\ s.escaped => s.inString
  /\ s.depth = Nesting(t, j) /\ s.nodes = Opened(t, j)

Judges(s, t, j) ==
  IF s.deep THEN \E m \in 0..j : Exceeds(t, m)
  ELSE Knows(s, t, j) /\ \A m \in 0..j : ~Exceeds(t, m)

\* A byte leaves the scanner in a state of its type, whatever it is.
LEMMA ScanType ==
  ASSUME NEW s \in States, NEW symbol
  PROVE  Outside(s, symbol) \in States /\ Scan(s, symbol) \in States
<1>1. InString(s, symbol) \in States
  BY DEF InString, States
<1>2. Outside(s, symbol) \in States
  <2>1. s.depth + 1 \in Nat /\ s.nodes + 1 \in Nat /\ Closed(s.depth) \in Nat
    BY DEF Closed, States
  <2>2. CASE symbol = "quote"
    BY <2>2 DEF Outside, States
  <2>3. CASE symbol = "open"
    <3>1. Outside(s, symbol) = [s EXCEPT !.depth = s.depth + 1, !.nodes = s.nodes + 1]
      BY <2>3 DEF Outside
    <3>2. QED
      BY <2>1, <3>1 DEF States
  <2>4. CASE symbol = "close"
    <3>1. Outside(s, symbol) = [s EXCEPT !.depth = Closed(s.depth)]
      BY <2>4 DEF Outside
    <3>2. QED
      BY <2>1, <3>1 DEF States
  <2>5. CASE symbol \notin {"quote", "open", "close"}
    BY <2>5 DEF Outside
  <2>6. QED
    BY <2>2, <2>3, <2>4, <2>5
<1>3. \A u \in States : [u EXCEPT !.deep = OverLimit(u)] \in States
  BY DEF OverLimit, States
<1>4. QED
  BY <1>1, <1>2, <1>3 DEF Scan

\* A byte inside a string.
LEMMA StringStep ==
  ASSUME NEW t \in Seq(Symbols), NEW i \in 1..Len(t), NEW s \in States,
         Knows(s, t, i - 1), s.inString
  PROVE  /\ Knows(InString(s, t[i]), t, i)
         /\ InString(s, t[i]).deep = s.deep
         /\ Nesting(t, i) = Nesting(t, i - 1) /\ Opened(t, i) = Opened(t, i - 1)
<1>1. Inside(t, i) /\ (s.escaped <=> Escaped(t, i))
  BY DEF Knows
<1>2. Escaped(t, i + 1) <=> t[i] = "backslash" /\ ~Escaped(t, i)
  BY EscapedNext
<1>3. Inside(t, i + 1) <=> ~(t[i] = "quote" /\ ~Escaped(t, i))
  BY <1>1, InsideNext
<1>4. Nesting(t, i) = Nesting(t, i - 1) /\ Opened(t, i) = Opened(t, i - 1)
  <2>1. ASSUME NEW kind
        PROVE  Cardinality(Brackets(t, kind, i)) = Cardinality(Brackets(t, kind, i - 1))
    BY <1>1, BracketsNext
  <2>2. QED
    BY <2>1 DEF Nesting, Opened
<1>5. CASE s.escaped
  <2>1. InString(s, t[i]) = [s EXCEPT !.escaped = FALSE]
    BY <1>5 DEF InString
  <2>2. QED
    BY <1>1, <1>2, <1>3, <1>4, <1>5, <2>1 DEF Knows, States
<1>6. CASE ~s.escaped
  <2>1. InString(s, t[i]) = [s EXCEPT !.escaped = (t[i] = "backslash"), !.inString = (t[i] # "quote")]
    BY <1>6 DEF InString
  <2>2. QED
    BY <1>1, <1>2, <1>3, <1>4, <1>6, <2>1 DEF Knows, States
<1>7. QED
  BY <1>5, <1>6

\* A byte outside of every string, of a document.
LEMMA OutsideStep ==
  ASSUME NEW t \in Seq(Symbols), NEW i \in 1..Len(t), NEW s \in States,
         Knows(s, t, i - 1), ~s.inString,
         t[i] = "backslash" => Inside(t, i), Nesting(t, i) >= 0
  PROVE  Knows(Outside(s, t[i]), t, i) /\ Outside(s, t[i]).deep = s.deep
<1>1. ~Inside(t, i) /\ ~Escaped(t, i) /\ ~s.escaped
  BY DEF Knows
<1>2. ~Escaped(t, i + 1)
  BY <1>1, EscapedNext
<1>3. Inside(t, i + 1) <=> t[i] = "quote"
  BY <1>1, InsideNext
<1>4. PICK o \in Nat, c \in Nat :
        /\ o = Cardinality(Brackets(t, "open", i - 1)) /\ c = Cardinality(Brackets(t, "close", i - 1))
        /\ Cardinality(Brackets(t, "open", i)) = o + (IF t[i] = "open" THEN 1 ELSE 0)
        /\ Cardinality(Brackets(t, "close", i)) = c + (IF t[i] = "close" THEN 1 ELSE 0)
  BY <1>1, BracketsNext
<1>5. s.depth = o - c /\ s.nodes = o /\ s.depth \in Nat /\ s.nodes \in Nat
  BY <1>4 DEF Knows, Nesting, Opened, States
<1>6. /\ Opened(t, i) = o + (IF t[i] = "open" THEN 1 ELSE 0)
      /\ Nesting(t, i) = (o + (IF t[i] = "open" THEN 1 ELSE 0)) - (c + (IF t[i] = "close" THEN 1 ELSE 0))
  BY <1>4 DEF Nesting, Opened
<1>7. CASE t[i] = "quote"
  <2>1. Outside(s, t[i]) = [s EXCEPT !.inString = TRUE]
    BY <1>7 DEF Outside
  <2>2. s.depth = Nesting(t, i) /\ s.nodes = Opened(t, i)
    BY <1>5, <1>6, <1>7
  <2>3. QED
    BY <1>1, <1>2, <1>3, <1>7, <2>1, <2>2 DEF Knows, States
<1>8. CASE t[i] = "open"
  <2>1. Outside(s, t[i]) = [s EXCEPT !.depth = s.depth + 1, !.nodes = s.nodes + 1]
    BY <1>8 DEF Outside
  <2>2. s.depth + 1 = Nesting(t, i) /\ s.nodes + 1 = Opened(t, i)
    BY <1>5, <1>6, <1>8
  <2>3. QED
    BY <1>1, <1>2, <1>3, <1>8, <2>1, <2>2 DEF Knows, States
<1>9. CASE t[i] = "close"
  <2>1. Closed(s.depth) = s.depth - 1
    BY <1>5, <1>6, <1>9 DEF Closed
  <2>2. QED
    BY <1>1, <1>2, <1>3, <1>5, <1>6, <1>9, <2>1, SMTT(30) DEF Outside, Knows, States
<1>10. CASE t[i] \notin {"quote", "open", "close"}
  BY <1>1, <1>2, <1>3, <1>5, <1>6, <1>10 DEF Outside, Knows, States
<1>11. QED
  BY <1>7, <1>8, <1>9, <1>10

\* A byte of a document under way keeps the scanner's judgement right.
LEMMA ScanStep ==
  ASSUME body.scanned, WellFormed(body), body.text \in Seq(Symbols), NEW i \in 1..Len(body.text),
         NEW s \in States, Judges(s, body.text, i - 1)
  PROVE  Judges(Scan(s, body.text[i]), body.text, i)
<1>1. PICK t : t = body.text
  OBVIOUS
<1>2. t \in Seq(Symbols) /\ i \in 1..Len(t) /\ Judges(s, t, i - 1)
  BY <1>1
<1>3. (t[i] = "backslash" => Inside(t, i)) /\ Nesting(t, i) >= 0
  BY <1>1 DEF WellFormed
<1>4. CASE s.deep
  BY <1>2, <1>4, <1>1 DEF Scan, Judges
<1>5. CASE ~s.deep /\ s.inString
  <2>1. Knows(s, t, i - 1) /\ \A m \in 0..i - 1 : ~Exceeds(t, m)
    BY <1>2, <1>5 DEF Judges
  <2>2. /\ Knows(InString(s, t[i]), t, i)
        /\ ~InString(s, t[i]).deep
        /\ Nesting(t, i) = Nesting(t, i - 1) /\ Opened(t, i) = Opened(t, i - 1)
    BY <1>2, <1>5, <2>1, StringStep
  <2>3. \A m \in 0..i : ~Exceeds(t, m)
    BY <2>1, <2>2 DEF Exceeds
  <2>4. Scan(s, t[i]) = InString(s, t[i])
    BY <1>5 DEF Scan
  <2>5. QED
    BY <1>1, <2>2, <2>3, <2>4 DEF Judges
<1>6. CASE ~s.deep /\ ~s.inString
  <2>1. Knows(s, t, i - 1) /\ \A m \in 0..i - 1 : ~Exceeds(t, m)
    BY <1>2, <1>6 DEF Judges
  <2>2. PICK u : u = Outside(s, t[i])
    OBVIOUS
  <2>3. Knows(u, t, i) /\ u \in States
    <3>1. Knows(u, t, i)
      BY <1>2, <1>3, <1>6, <2>1, <2>2, OutsideStep
    <3>2. u \in States
      BY <2>2, ScanType
    <3>3. QED
      BY <3>1, <3>2
  <2>4. PICK v : v = [u EXCEPT !.deep = OverLimit(u)]
    OBVIOUS
  <2>5. Scan(s, t[i]) = v
    BY <1>6, <2>2, <2>4 DEF Scan
  <2>6. v.deep = OverLimit(u) /\ Knows(v, t, i)
    BY <2>3, <2>4 DEF Knows, States
  <2>7. OverLimit(u) <=> Exceeds(t, i)
    BY <2>3 DEF OverLimit, Exceeds, Knows
  <2>8. Judges(v, t, i)
    BY <2>1, <2>6, <2>7 DEF Judges
  <2>9. QED
    BY <1>1, <2>5, <2>8
<1>7. QED
  BY <1>4, <1>5, <1>6

\* A chunk of n bytes, of any body.
LEMMA ChunkScanned ==
  ASSUME body \in Bodies, scan \in States, NEW k \in Nat, NEW q \in Seq(Symbols),
         k + Len(q) <= Len(body.text), \A i \in 1..Len(q) : q[i] = body.text[k + i]
  PROVE  /\ FoldLeft(Scan, scan, q) \in States
         /\ ~body.scanned => FoldLeft(Scan, scan, q) = scan
         /\ body.json /\ body.scanned /\ Judges(scan, body.text, k) =>
              Judges(FoldLeft(Scan, scan, q), body.text, k + Len(q))
<1>1. PICK run : /\ run[0] = scan
                 /\ \A i \in 0..Len(q) - 1 : run[i + 1] = Scan(run[i], q[i + 1])
                 /\ FoldLeft(Scan, scan, q) = run[Len(q)]
  BY ScanByByte
<1>2. body.text \in Seq(Symbols) /\ (body.json => WellFormed(body)) /\ Len(q) \in Nat
  BY BodyAssumption
<1> DEFINE Good(s, i) == /\ s \in States
                         /\ ~body.scanned => s = scan
                         /\ body.json /\ body.scanned /\ Judges(scan, body.text, k) =>
                              Judges(s, body.text, k + i)
<1> DEFINE S == {i \in Nat : i <= Len(q) => Good(run[i], i)}
<1>3. 0 \in S
  BY <1>1, <1>2
<1>4. ASSUME NEW i \in S
      PROVE  i + 1 \in S
  <2>1. SUFFICES ASSUME i + 1 <= Len(q) PROVE Good(run[i + 1], i + 1)
    OBVIOUS
  <2>2. Good(run[i], i)
    BY <1>2, <2>1
  <2>3. run[i + 1] = Scan(run[i], q[i + 1])
    BY <1>1, <1>2, <2>1
  <2>4. Scan(run[i], q[i + 1]) \in States
    BY <2>2, ScanType
  <2>5. CASE ~body.scanned
    <3>1. Scan(run[i], q[i + 1]) = run[i]
      BY <2>5 DEF Scan
    <3>2. QED
      BY <2>2, <2>3, <2>5, <3>1
  <2>6. CASE body.json /\ body.scanned /\ Judges(scan, body.text, k)
    <3>1. PICK j : j = k + i + 1
      OBVIOUS
    <3>2. j \in 1..Len(body.text) /\ j - 1 = k + i /\ k + (i + 1) = j /\ q[i + 1] = body.text[j]
      BY <1>2, <2>1, <3>1, SMTT(30)
    <3>3. run[i] \in States /\ Judges(run[i], body.text, j - 1)
      BY <2>2, <2>6, <3>2
    <3>4. Judges(Scan(run[i], body.text[j]), body.text, j)
      BY <1>2, <2>6, <3>2, <3>3, ScanStep
    <3>5. QED
      BY <2>3, <2>4, <2>6, <3>2, <3>4
  <2>7. CASE body.scanned /\ ~(body.json /\ Judges(scan, body.text, k))
    BY <2>3, <2>4, <2>7
  <2>8. QED
    BY <2>5, <2>6, <2>7
<1>5. S = Nat
  <2> HIDE DEF S
  <2>1. S \in SUBSET Nat
    BY DEF S
  <2>2. QED
    BY <1>3, <1>4, <2>1, SetInduction
<1>6. Good(run[Len(q)], Len(q))
  BY <1>2, <1>5
<1>7. QED
  BY <1>1, <1>6

-----------------------------------------------------------------------------
\* The guard: what has arrived was judged for what it is.
Fresh == [depth |-> 0, nodes |-> 0, inString |-> FALSE, escaped |-> FALSE, deep |-> FALSE]

GuardInv ==
  /\ body \in Bodies
  /\ total \in 0..Len(body.text)
  /\ unread = SubSeq(body.text, total + 1, Len(body.text))
  /\ scan \in States
  /\ verdict \in {"reading", "read", "too_large", "too_deep"}
  /\ verdict = "too_large" => Len(body.text) > ByteLimit
  /\ verdict # "too_large" =>
       /\ total <= ByteLimit
       /\ scan.deep <=> verdict = "too_deep"
       /\ body.json /\ body.scanned => Judges(scan, body.text, total)
       /\ ~body.scanned => scan = Fresh
  /\ verdict = "read" => total = Len(body.text)

\* The guard starts in its invariant.
LEMMA GuardStarts == GuardInit => GuardInv
<1> SUFFICES ASSUME GuardInit PROVE GuardInv
  OBVIOUS
<1>1. body \in Bodies /\ body.text \in Seq(Symbols) /\ Len(body.text) \in Nat
  BY BodyAssumption DEF GuardInit
<1>2. unread = SubSeq(body.text, 1, Len(body.text)) /\ total = 0
  BY <1>1 DEF GuardInit
<1>3. scan = Fresh /\ scan \in States /\ ~scan.deep /\ verdict = "reading"
  BY DEF GuardInit, Fresh, States
<1>4. ByteLimit \in Nat
  BY LimitAssumption DEF ByteLimit
<1>5. Judges(scan, body.text, 0)
  <2>1. Knows(scan, body.text, 0)
    BY <1>3, AtStart DEF Knows, Fresh
  <2>2. ~Exceeds(body.text, 0)
    BY AtStart, LimitAssumption DEF Exceeds
  <2>3. QED
    BY <1>3, <2>1, <2>2 DEF Judges
<1>6. QED
  BY <1>1, <1>2, <1>3, <1>4, <1>5 DEF GuardInv

\* A chunk keeps the guard's judgement right.
LEMMA GuardReceives ==
  ASSUME GuardInv, NEW n \in 1..Len(unread), Receive(n)
  PROVE  GuardInv'
<1>1. PICK t : t = body.text
  OBVIOUS
<1>2. t \in Seq(Symbols) /\ Len(t) \in Nat /\ body \in Bodies /\ body' = body
  BY <1>1, BodyAssumption DEF GuardInv, Receive
<1>3. total \in 0..Len(t) /\ unread = SubSeq(t, total + 1, Len(t)) /\ Len(unread) = Len(t) - total
  BY <1>1, <1>2 DEF GuardInv
<1>4. total' = total + n /\ total' \in 0..Len(t)
  BY <1>2, <1>3 DEF Receive
<1>5. unread' = SubSeq(t, total' + 1, Len(t))
  <2>1. unread' = SubSeq(unread, n + 1, Len(unread))
    BY DEF Receive
  <2>2. QED
    BY <1>2, <1>3, <1>4, <2>1
<1>6. ByteLimit \in Nat /\ ByteLimit' = ByteLimit
  BY <1>2, LimitAssumption DEF ByteLimit
<1>7. verdict = "reading"
  BY DEF Receive
<1>8. CASE total + n > ByteLimit
  <2>1. verdict' = "too_large" /\ scan' = scan
    BY <1>8 DEF Receive
  <2>2. Len(t) > ByteLimit
    BY <1>2, <1>4, <1>6, <1>8
  <2>3. QED
    BY <1>1, <1>2, <1>4, <1>5, <1>6, <2>1, <2>2 DEF GuardInv
<1>9. CASE ~(total + n > ByteLimit)
  <2>1. PICK q : q = SubSeq(unread, 1, n)
    OBVIOUS
  <2>2. q \in Seq(Symbols) /\ Len(q) = n /\ \A i \in 1..n : q[i] = t[total + i]
    BY <1>2, <1>3, <2>1, SMTT(30)
  <2>3. PICK s : s = FoldLeft(Scan, scan, q)
    OBVIOUS
  <2>4. scan' = s /\ verdict' = IF s.deep THEN "too_deep" ELSE "reading"
    BY <1>9, <2>1, <2>3 DEF Receive
  <2>5. /\ s \in States
        /\ ~body.scanned => s = scan
        /\ body.json /\ body.scanned /\ Judges(scan, t, total) => Judges(s, t, total + n)
    <3>1. total + Len(q) <= Len(t) /\ total \in Nat /\ scan \in States
      BY <1>3, <1>4, <2>2 DEF GuardInv
    <3>2. QED
      BY <1>1, <1>2, <2>2, <2>3, <3>1, ChunkScanned
  <2>6. /\ body.json /\ body.scanned => Judges(s, t, total')
        /\ ~body.scanned => s = Fresh
    BY <1>1, <1>4, <1>7, <2>5 DEF GuardInv
  <2>7. (body.json /\ body.scanned => Judges(scan, t, total))'
    BY <1>2, <2>4, <2>6 DEF Judges, Knows, Exceeds
  <2>8. total' <= ByteLimit' /\ (scan'.deep <=> verdict' = "too_deep") /\ verdict' \in {"too_deep", "reading"}
    BY <1>4, <1>6, <1>9, <2>4
  <2>9. scan' \in States /\ (~body'.scanned => scan' = Fresh)
    BY <1>2, <2>4, <2>5, <2>6
  <2>10. QED
    BY <1>1, <1>2, <1>4, <1>5, <2>6, <2>4, <2>8, <2>9 DEF GuardInv
<1>10. QED
  BY <1>8, <1>9

\* The last message of a body keeps the invariant of the guard.
LEMMA GuardCompletes ==
  ASSUME GuardInv, Complete
  PROVE  GuardInv'
<1>1. body.text \in Seq(Symbols) /\ Len(body.text) \in Nat
  BY BodyAssumption DEF GuardInv
<1>2. total = Len(body.text)
  <2>1. total \in 0..Len(body.text) /\ unread = << >>
    BY DEF GuardInv, Complete
  <2>2. Len(SubSeq(body.text, total + 1, Len(body.text))) = Len(body.text) - total
    BY <1>1, <2>1
  <2>3. Len(unread) = Len(body.text) - total /\ Len(unread) = 0
    BY <2>1, <2>2 DEF GuardInv
  <2>4. QED
    BY <1>1, <2>1, <2>3
<1>3. UNCHANGED <<body, unread, total, scan>> /\ verdict = "reading" /\ verdict' = "read"
  BY DEF Complete
<1>4. ByteLimit' = ByteLimit
  BY <1>3 DEF ByteLimit
<1>5. QED
  BY <1>2, <1>3, <1>4 DEF GuardInv

\* What the limits see of a document never exceeds what the document says.
LEMMA OpenedGrows ==
  ASSUME NEW t \in Seq(Symbols), NEW m \in 0..Len(t)
  PROVE  Opened(t, m) \in Nat /\ Opened(t, m) <= Opened(t, Len(t))
<1>1. PICK A : A = Brackets(t, "open", m)
  OBVIOUS
<1>2. PICK B : B = Brackets(t, "open", Len(t))
  OBVIOUS
<1>3. A \subseteq B /\ B \subseteq 1..Len(t) /\ Len(t) \in Nat
  BY <1>1, <1>2 DEF Brackets
<1>4. IsFiniteSet(1..Len(t))
  BY <1>3, FS_Interval
<1>5. IsFiniteSet(B)
  BY <1>3, <1>4, FS_Subset
<1>6. IsFiniteSet(A) /\ Cardinality(A) <= Cardinality(B)
  BY <1>3, <1>5, FS_Subset
<1>7. Cardinality(A) \in Nat
  BY <1>6, FS_CardinalityType
<1>8. QED
  BY <1>1, <1>2, <1>6, <1>7 DEF Opened

\* What follows a place in a text is a suffix of it.
LEMMA SuffixOf ==
  ASSUME NEW t \in Seq(Symbols), NEW k \in 0..Len(t)
  PROVE  /\ IsSuffix(SubSeq(t, k + 1, Len(t)), t)
         /\ Len(SubSeq(t, k + 1, Len(t))) = Len(t) - k
<1>1. PICK u : u = SubSeq(t, k + 1, Len(t))
  OBVIOUS
<1>2. u \in Seq(Symbols) /\ Len(u) = Len(t) - k /\ \A i \in 1..Len(u) : u[i] = t[k + i]
  BY <1>1
<1>3. PICK r : r = Reverse(u)
  OBVIOUS
<1>4. PICK w : w = Reverse(t)
  OBVIOUS
<1>5. r \in Seq(Symbols) /\ Len(r) = Len(u) /\ \A i \in 1..Len(u) : r[i] = u[Len(u) - i + 1]
  BY <1>2, <1>3 DEF Reverse
<1>6. w \in Seq(Symbols) /\ Len(w) = Len(t) /\ \A i \in 1..Len(t) : w[i] = t[Len(t) - i + 1]
  BY <1>4 DEF Reverse
<1>7. ASSUME NEW i \in 1..Len(u)
      PROVE  r[i] = w[i]
  <2>1. PICK j : j = Len(u) - i + 1
    OBVIOUS
  <2>2. j \in 1..Len(u) /\ i \in 1..Len(t) /\ k + j = Len(t) - i + 1
    BY <1>2, <2>1
  <2>3. r[i] = u[j] /\ u[j] = t[k + j] /\ w[i] = t[Len(t) - i + 1]
    BY <1>2, <1>5, <1>6, <2>1, <2>2
  <2>4. QED
    BY <2>2, <2>3
<1>8. SubSeq(r, 1, Len(r)) = SubSeq(w, 1, Len(r))
  <2>1. Len(r) \in Nat /\ Len(r) <= Len(w)
    BY <1>2, <1>5, <1>6
  <2>2. SubSeq(r, 1, Len(r)) = [i \in 1..Len(r) |-> r[i]]
    BY <1>5, <2>1
  <2>3. SubSeq(w, 1, Len(r)) = [i \in 1..Len(r) |-> w[i]]
    BY <1>6, <2>1
  <2>4. \A i \in 1..Len(r) : r[i] = w[i]
    BY <1>5, <1>7
  <2>5. QED
    BY <2>2, <2>3, <2>4
<1>9. Len(r) <= Len(w)
  BY <1>2, <1>5, <1>6
<1>10. IsPrefix(r, w)
  BY <1>8, <1>9 DEF IsPrefix
<1>11. QED
  BY <1>1, <1>2, <1>3, <1>4, <1>10 DEF IsSuffix

\* What the guard's invariant says of the body.
LEMMA GuardTypes == GuardInv => GuardTypeOK
<1> SUFFICES ASSUME GuardInv PROVE GuardTypeOK
  OBVIOUS
<1>1. body.text \in Seq(Symbols) /\ total \in 0..Len(body.text) /\ Len(body.text) \in Nat
  BY BodyAssumption DEF GuardInv
<1>2. IsSuffix(unread, body.text) /\ Len(unread) = Len(body.text) - total
  BY <1>1, SuffixOf DEF GuardInv
<1>3. total = Len(body.text) - Len(unread)
  BY <1>1, <1>2
<1>4. QED
  BY <1>2, <1>3 DEF GuardInv, GuardTypeOK, States

\* What the guard decides is right of the whole body.
LEMMA GuardJudges ==
  ASSUME GuardInv
  PROVE  /\ BodiesJudged
         /\ verdict = "read" => Len(body.text) <= ByteLimit /\ (body.json => Allowed)
<1>1. PICK t : t = body.text
  OBVIOUS
<1>2. /\ t \in Seq(Symbols) /\ Len(t) \in Nat
      /\ body.depth \in Nat /\ body.containers \in Nat
      /\ body.json => WellFormed(body)
      /\ MaxDepth \in Nat /\ MaxNodes \in Nat
  BY <1>1, BodyAssumption, LimitAssumption DEF GuardInv
<1>3. body.json =>
        /\ \A m \in 0..Len(t) : Nesting(t, m) \in 0..body.depth
        /\ \E m \in 0..Len(t) : Nesting(t, m) = body.depth
        /\ Nesting(t, Len(t)) = 0 /\ ~Inside(t, Len(t) + 1)
        /\ Opened(t, Len(t)) = body.containers
  BY <1>1, <1>2 DEF WellFormed
<1>4. ASSUME verdict = "too_deep", body.json
      PROVE  ~Allowed
  <2>1. scan.deep /\ body.scanned
    BY <1>4 DEF GuardInv, Fresh
  <2>2. Judges(scan, t, total) /\ total \in 0..Len(t)
    BY <1>1, <1>4, <2>1 DEF GuardInv
  <2>3. PICK m \in 0..total : Exceeds(t, m)
    BY <2>1, <2>2 DEF Judges
  <2>4. m \in 0..Len(t)
    BY <1>2, <2>2
  <2>5. Nesting(t, m) \in 0..body.depth /\ Opened(t, m) \in Nat /\ Opened(t, m) <= body.containers
    BY <1>2, <1>3, <1>4, <2>4, OpenedGrows
  <2>6. body.depth > MaxDepth \/ body.containers > MaxNodes
    BY <1>2, <2>3, <2>5 DEF Exceeds
  <2>7. QED
    BY <1>2, <2>1, <2>6 DEF Allowed
<1>5. ASSUME verdict = "read"
      PROVE  /\ Len(t) <= ByteLimit
             /\ body.json => Allowed
             /\ body.json => scan.depth = 0 /\ ~scan.inString /\ ~scan.escaped
  <2>1. total = Len(t) /\ total <= ByteLimit /\ ~scan.deep
    BY <1>1, <1>5 DEF GuardInv
  <2>2. CASE ~body.scanned
    BY <1>5, <2>1, <2>2 DEF GuardInv, Fresh, Allowed
  <2>3. CASE body.scanned /\ body.json
    <3>1. Knows(scan, t, Len(t)) /\ \A m \in 0..Len(t) : ~Exceeds(t, m)
      BY <1>1, <1>5, <2>1, <2>3 DEF GuardInv, Judges
    <3>2. body.depth <= MaxDepth
      BY <1>2, <1>3, <2>3, <3>1 DEF Exceeds
    <3>3. body.containers <= MaxNodes
      <4>1. ~(Opened(t, Len(t)) > MaxNodes)
        BY <1>2, <3>1 DEF Exceeds
      <4>2. QED
        BY <1>2, <1>3, <2>3, <4>1
    <3>4. scan.depth = 0 /\ ~scan.inString /\ ~scan.escaped
      BY <1>3, <2>3, <3>1 DEF Knows
    <3>5. QED
      BY <2>1, <3>2, <3>3, <3>4 DEF Allowed
  <2>4. CASE ~body.json
    BY <2>1, <2>4
  <2>5. QED
    BY <2>2, <2>3, <2>4
<1>6. VerdictExact
  BY <1>4 DEF VerdictExact, GuardInv
<1>7. QED
  BY <1>1, <1>5, <1>6 DEF BodiesJudged, Balanced

-----------------------------------------------------------------------------
\* A request on its way: what its layers have left behind so far.
Statuses == {0, 200, 400} \cup AppStatuses

Layers == {"nobody", "limiter", "limits", "app", "context", "server"}

Responses ==
  [by : Layers, status : Statuses, bodyId : Ids, headerId : Ids, secured : BOOLEAN, rated : BOOLEAN,
   huge : BOOLEAN]

\* A response of the application; an error of its handlers; a refusal.
OfApp(r) ==
  /\ r.by = "app"
  /\ \/ r.status = 200 /\ r.bodyId = NoId
     \/ r.status \in {400} \cup AppStatuses /\ r.bodyId = contextId /\ ~r.huge

OfLimits(r) == r.by = "limits" /\ r.status = 413 /\ r.bodyId = IdFrom("by_limits") /\ ~r.huge /\ ~r.secured

OfLimiter(r) == r.by = "limiter" /\ r.status = 429 /\ r.bodyId = contextId /\ ~r.huge /\ ~r.secured /\ charged

\* Where the response is, what it can be.
Answered ==
  CASE pc = "headers_out" -> OfApp(resp)
    [] pc = "rate_limit_out" -> OfLimits(resp) \/ (OfApp(resp) /\ resp.secured)
    [] pc = "context_out" ->
         /\ OfLimits(resp) \/ (OfApp(resp) /\ resp.secured) \/ OfLimiter(resp)
         /\ resp.rated <=> charged
    [] pc = "done" ->
         /\ ~resp.huge
         /\ \/ /\ resp.status = 500 /\ resp.bodyId = contextId
               /\ resp.by = "server" \/ (resp.by = "context" /\ resp.headerId = contextId)
            \/ /\ resp.headerId = contextId /\ (resp.rated <=> charged)
               /\ OfLimits(resp) \/ (OfApp(resp) /\ resp.secured) \/ OfLimiter(resp)
    [] OTHER -> TRUE

Places == {"context", "rate_limit", "limits", "app", "headers_out", "rate_limit_out",
           "context_out", "done"}

PipelineInv ==
  /\ req \in Arrivals /\ pc \in Places
  /\ charged \in BOOLEAN /\ ran \in BOOLEAN /\ resp \in Responses
  /\ contextId = IF pc = "context" THEN NoId ELSE IdFrom("by_context")
  /\ logged = IF pc = "done" THEN contextId ELSE NoId
  /\ charged <=> req.counted /\ pc \notin {"context", "rate_limit"}
  /\ pc = "app" => ~TooLarge
  /\ pc \in {"context", "rate_limit", "limits", "app"} => ~ran
  /\ ran => verdict = "read" /\ req.url = "ok"
  /\ Answered

\* The pipeline starts in its invariant.
LEMMA PipelineStarts == Init => PipelineInv
<1> SUFFICES ASSUME Init PROVE PipelineInv
  OBVIOUS
<1>1. resp \in Responses
  BY DEF Init, NoResponse, Responses, Statuses, Layers, Ids, NoId
<1>2. pc = "context" /\ contextId = NoId /\ logged = NoId /\ req \in Arrivals
  BY DEF Init
<1>3. charged = FALSE /\ ran = FALSE
  BY DEF Init
<1>4. QED
  BY <1>1, <1>2, <1>3 DEF PipelineInv, Answered, Places

\* Reading the body moves nothing else.
LEMMA ReadingKeeps ==
  ASSUME PipelineInv, ReadBody
  PROVE  PipelineInv'
<1>1. UNCHANGED pipelineVars /\ pc = "app" /\ body' = body
  BY DEF ReadBody, Complete, Receive
<1>2. ~ran /\ ~TooLarge
  BY <1>1 DEF PipelineInv
<1>3. ~ran' /\ ~TooLarge' /\ pc' = "app"
  BY <1>1, <1>2 DEF TooLarge, ByteLimit, pipelineVars
<1>4. Answered'
  BY <1>3 DEF Answered
<1>5. /\ req' = req /\ resp' = resp /\ charged' = charged /\ ran' = ran /\ pc' = pc
      /\ contextId' = contextId /\ logged' = logged /\ IdFrom("by_context")' = IdFrom("by_context")
  BY <1>1 DEF pipelineVars, IdFrom
<1>6. QED
  BY <1>2, <1>3, <1>4, <1>5 DEF PipelineInv

\* The way down.
LEMMA DownKeeps ==
  ASSUME PipelineInv, UNCHANGED guardVars,
         EnterContext \/ SkipRateLimit \/ PassRateLimit \/ PassLimits
  PROVE  PipelineInv'
<1>1. /\ req' = req /\ resp' = resp /\ ran' = ran /\ logged' = logged
      /\ pc' \in Places /\ ~ran /\ pc' \in {"rate_limit", "limits", "app"}
      /\ pc \in {"context", "rate_limit", "limits"}
  BY DEF EnterContext, SkipRateLimit, PassRateLimit, PassLimits, Down, Places, PipelineInv
<1>2. contextId' = IdFrom("by_context") /\ IdFrom("by_context")' = IdFrom("by_context")
  BY <1>1 DEF EnterContext, SkipRateLimit, PassRateLimit, PassLimits, Down, IdFrom, PipelineInv
<1>3. charged' <=> req.counted /\ pc' # "rate_limit"
  BY DEF EnterContext, SkipRateLimit, PassRateLimit, PassLimits, Down, PipelineInv, Arrivals
<1>4. charged' \in BOOLEAN
  BY DEF EnterContext, SkipRateLimit, PassRateLimit, PassLimits, PipelineInv
<1>5. pc' = "app" => ~TooLarge'
  <2>1. pc' = "app" => ~TooLarge
    BY DEF EnterContext, SkipRateLimit, PassRateLimit, PassLimits, Down
  <2>2. body' = body
    BY DEF guardVars
  <2>3. QED
    BY <1>1, <2>1, <2>2 DEF TooLarge, ByteLimit
<1>6. Answered'
  BY <1>1 DEF Answered
<1>7. QED
  BY <1>1, <1>2, <1>3, <1>4, <1>5, <1>6 DEF PipelineInv

\* The fields of the response that an error renders.
IsError(e, layer, status, id) ==
  /\ e \in Responses /\ e.by = layer /\ e.status = status /\ e.bodyId = id
  /\ e.headerId = NoId /\ ~e.secured /\ ~e.rated /\ ~e.huge

\* The response that is made of an error is one.
LEMMA Errors ==
  ASSUME NEW layer \in Layers, NEW status \in Statuses, NEW id \in Ids
  PROVE  IsError(ErrorResponse(layer, status, id), layer, status, id)
<1>1. PICK n : n = NoResponse
  OBVIOUS
<1>2. n \in Responses /\ n.headerId = NoId /\ ~n.secured /\ ~n.rated /\ ~n.huge
  BY <1>1 DEF NoResponse, Responses, Statuses, Layers, Ids
<1>3. ErrorResponse(layer, status, id) = [n EXCEPT !.by = layer, !.status = status, !.bodyId = id]
  BY <1>1 DEF ErrorResponse
<1>4. QED
  BY <1>2, <1>3 DEF IsError, Responses

\* A response begins its way up.
LEMMA AnswerKeeps ==
  ASSUME PipelineInv, UNCHANGED guardVars,
         \/ RateLimited \/ RejectSize \/ NoRoute \/ BodyUnreadable
         \/ RouteReturns(FALSE) \/ RouteReturns(TRUE) \/ RouteCrashes
         \/ \E status \in AppStatuses : RouteRaises(status)
  PROVE  PipelineInv'
<1>1. /\ req' = req /\ contextId' = contextId /\ contextId = IdFrom("by_context")
      /\ IdFrom("by_context")' = IdFrom("by_context") /\ IdFrom("by_limits")' = IdFrom("by_limits")
      /\ req \in Arrivals /\ charged \in BOOLEAN /\ ran \in BOOLEAN /\ body' = body /\ verdict' = verdict
  BY DEF RateLimited, RejectSize, NoRoute, BodyUnreadable, RouteReturns, RouteRaises, RouteCrashes,
         PipelineInv, IdFrom, guardVars
<1>2. contextId \in Ids /\ IdFrom("by_limits") \in Ids /\ NoId \in Ids
  BY <1>1 DEF IdFrom, Ids
<1>3. CASE RateLimited
  <2>1. /\ resp' = [ErrorResponse("limiter", 429, contextId) EXCEPT !.headerId = contextId, !.rated = TRUE]
        /\ pc' = "context_out" /\ req.counted /\ charged' = TRUE /\ ran' = ran /\ logged' = logged
    BY <1>3 DEF RateLimited, Answer
  <2>2. ~ran /\ logged = NoId
    BY <1>3 DEF RateLimited, PipelineInv
  <2>3. IsError(ErrorResponse("limiter", 429, contextId), "limiter", 429, contextId)
    BY <1>2, Errors DEF Statuses, AppStatuses, Layers
  <2>4. /\ resp' \in Responses /\ resp'.by = "limiter" /\ resp'.status = 429 /\ resp'.bodyId = contextId
        /\ ~resp'.secured /\ resp'.rated /\ ~resp'.huge
    <3>1. PICK e \in Responses : /\ e = ErrorResponse("limiter", 429, contextId) /\ e.by = "limiter" /\ e.status = 429
                                /\ e.bodyId = contextId /\ ~e.secured /\ ~e.huge
      BY <2>3 DEF IsError
    <3>2. resp' = [[e EXCEPT !.headerId = contextId] EXCEPT !.rated = TRUE]
      BY <2>1, <3>1
    <3>3. PICK d : d = [e EXCEPT !.headerId = contextId]
      OBVIOUS
    <3>4. d \in Responses /\ d.by = "limiter" /\ d.status = 429 /\ d.bodyId = contextId /\ ~d.secured /\ ~d.huge
      BY <1>2, <3>1, <3>3 DEF Responses
    <3>5. resp' = [d EXCEPT !.rated = TRUE]
      BY <3>2, <3>3
    <3>6. resp' \in Responses /\ resp'.rated
      BY <3>4, <3>5 DEF Responses
    <3>7. resp'.by = "limiter" /\ resp'.status = 429 /\ resp'.bodyId = contextId
      BY <3>4, <3>5 DEF Responses
    <3>8. ~resp'.secured /\ ~resp'.huge
      BY <3>4, <3>5 DEF Responses
    <3>9. QED
      BY <3>6, <3>7, <3>8
  <2>5. Answered'
    BY <1>1, <2>1, <2>4 DEF Answered, OfLimiter
  <2>6. QED
    BY <1>1, <2>1, <2>2, <2>4, <2>5 DEF PipelineInv, Places
<1>4. CASE RejectSize
  <2>1. /\ resp' = [ErrorResponse("limits", 413, IdFrom("by_limits")) EXCEPT !.headerId = IdFrom("by_limits")]
        /\ pc' = "rate_limit_out" /\ charged' = charged /\ ran' = ran /\ logged' = logged
    BY <1>4 DEF RejectSize, Answer
  <2>2. ~ran /\ logged = NoId /\ (charged <=> req.counted)
    BY <1>4 DEF RejectSize, PipelineInv
  <2>3. IsError(ErrorResponse("limits", 413, IdFrom("by_limits")), "limits", 413, IdFrom("by_limits"))
    BY <1>2, Errors DEF Statuses, AppStatuses, Layers
  <2>4. /\ resp' \in Responses /\ resp'.by = "limits" /\ resp'.status = 413 /\ resp'.bodyId = IdFrom("by_limits")
        /\ ~resp'.secured /\ ~resp'.huge
    BY <1>2, <2>1, <2>3 DEF IsError, Responses
  <2>5. Answered'
    BY <1>1, <2>1, <2>4 DEF Answered, OfLimits
  <2>6. QED
    BY <1>1, <2>1, <2>2, <2>4, <2>5 DEF PipelineInv, Places
<1>5. ASSUME NEW status \in {400} \cup AppStatuses, Answer("headers_out", ErrorResponse("app", status, contextId)),
             charged' = charged, logged' = logged, pc = "app",
             ran' => verdict = "read" /\ req.url = "ok", ran' \in BOOLEAN
      PROVE  PipelineInv'
  <2>1. /\ resp' = ErrorResponse("app", status, contextId) /\ pc' = "headers_out"
        /\ logged = NoId /\ (charged <=> req.counted)
    BY <1>5 DEF Answer, PipelineInv
  <2>2. IsError(resp', "app", status, contextId)
    BY <1>2, <2>1, Errors DEF Statuses, Layers
  <2>3. Answered' /\ resp' \in Responses
    BY <1>1, <2>1, <2>2 DEF Answered, OfApp, IsError
  <2>4. QED
    BY <1>1, <1>5, <2>1, <2>3 DEF PipelineInv, Places
<1>6. CASE NoRoute \/ BodyUnreadable \/ \E status \in AppStatuses : RouteRaises(status)
  <2>1. /\ \E status \in {400} \cup AppStatuses : Answer("headers_out", ErrorResponse("app", status, contextId))
        /\ charged' = charged /\ logged' = logged /\ pc = "app"
        /\ ran' = ran \/ (ran' = TRUE /\ verdict = "read")
    BY <1>6 DEF NoRoute, BodyUnreadable, RouteRaises, AppStatuses
  <2>2. req.url = "ok" /\ ~ran
    BY <1>1, <2>1 DEF PipelineInv, TooLarge, Arrivals
  <2>3. (ran' => verdict = "read" /\ req.url = "ok") /\ ran' \in BOOLEAN
    <3>1. CASE ran' = ran
      BY <1>1, <2>2, <3>1
    <3>2. CASE ran' = TRUE /\ verdict = "read"
      BY <2>2, <3>2
    <3>3. QED
      BY <2>1, <3>1, <3>2
  <2>4. QED
    BY <1>5, <2>1, <2>3
<1>7. ASSUME NEW huge \in BOOLEAN, RouteReturns(huge)
      PROVE  PipelineInv'
  <2>1. /\ resp' = [by |-> "app", status |-> 200, bodyId |-> NoId, headerId |-> NoId,
                    secured |-> FALSE, rated |-> FALSE, huge |-> huge]
        /\ pc' = "headers_out" /\ logged = NoId /\ logged' = logged
        /\ charged' = charged /\ (charged <=> req.counted) /\ verdict = "read" /\ ran' = TRUE
    BY <1>7 DEF RouteReturns, Answer, NoResponse, PipelineInv
  <2>2. req.url = "ok"
    BY <1>1, <1>7 DEF RouteReturns, PipelineInv, TooLarge, Arrivals
  <2>3. resp' \in Responses
    BY <1>2, <2>1 DEF Responses, Statuses, Layers
  <2>4. Answered'
    BY <2>1 DEF Answered, OfApp
  <2>5. QED
    BY <1>1, <2>1, <2>2, <2>3, <2>4 DEF PipelineInv, Places
<1>8. CASE RouteCrashes
  <2>1. /\ resp' = ErrorResponse("server", 500, contextId) /\ pc' = "done" /\ logged' = contextId
        /\ charged' = charged /\ verdict = "read" /\ ran' = TRUE
    BY <1>8 DEF RouteCrashes, Answer
  <2>2. req.url = "ok" /\ (charged <=> req.counted)
    BY <1>1, <1>8 DEF RouteCrashes, PipelineInv, TooLarge, Arrivals
  <2>3. IsError(resp', "server", 500, contextId)
    BY <1>2, <2>1, Errors DEF Statuses, AppStatuses, Layers
  <2>4. Answered' /\ resp' \in Responses
    BY <1>1, <2>1, <2>3 DEF Answered, IsError
  <2>5. QED
    BY <1>1, <2>1, <2>2, <2>4 DEF PipelineInv, Places
<1>9. QED
  BY <1>3, <1>4, <1>6, <1>7, <1>8

\* The way up.
LEMMA UpKeeps ==
  ASSUME PipelineInv, UNCHANGED guardVars, LeaveHeaders \/ LeaveRateLimit \/ LeaveContext
  PROVE  PipelineInv'
<1>1. /\ req' = req /\ contextId' = contextId /\ contextId = IdFrom("by_context")
      /\ IdFrom("by_context")' = IdFrom("by_context") /\ IdFrom("by_limits")' = IdFrom("by_limits")
      /\ req \in Arrivals /\ charged \in BOOLEAN /\ ran \in BOOLEAN /\ verdict' = verdict
      /\ charged' = charged /\ ran' = ran /\ (charged <=> req.counted)
      /\ ran => verdict = "read" /\ req.url = "ok"
      /\ resp \in Responses /\ req.counted \in BOOLEAN /\ logged = NoId
  BY DEF LeaveHeaders, LeaveRateLimit, LeaveContext, PipelineInv, IdFrom, guardVars, Arrivals
<1>2. contextId \in Ids /\ NoId \in Ids
  BY <1>1 DEF IdFrom, Ids
<1>3. CASE LeaveHeaders
  <2>1. resp' = [resp EXCEPT !.secured = TRUE] /\ pc' = "rate_limit_out" /\ logged' = logged /\ OfApp(resp)
    BY <1>3 DEF LeaveHeaders, Answer, PipelineInv, Answered
  <2>2. resp' \in Responses /\ OfApp(resp)' /\ resp'.secured
    BY <1>1, <2>1, ZenonT(40) DEF Responses, OfApp
  <2>3. Answered'
    BY <2>1, <2>2 DEF Answered
  <2>4. QED
    BY <1>1, <2>1, <2>2, <2>3 DEF PipelineInv, Places
<1>4. CASE LeaveRateLimit
  <2>1. /\ resp' = [resp EXCEPT !.rated = req.counted] /\ pc' = "context_out" /\ logged' = logged
        /\ OfLimits(resp) \/ (OfApp(resp) /\ resp.secured)
    BY <1>4 DEF LeaveRateLimit, Answer, PipelineInv, Answered
  <2>2. resp' \in Responses /\ (OfLimits(resp)' \/ (OfApp(resp)' /\ resp'.secured))
    BY <1>1, <2>1 DEF Responses, OfApp, OfLimits
  <2>3. resp'.rated <=> charged'
    BY <1>1, <2>1 DEF Responses
  <2>4. Answered'
    BY <2>1, <2>2, <2>3 DEF Answered
  <2>5. QED
    BY <1>1, <2>1, <2>2, <2>4 DEF PipelineInv, Places
<1>5. CASE LeaveContext
  <2>1. /\ resp' = [Delivered EXCEPT !.headerId = contextId] /\ pc' = "done" /\ logged' = contextId
        /\ OfLimits(resp) \/ (OfApp(resp) /\ resp.secured) \/ OfLimiter(resp)
        /\ resp.rated <=> charged
    BY <1>5 DEF LeaveContext, Answer, PipelineInv, Answered
  <2>2. CASE resp.huge
    <3>1. resp' = [ErrorResponse("context", 500, contextId) EXCEPT !.headerId = contextId]
      BY <2>1, <2>2 DEF Delivered
    <3>2. IsError(ErrorResponse("context", 500, contextId), "context", 500, contextId)
      BY <1>2, Errors DEF Statuses, AppStatuses, Layers
    <3>3. /\ resp' \in Responses /\ resp'.by = "context" /\ resp'.status = 500
          /\ resp'.bodyId = contextId /\ resp'.headerId = contextId /\ ~resp'.huge
      BY <1>2, <3>1, <3>2 DEF IsError, Responses
    <3>4. Answered'
      BY <1>1, <2>1, <3>3 DEF Answered
    <3>5. QED
      BY <1>1, <2>1, <3>3, <3>4 DEF PipelineInv, Places
  <2>3. CASE ~resp.huge
    <3>1. resp' = [resp EXCEPT !.headerId = contextId]
      BY <2>1, <2>3 DEF Delivered
    <3>2. resp' \in Responses /\ resp'.headerId = contextId /\ (resp'.rated <=> charged) /\ ~resp'.huge
      BY <1>1, <1>2, <2>1, <2>3, <3>1 DEF Responses
    <3>3. OfLimits(resp)' \/ (OfApp(resp)' /\ resp'.secured) \/ OfLimiter(resp)'
      BY <1>1, <2>1, <3>1 DEF Responses, OfApp, OfLimits, OfLimiter
    <3>4. Answered'
      BY <1>1, <2>1, <3>2, <3>3 DEF Answered
    <3>5. QED
      BY <1>1, <2>1, <3>2, <3>4 DEF PipelineInv, Places
  <2>4. QED
    BY <2>2, <2>3
<1>6. QED
  BY <1>3, <1>4, <1>5

Inv == GuardInv /\ PipelineInv

\* The pipeline and its guard keep their invariants together.
LEMMA InvAlways == Spec => []Inv
<1>1. Init => Inv
  BY GuardStarts, PipelineStarts DEF Init, Inv
<1>2. Inv /\ [Next]_<<pipelineVars, guardVars>> => Inv'
  <2> SUFFICES ASSUME Inv, [Next]_<<pipelineVars, guardVars>> PROVE Inv'
    OBVIOUS
  <2>1. ASSUME UNCHANGED guardVars
        PROVE  GuardInv'
    BY <2>1 DEF guardVars, Inv, GuardInv, ByteLimit, Judges, Knows, Exceeds
  <2>2. CASE ReadBody
    BY <2>2, GuardReceives, GuardCompletes, ReadingKeeps DEF ReadBody, Inv
  <2>3. CASE Handle /\ UNCHANGED guardVars
    BY <2>1, <2>3, DownKeeps, AnswerKeeps, UpKeeps DEF Handle, Inv
  <2>4. CASE UNCHANGED <<pipelineVars, guardVars>>
    <3>1. UNCHANGED <<req, pc, contextId, charged, ran, resp, logged, body, verdict>>
      BY <2>4 DEF pipelineVars, guardVars
    <3>2. PipelineInv'
      BY <3>1 DEF Inv, PipelineInv, Answered, IdFrom, TooLarge, ByteLimit, OfApp, OfLimits, OfLimiter
    <3>3. QED
      BY <2>1, <2>4, <3>2 DEF Inv
  <2>5. QED
    BY <2>2, <2>3, <2>4 DEF Next
<1>3. QED
  BY <1>1, <1>2, PTL DEF Spec

\* RequestContext, RateLimit, RequestLimit and SecurityHeaders together: for
\* every request, a valid id of the client comes back in every error and in
\* the log, whichever layer answers; the answer carries the request's id
\* unless a crash went through every layer, the limiter's state exactly when it
\* counted the request, and the security headers whenever the application
\* answered, whatever the status.
THEOREM EveryReplyExact == Spec => []RepliesExact
<1>1. Inv => RepliesExact
  <2> SUFFICES ASSUME Inv PROVE RepliesExact
    OBVIOUS
  <2>1. contextId \in Ids /\ logged \in Ids
    BY DEF Inv, PipelineInv, IdFrom, Ids
  <2>2. TypeOK
    BY <2>1, GuardTypes DEF Inv, PipelineInv, TypeOK, Responses, Statuses, Layers
  <2>3. ASSUME pc = "done"
        PROVE  /\ ~resp.huge /\ logged = contextId /\ contextId = IdFrom("by_context")
               /\ \/ /\ resp.status = 500 /\ resp.bodyId = contextId
                     /\ resp.by = "server" \/ (resp.by = "context" /\ resp.headerId = contextId)
                  \/ /\ resp.headerId = contextId /\ (resp.rated <=> charged)
                     /\ OfLimits(resp) \/ (OfApp(resp) /\ resp.secured) \/ OfLimiter(resp)
    BY <2>3 DEF Inv, PipelineInv, Answered
  <2>4. SuppliedIdKept
    BY <2>3 DEF SuppliedIdKept, IdFrom, OfLimits, OfApp, OfLimiter
  <2>5. Decorated
    BY <2>3 DEF Decorated, OfLimits, OfApp, OfLimiter
  <2>6. QED
    BY <2>2, <2>4, <2>5 DEF RepliesExact
<1>2. QED
  BY <1>1, InvAlways, PTL

\* limited_receive: a body is refused exactly for what its text says, however
\* long it is and wherever the chunks cut it, and the scanner ends a document
\* outside of every string and container.
THEOREM EveryBodyJudged == Spec => []BodiesJudged
<1>1. Inv => BodiesJudged
  BY GuardJudges DEF Inv
<1>2. QED
  BY <1>1, InvAlways, PTL

\* The middleware stack as a guard: no route runs for a request that was not
\* counted when it had to be, or whose URL, size, nesting or number of
\* containers exceeds its limit; and no response over the limit is delivered.
THEOREM EveryRouteGuarded == Spec => []WorkGuarded
<1>1. Inv => WorkGuarded
  <2> SUFFICES ASSUME Inv PROVE WorkGuarded
    OBVIOUS
  <2>1. ASSUME ran
        PROVE  /\ req.counted => charged
               /\ req.url = "ok"
               /\ Len(body.text) <= ByteLimit
               /\ body.json => Allowed
    <3>1. verdict = "read" /\ req.url = "ok" /\ (req.counted => charged)
      BY <2>1 DEF Inv, PipelineInv
    <3>2. QED
      BY <3>1, GuardJudges DEF Inv
  <2>2. ASSUME pc = "done"
        PROVE  ~resp.huge /\ (resp.status = 200 \/ resp.bodyId # NoId)
    <3>1. IdFrom("by_limits") # NoId /\ contextId # NoId
      BY <2>2 DEF Inv, PipelineInv, IdFrom, NoId
    <3>2. QED
      BY <2>2, <3>1 DEF Inv, PipelineInv, Answered, OfLimits, OfApp, OfLimiter
  <2>3. QED
    BY <2>1, <2>2 DEF WorkGuarded
<1>2. QED
  BY <1>1, InvAlways, PTL
-----------------------------------------------------------------------------
(***************************************************************************)
(* RedisBackend.  The processes together keep the limit, a window of the   *)
(* shared counter never moves, and what is served out of Redis is a value  *)
(* that a process made and stored no longer ago than the cache time.       *)
(***************************************************************************)

Key == [n : Nat, expires : Int, life : Nat]

\* The shape of what the steps read: a request waits for the limiter only under
\* a limit that admits something, an answer of the script is a number and the
\* life of the counter it belongs to, and a counter is of the current life.
Shape ==
  /\ DOMAIN at = Requests /\ DOMAIN reply = Requests
  /\ lives \in Nat
  /\ \A r \in Requests :
       /\ at[r] \in {"limit_sent", "limit_run"} => Limit > 0
       /\ at[r] = "limit_run" => reply[r] \in Nat \X (0..lives)
  /\ counter # << >> =>
       counter = <<counter[1]>> /\ counter[1] \in Key /\ counter[1].life = lives

\* The answers of the current counter that will admit a request, once they are
\* looked at.
Promised == {r \in Requests : at[r] = "limit_run" /\ reply[r][2] = lives /\ Within(reply[r][1])}

Spent == granted + Cardinality(Promised)

\* SharedQuota is not inductive: an answer counts from the moment the script
\* has run, and while the counter lives, it is ahead of what was promised.
Quota ==
  /\ granted \in Nat
  /\ Spent <= (IF Limit > 0 THEN Limit ELSE 0)
  /\ counter # << >> => Spent <= counter[1].n

QuotaInv == now \in Nat /\ Shape /\ Quota

(***************************************************************************)
(* What Goto does to the places of the other requests.                     *)
(***************************************************************************)
LEMMA Gone ==
  ASSUME DOMAIN at = Requests, DOMAIN reply = Requests,
         NEW r \in Requests, NEW place, NEW holds, Goto(r, place, holds)
  PROVE  /\ DOMAIN at' = Requests /\ DOMAIN reply' = Requests
         /\ at'[r] = place /\ reply'[r] = holds
         /\ \A q \in Requests \ {r} : at'[q] = at[q] /\ reply'[q] = reply[q]
BY DEF Goto

\* The promised admissions can be counted.
LEMMA PromisedFinite ==
  ASSUME IsFiniteSet(Requests)
  PROVE  IsFiniteSet(Promised) /\ Cardinality(Promised) \in Nat
<1>1. Promised \in SUBSET Requests
  BY DEF Promised
<1>2. QED
  BY <1>1, FS_Subset, FS_CardinalityType

\* Nothing was let through yet.
LEMMA QuotaInit ==
  ASSUME IsFiniteSet(Requests), Limit \in Int, RedisInit
  PROVE  QuotaInv
<1>1. Promised = {}
  BY DEF RedisInit, Promised
<1>2. Cardinality(Promised) = 0
  BY <1>1, FS_EmptySet
<1>3. QED
  BY <1>2 DEF RedisInit, QuotaInv, Shape, Quota, Spent

\* A step that makes no promise and admits nobody may drop answers, the counter
\* or both.
LEMMA QuietStep ==
  ASSUME IsFiniteSet(Requests), Limit \in Int, QuotaInv,
         now' \in Nat, UNCHANGED <<granted, lives>>, counter' \in {counter, << >>},
         DOMAIN at' = Requests, DOMAIN reply' = Requests,
         \A r \in Requests :
           /\ at'[r] = "limit_sent" => Limit > 0
           /\ at'[r] = "limit_run" => at[r] = "limit_run" /\ reply'[r] = reply[r]
  PROVE  QuotaInv'
<1>1. Promised' \in SUBSET Promised
  BY DEF Promised, Within
<1>2. Cardinality(Promised') \in Nat /\ Cardinality(Promised') <= Cardinality(Promised)
  BY <1>1, PromisedFinite, FS_Subset, FS_CardinalityType
<1>3. Shape'
  BY DEF QuotaInv, Shape
<1>4. Spent' <= Spent /\ Spent \in Nat /\ Spent' \in Nat
  BY <1>2, PromisedFinite DEF Spent, QuotaInv, Quota
<1>5. Quota'
  BY <1>4 DEF Quota, QuotaInv, Shape, Key
<1>6. QED
  BY <1>3, <1>5 DEF QuotaInv

\* The script promises one request more than it has promised so far, and only
\* if the counter is within the limit; a new counter has promised nothing.
LEMMA ScriptStep ==
  ASSUME IsFiniteSet(Requests), Limit \in Int, Window \in Int, QuotaInv,
         NEW r \in Requests, RunScript(r)
  PROVE  QuotaInv'
<1>0. PICK c : c = Counted(counter)
  OBVIOUS
<1>1. /\ Limit > 0 /\ at[r] = "limit_sent"
      /\ counter' = <<c>> /\ lives' = c.life /\ now' = now
      /\ granted' = IF lives' = lives THEN granted ELSE 0
      /\ Goto(r, "limit_run", <<c.n, c.life>>)
  BY <1>0 DEF RunScript, At, QuotaInv, Shape
<1>2. /\ at'[r] = "limit_run" /\ reply'[r] = <<c.n, c.life>>
      /\ DOMAIN at' = Requests /\ DOMAIN reply' = Requests
      /\ \A q \in Requests \ {r} : at'[q] = at[q] /\ reply'[q] = reply[q]
  BY <1>1, Gone DEF QuotaInv, Shape
<1>3. c \in Key /\ c.life \in {lives, lives + 1} /\ (c.life = lives <=> counter # << >>)
  BY <1>0 DEF Counted, QuotaInv, Shape, Key
<1>4. Shape'
  <2>1. \A q \in Requests : at'[q] = "limit_run" => reply'[q] \in Nat \X (0..lives')
    BY <1>1, <1>2, <1>3 DEF QuotaInv, Shape, Key
  <2>2. \A q \in Requests : at'[q] \in {"limit_sent", "limit_run"} => Limit > 0
    BY <1>1
  <2>3. counter' # << >> => counter' = <<counter'[1]>> /\ counter'[1] \in Key /\ counter'[1].life = lives'
    BY <1>1, <1>3
  <2>4. lives' \in Nat
    BY <1>1, <1>3 DEF QuotaInv, Shape
  <2>5. QED
    BY <1>2, <2>1, <2>2, <2>3, <2>4 DEF Shape
<1>5. CASE counter # << >>
  <2>1. c.n = counter[1].n + 1 /\ counter[1].n \in Nat /\ lives' = lives /\ granted' = granted
    BY <1>0, <1>1, <1>5 DEF Counted, QuotaInv, Shape, Key
  <2>2. r \notin Promised
    BY <1>1 DEF Promised
  <2>3. Promised' = IF Within(c.n) THEN Promised \cup {r} ELSE Promised
    BY <1>1, <1>2, <2>1 DEF Promised, Within
  <2>4. Cardinality(Promised') = IF Within(c.n) THEN Cardinality(Promised) + 1 ELSE Cardinality(Promised)
    BY <2>2, <2>3, PromisedFinite, FS_AddElement
  <2>5. Spent' = IF c.n <= Limit THEN Spent + 1 ELSE Spent
    BY <2>1, <2>4, PromisedFinite DEF Spent, Within, QuotaInv, Quota
  <2>6. Spent \in Nat /\ Spent <= counter[1].n /\ Spent <= Limit
    BY <1>1, <1>5, PromisedFinite DEF QuotaInv, Quota, Spent
  <2>7. Quota'
    BY <1>1, <2>1, <2>5, <2>6 DEF Quota, QuotaInv
  <2>8. QED
    BY <1>1, <1>4, <2>7 DEF QuotaInv
<1>6. CASE counter = << >>
  <2>1. c.n = 1 /\ lives' = lives + 1 /\ lives' # lives /\ granted' = 0
    BY <1>0, <1>1, <1>6 DEF Counted, QuotaInv, Shape
  <2>2. \A q \in Requests \ {r} : q \notin Promised'
    <3>1. \A q \in Requests \ {r} : at'[q] = "limit_run" => reply'[q][2] \in 0..lives
      BY <1>2 DEF QuotaInv, Shape
    <3>2. QED
      BY <2>1, <3>1 DEF Promised, QuotaInv, Shape
  <2>3. Promised' \in {{}, {r}}
    BY <2>2 DEF Promised
  <2>4. Cardinality(Promised') \in {0, 1}
    BY <2>3, FS_EmptySet, FS_Singleton
  <2>5. Quota'
    BY <1>1, <2>1, <2>4 DEF Quota, Spent
  <2>6. QED
    BY <1>1, <1>4, <2>5 DEF QuotaInv
<1>7. QED
  BY <1>5, <1>6

\* Looking at an answer redeems its promise, if it is still of this counter.
LEMMA VerdictStep ==
  ASSUME IsFiniteSet(Requests), Limit \in Int, QuotaInv, NEW r \in Requests, Verdict(r)
  PROVE  QuotaInv'
<1>1. /\ at[r] = "limit_run" /\ UNCHANGED <<now, counter, lives>>
  BY DEF Verdict, At, shared
<1>2. CASE ~Within(reply[r][1]) \/ reply[r][2] # lives
  <2>1. UNCHANGED granted /\ \E place \in {"admitted", "idle"} : Goto(r, place, << >>)
    BY <1>2 DEF Verdict, End
  <2>2. QED
    BY <1>1, <2>1, Gone, QuietStep DEF QuotaInv, Shape
<1>3. CASE Within(reply[r][1]) /\ reply[r][2] = lives
  <2>1. granted' = granted + 1 /\ Goto(r, "admitted", << >>)
    BY <1>3 DEF Verdict
  <2>2. /\ at'[r] = "admitted" /\ DOMAIN at' = Requests /\ DOMAIN reply' = Requests
        /\ \A q \in Requests \ {r} : at'[q] = at[q] /\ reply'[q] = reply[q]
    BY <2>1, Gone DEF QuotaInv, Shape
  <2>3. r \in Promised /\ Promised' = Promised \ {r}
    BY <1>1, <1>3, <2>2 DEF Promised, Within
  <2>4. Cardinality(Promised') = Cardinality(Promised) - 1
    BY <2>3, PromisedFinite, FS_RemoveElement
  <2>5. Spent' = Spent /\ Spent \in Nat
    BY <2>1, <2>4, PromisedFinite DEF Spent, QuotaInv, Quota
  <2>6. Shape'
    BY <1>1, <2>2 DEF QuotaInv, Shape
  <2>7. Quota'
    BY <1>1, <2>1, <2>5 DEF QuotaInv, Quota
  <2>8. QED
    BY <1>1, <2>6, <2>7 DEF QuotaInv
<1>4. QED
  BY <1>2, <1>3

\* Every other step of a request leaves the answers of the others alone and
\* begins to wait for the limiter only under a limit that admits something.
LEMMA RequestQuota ==
  ASSUME IsFiniteSet(Requests), Limit \in Int, Window \in Int, QuotaInv,
         NEW r \in Requests, Request(r)
  PROVE  QuotaInv'
<1>1. CASE RunScript(r)
  BY <1>1, ScriptStep
<1>2. CASE Verdict(r)
  BY <1>2, VerdictStep
<1>3. CASE ~RunScript(r) /\ ~Verdict(r)
  <2>1. UNCHANGED <<now, granted, lives, counter>>
    BY <1>3 DEF Request, AskRedis, AskMemory, Unlimited, LimiterFails, Admitted, RunGet, Hit, RunDelete,
                Fill, RunSet, CacheFails, NoServer, shared
  <2>2. /\ DOMAIN at' = Requests /\ DOMAIN reply' = Requests
        /\ \A q \in Requests \ {r} : at'[q] = at[q] /\ reply'[q] = reply[q]
        /\ at'[r] # "limit_run" /\ (at'[r] = "limit_sent" => Limit > 0)
    <3> USE DEF Goto, End, QuotaInv, Shape
    <3>1. CASE AskRedis(r) \/ AskMemory(r) \/ Unlimited(r)
      BY <3>1 DEF AskRedis, AskMemory, Unlimited
    <3>2. CASE LimiterFails(r) \/ Admitted(r) \/ RunGet(r)
      BY <3>2 DEF LimiterFails, Admitted, RunGet
    <3>3. CASE Hit(r) \/ RunDelete(r) \/ RunSet(r)
      BY <3>3 DEF Hit, RunDelete, RunSet
    <3>4. CASE Fill(r) \/ CacheFails(r)
      BY <3>4 DEF Fill, CacheFails
    <3>5. QED
      BY <1>3, <3>1, <3>2, <3>3, <3>4 DEF Request
  <2>3. QED
    BY <2>1, <2>2, QuietStep DEF QuotaInv, Shape
<1>4. QED
  BY <1>1, <1>2, <1>3

\* Processes and the server only ever take answers and the counter away.
LEMMA WorldQuota ==
  ASSUME IsFiniteSet(Requests), Limit \in Int, QuotaInv,
         \/ Crash \/ Recover \/ Corrupt \/ Tick \/ UNCHANGED vars
         \/ \E p \in Processes : Start(p) \/ Stop(p) \/ Close(p) \/ Kill(p)
  PROVE  QuotaInv'
<1>1. UNCHANGED <<granted, lives>> /\ now' \in Nat /\ counter' \in {counter, << >>}
  <2>1. CASE Crash \/ Recover \/ Corrupt \/ Tick \/ UNCHANGED vars
    BY <2>1 DEF Crash, Recover, Corrupt, Tick, Live, vars, shared, QuotaInv
  <2>2. CASE \E p \in Processes : Start(p) \/ Stop(p) \/ Close(p) \/ Kill(p)
    BY <2>2 DEF Start, Stop, Close, Kill, shared, QuotaInv
  <2>3. QED
    BY <2>1, <2>2
<1>2. UNCHANGED <<at, reply>> \/ \E p \in Processes : Kill(p)
  BY DEF Crash, Recover, Corrupt, Tick, Start, Stop, Close, vars
<1>3. CASE UNCHANGED <<at, reply>>
  BY <1>1, <1>3, QuietStep DEF QuotaInv, Shape
<1>4. CASE \E p \in Processes : Kill(p)
  <2>1. /\ DOMAIN at' = Requests /\ DOMAIN reply' = Requests
        /\ \A r \in Requests : at'[r] = "idle" \/ (at'[r] = at[r] /\ reply'[r] = reply[r])
    BY <1>4 DEF Kill
  <2>2. QED
    BY <1>1, <2>1, QuietStep DEF QuotaInv, Shape
<1>5. QED
  BY <1>2, <1>3, <1>4

\* Every step keeps the admissions within what the counter says.
LEMMA QuotaStep ==
  ASSUME IsFiniteSet(Requests), Limit \in Int, Window \in Int, QuotaInv, [RedisNext]_vars
  PROVE  QuotaInv'
BY RequestQuota, WorldQuota DEF RedisNext

\* The processes that share a counter never let more requests through on its
\* answers than the limit, in whatever order they ask, look and die.
THEOREM QuotaShared ==
  ASSUME IsFiniteSet(Requests), Limit \in Int, Window \in Int
  PROVE  RedisSpec => []SharedQuota
<1>1. RedisInit => QuotaInv
  BY QuotaInit
<1>2. QuotaInv /\ [RedisNext]_vars => QuotaInv'
  BY QuotaStep
<1>3. QuotaInv => SharedQuota
  BY PromisedFinite DEF QuotaInv, Quota, Spent, SharedQuota
<1>4. QED
  BY <1>1, <1>2, <1>3, PTL DEF RedisSpec

(***************************************************************************)
(* A window never moves.                                                   *)
(***************************************************************************)
\* The script keeps the expiry of a counter that is there, and nothing else
\* touches it but by dropping it.
LEMMA WindowStep ==
  ASSUME QuotaInv, [RedisNext]_vars, counter # << >>, counter' # << >>,
         counter'[1].life = counter[1].life
  PROVE  counter'[1].expires = counter[1].expires
<1>1. CASE \E r \in Requests : RunScript(r)
  BY <1>1 DEF RunScript, Counted, QuotaInv, Shape, Key
<1>2. CASE \E r \in Requests : Request(r) /\ ~RunScript(r)
  BY <1>2 DEF Request, AskRedis, AskMemory, Unlimited, Verdict, LimiterFails, Admitted, RunGet, Hit,
              RunDelete, Fill, RunSet, CacheFails, NoServer, shared
<1>3. CASE Crash \/ Recover \/ Corrupt \/ Tick \/ UNCHANGED vars
  BY <1>3 DEF Crash, Recover, Corrupt, Tick, Live, vars, shared
<1>4. CASE \E p \in Processes : Start(p) \/ Stop(p) \/ Close(p) \/ Kill(p)
  BY <1>4 DEF Start, Stop, Close, Kill, shared
<1>5. QED
  BY <1>1, <1>2, <1>3, <1>4 DEF RedisNext

\* No request moves the end of a window that it did not begin.
THEOREM WindowKept ==
  ASSUME IsFiniteSet(Requests), Limit \in Int, Window \in Int
  PROVE  RedisSpec => WindowNeverMoves
<1>1. RedisInit => QuotaInv
  BY QuotaInit
<1>2. QuotaInv /\ [RedisNext]_vars => QuotaInv'
  BY QuotaStep
<1>3. QuotaInv /\ [RedisNext]_vars =>
        [counter # << >> /\ counter' # << >> /\ counter'[1].life = counter[1].life
           => counter'[1].expires = counter[1].expires]_vars
  BY WindowStep
<1>4. QED
  BY <1>1, <1>2, <1>3, PTL DEF RedisSpec, WindowNeverMoves

(***************************************************************************)
(* What is served was made by a process, and not too long ago.             *)
(***************************************************************************)
\* What Redis holds, what it has answered and what is on its way to it.
Made == 0..now

Held(raw) == raw = << >> \/ (raw = <<raw[1]>> /\ raw[1] \in Made \cup {Corrupted})

ServedInv ==
  /\ now \in Nat
  /\ DOMAIN at = Requests /\ DOMAIN reply = Requests /\ DOMAIN phase = Processes
  /\ \A r \in Requests :
       /\ at[r] = "get_run" => Held(reply[r])
       /\ at[r] = "set_sent" => reply[r][1] \in Made
  /\ entry # << >> =>
       /\ entry = <<entry[1]>>
       /\ entry[1].value \in Made \cup {Corrupted}
       /\ entry[1].expires \in now + 1..now + Ttl

\* Nothing is stored yet.
LEMMA ServedInit == RedisInit => ServedInv
BY DEF RedisInit, ServedInv

\* A step of a request keeps what the answers are made of if its own place
\* holds a fitting one.
LEMMA RequestServed ==
  ASSUME Ttl \in Nat \ {0}, ServedInv, NEW r \in Requests, Request(r)
  PROVE  ServedInv'
<1> USE DEF ServedInv, Made, Held, Goto, End
<1>1. CASE AskRedis(r) \/ AskMemory(r) \/ Unlimited(r)
  BY <1>1 DEF AskRedis, AskMemory, Unlimited, NoServer, shared, processes
<1>2. CASE RunScript(r) \/ Verdict(r) \/ LimiterFails(r) \/ Admitted(r)
  BY <1>2 DEF RunScript, Verdict, LimiterFails, Admitted, NoServer, shared, processes
<1>3. CASE RunGet(r)
  BY <1>3 DEF RunGet, NoServer, shared, processes
<1>4. CASE Hit(r) \/ CacheFails(r)
  BY <1>4 DEF Hit, CacheFails, NoServer, shared, processes
<1>5. CASE RunDelete(r)
  BY <1>5 DEF RunDelete, processes
<1>6. CASE Fill(r)
  BY <1>6 DEF Fill, NoServer, shared, processes
<1>7. CASE RunSet(r)
  BY <1>7 DEF RunSet, At, Stored, processes
<1>8. QED
  BY <1>1, <1>2, <1>3, <1>4, <1>5, <1>6, <1>7 DEF Request

\* What happens around the requests keeps what is stored true.
LEMMA WorldServed ==
  ASSUME Ttl \in Nat \ {0}, ServedInv,
         \/ Crash \/ Recover \/ Corrupt \/ Tick \/ UNCHANGED vars
         \/ \E p \in Processes : Start(p) \/ Stop(p) \/ Close(p) \/ Kill(p)
  PROVE  ServedInv'
<1> USE DEF ServedInv, Made, Held
<1>1. CASE Crash \/ Recover \/ Corrupt
  BY <1>1 DEF Crash, Recover, Corrupt, Corrupted, processes
<1>2. CASE Tick
  BY <1>2 DEF Tick, Live
<1>3. CASE UNCHANGED vars
  BY <1>3 DEF vars, shared, processes
<1>4. CASE \E p \in Processes : Start(p) \/ Stop(p) \/ Close(p)
  BY <1>4 DEF Start, Stop, Close, shared
<1>5. CASE \E p \in Processes : Kill(p)
  BY <1>5 DEF Kill, shared
<1>6. QED
  BY <1>1, <1>2, <1>3, <1>4, <1>5

\* A request ends at an answer of the cache because it could be read, or
\* because its process was killed, and then it serves nothing.
LEMMA ServedStep ==
  ASSUME ServedInv, [RedisNext]_vars,
         NEW r \in Requests, at[r] = "get_run", at'[r] = "idle", phase'[Home[r]] # "down"
  PROVE  reply[r][1] \in 0..now
<1>1. CASE \E q \in Requests : Request(q)
  <2>1. PICK q \in Requests : Request(q)
    BY <1>1
  <2>2. at' = [at EXCEPT ![q] = at'[q]]
    BY <2>1 DEF Request, AskRedis, AskMemory, Unlimited, RunScript, Verdict, LimiterFails, Admitted,
                RunGet, Hit, RunDelete, Fill, RunSet, CacheFails, Goto, End, ServedInv
  <2>3. q = r
    BY <2>2 DEF ServedInv
  <2>4. Hit(r)
    BY <2>1, <2>3 DEF Request, AskRedis, AskMemory, Unlimited, RunScript, Verdict, LimiterFails, Admitted,
                      RunGet, RunDelete, Fill, RunSet, CacheFails, Goto, End, At, Arrives, ServedInv
  <2>5. Readable(reply[r])
    BY <2>4 DEF Hit, Goto, ServedInv
  <2>6. QED
    BY <2>5 DEF Readable, ServedInv, Held, Made
<1>2. CASE Crash \/ Recover \/ Corrupt \/ Tick \/ UNCHANGED vars
  BY <1>2 DEF Crash, Recover, Corrupt, Tick, vars
<1>3. CASE \E p \in Processes : Start(p) \/ Stop(p) \/ Close(p)
  BY <1>3 DEF Start, Stop, Close
<1>4. CASE \E p \in Processes : Kill(p)
  BY <1>4 DEF Kill, ServedInv
<1>5. QED
  BY <1>1, <1>2, <1>3, <1>4 DEF RedisNext

\* The cache accepts only a time to live that is positive.  Then what it serves
\* is a value that a process made, no older than that after it was stored.
THEOREM Served ==
  ASSUME Ttl \in Nat \ {0}
  PROVE  RedisSpec => ServedFresh
<1>1. RedisInit => ServedInv
  BY ServedInit
<1>2. ServedInv /\ [RedisNext]_vars => ServedInv'
  BY RequestServed, WorldServed DEF RedisNext
<1>3. ServedInv => (entry # << >> => entry[1].expires - now \in 1..Ttl)
  BY DEF ServedInv
<1>4. ServedInv /\ [RedisNext]_vars =>
        [/\ \A r \in Requests : at[r] = "get_run" /\ at'[r] = "idle" /\ phase'[Home[r]] # "down"
                                  => reply[r][1] \in 0..now
         /\ entry # << >> => entry[1].expires - now \in 1..Ttl]_vars
  BY <1>3, ServedStep
<1>5. QED
  BY <1>1, <1>2, <1>4, PTL DEF RedisSpec, ServedFresh
=============================================================================
