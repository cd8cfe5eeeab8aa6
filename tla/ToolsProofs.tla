---------------------------- MODULE ToolsProofs ----------------------------
(***************************************************************************)
(* What the tools answer, for every request they can be sent (CronSchedule,*)
(* HttpBuilder, DevTools), what becomes of pictures (ImageTools) and the   *)
(* threads that image tools and WHOIS lookups run on (ImageWorkers).       *)
(***************************************************************************)
EXTENDS ImageWorkers, ImageTools, CronSchedule, HttpBuilder, DevTools,
        FiniteSetTheorems, SequenceTheorems, WellFoundedInduction, TLAPS

-----------------------------------------------------------------------------
\* Induction over the natural numbers, for a set instead of a predicate.
LEMMA LeastMember ==
  ASSUME NEW T \in SUBSET Nat, T # {}
  PROVE  \E m \in T : \A n \in T : m <= n
<1>1. PICK Less : Less = OpToRel(<, Nat)
  OBVIOUS
<1>2. IsWellFoundedOn(Less, Nat)
  BY <1>1, NatLessThanWellFounded, Zenon
<1>3. T \subseteq Nat
  OBVIOUS
<1>4. PICK m \in T : \A n \in T : <<n, m>> \notin Less
  BY <1>2, <1>3, WFMin, Zenon
<1>5. ASSUME NEW n \in T
      PROVE  m <= n
  <2>1. SUFFICES ASSUME n < m PROVE FALSE
    BY <1>3
  <2>2. PICK p : p = <<n, m>>
    OBVIOUS
  <2>3. p \in Nat \X Nat /\ p[1] < p[2]
    BY <1>3, <2>1, <2>2
  <2>4. p \in {ss \in Nat \X Nat : ss[1] < ss[2]}
    BY <2>3
  <2>5. p \in Less
    BY <1>1, <2>4, Zenon DEF OpToRel
  <2>6. QED
    BY <1>4, <2>2, <2>5
<1>6. QED
  BY <1>5

\* A set of numbers has a least member.
LEMMA LeastOf ==
  ASSUME NEW T \in SUBSET Nat, T # {}
  PROVE  Min(T) \in T /\ \A n \in T : Min(T) <= n
<1>1. \E m \in T : \A n \in T : m <= n
  BY LeastMember
<1>2. Min(T) = CHOOSE m \in T : \A n \in T : m <= n
  BY DEF Min
<1>3. QED
  BY <1>1, <1>2, Zenon

\* A set of numbers of an interval has a greatest one.
LEMMA GreatestMember ==
  ASSUME NEW low \in Nat, NEW high \in Nat, NEW T \in SUBSET (low..high), T # {}
  PROVE  \E m \in T : \A n \in T : n <= m
<1>1. PICK D : D = {d \in Nat : high - d \in T}
  OBVIOUS
<1>2. \A n \in T : n \in low..high
  OBVIOUS
<1>3. \A n \in T : high - n \in D
  BY <1>1, <1>2
<1>4. D \in SUBSET Nat /\ D # {}
  BY <1>1, <1>3
<1>5. PICK m \in D : \A n \in D : m <= n
  BY <1>4, LeastMember
<1>6. high - m \in T /\ m \in Nat
  BY <1>1, <1>5
<1>7. \A n \in T : n <= high - m
  BY <1>2, <1>3, <1>5, <1>6
<1>8. QED
  BY <1>6, <1>7

\* Induction over the natural numbers, step by step.
LEMMA SetInduction ==
  ASSUME NEW S \in SUBSET Nat, 0 \in S, \A n \in S : n + 1 \in S
  PROVE  S = Nat
<1>1. SUFFICES ASSUME Nat \ S # {} PROVE FALSE
  OBVIOUS
<1>2. PICK m \in Nat \ S : \A n \in Nat \ S : m <= n
  BY <1>1, LeastMember
<1>3. m # 0 /\ m - 1 \in Nat
  BY <1>2
<1>4. m - 1 \in S
  BY <1>2, <1>3
<1>5. QED
  BY <1>2, <1>4

(***************************************************************************)
(* A set of numbers put in order.                                          *)
(***************************************************************************)
\* Every member has its own number among the members.
LEMMA Ranked ==
  ASSUME NEW S \in SUBSET Int, IsFiniteSet(S)
  PROVE  /\ Cardinality(S) \in Nat
         /\ \A i \in S : Cardinality(UpTo(S, i)) \in 1..Cardinality(S)
         /\ \A i, j \in S : i < j => Cardinality(UpTo(S, i)) < Cardinality(UpTo(S, j))
         /\ \A n \in 1..Cardinality(S) : \E i \in S : Cardinality(UpTo(S, i)) = n
<1>1. Cardinality(S) \in Nat
  BY FS_CardinalityType
<1>2. ASSUME NEW i \in S
      PROVE  /\ IsFiniteSet(UpTo(S, i)) /\ Cardinality(UpTo(S, i)) \in Nat
             /\ Cardinality(UpTo(S, i)) \in 1..Cardinality(S)
  <2>1. UpTo(S, i) \in SUBSET S /\ i \in UpTo(S, i)
    BY DEF UpTo
  <2>2. IsFiniteSet(UpTo(S, i)) /\ Cardinality(UpTo(S, i)) <= Cardinality(S)
    BY <2>1, FS_Subset
  <2>3. Cardinality(UpTo(S, i)) \in Nat /\ Cardinality(UpTo(S, i)) # 0
    BY <2>1, <2>2, FS_CardinalityType, FS_EmptySet
  <2>4. QED
    BY <1>1, <2>2, <2>3
<1>3. ASSUME NEW i \in S, NEW j \in S, i < j
      PROVE  Cardinality(UpTo(S, i)) < Cardinality(UpTo(S, j))
  <2>1. UpTo(S, i) \in SUBSET UpTo(S, j) /\ UpTo(S, i) # UpTo(S, j)
    <3>1. j \in UpTo(S, j) /\ j \notin UpTo(S, i)
      BY <1>3 DEF UpTo
    <3>2. \A k \in S : k <= i => k <= j
      BY <1>3
    <3>3. QED
      BY <3>1, <3>2, Zenon DEF UpTo
  <2>2. Cardinality(UpTo(S, i)) <= Cardinality(UpTo(S, j)) /\ Cardinality(UpTo(S, i)) # Cardinality(UpTo(S, j))
    BY <1>2, <2>1, FS_Subset
  <2>3. QED
    BY <1>2, <2>2
<1>4. PICK f : f = [i \in S |-> Cardinality(UpTo(S, i))]
  OBVIOUS
<1>5. f \in Injection(S, 1..Cardinality(S))
  <2>1. f \in [S -> 1..Cardinality(S)]
    BY <1>2, <1>4
  <2>2. \A i, j \in S : f[i] = f[j] => i = j
    BY <1>1, <1>2, <1>3, <1>4
  <2>3. QED
    BY <2>1, <2>2 DEF Injection, IsInjective
<1>6. IsFiniteSet(1..Cardinality(S)) /\ Cardinality(1..Cardinality(S)) = Cardinality(S)
  BY <1>1, FS_Interval
<1>7. f \in Surjection(S, 1..Cardinality(S))
  BY <1>5, <1>6, FS_Injection
<1>8. \A n \in 1..Cardinality(S) : \E i \in S : f[i] = n
  BY <1>7 DEF Surjection
<1>9. QED
  BY <1>1, <1>2, <1>3, <1>4, <1>8

\* A set in order: its members, each once, the smaller ones first.
LEMMA AscendingSorts ==
  ASSUME NEW S \in SUBSET Int, IsFiniteSet(S)
  PROVE  /\ Ascending(S) \in Seq(S) /\ Len(Ascending(S)) = Cardinality(S)
         /\ DOMAIN Ascending(S) = 1..Cardinality(S) /\ Cardinality(S) \in Nat
         /\ ToSet(Ascending(S)) = S
         /\ \A m, n \in DOMAIN Ascending(S) : m < n => Ascending(S)[m] < Ascending(S)[n]
<1>1. PICK N \in Nat : N = Cardinality(S)
  BY Ranked
<1>2. PICK a : a = Ascending(S)
  OBVIOUS
<1>3. a = [n \in 1..N |-> CHOOSE i \in S : Cardinality(UpTo(S, i)) = n]
  BY <1>1, <1>2 DEF Ascending
<1>4. ASSUME NEW n \in 1..N
      PROVE  a[n] \in S /\ Cardinality(UpTo(S, a[n])) = n
  <2>1. \E i \in S : Cardinality(UpTo(S, i)) = n
    BY <1>1, Ranked
  <2>2. a[n] = CHOOSE i \in S : Cardinality(UpTo(S, i)) = n
    BY <1>3
  <2>3. QED
    BY <2>1, <2>2
<1>5. a \in Seq(S) /\ Len(a) = N /\ DOMAIN a = 1..N
  BY <1>3, <1>4
<1>6. ASSUME NEW i \in S
      PROVE  i \in ToSet(a)
  <2>1. PICK n \in 1..N : n = Cardinality(UpTo(S, i))
    BY <1>1, Ranked
  <2>2. a[n] = i
    <3>1. a[n] \in S /\ Cardinality(UpTo(S, a[n])) = Cardinality(UpTo(S, i)) /\ Cardinality(UpTo(S, i)) \in Int
      BY <1>4, <2>1
    <3>2. \A k, l \in S : k < l => Cardinality(UpTo(S, k)) < Cardinality(UpTo(S, l))
      BY Ranked
    <3>3. ~(n < n)
      OBVIOUS
    <3>4. ~(a[n] < i) /\ ~(i < a[n])
      BY <2>1, <3>1, <3>2, <3>3, Zenon
    <3>5. a[n] \in Int /\ i \in Int
      BY <3>1
    <3>6. QED
      BY <3>4, <3>5
  <2>3. QED
    BY <1>5, <2>2 DEF ToSet
<1>7. ToSet(a) \subseteq S
  BY <1>4, <1>5 DEF ToSet
<1>8. ASSUME NEW m \in 1..N, NEW n \in 1..N, m < n
      PROVE  a[m] < a[n]
  <2>1. a[m] \in S /\ a[n] \in S /\ Cardinality(UpTo(S, a[m])) = m /\ Cardinality(UpTo(S, a[n])) = n
    BY <1>4
  <2>2. ~(a[n] < a[m]) /\ a[m] # a[n]
    <3>1. ~(n < m) /\ m # n
      BY <1>8
    <3>2. QED
      BY <2>1, <3>1, Ranked
  <2>3. a[m] \in Int /\ a[n] \in Int
    BY <2>1
  <2>4. QED
    BY <2>2, <2>3
<1>9. QED
  BY <1>1, <1>2, <1>5, <1>6, <1>7, <1>8

\* The same, with the members written out.
LEMMA AscendingListed ==
  ASSUME NEW S \in SUBSET Int, IsFiniteSet(S)
  PROVE  /\ Ascending(S) \in Seq(S) /\ Len(Ascending(S)) = Cardinality(S)
         /\ DOMAIN Ascending(S) = 1..Cardinality(S) /\ Cardinality(S) \in Nat
         /\ {Ascending(S)[n] : n \in DOMAIN Ascending(S)} = S
         /\ \A m, n \in DOMAIN Ascending(S) : m < n => Ascending(S)[m] < Ascending(S)[n]
BY AscendingSorts DEF ToSet

(***************************************************************************)
(* Lists joined one after the other.                                       *)
(***************************************************************************)
\* FlattenSeq joins the lists of a sequence one after the other.
Flattens(f, rows, n) == f = [i \in 1..n |-> IF i = 1 THEN rows[i] ELSE f[i - 1] \o rows[i]]

\* One more list can be joined.
LEMMA FlattensNext ==
  ASSUME NEW rows, NEW n \in Nat, NEW f, Flattens(f, rows, n)
  PROVE  \E g : Flattens(g, rows, n + 1)
<1>1. PICK g : g = [i \in 1..n + 1 |-> IF i = 1 THEN rows[i] ELSE f[i - 1] \o rows[i]]
  OBVIOUS
<1>2. \A i \in 1..n : f[i] = IF i = 1 THEN rows[i] ELSE f[i - 1] \o rows[i]
  BY Zenon DEF Flattens
<1>3. \A i \in 1..n : i \in 1..n + 1
  OBVIOUS
<1>4. \A i \in 1..n : g[i] = f[i]
  BY <1>1, <1>2, <1>3, Zenon
<1>5. \A i \in 1..n + 1 : i # 1 => i - 1 \in 1..n
  OBVIOUS
<1>6. g = [i \in 1..n + 1 |-> IF i = 1 THEN rows[i] ELSE g[i - 1] \o rows[i]]
  BY <1>1, <1>4, <1>5, Zenon
<1>7. QED
  BY <1>6, Zenon DEF Flattens

\* Any number of lists can be joined.
LEMMA FlattensExists ==
  ASSUME NEW rows
  PROVE  \A n \in Nat : \E f : Flattens(f, rows, n)
<1> DEFINE S == {n \in Nat : \E f : Flattens(f, rows, n)}
<1>1. 0 \in S
  <2>1. PICK f : f = [i \in 1..0 |-> rows[i]]
    OBVIOUS
  <2>2. f = [i \in 1..0 |-> IF i = 1 THEN rows[i] ELSE f[i - 1] \o rows[i]]
    BY <2>1
  <2>3. QED
    BY <2>2 DEF Flattens
<1>2. \A n \in S : n + 1 \in S
  BY FlattensNext
<1>3. S = Nat
  <2> HIDE DEF S
  <2>1. S \in SUBSET Nat
    BY DEF S
  <2>2. QED
    BY <1>1, <1>2, <2>1, SetInduction
<1>4. QED
  BY <1>3

\* The joined list is made list by list.
LEMMA FlattenStepwise ==
  ASSUME NEW rows, Len(rows) \in Nat, Len(rows) # 0
  PROVE  \E f : /\ FlattenSeq(rows) = f[Len(rows)] /\ f[1] = rows[1]
                /\ \A i \in 1..Len(rows) - 1 : f[i + 1] = f[i] \o rows[i + 1]
<1>1. PICK f : f = CHOOSE g : Flattens(g, rows, Len(rows))
  OBVIOUS
<1>2. Flattens(f, rows, Len(rows))
  <2>1. \E g : Flattens(g, rows, Len(rows))
    BY FlattensExists
  <2>2. QED
    BY <1>1, <2>1, Zenon
<1>3. FlattenSeq(rows) = f[Len(rows)]
  BY <1>1, Zenon DEF FlattenSeq, Flattens
<1>4. \A i \in 1..Len(rows) - 1 : f[i + 1] = f[i] \o rows[i + 1]
  <2>1. SUFFICES ASSUME NEW i \in 1..Len(rows) - 1 PROVE f[i + 1] = f[i] \o rows[i + 1]
    OBVIOUS
  <2>2. PICK k \in 1..Len(rows) : k = i + 1 /\ k # 1 /\ k - 1 = i
    OBVIOUS
  <2>3. \A j \in 1..Len(rows) : f[j] = IF j = 1 THEN rows[j] ELSE f[j - 1] \o rows[j]
    BY <1>2, Zenon DEF Flattens
  <2>4. f[k] = f[k - 1] \o rows[k]
    BY <2>2, <2>3, Zenon
  <2>5. QED
    BY <2>2, <2>4, Zenon
<1>5. f[1] = rows[1]
  BY <1>2 DEF Flattens
<1>6. QED
  BY <1>3, <1>4, <1>5

(***************************************************************************)
(* The first of several checks that fails.                                 *)
(***************************************************************************)
\* The reason is that of the first check that fails, if there is one.
LEMMA ReasonIs ==
  ASSUME NEW checks, NEW N \in Nat, DOMAIN checks = 1..N
  PROVE  /\ \A n \in 1..N : checks[n][1] /\ (\A j \in 1..N : j < n => ~checks[j][1]) => Reason(checks) = checks[n][2]
         /\ (\A j \in 1..N : ~checks[j][1]) => Reason(checks) = "none"
<1>1. PICK failed : failed = {i \in DOMAIN checks : checks[i][1]}
  OBVIOUS
<1>2. /\ failed = {} => Reason(checks) = "none"
      /\ failed # {} => Reason(checks) = checks[CHOOSE i \in failed : \A j \in failed : i <= j][2]
  BY <1>1, Zenon DEF Reason
<1>3. \A i \in 1..N : i \in failed <=> checks[i][1]
  BY <1>1
<1>4. failed \subseteq 1..N
  BY <1>1
<1>5. ASSUME NEW n \in 1..N, checks[n][1], \A j \in 1..N : j < n => ~checks[j][1]
      PROVE  Reason(checks) = checks[n][2]
  <2>1. n \in failed /\ \A j \in failed : n <= j
    <3>1. \A j \in failed : ~(j < n) /\ j \in Nat /\ n \in Nat
      BY <1>3, <1>4, <1>5
    <3>2. QED
      BY <1>3, <1>5, <3>1
  <2>2. PICK k : k = CHOOSE i \in failed : \A j \in failed : i <= j
    OBVIOUS
  <2>3. k \in failed /\ \A j \in failed : k <= j
    BY <2>1, <2>2, Zenon
  <2>4. k = n
    BY <1>4, <2>1, <2>3
  <2>5. QED
    BY <1>2, <2>1, <2>2, <2>4, Zenon
<1>6. ASSUME \A j \in 1..N : ~checks[j][1]
      PROVE  Reason(checks) = "none"
  <2>1. failed = {}
    BY <1>3, <1>4, <1>6
  <2>2. QED
    BY <1>2, <2>1
<1>7. QED
  BY <1>5, <1>6, Zenon

\* The first of three checks that fails.
LEMMA ReasonOfThree ==
  ASSUME NEW A \in BOOLEAN, NEW B \in BOOLEAN, NEW C \in BOOLEAN, NEW a, NEW b, NEW c
  PROVE  /\ A => Reason(<<<<A, a>>, <<B, b>>, <<C, c>>>>) = a
         /\ ~A /\ B => Reason(<<<<A, a>>, <<B, b>>, <<C, c>>>>) = b
         /\ ~A /\ ~B /\ C => Reason(<<<<A, a>>, <<B, b>>, <<C, c>>>>) = c
         /\ ~A /\ ~B /\ ~C => Reason(<<<<A, a>>, <<B, b>>, <<C, c>>>>) = "none"
<1>1. PICK checks : checks = <<<<A, a>>, <<B, b>>, <<C, c>>>>
  OBVIOUS
<1>2. /\ DOMAIN checks = 1..3 /\ (checks[1][1] <=> A) /\ (checks[2][1] <=> B) /\ (checks[3][1] <=> C)
      /\ checks[1][2] = a /\ checks[2][2] = b /\ checks[3][2] = c
  BY <1>1
<1>3. /\ \A n \in 1..3 : checks[n][1] /\ (\A j \in 1..3 : j < n => ~checks[j][1]) => Reason(checks) = checks[n][2]
      /\ (\A j \in 1..3 : ~checks[j][1]) => Reason(checks) = "none"
  BY <1>2, ReasonIs
<1>4. \A j \in 1..3 : j = 1 \/ j = 2 \/ j = 3
  OBVIOUS
<1>5. QED
  BY <1>1, <1>2, <1>3, <1>4

\* The first of four checks that fails.
LEMMA ReasonOfFour ==
  ASSUME NEW A \in BOOLEAN, NEW B \in BOOLEAN, NEW C \in BOOLEAN, NEW D \in BOOLEAN,
         NEW a, NEW b, NEW c, NEW d, NEW R, R = Reason(<<<<A, a>>, <<B, b>>, <<C, c>>, <<D, d>>>>)
  PROVE  /\ A => R = a
         /\ ~A /\ B => R = b
         /\ ~A /\ ~B /\ C => R = c
         /\ ~A /\ ~B /\ ~C /\ D => R = d
         /\ ~A /\ ~B /\ ~C /\ ~D => R = "none"
<1>1. PICK checks : checks = <<<<A, a>>, <<B, b>>, <<C, c>>, <<D, d>>>>
  OBVIOUS
<1>2. /\ DOMAIN checks = 1..4 /\ (checks[1][1] <=> A) /\ (checks[2][1] <=> B) /\ (checks[3][1] <=> C)
      /\ (checks[4][1] <=> D)
      /\ checks[1][2] = a /\ checks[2][2] = b /\ checks[3][2] = c /\ checks[4][2] = d
  BY <1>1
<1>3. /\ \A n \in 1..4 : checks[n][1] /\ (\A j \in 1..4 : j < n => ~checks[j][1]) => R = checks[n][2]
      /\ (\A j \in 1..4 : ~checks[j][1]) => R = "none"
  <2>1. R = Reason(checks)
    BY <1>1
  <2>2. QED
    BY <1>2, <2>1, ReasonIs
<1>4. \A j \in 1..4 : j = 1 \/ j = 2 \/ j = 3 \/ j = 4
  OBVIOUS
<1>5. QED
  BY <1>2, <1>3, <1>4

-----------------------------------------------------------------------------
(***************************************************************************)
(* Image operations and WHOIS lookups on the shared threads                *)
(* (ImageWorkers).  The semaphore is one count away from wrong at every    *)
(* timeout, so the proof keeps what the queue and the waiters hold: each   *)
(* job once, and exactly the jobs that are due.                            *)
(***************************************************************************)
WorkerParameters ==
  /\ Operations \cap Lookups = {}
  /\ MaxConcurrent \in Nat /\ Threads \in Nat

InLine(s) == {s[i] : i \in DOMAIN s}

NoneTwice(s) == \A i, k \in DOMAIN s : s[i] = s[k] => i = k

Submitted == {j \in Jobs : job[j] = "submitted"}

Holders == {o \in Operations : job[o] = "submitted"}

WorkersInv ==
  /\ WorkersTypeOK
  /\ NoneTwice(queue) /\ NoneTwice(waiters)
  /\ running \cap InLine(queue) = {}
  /\ Submitted = running \cup InLine(queue)
  /\ InLine(waiters) = {o \in Operations : job[o] = "waiting"}
  /\ IsFiniteSet(Holders) /\ permits + Cardinality(Holders) = MaxConcurrent
  /\ IsFiniteSet(running) /\ Cardinality(running) + orphans <= Threads

\* Joining a line.
LEMMA JoinLine ==
  ASSUME NEW S, NEW s \in Seq(S), NEW x \in S, x \notin InLine(s), NoneTwice(s)
  PROVE  /\ Append(s, x) \in Seq(S) /\ NoneTwice(Append(s, x))
         /\ InLine(Append(s, x)) = InLine(s) \cup {x}
<1>1. PICK t : t = Append(s, x)
  OBVIOUS
<1>2. PICK n \in Nat : n = Len(s)
  OBVIOUS
<1>3. /\ t \in Seq(S) /\ Len(t) = n + 1 /\ DOMAIN t = 1..(n + 1) /\ DOMAIN s = 1..n
      /\ \A i \in 1..n : t[i] = s[i]
      /\ t[n + 1] = x
  BY <1>1, <1>2
<1>4. NoneTwice(t)
  BY <1>3 DEF NoneTwice, InLine
<1>5. InLine(t) = InLine(s) \cup {x}
  BY <1>3 DEF InLine
<1>6. QED
  BY <1>1, <1>3, <1>4, <1>5

\* The first leaves a line.
LEMMA LeaveLine ==
  ASSUME NEW S, NEW s \in Seq(S), s # << >>, NoneTwice(s)
  PROVE  /\ Tail(s) \in Seq(S) /\ NoneTwice(Tail(s))
         /\ Head(s) \in S /\ Head(s) \in InLine(s)
         /\ InLine(Tail(s)) = InLine(s) \ {Head(s)}
<1>1. PICK t : t = Tail(s)
  OBVIOUS
<1>2. PICK n \in Nat : n = Len(s)
  OBVIOUS
<1>3. /\ n > 0 /\ t \in Seq(S) /\ DOMAIN t = 1..(n - 1) /\ DOMAIN s = 1..n
      /\ \A i \in 1..(n - 1) : t[i] = s[i + 1]
      /\ Head(s) = s[1] /\ s[1] \in S
  BY <1>1, <1>2
<1>4. NoneTwice(t)
  <2>1. SUFFICES ASSUME NEW i \in 1..(n - 1), NEW k \in 1..(n - 1), t[i] = t[k] PROVE i = k
    BY <1>3 DEF NoneTwice
  <2>2. i + 1 \in DOMAIN s /\ k + 1 \in DOMAIN s /\ s[i + 1] = s[k + 1]
    BY <1>2, <1>3, <2>1
  <2>3. i + 1 = k + 1
    BY <2>2 DEF NoneTwice
  <2>4. QED
    BY <2>3
<1>5. \A i \in 2..n : i - 1 \in DOMAIN t /\ t[i - 1] = s[i]
  BY <1>3
<1>6. InLine(t) = InLine(s) \ {s[1]}
  <2>1. \A i \in 1..(n - 1) : i + 1 \in DOMAIN s /\ 1 \in DOMAIN s /\ i + 1 # 1
    BY <1>2, <1>3
  <2>2. InLine(t) \subseteq InLine(s) \ {s[1]}
    <3>1. SUFFICES ASSUME NEW i \in 1..(n - 1) PROVE t[i] \in InLine(s) \ {s[1]}
      BY <1>3 DEF InLine
    <3>2. t[i] = s[i + 1] /\ i + 1 \in DOMAIN s
      BY <1>3, <2>1
    <3>3. s[i + 1] # s[1]
      BY <2>1 DEF NoneTwice
    <3>4. QED
      BY <3>2, <3>3 DEF InLine
  <2>3. \A i \in DOMAIN s : i = 1 \/ i \in 2..n
    BY <1>2, <1>3
  <2>4. InLine(s) \ {s[1]} \subseteq InLine(t)
    BY <1>5, <2>3 DEF InLine
  <2>5. QED
    BY <2>2, <2>4
<1>7. s[1] \in InLine(s)
  BY <1>3 DEF InLine
<1>8. QED
  BY <1>1, <1>3, <1>4, <1>6, <1>7

\* Somebody leaves a line, from any place in it.
LEMMA CancelInLine ==
  ASSUME NEW S, NEW s \in Seq(S), NoneTwice(s), NEW x
  PROVE  LET t == RemoveFirst(s, x)
         IN  t \in Seq(S) /\ NoneTwice(t) /\ InLine(t) = InLine(s) \ {x}
<1>1. PICK n \in Nat : n = Len(s) /\ DOMAIN s = 1..n
  OBVIOUS
<1>2. CASE x \notin InLine(s)
  <2>1. RemoveFirst(s, x) = s
    BY <1>1, <1>2 DEF RemoveFirst, InLine
  <2>2. QED
    BY <1>2, <2>1
<1>3. CASE x \in InLine(s)
  <2>1. PICK k \in 1..n : s[k] = x
    BY <1>1, <1>3 DEF InLine
  <2>2. {i \in 1..n : s[i] = x} = {k}
    BY <1>1, <2>1 DEF NoneTwice
  <2>3. SelectInSeq(s, LAMBDA v : v = x) = k
    BY <1>1, <2>2 DEF SelectInSeq, Min
  <2>4. PICK t : t = SubSeq(s, 1, k - 1) \o SubSeq(s, k + 1, n)
    OBVIOUS
  <2>5. RemoveFirst(s, x) = t
    BY <1>1, <2>1, <2>3, <2>4 DEF RemoveFirst, RemoveAt
  <2>6. /\ SubSeq(s, 1, k - 1) \in Seq(S) /\ Len(SubSeq(s, 1, k - 1)) = k - 1
        /\ \A i \in 1..(k - 1) : SubSeq(s, 1, k - 1)[i] = s[i]
        /\ SubSeq(s, k + 1, n) \in Seq(S) /\ Len(SubSeq(s, k + 1, n)) = n - k
        /\ \A i \in 1..(n - k) : SubSeq(s, k + 1, n)[i] = s[k + i]
    BY <1>1, <2>1
  <2>7. /\ t \in Seq(S) /\ DOMAIN t = 1..(n - 1)
        /\ \A i \in 1..(k - 1) : t[i] = s[i]
        /\ \A i \in k..(n - 1) : t[i] = s[i + 1]
    <3> DEFINE l == SubSeq(s, 1, k - 1)
               m == SubSeq(s, k + 1, n)
    <3>1. t \in Seq(S) /\ Len(t) = (k - 1) + (n - k)
      <4>1. l \in Seq(S) /\ m \in Seq(S) /\ Len(l) = k - 1 /\ Len(m) = n - k /\ t = l \o m
        BY <2>4, <2>6
      <4> HIDE DEF l, m
      <4>2. t \in Seq(S) /\ Len(t) = Len(l) + Len(m)
        BY <4>1, ConcatProperties
      <4>3. QED
        BY <4>1, <4>2
    <3>2. \A i \in 1..(k - 1) : t[i] = s[i]
      BY <2>1, <2>4, <2>6
    <3>3. ASSUME NEW i \in k..(n - 1) PROVE t[i] = s[i + 1]
      <4>1. i - (k - 1) \in 1..(n - k) /\ k + (i - (k - 1)) = i + 1 /\ i > k - 1
        BY <2>1, <3>3
      <4>2. t[i] = m[i - (k - 1)]
        <5>1. i \in 1..(Len(l) + Len(m)) /\ i > Len(l) /\ Len(l) = k - 1
          <6>1. Len(l) = k - 1 /\ Len(m) = n - k
            BY <2>6
          <6> HIDE DEF l, m
          <6>2. QED
            BY <2>1, <3>3, <6>1
        <5>2. (l \o m)[i] = IF i <= Len(l) THEN l[i] ELSE m[i - Len(l)]
          BY <2>6, <5>1, ConcatProperties
        <5>3. (l \o m)[i] = m[i - Len(l)]
          <6> HIDE DEF l, m
          <6>1. QED
            BY <5>1, <5>2
        <5>4. t = l \o m
          BY <2>4 DEF l, m
        <5>5. QED
          <6> HIDE DEF l, m
          <6>1. QED
            BY <5>1, <5>3, <5>4
      <4>3. QED
        BY <2>6, <4>1, <4>2
    <3>4. QED
      BY <2>1, <3>1, <3>2, <3>3
  <2>8. NoneTwice(t)
    <3>1. SUFFICES ASSUME NEW i \in 1..(n - 1), NEW h \in 1..(n - 1), t[i] = t[h] PROVE i = h
      BY <2>7 DEF NoneTwice
    <3>2. PICK a \in 1..n : t[i] = s[a] /\ (i < k => a = i) /\ (i >= k => a = i + 1)
      <4>1. CASE i < k
        <5>1. i \in 1..(k - 1) /\ i \in 1..n
          BY <2>1, <3>1, <4>1
        <5>2. t[i] = s[i]
          BY <2>7, <5>1
        <5>3. QED
          BY <2>1, <4>1, <5>1, <5>2
      <4>2. CASE i >= k
        <5>1. i \in k..(n - 1) /\ i + 1 \in 1..n
          BY <2>1, <3>1, <4>2
        <5>2. t[i] = s[i + 1]
          BY <2>7, <5>1
        <5>3. QED
          BY <4>2, <5>1, <5>2
      <4>3. QED
        BY <2>1, <3>1, <4>1, <4>2
    <3>3. PICK b \in 1..n : t[h] = s[b] /\ (h < k => b = h) /\ (h >= k => b = h + 1)
      <4>1. CASE h < k
        <5>1. h \in 1..(k - 1) /\ h \in 1..n
          BY <2>1, <3>1, <4>1
        <5>2. t[h] = s[h]
          BY <2>7, <5>1
        <5>3. QED
          BY <2>1, <4>1, <5>1, <5>2
      <4>2. CASE h >= k
        <5>1. h \in k..(n - 1) /\ h + 1 \in 1..n
          BY <2>1, <3>1, <4>2
        <5>2. t[h] = s[h + 1]
          BY <2>7, <5>1
        <5>3. QED
          BY <4>2, <5>1, <5>2
      <4>3. QED
        BY <2>1, <3>1, <4>1, <4>2
    <3>4. a = b
      BY <1>1, <3>1, <3>2, <3>3 DEF NoneTwice
    <3>5. QED
      BY <2>1, <3>1, <3>2, <3>3, <3>4
  <2>9. \A i \in 1..n : i # k => \E h \in 1..(n - 1) : t[h] = s[i]
    <3>1. SUFFICES ASSUME NEW i \in 1..n, i # k PROVE \E h \in 1..(n - 1) : t[h] = s[i]
      OBVIOUS
    <3>2. CASE i < k
      BY <2>1, <2>7, <3>1, <3>2
    <3>3. CASE i > k
      <4>1. i - 1 \in k..(n - 1) /\ i - 1 \in 1..(n - 1) /\ (i - 1) + 1 = i
        BY <2>1, <3>1, <3>3
      <4>2. t[i - 1] = s[i]
        BY <2>7, <4>1
      <4>3. QED
        BY <4>1, <4>2
    <3>4. QED
      BY <2>1, <3>1, <3>2, <3>3
  <2>10. \A h \in 1..(n - 1) : \E i \in 1..n : i # k /\ t[h] = s[i]
    <3>1. SUFFICES ASSUME NEW h \in 1..(n - 1) PROVE \E i \in 1..n : i # k /\ t[h] = s[i]
      OBVIOUS
    <3>2. CASE h < k
      BY <2>1, <2>7, <3>1, <3>2
    <3>3. CASE h >= k
      BY <2>1, <2>7, <3>1, <3>3, SMTT(30)
    <3>4. QED
      BY <2>1, <3>1, <3>2, <3>3
  <2>11. InLine(t) = InLine(s) \ {x}
    <3>1. \A i \in 1..n : s[i] # x <=> i # k
      BY <2>1, <2>2
    <3>2. InLine(t) \subseteq InLine(s) \ {x}
      <4>1. SUFFICES ASSUME NEW h \in 1..(n - 1) PROVE t[h] \in InLine(s) \ {x}
        BY <2>7 DEF InLine
      <4>2. PICK i \in 1..n : i # k /\ t[h] = s[i]
        BY <2>10
      <4>3. QED
        BY <1>1, <3>1, <4>2 DEF InLine
    <3>3. InLine(s) \ {x} \subseteq InLine(t)
      <4>1. SUFFICES ASSUME NEW i \in 1..n, s[i] # x PROVE s[i] \in InLine(t)
        BY <1>1 DEF InLine
      <4>2. PICK h \in 1..(n - 1) : t[h] = s[i]
        BY <2>9, <3>1, <4>1
      <4>3. QED
        BY <2>7, <4>2 DEF InLine
    <3>4. QED
      BY <3>2, <3>3
  <2>12. QED
    BY <2>5, <2>7, <2>8, <2>11
<1>4. QED
  BY <1>2, <1>3

\* One more, or one less, in a finite set.
LEMMA CountOne ==
  ASSUME NEW S, IsFiniteSet(S), NEW x
  PROVE  /\ Cardinality(S) \in Nat
         /\ IsFiniteSet(S \cup {x}) /\ IsFiniteSet(S \ {x})
         /\ x \notin S => Cardinality(S \cup {x}) = Cardinality(S) + 1
         /\ x \in S => Cardinality(S) > 0 /\ Cardinality(S \ {x}) = Cardinality(S) - 1
         /\ x \notin S => S \ {x} = S
<1>1. Cardinality(S) \in Nat
  BY FS_CardinalityType, Zenon
<1>2. IsFiniteSet(S \cup {x}) /\ (x \notin S => Cardinality(S \cup {x}) = Cardinality(S) + 1)
  BY FS_AddElement, Zenon
<1>3. IsFiniteSet(S \ {x}) /\ (x \in S => Cardinality(S \ {x}) = Cardinality(S) - 1)
  BY FS_RemoveElement, Zenon
<1>4. x \in S => Cardinality(S \ {x}) \in Nat
  BY <1>3, FS_CardinalityType, Zenon
<1>5. QED
  BY <1>1, <1>2, <1>3, <1>4

\* A job enters the executor's queue.
LEMMA Submits ==
  ASSUME WorkerParameters, WorkersInv, NEW j \in Jobs, job[j] # "submitted", Submit(j)
  PROVE  /\ queue' \in Seq(Jobs) /\ NoneTwice(queue')
         /\ InLine(queue') = InLine(queue) \cup {j}
         /\ job' \in [Jobs -> {"idle", "waiting", "submitted"}]
         /\ j \notin running /\ Submitted' = Submitted \cup {j}
         /\ j \in Operations => IsFiniteSet(Holders') /\ Cardinality(Holders') = Cardinality(Holders) + 1
         /\ j \notin Operations => Holders' = Holders
<1>1. j \notin InLine(queue) /\ j \notin running
  BY DEF WorkersInv, Submitted
<1>2. queue' \in Seq(Jobs) /\ NoneTwice(queue') /\ InLine(queue') = InLine(queue) \cup {j}
  BY <1>1, JoinLine DEF WorkersInv, WorkersTypeOK, Submit
<1>3. job' = [job EXCEPT ![j] = "submitted"]
  BY DEF Submit
<1>4. job' \in [Jobs -> {"idle", "waiting", "submitted"}] /\ Submitted' = Submitted \cup {j}
  BY <1>3 DEF WorkersInv, WorkersTypeOK, Submitted
<1>5. j \in Operations => j \notin Holders /\ Holders' = Holders \cup {j}
  BY <1>3 DEF WorkersInv, WorkersTypeOK, Holders, Jobs
<1>6. j \notin Operations => Holders' = Holders
  BY <1>3 DEF WorkersInv, WorkersTypeOK, Holders, Jobs
<1>7. j \in Operations => IsFiniteSet(Holders') /\ Cardinality(Holders') = Cardinality(Holders) + 1
  BY <1>5, CountOne DEF WorkersInv
<1>8. QED
  BY <1>1, <1>2, <1>4, <1>6, <1>7

\* A job is over, and its operation gives its permit back.
LEMMA Leaves ==
  ASSUME WorkerParameters, WorkersInv, NEW j \in Jobs, job[j] = "submitted", Leave(j)
  PROVE  /\ job' \in [Jobs -> {"idle", "waiting", "submitted"}]
         /\ Submitted' = Submitted \ {j}
         /\ {o \in Operations : job'[o] = "waiting"} = {o \in Operations : job[o] = "waiting"}
         /\ permits' \in 0..MaxConcurrent
         /\ IsFiniteSet(Holders') /\ permits' + Cardinality(Holders') = MaxConcurrent
<1>1. job' = [job EXCEPT ![j] = "idle"]
  BY DEF Leave
<1>2. job' \in [Jobs -> {"idle", "waiting", "submitted"}] /\ Submitted' = Submitted \ {j}
  BY <1>1 DEF WorkersInv, WorkersTypeOK, Submitted
<1>3. {o \in Operations : job'[o] = "waiting"} = {o \in Operations : job[o] = "waiting"}
  BY <1>1 DEF WorkersInv, WorkersTypeOK, Jobs
<1>4. Holders' = Holders \ {j}
  BY <1>1 DEF WorkersInv, WorkersTypeOK, Holders, Jobs
<1>5. j \in Holders <=> j \in Operations
  BY DEF Holders
<1>6. /\ Cardinality(Holders) \in Nat /\ IsFiniteSet(Holders')
      /\ j \in Holders => Cardinality(Holders) > 0 /\ Cardinality(Holders') = Cardinality(Holders) - 1
      /\ j \notin Holders => Holders' = Holders
  BY <1>4, CountOne DEF WorkersInv
<1>7. permits' \in 0..MaxConcurrent /\ permits' + Cardinality(Holders') = MaxConcurrent
  BY <1>5, <1>6 DEF WorkersInv, WorkersTypeOK, WorkerParameters, Leave
<1>8. QED
  BY <1>2, <1>3, <1>6, <1>7

\* In the beginning nobody holds a permit or has a job.
LEMMA WorkersStart == WorkerParameters /\ WorkersInit => WorkersInv
<1> SUFFICES ASSUME WorkerParameters, WorkersInit PROVE WorkersInv
  OBVIOUS
<1>1. /\ permits = MaxConcurrent /\ waiters = << >> /\ job = [j \in Jobs |-> "idle"]
      /\ queue = << >> /\ running = {} /\ orphans = 0
  BY DEF WorkersInit
<1>2. WorkersTypeOK
  BY <1>1 DEF WorkersTypeOK, WorkerParameters
<1>3. InLine(queue) = {} /\ InLine(waiters) = {} /\ NoneTwice(queue) /\ NoneTwice(waiters)
  BY <1>1 DEF InLine, NoneTwice
<1>4. Submitted = {} /\ Holders = {} /\ {o \in Operations : job[o] = "waiting"} = {}
  BY <1>1 DEF Submitted, Holders, Jobs
<1>5. IsFiniteSet({}) /\ Cardinality({}) = 0
  BY FS_EmptySet
<1>6. QED
  BY <1>1, <1>2, <1>3, <1>4, <1>5 DEF WorkersInv, WorkerParameters

\* An operation joins, waits, and is admitted; a lookup goes straight in.
LEMMA WorkersEnter ==
  ASSUME WorkerParameters, WorkersInv,
         (\E o \in Operations : Enter(o)) \/ (\E l \in Lookups : Lookup(l)) \/ Admit
  PROVE  WorkersInv'
<1> USE DEF WorkersInv, WorkersTypeOK
<1>1. Cardinality(Holders) \in Nat
  BY FS_CardinalityType, Zenon
<1>2. ASSUME NEW o \in Operations, Enter(o) PROVE WorkersInv'
  <2>1. o \in Jobs /\ job[o] = "idle" /\ o \notin InLine(waiters) /\ UNCHANGED <<running, orphans>>
    BY <1>2 DEF Enter, Jobs
  <2>2. CASE permits > 0 /\ waiters = << >>
    <3>1. permits' = permits - 1 /\ Submit(o) /\ UNCHANGED waiters
      BY <1>2, <2>2 DEF Enter
    <3>2. job' = [job EXCEPT ![o] = "submitted"]
      BY <3>1 DEF Submit
    <3>3. {w \in Operations : job'[w] = "waiting"} = {w \in Operations : job[w] = "waiting"}
      BY <2>1, <3>2 DEF Jobs
    <3>4. /\ queue' \in Seq(Jobs) /\ NoneTwice(queue')
          /\ InLine(queue') = InLine(queue) \cup {o}
          /\ job' \in [Jobs -> {"idle", "waiting", "submitted"}]
          /\ o \notin running /\ Submitted' = Submitted \cup {o}
          /\ IsFiniteSet(Holders') /\ Cardinality(Holders') = Cardinality(Holders) + 1
      BY <2>1, <3>1, Submits
    <3>5. permits' \in 0..MaxConcurrent /\ permits' + Cardinality(Holders') = MaxConcurrent
      BY <1>1, <2>2, <3>1, <3>4 DEF WorkerParameters
    <3>6. InLine(waiters') = InLine(waiters) /\ NoneTwice(waiters')
      BY <3>1
    <3>7. QED
      BY <2>1, <3>1, <3>3, <3>4, <3>5, <3>6
  <2>3. CASE ~(permits > 0 /\ waiters = << >>)
    <3>1. /\ waiters' = Append(waiters, o) /\ job' = [job EXCEPT ![o] = "waiting"]
          /\ UNCHANGED <<permits, queue>>
      BY <1>2, <2>3 DEF Enter
    <3>2. waiters' \in Seq(Operations) /\ NoneTwice(waiters') /\ InLine(waiters') = InLine(waiters) \cup {o}
      BY <2>1, <3>1, JoinLine
    <3>3. job' \in [Jobs -> {"idle", "waiting", "submitted"}]
      BY <3>1
    <3>4. Submitted' = Submitted /\ Holders' = Holders
      BY <2>1, <3>1 DEF Submitted, Holders, Jobs
    <3>5. {w \in Operations : job'[w] = "waiting"} = {w \in Operations : job[w] = "waiting"} \cup {o}
      BY <2>1, <3>1 DEF Jobs
    <3>6. InLine(queue') = InLine(queue) /\ NoneTwice(queue')
      BY <3>1
    <3>7. QED
      BY <2>1, <3>1, <3>2, <3>3, <3>4, <3>5, <3>6
  <2>4. QED
    BY <2>2, <2>3
<1>3. ASSUME NEW l \in Lookups, Lookup(l) PROVE WorkersInv'
  <2>1. /\ l \in Jobs /\ l \notin Operations /\ job[l] = "idle" /\ Submit(l)
        /\ UNCHANGED <<permits, waiters, running, orphans>>
    BY <1>3 DEF Lookup, Jobs, WorkerParameters
  <2>2. job' = [job EXCEPT ![l] = "submitted"]
    BY <2>1 DEF Submit
  <2>3. {w \in Operations : job'[w] = "waiting"} = {w \in Operations : job[w] = "waiting"}
    BY <2>1, <2>2 DEF Jobs
  <2>4. /\ queue' \in Seq(Jobs) /\ NoneTwice(queue')
        /\ InLine(queue') = InLine(queue) \cup {l}
        /\ job' \in [Jobs -> {"idle", "waiting", "submitted"}]
        /\ l \notin running /\ Submitted' = Submitted \cup {l} /\ Holders' = Holders
    BY <2>1, Submits
  <2>5. InLine(waiters') = InLine(waiters) /\ NoneTwice(waiters')
    BY <2>1
  <2>6. QED
    BY <2>1, <2>3, <2>4, <2>5
<1>4. CASE Admit
  <2>1. /\ permits > 0 /\ waiters # << >> /\ permits' = permits - 1 /\ waiters' = Tail(waiters)
        /\ Submit(Head(waiters)) /\ UNCHANGED <<running, orphans>>
    BY <1>4 DEF Admit
  <2>2. PICK o : o = Head(waiters)
    OBVIOUS
  <2>3. /\ waiters' \in Seq(Operations) /\ NoneTwice(waiters') /\ o \in Operations /\ o \in InLine(waiters)
        /\ InLine(waiters') = InLine(waiters) \ {o}
    BY <2>1, <2>2, LeaveLine
  <2>4. o \in Jobs /\ job[o] = "waiting" /\ Submit(o)
    BY <2>1, <2>2, <2>3 DEF Jobs
  <2>5. job' = [job EXCEPT ![o] = "submitted"]
    BY <2>4 DEF Submit
  <2>6. {w \in Operations : job'[w] = "waiting"} = {w \in Operations : job[w] = "waiting"} \ {o}
    BY <2>4, <2>5 DEF Jobs
  <2>7. /\ queue' \in Seq(Jobs) /\ NoneTwice(queue')
        /\ InLine(queue') = InLine(queue) \cup {o}
        /\ job' \in [Jobs -> {"idle", "waiting", "submitted"}]
        /\ o \notin running /\ Submitted' = Submitted \cup {o}
        /\ IsFiniteSet(Holders') /\ Cardinality(Holders') = Cardinality(Holders) + 1
    BY <2>3, <2>4, Submits
  <2>8. permits' \in 0..MaxConcurrent /\ permits' + Cardinality(Holders') = MaxConcurrent
    BY <1>1, <2>1, <2>7 DEF WorkerParameters
  <2>9. QED
    BY <2>1, <2>3, <2>6, <2>7, <2>8
<1>5. QED
  BY <1>2, <1>3, <1>4

\* A thread takes a job; a job ends, is given up, or outlives its operation.
LEMMA WorkersRun ==
  ASSUME WorkerParameters, WorkersInv,
         \/ Start \/ OrphanEnds
         \/ \E j \in Jobs : Complete(j)
         \/ \E o \in Operations : Timeout(o)
  PROVE  WorkersInv'
<1> USE DEF WorkersInv, WorkersTypeOK
<1>1. Cardinality(running) \in Nat
  BY FS_CardinalityType, Zenon
<1>2. CASE Start
  <2>1. /\ queue # << >> /\ Cardinality(running) + orphans < Threads /\ queue' = Tail(queue)
        /\ running' = running \cup {Head(queue)} /\ UNCHANGED <<permits, waiters, job, orphans>>
    BY <1>2 DEF Start, Busy
  <2>2. PICK j : j = Head(queue)
    OBVIOUS
  <2>3. /\ queue' \in Seq(Jobs) /\ NoneTwice(queue') /\ j \in Jobs /\ j \in InLine(queue)
        /\ InLine(queue') = InLine(queue) \ {j}
    BY <2>1, <2>2, LeaveLine
  <2>4. j \notin running
    BY <2>3
  <2>5. IsFiniteSet(running') /\ Cardinality(running') = Cardinality(running) + 1
    BY <2>1, <2>2, <2>4, CountOne
  <2>6. Submitted' = Submitted /\ Holders' = Holders /\ InLine(waiters') = InLine(waiters) /\ NoneTwice(waiters')
    BY <2>1 DEF Submitted, Holders
  <2>7. Cardinality(running') + orphans' <= Threads
    BY <1>1, <2>1, <2>5 DEF WorkerParameters
  <2>8. QED
    BY <2>1, <2>2, <2>3, <2>4, <2>5, <2>6, <2>7
<1>3. CASE OrphanEnds
  <2>1. orphans > 0 /\ orphans' = orphans - 1 /\ UNCHANGED <<permits, waiters, job, queue, running>>
    BY <1>3 DEF OrphanEnds
  <2>2. orphans' \in 0..Threads /\ Cardinality(running') + orphans' <= Threads
    BY <1>1, <2>1 DEF WorkerParameters
  <2>3. /\ Submitted' = Submitted /\ Holders' = Holders /\ InLine(waiters') = InLine(waiters)
        /\ NoneTwice(waiters') /\ InLine(queue') = InLine(queue) /\ NoneTwice(queue')
    BY <2>1 DEF Submitted, Holders
  <2>4. QED
    BY <2>1, <2>2, <2>3
<1>4. ASSUME NEW j \in Jobs, Complete(j) PROVE WorkersInv'
  <2>1. j \in running /\ running' = running \ {j} /\ Leave(j) /\ UNCHANGED <<waiters, queue, orphans>>
    BY <1>4 DEF Complete
  <2>2. job[j] = "submitted" /\ j \notin InLine(queue)
    BY <2>1 DEF Submitted
  <2>3. /\ job' \in [Jobs -> {"idle", "waiting", "submitted"}]
        /\ Submitted' = Submitted \ {j}
        /\ {o \in Operations : job'[o] = "waiting"} = {o \in Operations : job[o] = "waiting"}
        /\ permits' \in 0..MaxConcurrent
        /\ IsFiniteSet(Holders') /\ permits' + Cardinality(Holders') = MaxConcurrent
    BY <2>1, <2>2, Leaves
  <2>4. IsFiniteSet(running') /\ Cardinality(running') = Cardinality(running) - 1
    BY <2>1, CountOne
  <2>5. Cardinality(running') + orphans' <= Threads
    BY <1>1, <2>1, <2>4 DEF WorkerParameters
  <2>6. InLine(waiters') = InLine(waiters) /\ NoneTwice(waiters') /\ InLine(queue') = InLine(queue) /\ NoneTwice(queue')
    BY <2>1
  <2>7. QED
    BY <2>1, <2>2, <2>3, <2>4, <2>5, <2>6
<1>5. ASSUME NEW o \in Operations, Timeout(o) PROVE WorkersInv'
  <2>1. /\ o \in Jobs /\ job[o] = "submitted" /\ queue' = RemoveFirst(queue, o)
        /\ running' = running \ {o} /\ orphans' = IF o \in running THEN orphans + 1 ELSE orphans
        /\ Leave(o) /\ UNCHANGED waiters
    BY <1>5 DEF Timeout, Jobs
  <2>2. queue' \in Seq(Jobs) /\ NoneTwice(queue') /\ InLine(queue') = InLine(queue) \ {o}
    BY <2>1, CancelInLine
  <2>3. /\ job' \in [Jobs -> {"idle", "waiting", "submitted"}]
        /\ Submitted' = Submitted \ {o}
        /\ {w \in Operations : job'[w] = "waiting"} = {w \in Operations : job[w] = "waiting"}
        /\ permits' \in 0..MaxConcurrent
        /\ IsFiniteSet(Holders') /\ permits' + Cardinality(Holders') = MaxConcurrent
    BY <2>1, Leaves
  <2>4. /\ IsFiniteSet(running')
        /\ o \in running => Cardinality(running) > 0 /\ Cardinality(running') = Cardinality(running) - 1
        /\ o \notin running => running' = running
    BY <2>1, CountOne
  <2>5. orphans' \in 0..Threads /\ Cardinality(running') + orphans' <= Threads
    <3>1. PICK n \in Nat : n = Cardinality(running)
      BY <1>1
    <3>2. orphans \in Nat /\ n + orphans <= Threads /\ Threads \in Nat
      BY <3>1 DEF WorkerParameters
    <3>3. CASE o \in running
      BY <2>1, <2>4, <3>1, <3>2, <3>3
    <3>4. CASE o \notin running
      BY <2>1, <2>4, <3>1, <3>2, <3>4
    <3>5. QED
      BY <3>3, <3>4
  <2>6. InLine(waiters') = InLine(waiters) /\ NoneTwice(waiters')
    BY <2>1
  <2>7. QED
    BY <2>1, <2>2, <2>3, <2>4, <2>5, <2>6
<1>6. QED
  BY <1>2, <1>3, <1>4, <1>5

\* Whatever operations time out and whatever threads they leave behind, a
\* permit is held by exactly the operations that have a job of their own, and
\* a job is queued or running, never both and never without its operation.
THEOREM PermitsKept == ASSUME WorkerParameters PROVE WorkersSpec => []PermitsMatchJobs
<1>1. WorkersInit => WorkersInv
  BY WorkersStart
<1>2. WorkersInv /\ [WorkersNext]_workerVars => WorkersInv'
  <2> SUFFICES ASSUME WorkersInv, [WorkersNext]_workerVars PROVE WorkersInv'
    OBVIOUS
  <2>1. CASE UNCHANGED workerVars
    <3>1. UNCHANGED <<permits, waiters, job, queue, running, orphans>>
      BY <2>1 DEF workerVars
    <3>2. /\ Submitted' = Submitted /\ Holders' = Holders /\ InLine(waiters') = InLine(waiters)
          /\ NoneTwice(waiters') /\ InLine(queue') = InLine(queue) /\ NoneTwice(queue')
      BY <3>1 DEF Submitted, Holders, WorkersInv
    <3>3. QED
      BY <3>1, <3>2 DEF WorkersInv, WorkersTypeOK
  <2>2. CASE WorkersNext
    BY <2>2, WorkersEnter, WorkersRun DEF WorkersNext
  <2>3. QED
    BY <2>1, <2>2
<1>3. WorkersInv => PermitsMatchJobs
  <2> SUFFICES ASSUME WorkersInv PROVE PermitsMatchJobs
    OBVIOUS
  <2>1. Holders = {o \in Operations : job[o] = "submitted"}
    BY DEF Holders
  <2>2. permits + Cardinality({o \in Operations : job[o] = "submitted"}) = MaxConcurrent
    BY <2>1 DEF WorkersInv
  <2>3. ASSUME NEW j \in Jobs
        PROVE  job[j] = "submitted" <=> (j \in running) # (\E i \in DOMAIN queue : queue[i] = j)
    <3>1. job[j] = "submitted" <=> j \in running \/ j \in InLine(queue)
      BY DEF WorkersInv, Submitted
    <3>2. ~(j \in running /\ j \in InLine(queue))
      BY DEF WorkersInv
    <3>3. j \in InLine(queue) <=> \E i \in DOMAIN queue : queue[i] = j
      BY DEF InLine
    <3>4. CASE j \in running
      BY <3>1, <3>2, <3>3, <3>4, Zenon
    <3>5. CASE j \notin running
      <4>1. (j \in running) = FALSE
        BY <3>5
      <4>2. job[j] = "submitted" <=> \E i \in DOMAIN queue : queue[i] = j
        BY <3>1, <3>3, <3>5, Zenon
      <4>3. (FALSE # (\E i \in DOMAIN queue : queue[i] = j)) <=> \E i \in DOMAIN queue : queue[i] = j
        BY Zenon
      <4>4. QED
        BY <4>1, <4>2, <4>3, Zenon
    <3>6. QED
      BY <3>4, <3>5
  <2>4. QED
    BY <2>2, <2>3 DEF PermitsMatchJobs, WorkersInv
<1>4. QED
  BY <1>1, <1>2, <1>3, PTL DEF WorkersSpec

-----------------------------------------------------------------------------
(***************************************************************************)
(* CronSchedule: the next times of an expression.                          *)
(***************************************************************************)
(***************************************************************************)
(* Times in order, each once.                                              *)
(***************************************************************************)
Triples == Int \X Int \X Int

Increasing(s) == \A m, n \in DOMAIN s : m < n => Before(s[m], s[n])

Listing(s, S) == s \in Seq(S) /\ ToSet(s) = S /\ Increasing(s)

\* The order of the times is strict and total.
LEMMA BeforeOrders ==
  ASSUME NEW s \in Triples, NEW t \in Triples, NEW u \in Triples
  PROVE  /\ ~Before(s, s)
         /\ Before(s, t) => ~Before(t, s)
         /\ Before(s, t) /\ Before(t, u) => Before(s, u)
         /\ s # t => Before(s, t) \/ Before(t, s)
<1>1. \A p \in Triples : p = <<p[1], p[2], p[3]>> /\ p[1] \in Int /\ p[2] \in Int /\ p[3] \in Int
  BY DEF Triples
<1>2. s # t => s[1] # t[1] \/ s[2] # t[2] \/ s[3] # t[3]
  BY <1>1
<1>3. QED
  BY <1>1, <1>2 DEF Before

\* A list of a set has as many places as the set has members.
LEMMA ListingCounts ==
  ASSUME NEW S \in SUBSET Triples, NEW s, Listing(s, S)
  PROVE  /\ IsFiniteSet(S) /\ Cardinality(S) = Len(s)
         /\ Len(s) \in Nat /\ DOMAIN s = 1..Len(s)
         /\ \A i \in 1..Len(s) : s[i] \in S
         /\ \A x \in S : \E i \in 1..Len(s) : s[i] = x
<1>1. Len(s) \in Nat /\ DOMAIN s = 1..Len(s) /\ s \in [1..Len(s) -> S]
  BY DEF Listing
<1>2. \A x \in S : \E i \in 1..Len(s) : s[i] = x
  BY <1>1 DEF Listing, ToSet
<1>3. ASSUME NEW i \in 1..Len(s), NEW j \in 1..Len(s), s[i] = s[j]
      PROVE  i = j
  <2>1. \A m, n \in 1..Len(s) : m < n => Before(s[m], s[n])
    BY <1>1 DEF Listing, Increasing
  <2>2. ~Before(s[i], s[i])
    BY <1>1, BeforeOrders
  <2>3. ~(i < j) /\ ~(j < i)
    BY <1>3, <2>1, <2>2
  <2>4. QED
    BY <1>1, <2>3
<1>4. s \in Bijection(1..Len(s), S)
  BY <1>1, <1>2, <1>3 DEF Bijection, Injection, IsInjective, Surjection
<1>5. IsFiniteSet(1..Len(s)) /\ Cardinality(1..Len(s)) = Len(s)
  BY <1>1, FS_Interval
<1>6. ExistsBijection(1..Len(s), S)
  BY <1>4 DEF ExistsBijection
<1>7. QED
  BY <1>1, <1>2, <1>5, <1>6, FS_Bijection

\* Nothing is listed by the empty list.
LEMMA ListingEmpty ==
  Listing(<< >>, {})
BY DEF Listing, ToSet, Increasing

\* One list after another one, all of whose times are before its own.
LEMMA ListingJoined ==
  ASSUME NEW S \in SUBSET Triples, NEW T \in SUBSET Triples, NEW s, NEW t,
         Listing(s, S), Listing(t, T), \A x \in S, y \in T : Before(x, y)
  PROVE  Listing(s \o t, S \cup T)
<1>1. /\ Len(s) \in Nat /\ DOMAIN s = 1..Len(s) /\ \A i \in 1..Len(s) : s[i] \in S
      /\ \A x \in S : \E i \in 1..Len(s) : s[i] = x
  BY ListingCounts, Zenon
<1>0. /\ Len(t) \in Nat /\ DOMAIN t = 1..Len(t) /\ \A i \in 1..Len(t) : t[i] \in T
      /\ \A x \in T : \E i \in 1..Len(t) : t[i] = x
  BY ListingCounts, Zenon
<1> USE <1>0, <1>1
<1>2. s \in Seq(S \cup T) /\ t \in Seq(S \cup T)
  <2>1. s \in Seq(S) /\ t \in Seq(T)
    BY DEF Listing
  <2>2. QED
    BY <2>1
<1>3. /\ s \o t \in Seq(S \cup T) /\ Len(s \o t) = Len(s) + Len(t)
      /\ DOMAIN (s \o t) = 1..Len(s) + Len(t)
      /\ \A i \in 1..Len(s) + Len(t) : (s \o t)[i] = IF i <= Len(s) THEN s[i] ELSE t[i - Len(s)]
  BY <1>1, <1>2
<1>4. ASSUME NEW x \in S \cup T
      PROVE  x \in ToSet(s \o t)
  <2>1. CASE x \in S
    <3>1. PICK i \in 1..Len(s) : s[i] = x
      BY <2>1
    <3>2. i \in 1..Len(s) + Len(t) /\ (s \o t)[i] = x
      BY <1>1, <1>3, <3>1
    <3>3. QED
      BY <1>3, <3>2 DEF ToSet
  <2>2. CASE x \in T
    <3>1. PICK i \in 1..Len(t) : t[i] = x
      BY <2>2
    <3>2. i + Len(s) \in 1..Len(s) + Len(t) /\ (s \o t)[i + Len(s)] = x
      BY <1>1, <1>3, <3>1
    <3>3. QED
      BY <1>3, <3>2 DEF ToSet
  <2>3. QED
    BY <2>1, <2>2
<1>5. ToSet(s \o t) \subseteq S \cup T
  BY <1>2, <1>3 DEF ToSet
<1>6. ASSUME NEW m \in 1..Len(s) + Len(t), NEW n \in 1..Len(s) + Len(t), m < n
      PROVE  Before((s \o t)[m], (s \o t)[n])
  <2>1. /\ \A i, j \in 1..Len(s) : i < j => Before(s[i], s[j])
        /\ \A i, j \in 1..Len(t) : i < j => Before(t[i], t[j])
    BY <1>1 DEF Listing, Increasing
  <2>2. CASE n <= Len(s)
    <3>1. m \in 1..Len(s) /\ n \in 1..Len(s)
      BY <1>1, <1>6, <2>2
    <3>2. (s \o t)[m] = s[m] /\ (s \o t)[n] = s[n]
      BY <1>3, <3>1
    <3>3. QED
      BY <1>6, <2>1, <3>1, <3>2
  <2>3. CASE m > Len(s)
    <3>1. m - Len(s) \in 1..Len(t) /\ n - Len(s) \in 1..Len(t) /\ m - Len(s) < n - Len(s)
      BY <1>1, <1>6, <2>3
    <3>2. (s \o t)[m] = t[m - Len(s)] /\ (s \o t)[n] = t[n - Len(s)]
      BY <1>1, <1>3, <1>6, <2>3
    <3>3. QED
      BY <2>1, <3>1, <3>2
  <2>4. CASE m <= Len(s) /\ n > Len(s)
    <3>1. m \in 1..Len(s) /\ n - Len(s) \in 1..Len(t)
      BY <1>1, <1>6, <2>4
    <3>2. (s \o t)[m] = s[m] /\ (s \o t)[n] = t[n - Len(s)]
      BY <1>1, <1>3, <1>6, <2>4
    <3>3. QED
      BY <1>1, <3>1, <3>2
  <2>5. QED
    BY <1>1, <1>6, <2>2, <2>3, <2>4
<1>7. QED
  BY <1>3, <1>4, <1>5, <1>6 DEF Listing, Increasing

(***************************************************************************)
(* The times of a day.                                                     *)
(***************************************************************************)
Slots(date, hours, minutes, start) == {t \in {date} \X hours \X minutes : ~Before(t, start)}

\* The candidates of an hour are listed in order.
LEMMA RowLists ==
  ASSUME NEW minutes \in SUBSET Int, IsFiniteSet(minutes), NEW start \in Triples, NEW date \in Int, NEW hour \in Int
  PROVE  Listing(Row(minutes, start, date, hour), Slots(date, {hour}, minutes, start))
<1>1. PICK M : M = {m \in minutes : ~Before(<<date, hour, m>>, start)}
  OBVIOUS
<1>2. M \in SUBSET Int /\ IsFiniteSet(M)
  <2>1. M \in SUBSET minutes
    BY <1>1
  <2>2. QED
    BY <2>1, FS_Subset
<1>3. PICK left : left = Ascending(M)
  OBVIOUS
<1>4. PICK row : row = Row(minutes, start, date, hour)
  OBVIOUS
<1>5. row = [m \in DOMAIN left |-> <<date, hour, left[m]>>]
  BY <1>1, <1>3, <1>4 DEF Row
<1>6. PICK N \in Nat : /\ DOMAIN left = 1..N /\ \A m \in 1..N : left[m] \in M
                       /\ \A m, n \in 1..N : m < n => left[m] < left[n]
  <2>1. /\ left \in Seq(M) /\ DOMAIN left = 1..Cardinality(M) /\ Cardinality(M) \in Nat
        /\ \A m, n \in DOMAIN left : m < n => left[m] < left[n]
    BY <1>2, <1>3, AscendingSorts
  <2>2. \A m \in DOMAIN left : left[m] \in M
    BY <2>1
  <2>3. QED
    BY <2>1, <2>2
<1>7. \A m \in M : \E n \in 1..N : left[n] = m
  <2>1. ToSet(left) = M
    BY <1>2, <1>3, AscendingSorts
  <2>2. QED
    BY <1>6, <2>1 DEF ToSet
<1>8. PICK S : S = Slots(date, {hour}, minutes, start)
  OBVIOUS
<1>9. \A t : t \in S <=> \E m \in M : t = <<date, hour, m>>
  <2>1. ASSUME NEW t \in S PROVE \E m \in M : t = <<date, hour, m>>
    <3>1. t \in {date} \X {hour} \X minutes /\ ~Before(t, start)
      BY <1>8 DEF Slots
    <3>2. t = <<date, hour, t[3]>> /\ t[3] \in minutes
      BY <3>1
    <3>3. ~Before(<<date, hour, t[3]>>, start)
      BY <3>1, <3>2
    <3>4. QED
      BY <1>1, <3>2, <3>3
  <2>2. ASSUME NEW m \in M PROVE <<date, hour, m>> \in S
    <3>1. m \in minutes /\ ~Before(<<date, hour, m>>, start)
      BY <1>1
    <3>2. <<date, hour, m>> \in {date} \X {hour} \X minutes
      BY <3>1
    <3>3. QED
      BY <1>8, <3>1, <3>2, Zenon DEF Slots
  <2>3. QED
    BY <2>1, <2>2
<1>10. row \in Seq(S)
  BY <1>5, <1>6, <1>9
<1>11. ToSet(row) = S
  <2>1. DOMAIN row = 1..N
    BY <1>5, <1>6
  <2>2. ToSet(row) \subseteq S
    BY <1>10 DEF ToSet
  <2>3. ASSUME NEW t \in S PROVE t \in ToSet(row)
    <3>1. PICK m \in M : t = <<date, hour, m>>
      BY <1>9
    <3>2. PICK n \in 1..N : left[n] = m
      BY <1>7
    <3>3. row[n] = t
      BY <1>5, <1>6, <3>1, <3>2
    <3>4. QED
      BY <2>1, <3>3 DEF ToSet
  <2>4. QED
    BY <2>2, <2>3
<1>12. Increasing(row)
  <2>1. SUFFICES ASSUME NEW m \in 1..N, NEW n \in 1..N, m < n
                 PROVE  Before(row[m], row[n])
    BY <1>5, <1>6 DEF Increasing
  <2>2. row[m] = <<date, hour, left[m]>> /\ row[n] = <<date, hour, left[n]>> /\ left[m] < left[n]
    BY <1>5, <1>6, <2>1
  <2>3. QED
    BY <2>2 DEF Before
<1>13. QED
  BY <1>4, <1>8, <1>10, <1>11, <1>12 DEF Listing

\* The candidates of a day are listed in order.
LEMMA TimesOfLists ==
  ASSUME NEW fields, fields["hour"] \in SUBSET Int, IsFiniteSet(fields["hour"]),
         fields["minute"] \in SUBSET Int, IsFiniteSet(fields["minute"]),
         NEW start \in Triples, NEW date \in Int
  PROVE  Listing(TimesOf(fields, start, date), Slots(date, fields["hour"], fields["minute"], start))
<1>1. PICK H, M : H = fields["hour"] /\ M = fields["minute"]
  OBVIOUS
<1>2. H \in SUBSET Int /\ IsFiniteSet(H) /\ M \in SUBSET Int /\ IsFiniteSet(M)
  BY <1>1
<1>3. PICK hours : hours = Ascending(H)
  OBVIOUS
<1>4. PICK N \in Nat : /\ DOMAIN hours = 1..N /\ \A h \in 1..N : hours[h] \in H
                       /\ \A h, k \in 1..N : h < k => hours[h] < hours[k]
  <2>1. /\ hours \in Seq(H) /\ DOMAIN hours = 1..Cardinality(H) /\ Cardinality(H) \in Nat
        /\ \A h, k \in DOMAIN hours : h < k => hours[h] < hours[k]
    BY <1>2, <1>3, AscendingSorts
  <2>2. \A h \in DOMAIN hours : hours[h] \in H
    BY <2>1
  <2>3. QED
    BY <2>1, <2>2
<1>5. \A h \in H : \E n \in 1..N : hours[n] = h
  <2>1. ToSet(hours) = H
    BY <1>2, <1>3, AscendingSorts
  <2>2. QED
    BY <1>4, <2>1 DEF ToSet
<1>6. PICK rows : rows = [h \in 1..N |-> Row(M, start, date, hours[h])]
  OBVIOUS
<1>7. PICK times : times = TimesOf(fields, start, date)
  OBVIOUS
<1>8. times = FlattenSeq(rows)
  BY <1>1, <1>3, <1>4, <1>6, <1>7 DEF TimesOf
<1>9. Len(rows) = N
  BY <1>6
<1> DEFINE Part(n) == Slots(date, {hours[h] : h \in 1..n}, M, start)
<1>10. \A n \in Nat : Part(n) \in SUBSET ({date} \X {hours[h] : h \in 1..n} \X M)
  BY DEF Slots
<1>11. ASSUME NEW n \in 1..N
       PROVE  Part(n) \in SUBSET Triples /\ Slots(date, {hours[n]}, M, start) \in SUBSET Triples
  <2>1. {hours[h] : h \in 1..n} \in SUBSET Int
    <3>1. \A h \in 1..n : h \in 1..N
      OBVIOUS
    <3>2. \A h \in 1..n : hours[h] \in Int
      BY <1>2, <1>4, <3>1
    <3>3. QED
      BY <3>2
  <2>2. hours[n] \in Int
    BY <1>2, <1>4
  <2>3. QED
    BY <1>2, <2>1, <2>2 DEF Slots, Triples
<1>12. \A n \in 1..N : Listing(rows[n], Slots(date, {hours[n]}, M, start))
  <2>1. SUFFICES ASSUME NEW n \in 1..N PROVE Listing(rows[n], Slots(date, {hours[n]}, M, start))
    OBVIOUS
  <2>2. hours[n] \in Int /\ rows[n] = Row(M, start, date, hours[n])
    BY <1>2, <1>4, <1>6
  <2>3. QED
    BY <1>2, <2>2, RowLists
<1>13. CASE N = 0
  <2>1. H = {}
    BY <1>5, <1>13
  <2>2. rows = << >> /\ times = << >>
    BY <1>6, <1>8, <1>9, <1>13 DEF FlattenSeq
  <2>3. Slots(date, H, M, start) = {}
    BY <2>1 DEF Slots
  <2>4. QED
    BY <1>1, <1>7, <2>2, <2>3, ListingEmpty
<1>14. CASE N # 0
  <2>1. PICK f : /\ times = f[N] /\ f[1] = rows[1]
                 /\ \A i \in 1..N - 1 : f[i + 1] = f[i] \o rows[i + 1]
    BY <1>8, <1>9, <1>14, FlattenStepwise
  <2> DEFINE S == {n \in Nat : n + 1 <= N => Listing(f[n + 1], Part(n + 1))}
  <2>2. 0 \in S
    <3>1. Part(1) = Slots(date, {hours[1]}, M, start)
      <4>1. {hours[h] : h \in 1..1} = {hours[1]}
        OBVIOUS
      <4>2. QED
        BY <4>1
    <3>2. QED
      BY <1>12, <1>14, <2>1, <3>1
  <2>3. ASSUME NEW n \in S, n + 2 <= N
        PROVE  Listing(f[n + 2], Part(n + 2))
    <3>1. n \in Nat /\ n + 1 \in 1..N - 1 /\ n + 1 \in 1..N /\ n + 2 \in 1..N
      BY <2>3
    <3>2. Listing(f[n + 1], Part(n + 1))
      BY <3>1
    <3>3. Listing(rows[n + 2], Slots(date, {hours[n + 2]}, M, start))
      BY <1>12, <3>1
    <3>4. ASSUME NEW x \in Part(n + 1), NEW y \in Slots(date, {hours[n + 2]}, M, start)
          PROVE  Before(x, y)
      <4>1. PICK h \in 1..n + 1 : x[1] = date /\ x[2] = hours[h]
        BY DEF Slots
      <4>2. y[1] = date /\ y[2] = hours[n + 2]
        BY DEF Slots
      <4>3. hours[h] < hours[n + 2]
        <5>1. h \in 1..N /\ h < n + 2
          BY <3>1
        <5>2. QED
          BY <1>4, <3>1, <5>1
      <4>4. QED
        BY <4>1, <4>2, <4>3 DEF Before
    <3>5. Part(n + 2) = Part(n + 1) \cup Slots(date, {hours[n + 2]}, M, start)
      <4>1. \A h : h \in 1..n + 2 <=> h \in 1..n + 1 \/ h = n + 2
        BY <3>1
      <4>2. {hours[h] : h \in 1..n + 2} = {hours[h] : h \in 1..n + 1} \cup {hours[n + 2]}
        BY <4>1, Zenon
      <4>3. QED
        BY <4>2 DEF Slots
    <3>6. f[n + 2] = f[n + 1] \o rows[n + 2]
      <4>1. n + 1 + 1 = n + 2
        BY <3>1
      <4>2. QED
        BY <2>1, <3>1, <4>1
    <3>7. Part(n + 1) \in SUBSET Triples /\ Slots(date, {hours[n + 2]}, M, start) \in SUBSET Triples
      BY <1>11, <3>1
    <3>8. PICK A, B : A = Part(n + 1) /\ B = Slots(date, {hours[n + 2]}, M, start)
      OBVIOUS
    <3> HIDE DEF Part
    <3>9. Listing(f[n + 1] \o rows[n + 2], A \cup B)
      BY <3>2, <3>3, <3>4, <3>7, <3>8, ListingJoined
    <3>10. QED
      BY <3>5, <3>6, <3>8, <3>9
  <2>4. \A n \in S : n + 1 \in S
    <3>1. \A n \in S : n \in Nat /\ n + 1 + 1 = n + 2
      OBVIOUS
    <3>2. QED
      BY <2>3, <3>1
  <2>5. S = Nat
    <3> HIDE DEF S
    <3>1. S \in SUBSET Nat
      BY DEF S
    <3>2. QED
      BY <2>2, <2>4, <3>1, SetInduction
  <2>6. N - 1 \in Nat /\ N - 1 + 1 = N
    BY <1>14
  <2>7. Listing(f[N], Part(N))
    <3>1. N - 1 \in S
      BY <2>5, <2>6
    <3>2. QED
      BY <2>6, <3>1
  <2>8. {hours[h] : h \in 1..N} = H
    BY <1>4, <1>5
  <2>9. QED
    BY <1>1, <1>7, <2>1, <2>7, <2>8
<1>15. QED
  BY <1>13, <1>14

(***************************************************************************)
(* The times of several days, of which the first ones are kept.            *)
(***************************************************************************)
\* The smaller of two numbers.
LEMMA MinOfTwo ==
  ASSUME NEW a \in Int, NEW b \in Int
  PROVE  Min({a, b}) = IF a <= b THEN a ELSE b
<1>1. PICK m : m = IF a <= b THEN a ELSE b
  OBVIOUS
<1>2. m \in {a, b} /\ \A y \in {a, b} : m <= y
  BY <1>1
<1>3. \A x \in {a, b} : (\A y \in {a, b} : x <= y) => x = m
  BY <1>1
<1>4. PICK x : x = CHOOSE z \in {a, b} : \A y \in {a, b} : z <= y
  OBVIOUS
<1>5. x \in {a, b} /\ \A y \in {a, b} : x <= y
  BY <1>2, <1>4
<1>6. QED
  BY <1>1, <1>3, <1>4, <1>5 DEF Min

Prefix(s, count) == SubSeq(s, 1, Min({Len(s), count}))

\* The first ones of a list, as many as there are or are asked for.
LEMMA PrefixParts ==
  ASSUME NEW T, NEW s \in Seq(T), NEW count \in Nat
  PROVE  /\ Prefix(s, count) \in Seq(T)
         /\ Len(Prefix(s, count)) \in Nat
         /\ Len(s) <= count => Len(Prefix(s, count)) = Len(s)
         /\ count < Len(s) => Len(Prefix(s, count)) = count
         /\ \A i \in 1..Len(Prefix(s, count)) : i \in 1..Len(s) /\ Prefix(s, count)[i] = s[i]
<1>1. PICK k \in Nat : k = Min({Len(s), count}) /\ k = IF Len(s) <= count THEN Len(s) ELSE count
  BY MinOfTwo
<1>2. k \in 0..Len(s)
  BY <1>1
<1>3. /\ SubSeq(s, 1, k) \in Seq(T) /\ Len(SubSeq(s, 1, k)) = k
      /\ \A i \in 1..k : i \in 1..Len(s) /\ SubSeq(s, 1, k)[i] = s[i]
  BY <1>2
<1>4. Prefix(s, count) = SubSeq(s, 1, k)
  BY <1>1 DEF Prefix
<1>5. (Len(s) <= count => k = Len(s)) /\ (count < Len(s) => k = count)
  <2>1. Len(s) \in Nat
    OBVIOUS
  <2>2. QED
    BY <1>1, <2>1
<1>6. QED
  BY <1>3, <1>4, <1>5

\* The first ones of two lists, taken one after the other.
LEMMA PrefixJoined ==
  ASSUME NEW T, NEW s \in Seq(T), NEW t \in Seq(T), NEW count \in Nat
  PROVE  Prefix(s, count) \o Prefix(t, count - Len(Prefix(s, count))) = Prefix(s \o t, count)
<1>1. PICK p : p = Prefix(s, count)
  OBVIOUS
<1>2. /\ p \in Seq(T) /\ (Len(s) <= count => Len(p) = Len(s)) /\ (count < Len(s) => Len(p) = count)
      /\ Len(p) \in Nat
      /\ \A i \in 1..Len(p) : i \in 1..Len(s) /\ p[i] = s[i]
  BY <1>1, PrefixParts
<1>11. Len(s) \in Nat /\ Len(t) \in Nat /\ Len(p) \in Nat
  BY <1>2
<1>3. PICK rest \in Nat : rest = count - Len(p)
  <2>1. Len(p) <= count
    BY <1>2, <1>11
  <2>2. count - Len(p) \in Nat
    BY <1>11, <2>1
  <2>3. QED
    BY <2>2
<1>4. PICK q : q = Prefix(t, rest)
  OBVIOUS
<1>5. /\ q \in Seq(T) /\ (Len(t) <= rest => Len(q) = Len(t)) /\ (rest < Len(t) => Len(q) = rest)
      /\ Len(q) \in Nat
      /\ \A i \in 1..Len(q) : i \in 1..Len(t) /\ q[i] = t[i]
  BY <1>4, PrefixParts
<1>6. PICK b : b = s \o t
  OBVIOUS
<1>7. /\ b \in Seq(T) /\ Len(b) = Len(s) + Len(t)
      /\ \A i \in 1..Len(b) : b[i] = IF i <= Len(s) THEN s[i] ELSE t[i - Len(s)]
  BY <1>6
<1>8. PICK r : r = Prefix(b, count)
  OBVIOUS
<1>9. /\ r \in Seq(T) /\ (Len(b) <= count => Len(r) = Len(b)) /\ (count < Len(b) => Len(r) = count)
      /\ Len(r) \in Nat
      /\ \A i \in 1..Len(r) : i \in 1..Len(b) /\ r[i] = b[i]
  BY <1>7, <1>8, PrefixParts
<1>10. /\ p \o q \in Seq(T) /\ Len(p \o q) = Len(p) + Len(q)
       /\ \A i \in 1..Len(p) + Len(q) : (p \o q)[i] = IF i <= Len(p) THEN p[i] ELSE q[i - Len(p)]
  <2>1. p \in Seq(T) /\ q \in Seq(T)
    BY <1>2, <1>5
  <2>2. QED
    BY <2>1
<1>16. Len(q) \in Nat /\ Len(r) \in Nat
  BY <1>5, <1>9
<1>12. Len(p) + Len(q) = Len(r)
  <2>1. Len(b) = Len(s) + Len(t)
    BY <1>7
  <2>2. /\ Len(s) <= count => Len(p) = Len(s)
        /\ count < Len(s) => Len(p) = count
        /\ Len(t) <= rest => Len(q) = Len(t)
        /\ rest < Len(t) => Len(q) = rest
        /\ Len(b) <= count => Len(r) = Len(b)
        /\ count < Len(b) => Len(r) = count
    BY <1>2, <1>5, <1>9
  <2>3. QED
    BY <1>3, <1>11, <1>16, <2>1, <2>2
<1>13. ASSUME NEW i \in 1..Len(r)
       PROVE  (p \o q)[i] = r[i]
  <2>1. CASE i <= Len(p)
    <3>1. (p \o q)[i] = p[i] /\ p[i] = s[i] /\ i <= Len(s)
      BY <1>2, <1>10, <1>12, <2>1
    <3>2. r[i] = s[i]
      BY <1>7, <1>9, <3>1
    <3>3. QED
      BY <3>1, <3>2
  <2>2. CASE i > Len(p)
    <3>1. PICK j \in 1..Len(q) : j = i - Len(p)
      <4>1. i - Len(p) \in 1..Len(q)
        BY <1>11, <1>12, <1>16, <2>2
      <4>2. QED
        BY <4>1
    <3>2. Len(p) = Len(s)
      BY <1>2, <1>3, <1>5, <1>11, <3>1
    <3>3. (p \o q)[i] = q[j] /\ q[j] = t[j]
      BY <1>5, <1>10, <1>12, <2>2, <3>1
    <3>4. r[i] = t[j]
      BY <1>7, <1>9, <1>11, <2>2, <3>1, <3>2
    <3>5. QED
      BY <3>3, <3>4
  <2>3. i <= Len(p) \/ i > Len(p)
    BY <1>11, <1>16
  <2>4. QED
    BY <2>1, <2>2, <2>3, Zenon
<1>14. p \o q = r
  <2>1. p \o q \in Seq(T) /\ r \in Seq(T) /\ Len(p \o q) = Len(r)
    BY <1>9, <1>10, <1>12
  <2>2. QED
    BY <1>13, <2>1, SeqEqual
<1>15. QED
  BY <1>1, <1>3, <1>4, <1>6, <1>8, <1>14

\* What the prefix of a list of all times is.
LEMMA PrefixFirst ==
  ASSUME NEW S \in SUBSET Triples, NEW all, Listing(all, S), NEW count \in Nat
  PROVE  /\ Len(Prefix(all, count)) = Min({count, Cardinality(S)})
         /\ ToSet(Prefix(all, count)) \subseteq S
         /\ \A n \in 2..Len(Prefix(all, count)) : Before(Prefix(all, count)[n - 1], Prefix(all, count)[n])
         /\ \A t \in S \ ToSet(Prefix(all, count)) : \A u \in ToSet(Prefix(all, count)) : Before(u, t)
<1>1. PICK p : p = Prefix(all, count)
  OBVIOUS
<1>2. all \in Seq(S)
  BY DEF Listing
<1>3. /\ p \in Seq(S) /\ (Len(all) <= count => Len(p) = Len(all)) /\ (count < Len(all) => Len(p) = count)
      /\ Len(p) \in Nat
      /\ \A i \in 1..Len(p) : i \in 1..Len(all) /\ p[i] = all[i]
  BY <1>1, <1>2, PrefixParts
<1>4. Cardinality(S) = Len(all) /\ Len(all) \in Nat /\ DOMAIN all = 1..Len(all)
  BY ListingCounts
<1>5. Len(p) = Min({count, Cardinality(S)})
  BY <1>3, <1>4, MinOfTwo
<1>6. ToSet(p) \subseteq S
  BY <1>3 DEF ToSet
<1>7. \A m, n \in 1..Len(all) : m < n => Before(all[m], all[n])
  BY <1>4 DEF Listing, Increasing
<1>8. \A n \in 2..Len(p) : Before(p[n - 1], p[n])
  <2>1. SUFFICES ASSUME NEW n \in 2..Len(p) PROVE Before(p[n - 1], p[n])
    OBVIOUS
  <2>2. PICK m : m = n - 1
    OBVIOUS
  <2>3. m \in 1..Len(p) /\ n \in 1..Len(p) /\ m < n
    BY <1>3, <2>2
  <2>4. p[m] = all[m] /\ p[n] = all[n] /\ m \in 1..Len(all) /\ n \in 1..Len(all)
    BY <1>3, <2>3
  <2>5. QED
    BY <1>7, <2>2, <2>3, <2>4
<1>9. ASSUME NEW t \in S \ ToSet(p), NEW u \in ToSet(p)
      PROVE  Before(u, t)
  <2>1. PICK i \in 1..Len(p) : u = p[i]
    BY <1>3 DEF ToSet
  <2>2. \A x \in S : \E j \in 1..Len(all) : all[j] = x
    BY ListingCounts, Zenon
  <2>3. PICK j \in 1..Len(all) : t = all[j]
    BY <2>2
  <2>4. j \notin 1..Len(p)
    <3>1. SUFFICES ASSUME j \in 1..Len(p) PROVE FALSE
      OBVIOUS
    <3>2. t = p[j]
      BY <1>3, <2>3, <3>1
    <3>3. DOMAIN p = 1..Len(p)
      BY <1>3
    <3>4. QED
      BY <3>1, <3>2, <3>3 DEF ToSet
  <2>5. i < j /\ i \in 1..Len(all)
    BY <1>3, <1>4, <2>4
  <2>6. QED
    BY <1>3, <1>7, <2>1, <2>3, <2>5
<1>10. QED
  BY <1>1, <1>5, <1>6, <1>8, <1>9

\* What the loop of _next_times collects, day by day.
DayTimes(fields, start, n) ==
  IF DaysMatch(fields, start[1] + n - 1) THEN TimesOf(fields, start, start[1] + n - 1) ELSE << >>

Collects(f, fields, start, count, n) ==
  f = [i \in 0..n |-> IF i = 0 THEN << >>
                      ELSE f[i - 1] \o Prefix(DayTimes(fields, start, i), count - Len(f[i - 1]))]

\* The loop can take one more day.
LEMMA CollectsNext ==
  ASSUME NEW fields, NEW start, NEW count, NEW n \in Nat, NEW f, Collects(f, fields, start, count, n)
  PROVE  \E g : Collects(g, fields, start, count, n + 1)
<1>1. PICK g : g = [i \in 0..n + 1 |->
                      IF i = 0 THEN << >>
                      ELSE f[i - 1] \o Prefix(DayTimes(fields, start, i), count - Len(f[i - 1]))]
  OBVIOUS
<1>2. \A i \in 0..n :
        f[i] = IF i = 0 THEN << >> ELSE f[i - 1] \o Prefix(DayTimes(fields, start, i), count - Len(f[i - 1]))
  BY Zenon DEF Collects
<1>3. \A i \in 0..n : i \in 0..n + 1
  OBVIOUS
<1>4. \A i \in 0..n : g[i] = f[i]
  BY <1>1, <1>2, <1>3, Zenon
<1>5. \A i \in 0..n + 1 : i # 0 => i - 1 \in 0..n
  OBVIOUS
<1>6. g = [i \in 0..n + 1 |-> IF i = 0 THEN << >>
                              ELSE g[i - 1] \o Prefix(DayTimes(fields, start, i), count - Len(g[i - 1]))]
  BY <1>1, <1>4, <1>5, Zenon
<1>7. QED
  BY <1>6, Zenon DEF Collects

\* The loop can take any number of days.
LEMMA CollectsExists ==
  ASSUME NEW fields, NEW start, NEW count
  PROVE  \A n \in Nat : \E f : Collects(f, fields, start, count, n)
<1> DEFINE S == {n \in Nat : \E f : Collects(f, fields, start, count, n)}
<1>1. 0 \in S
  <2>1. PICK f : f = [i \in 0..0 |-> << >>]
    OBVIOUS
  <2>2. f = [i \in 0..0 |-> IF i = 0 THEN << >>
                            ELSE f[i - 1] \o Prefix(DayTimes(fields, start, i), count - Len(f[i - 1]))]
    <3>1. \A i \in 0..0 : i = 0
      OBVIOUS
    <3>2. QED
      BY <2>1, <3>1, Zenon
  <2>3. QED
    BY <2>2, Zenon DEF Collects
<1>2. \A n \in S : n + 1 \in S
  BY CollectsNext
<1>3. S = Nat
  <2> HIDE DEF S
  <2>1. S \in SUBSET Nat
    BY DEF S
  <2>2. QED
    BY <1>1, <1>2, <2>1, SetInduction
<1>4. QED
  BY <1>3

Collected(f, fields, start, count, days) ==
  /\ f[0] = << >>
  /\ \A i \in 1..days : f[i] = f[i - 1] \o Prefix(DayTimes(fields, start, i), count - Len(f[i - 1]))

\* What is collected in some days is made day by day.
LEMMA TimesUpToStepwise ==
  ASSUME NEW fields, NEW start, NEW count, NEW days \in Nat
  PROVE  \E f : TimesUpTo(fields, start, count, days) = f[days] /\ Collected(f, fields, start, count, days)
<1>1. PICK f : f = CHOOSE g : Collects(g, fields, start, count, days)
  OBVIOUS
<1>2. Collects(f, fields, start, count, days)
  <2>1. \E g : Collects(g, fields, start, count, days)
    BY CollectsExists
  <2>2. QED
    BY <1>1, <2>1, Zenon
<1>3. TimesUpTo(fields, start, count, days) = f[days]
  BY <1>1, Zenon DEF TimesUpTo, Collects, Prefix, DayTimes
<1>4. \A i \in 0..days :
        f[i] = IF i = 0 THEN << >> ELSE f[i - 1] \o Prefix(DayTimes(fields, start, i), count - Len(f[i - 1]))
  BY <1>2, Zenon DEF Collects
<1>5. 0 \in 0..days /\ \A i \in 1..days : i \in 0..days /\ i # 0
  OBVIOUS
<1>6. Collected(f, fields, start, count, days)
  BY <1>4, <1>5, Zenon DEF Collected
<1>7. QED
  BY <1>3, <1>6

\* The times from the start on, on the days that match, of the first n days.
Coming(fields, start, n) ==
  {t \in (start[1]..start[1] + n - 1) \X fields["hour"] \X fields["minute"] :
     ~Before(t, start) /\ DaysMatch(fields, t[1])}

\* The next day adds its times after those of the days before.
LEMMA DayTimesLists ==
  ASSUME NEW fields, fields["hour"] \in SUBSET Int, IsFiniteSet(fields["hour"]),
         fields["minute"] \in SUBSET Int, IsFiniteSet(fields["minute"]),
         NEW start \in Triples, NEW n \in Nat
  PROVE  \E T \in SUBSET Triples :
           /\ Listing(DayTimes(fields, start, n + 1), T)
           /\ Coming(fields, start, n + 1) = Coming(fields, start, n) \cup T
           /\ Coming(fields, start, n) \in SUBSET Triples
           /\ \A x \in Coming(fields, start, n), y \in T : Before(x, y)
<1>1. PICK H, M : H = fields["hour"] /\ M = fields["minute"] /\ H \in SUBSET Int /\ M \in SUBSET Int
  OBVIOUS
<1>2. PICK first \in Int : first = start[1]
  BY DEF Triples
<1>3. PICK date \in Int : date = first + n
  OBVIOUS
<1>4. PICK T : T = {t \in {date} \X H \X M : ~Before(t, start) /\ DaysMatch(fields, t[1])}
  OBVIOUS
<1>5. first + (n + 1) - 1 = date
  BY <1>3
<1>6. T \in SUBSET Triples
  BY <1>1, <1>4 DEF Triples
<1>7. Listing(DayTimes(fields, start, n + 1), T)
  <2>1. CASE DaysMatch(fields, date)
    <3>1. Listing(TimesOf(fields, start, date), Slots(date, H, M, start))
      BY <1>1, TimesOfLists
    <3>2. \A t \in {date} \X H \X M : DaysMatch(fields, t[1])
      BY <2>1
    <3>3. T = Slots(date, H, M, start)
      BY <1>4, <3>2, Zenon DEF Slots
    <3>4. DayTimes(fields, start, n + 1) = TimesOf(fields, start, date)
      BY <1>2, <1>5, <2>1, Zenon DEF DayTimes
    <3>5. QED
      BY <3>1, <3>3, <3>4
  <2>2. CASE ~DaysMatch(fields, date)
    <3>1. \A t \in {date} \X H \X M : ~DaysMatch(fields, t[1])
      BY <2>2
    <3>2. T = {}
      BY <1>4, <3>1, Zenon
    <3>3. DayTimes(fields, start, n + 1) = << >>
      BY <1>2, <1>5, <2>2, Zenon DEF DayTimes
    <3>4. QED
      BY <3>2, <3>3, ListingEmpty
  <2>3. QED
    BY <2>1, <2>2
<1>8. Coming(fields, start, n + 1) = Coming(fields, start, n) \cup T
  <2>1. \A d : d \in first..first + (n + 1) - 1 <=> d \in first..first + n - 1 \/ d = date
    BY <1>3
  <2>2. \A t : t \in (first..first + (n + 1) - 1) \X H \X M
                 <=> t \in (first..first + n - 1) \X H \X M \/ t \in {date} \X H \X M
    BY <2>1
  <2>3. \A t : t \in Coming(fields, start, n + 1) <=> t \in Coming(fields, start, n) \/ t \in T
    BY <1>1, <1>2, <1>4, <2>2, Zenon DEF Coming
  <2>4. QED
    BY <2>3, Zenon
<1>9. Coming(fields, start, n) \in SUBSET Triples
  BY <1>1, <1>2 DEF Coming, Triples
<1>10. ASSUME NEW x \in Coming(fields, start, n), NEW y \in T
       PROVE  Before(x, y)
  <2>1. x[1] \in first..first + n - 1
    BY <1>2 DEF Coming
  <2>2. y[1] = date
    BY <1>4
  <2>3. QED
    BY <1>3, <2>1, <2>2 DEF Before
<1>11. QED
  BY <1>6, <1>7, <1>8, <1>9, <1>10

\* What is collected are the first ones of all times of those days.
LEMMA TimesUpToLists ==
  ASSUME NEW fields, fields["hour"] \in SUBSET Int, IsFiniteSet(fields["hour"]),
         fields["minute"] \in SUBSET Int, IsFiniteSet(fields["minute"]),
         NEW start \in Triples, NEW count \in Nat, NEW days \in Nat
  PROVE  \E all : /\ Listing(all, Coming(fields, start, days))
                  /\ TimesUpTo(fields, start, count, days) = Prefix(all, count)
                  /\ Coming(fields, start, days) \in SUBSET Triples
<1>1. PICK f : TimesUpTo(fields, start, count, days) = f[days] /\ Collected(f, fields, start, count, days)
  BY TimesUpToStepwise
<1>8. /\ f[0] = << >>
      /\ \A i \in 1..days : f[i] = f[i - 1] \o Prefix(DayTimes(fields, start, i), count - Len(f[i - 1]))
  BY <1>1 DEF Collected
<1> DEFINE S == {n \in Nat : n <= days =>
                   \E all : Listing(all, Coming(fields, start, n)) /\ f[n] = Prefix(all, count)}
<1>2. 0 \in S
  <2>1. Coming(fields, start, 0) = {}
    <3>1. start[1] \in Int
      BY DEF Triples
    <3>2. start[1]..start[1] + 0 - 1 = {}
      BY <3>1
    <3>3. QED
      BY <3>2 DEF Coming
  <2>2. Prefix(<< >>, count) = << >>
    <3>0. << >> \in Seq({}) /\ Len(<< >>) = 0
      BY EmptySeq
    <3>1. PICK e \in Seq({}) : e = << >> /\ Len(e) = 0
      BY <3>0
    <3>4. Len(e) <= count
      BY <3>1
    <3>2. Prefix(e, count) \in Seq({}) /\ Len(Prefix(e, count)) = 0
      BY <3>1, <3>4, PrefixParts
    <3>3. QED
      BY <3>1, <3>2, EmptySeq
  <2>3. QED
    BY <1>8, <2>1, <2>2, ListingEmpty
<1>3. ASSUME NEW n \in S
      PROVE  n + 1 \in S
  <2>1. SUFFICES ASSUME n + 1 <= days
                 PROVE  \E all : Listing(all, Coming(fields, start, n + 1)) /\ f[n + 1] = Prefix(all, count)
    OBVIOUS
  <2>2. n \in Nat /\ n <= days
    BY <2>1
  <2>3. PICK all : Listing(all, Coming(fields, start, n)) /\ f[n] = Prefix(all, count)
    BY <2>2
  <2>4. PICK T \in SUBSET Triples :
          /\ Listing(DayTimes(fields, start, n + 1), T)
          /\ Coming(fields, start, n + 1) = Coming(fields, start, n) \cup T
          /\ Coming(fields, start, n) \in SUBSET Triples
          /\ \A x \in Coming(fields, start, n), y \in T : Before(x, y)
    BY <2>2, DayTimesLists
  <2>5. PICK C : C = Coming(fields, start, n)
    OBVIOUS
  <2>6. PICK day : day = DayTimes(fields, start, n + 1)
    OBVIOUS
  <2>7. Listing(all \o day, C \cup T)
    BY <2>3, <2>4, <2>5, <2>6, ListingJoined
  <2>8. PICK k \in 1..days : k = n + 1 /\ k - 1 = n
    BY <2>1, <2>2
  <2>9. f[k] = f[n] \o Prefix(day, count - Len(f[n]))
    BY <1>8, <2>6, <2>8
  <2>10. all \in Seq(Triples) /\ day \in Seq(Triples)
    <3>1. all \in Seq(C) /\ day \in Seq(T) /\ C \subseteq Triples /\ T \subseteq Triples
      BY <2>3, <2>4, <2>5, <2>6 DEF Listing
    <3>2. QED
      BY <3>1, SeqMonotonic
  <2>11. f[k] = Prefix(all \o day, count)
    BY <2>3, <2>9, <2>10, PrefixJoined
  <2>12. QED
    BY <2>4, <2>5, <2>7, <2>8, <2>11
<1>4. S = Nat
  <2>1. \A n \in S : n + 1 \in S
    BY <1>3
  <2> HIDE DEF S
  <2>2. S \in SUBSET Nat
    BY DEF S
  <2>3. QED
    BY <1>2, <2>1, <2>2, SetInduction
<1>5. PICK all : Listing(all, Coming(fields, start, days)) /\ f[days] = Prefix(all, count)
  <2>1. days \in S
    BY <1>4
  <2>2. QED
    BY <2>1
<1>6. Coming(fields, start, days) \in SUBSET Triples
  BY DayTimesLists
<1>7. QED
  BY <1>1, <1>5, <1>6

(***************************************************************************)
(* What the items of a field mean.                                         *)
(***************************************************************************)
\* Quotient and remainder.
LEMMA Division ==
  ASSUME NEW x \in Nat, NEW n \in Nat, n > 0
  PROVE  x \div n \in Nat /\ x % n \in 0..n - 1 /\ x = n * (x \div n) + (x % n)
OBVIOUS

\* A range with a step holds the numbers that the step reaches.
LEMMA Multiples ==
  ASSUME NEW a \in Int, NEW b \in Int, a <= b, NEW n \in Nat, n > 0
  PROVE  {a + k * n : k \in 0..(b - a) \div n} = {v \in a..b : (v - a) % n = 0}
<1>1. PICK x \in Nat : x = b - a
  <2>1. b - a \in Nat
    OBVIOUS
  <2>2. QED
    BY <2>1
<1>2. PICK q \in Nat : q = x \div n
  BY Division
<1>3. q * n <= x /\ x < q * n + n
  BY <1>2, Division
<1>4. ASSUME NEW v, NEW k \in 0..q, v = a + k * n
      PROVE  v \in a..b /\ (v - a) % n = 0
  <2>1. k * n <= q * n /\ 0 <= k * n
    OBVIOUS
  <2>2. PICK m \in Nat : m = k * n
    BY <2>1
  <2>3. v = a + m /\ m <= x
    BY <1>3, <1>4, <2>1, <2>2
  <2>4. (k * n) % n = 0
    OBVIOUS
  <2>5. v - a = m
    BY <2>3
  <2>6. QED
    BY <1>1, <2>2, <2>3, <2>4, <2>5
<1>5. ASSUME NEW v \in a..b, (v - a) % n = 0
      PROVE  \E k \in 0..q : v = a + k * n
  <2>1. PICK y \in Nat : y = v - a /\ y <= x /\ y % n = 0
    <3>1. v - a \in Nat /\ v - a <= x
      BY <1>1, <1>5
    <3>2. QED
      BY <1>5, <3>1
  <2>2. PICK k \in Nat : k = y \div n
    BY Division
  <2>3. y = n * k
    BY <2>1, <2>2, Division
  <2>4. k <= q
    BY <1>3, <2>1, <2>3
  <2>5. v = a + k * n
    BY <1>5, <2>1, <2>3
  <2>6. QED
    BY <2>4, <2>5
<1>6. {a + k * n : k \in 0..q} = {v \in a..b : (v - a) % n = 0}
  BY <1>4, <1>5, Zenon
<1>7. QED
  BY <1>1, <1>2, <1>6

\* The five fields and their ranges.
LEMMA Fields5 ==
  /\ FieldNames = {"minute", "hour", "day", "month", "weekday"}
  /\ \A f \in FieldNames : Low[f] \in Nat /\ High[f] \in Nat /\ Low[f] <= High[f]
  /\ Low["minute"] = 0 /\ Low["hour"] = 0 /\ Low["weekday"] = 0 /\ High["weekday"] = 6
BY RangeAssumption DEF FieldNames

\* An item of a field adds the values of the range that it means.
LEMMA ItemValues ==
  ASSUME NEW f \in FieldNames, NEW item \in Items, Accepted(f, item), NEW v
  PROVE  v \in Values(f, item) <=> v \in Low[f]..High[f] /\ ItemMeans(f, item, v)
<1>1. Low[f] \in Nat /\ High[f] \in Nat /\ Low[f] <= High[f]
  BY Fields5
<1>2. /\ item.from \in Nat /\ item.to \in Nat /\ item.step \in Int \cup {NoStep}
      /\ NoStep \notin Int
  BY RequestAssumption DEF Items
<1>3. PICK a, b \in Int : a = From(f, item) /\ b = To(f, item) /\ a >= Low[f] /\ b <= High[f] /\ a <= b
  <2>1. From(f, item) \in Int /\ To(f, item) \in Int
    BY <1>1, <1>2 DEF From, To
  <2>2. QED
    BY <2>1 DEF Accepted
<1>4. PICK n \in Nat : n = (IF item.step = NoStep THEN 1 ELSE item.step) /\ n > 0
  BY <1>2 DEF Accepted
<1>5. Values(f, item) = {a + k * n : k \in 0..(b - a) \div n}
  BY <1>3, <1>4, Zenon DEF Values
<1>6. Values(f, item) = {w \in a..b : (w - a) % n = 0}
  <2>1. a \in Int /\ b \in Int /\ a <= b /\ n \in Nat /\ n > 0
    BY <1>3, <1>4
  <2>2. {a + k * n : k \in 0..(b - a) \div n} = {w \in a..b : (w - a) % n = 0}
    BY <2>1, Multiples
  <2>3. QED
    BY <1>5, <2>2, Zenon
<1>7. ItemMeans(f, item, v) <=> (item.form = "*" \/ v \in item.from..item.to) /\ (item.step # NoStep => (v - a) % item.step = 0)
  BY <1>3, Zenon DEF ItemMeans
<1>8. v \in Low[f]..High[f] => (v \in a..b <=> item.form = "*" \/ v \in item.from..item.to)
  BY <1>1, <1>2, <1>3 DEF From, To
<1>9. v \in a..b => v \in Low[f]..High[f]
  BY <1>1, <1>3
<1>10. v \in Low[f]..High[f] => (((v - a) % n = 0) <=> (item.step # NoStep => (v - a) % item.step = 0))
  <2>1. CASE item.step = NoStep
    <3>1. n = 1
      BY <1>4, <2>1
    <3>2. v \in Low[f]..High[f] => (v - a) % 1 = 0
      BY <1>1
    <3>3. QED
      BY <2>1, <3>1, <3>2
  <2>2. CASE item.step # NoStep
    BY <1>4, <2>2
  <2>3. QED
    BY <2>1, <2>2
<1>11. QED
  BY <1>6, <1>7, <1>8, <1>9, <1>10

AcceptedAll(expression) == \A f \in FieldNames : \A item \in ToSet(expression[f]) : Accepted(f, item)

\* A field holds the values of its range that one of its items means, and is
\* unrestricted exactly if that is all of them.
LEMMA FieldValues ==
  ASSUME NEW expression \in [FieldNames -> Seq(Items)], AcceptedAll(expression), NEW f \in FieldNames
  PROVE  /\ \A v : v \in Expanded(f, expression[f]) <=> v \in Low[f]..High[f] /\ FieldMeans(expression, f, v)
         /\ Expanded(f, expression[f]) \in SUBSET Int
         /\ IsFiniteSet(Expanded(f, expression[f]))
         /\ Expanded(f, expression[f]) = Low[f]..High[f] <=> Whole(expression, f)
<1>1. PICK items \in Seq(Items) : items = expression[f]
  OBVIOUS
<1>2. ASSUME NEW v
      PROVE  v \in Expanded(f, items) <=> v \in Low[f]..High[f] /\ FieldMeans(expression, f, v)
  <2>1. \A n \in DOMAIN items : items[n] \in Items /\ Accepted(f, items[n])
    BY <1>1 DEF AcceptedAll, ToSet
  <2>2. \A n \in DOMAIN items : v \in Values(f, items[n]) <=> v \in Low[f]..High[f] /\ ItemMeans(f, items[n], v)
    BY <2>1, ItemValues
  <2>3. v \in Expanded(f, items) <=> \E n \in DOMAIN items : v \in Values(f, items[n])
    BY Zenon DEF Expanded
  <2>4. FieldMeans(expression, f, v) <=> \E n \in DOMAIN items : ItemMeans(f, items[n], v)
    BY <1>1 DEF FieldMeans, ToSet
  <2>5. QED
    BY <2>2, <2>3, <2>4
<1>3. Low[f] \in Int /\ High[f] \in Int
  BY Fields5
<1>4. Expanded(f, items) \in SUBSET (Low[f]..High[f])
  BY <1>2
<1>5. IsFiniteSet(Low[f]..High[f])
  BY <1>3, FS_Interval
<1>6. IsFiniteSet(Expanded(f, items))
  BY <1>4, <1>5, FS_Subset
<1>7. Expanded(f, items) \in SUBSET Int
  BY <1>3, <1>4
<1>8. Expanded(f, items) = Low[f]..High[f] <=> Whole(expression, f)
  BY <1>2, <1>4, Zenon DEF Whole
<1>9. QED
  BY <1>1, <1>2, <1>6, <1>7, <1>8

\* Month, day and weekday of a date are in the ranges of their fields.
LEMMA DayOfDate ==
  ASSUME NEW date \in Int
  PROVE  /\ DayOf(date)[1] \in Low["month"]..High["month"] /\ DayOf(date)[2] \in Low["day"]..High["day"]
         /\ DayOf(date) = <<DayOf(date)[1], DayOf(date)[2]>>
         /\ date % 7 \in 0..6 /\ Low["weekday"]..High["weekday"] = 0..6
<1>1. PICK n \in Nat : n = Len(Calendar) /\ n > 0
  BY CalendarAssumption, EmptySeq
<1>2. date % n \in 0..n - 1
  BY <1>1
<1>3. PICK i \in 1..n : i = (date % n) + 1
  <2>1. (date % n) + 1 \in 1..n
    BY <1>1, <1>2
  <2>2. QED
    BY <2>1
<1>4. Calendar[i] \in (Low["month"]..High["month"]) \X (Low["day"]..High["day"])
  BY <1>1, CalendarAssumption
<1>5. DayOf(date) = Calendar[i]
  BY <1>1, <1>3 DEF DayOf
<1>6. date % 7 \in 0..6
  OBVIOUS
<1>7. QED
  BY <1>4, <1>5, <1>6, Fields5

\* On any date, what is collected is what the expression means.
LEMMA DaysMatchMeans ==
  ASSUME NEW expression \in [FieldNames -> Seq(Items)], AcceptedAll(expression),
         NEW fields, fields = [f \in FieldNames |-> Expanded(f, expression[f])],
         NEW t \in Int \X (Low["hour"]..High["hour"]) \X (Low["minute"]..High["minute"])
  PROVE  ExpressionMeans(expression, t)
           <=> t[2] \in fields["hour"] /\ t[3] \in fields["minute"] /\ DaysMatch(fields, t[1])
<1>1. /\ "minute" \in FieldNames /\ "hour" \in FieldNames /\ "day" \in FieldNames
      /\ "month" \in FieldNames /\ "weekday" \in FieldNames
  BY Fields5
<1>2. \A f \in FieldNames :
        /\ \A v : v \in fields[f] <=> v \in Low[f]..High[f] /\ FieldMeans(expression, f, v)
        /\ fields[f] = Low[f]..High[f] <=> Whole(expression, f)
  <2>1. SUFFICES ASSUME NEW f \in FieldNames
                 PROVE  /\ \A v : v \in fields[f] <=> v \in Low[f]..High[f] /\ FieldMeans(expression, f, v)
                        /\ fields[f] = Low[f]..High[f] <=> Whole(expression, f)
    OBVIOUS
  <2>2. fields[f] = Expanded(f, expression[f])
    OBVIOUS
  <2>3. QED
    BY <2>2, FieldValues
<1>3. PICK date \in Int : date = t[1]
  OBVIOUS
<1>4. PICK day : day = DayOf(date)
  OBVIOUS
<1>5. /\ day[1] \in Low["month"]..High["month"] /\ day[2] \in Low["day"]..High["day"]
      /\ date % 7 \in Low["weekday"]..High["weekday"]
  BY <1>4, DayOfDate
<1>6. /\ t[2] \in fields["hour"] <=> FieldMeans(expression, "hour", t[2])
      /\ t[3] \in fields["minute"] <=> FieldMeans(expression, "minute", t[3])
      /\ day[1] \in fields["month"] <=> FieldMeans(expression, "month", day[1])
      /\ day[2] \in fields["day"] <=> FieldMeans(expression, "day", day[2])
      /\ date % 7 \in fields["weekday"] <=> FieldMeans(expression, "weekday", date % 7)
  <2>1. t[2] \in Low["hour"]..High["hour"] /\ t[3] \in Low["minute"]..High["minute"]
    OBVIOUS
  <2>2. QED
    BY <1>1, <1>2, <1>5, <2>1, Zenon
<1>7. /\ fields["day"] = Low["day"]..High["day"] => FieldMeans(expression, "day", day[2])
      /\ fields["weekday"] = Low["weekday"]..High["weekday"] => FieldMeans(expression, "weekday", date % 7)
  BY <1>1, <1>2, <1>5, Zenon
<1>8. /\ fields["day"] = Low["day"]..High["day"] <=> Whole(expression, "day")
      /\ fields["weekday"] = Low["weekday"]..High["weekday"] <=> Whole(expression, "weekday")
  BY <1>1, <1>2, Zenon
<1>9. DaysMatch(fields, date)
        <=> /\ day[1] \in fields["month"]
            /\ IF fields["day"] # Low["day"]..High["day"] /\ fields["weekday"] # Low["weekday"]..High["weekday"]
               THEN day[2] \in fields["day"] \/ date % 7 \in fields["weekday"]
               ELSE day[2] \in fields["day"] /\ date % 7 \in fields["weekday"]
  BY <1>4, Zenon DEF DaysMatch
<1>10. ExpressionMeans(expression, t)
         <=> /\ FieldMeans(expression, "minute", t[3]) /\ FieldMeans(expression, "hour", t[2])
             /\ FieldMeans(expression, "month", day[1])
             /\ \/ FieldMeans(expression, "day", day[2])
                \/ ~Whole(expression, "weekday") /\ FieldMeans(expression, "weekday", date % 7)
             /\ \/ FieldMeans(expression, "weekday", date % 7)
                \/ ~Whole(expression, "day") /\ FieldMeans(expression, "day", day[2])
  BY <1>3, <1>4, Zenon DEF ExpressionMeans
<1>11. QED
  BY <1>3, <1>6, <1>7, <1>8, <1>9, <1>10, Zenon

\* What the items of a generated expression are.
LEMMA ItemForms ==
  /\ All = <<[form |-> "*", from |-> 0, to |-> 0, step |-> NoStep]>>
  /\ \A n : Every(n) = <<[form |-> "*", from |-> 0, to |-> 0, step |-> n]>>
  /\ \A n : One(n) = <<[form |-> "value", from |-> n, to |-> n, step |-> NoStep]>>
  /\ \A m, n : Span(m, n) = <<[form |-> "range", from |-> m, to |-> n, step |-> NoStep]>>
BY Zenon DEF All, Every, One, Span

\* What a generated field means.
LEMMA FieldsAsked ==
  ASSUME NEW expression, NEW f \in FieldNames, NEW v \in Int
  PROVE  /\ expression[f] = All => FieldMeans(expression, f, v)
         /\ \A n \in Nat : expression[f] = Every(n) /\ Low[f] = 0 => (FieldMeans(expression, f, v) <=> v % n = 0)
         /\ \A n \in Nat : expression[f] = One(n) => (FieldMeans(expression, f, v) <=> v = n)
         /\ \A m, n \in Nat : expression[f] = Span(m, n) => (FieldMeans(expression, f, v) <=> v \in m..n)
<1>1. NoStep \notin Int
  BY RequestAssumption
<1>2. ASSUME NEW item, expression[f] = <<item>>
      PROVE  FieldMeans(expression, f, v) <=> ItemMeans(f, item, v)
  <2>1. ToSet(<<item>>) = {item}
    BY DEF ToSet
  <2>2. QED
    BY <1>2, <2>1 DEF FieldMeans
<1>3. ASSUME expression[f] = All
      PROVE  FieldMeans(expression, f, v)
  BY <1>2, <1>3, ItemForms DEF ItemMeans
<1>4. ASSUME NEW n \in Nat, expression[f] = Every(n), Low[f] = 0
      PROVE  FieldMeans(expression, f, v) <=> v % n = 0
  <2>1. PICK item : item = [form |-> "*", from |-> 0, to |-> 0, step |-> n]
    OBVIOUS
  <2>2. FieldMeans(expression, f, v) <=> ItemMeans(f, item, v)
    BY <1>2, <1>4, <2>1, ItemForms
  <2>3. From(f, item) = 0 /\ item.form = "*" /\ item.step = n /\ n # NoStep
    BY <1>1, <1>4, <2>1 DEF From
  <2>4. v - 0 = v
    OBVIOUS
  <2>5. QED
    BY <2>2, <2>3, <2>4, Zenon DEF ItemMeans
<1>5. ASSUME NEW m \in Nat, NEW n \in Nat, NEW form, form # "*"
      PROVE  ItemMeans(f, [form |-> form, from |-> m, to |-> n, step |-> NoStep], v) <=> v \in m..n
  BY <1>5 DEF ItemMeans
<1>6. ASSUME NEW n \in Nat, expression[f] = One(n)
      PROVE  FieldMeans(expression, f, v) <=> v = n
  BY <1>2, <1>5, <1>6, ItemForms
<1>7. ASSUME NEW m \in Nat, NEW n \in Nat, expression[f] = Span(m, n)
      PROVE  FieldMeans(expression, f, v) <=> v \in m..n
  BY <1>2, <1>5, <1>7, ItemForms
<1>8. QED
  BY <1>3, <1>4, <1>6, <1>7

\* What the weekend means.
LEMMA TwoItems ==
  ASSUME NEW f, NEW v \in Int
  PROVE  (\E item \in ToSet(One(0) \o One(6)) : ItemMeans(f, item, v)) <=> v = 0 \/ v = 6
<1>1. PICK i, j : /\ i = [form |-> "value", from |-> 0, to |-> 0, step |-> NoStep]
                  /\ j = [form |-> "value", from |-> 6, to |-> 6, step |-> NoStep]
  OBVIOUS
<1>2. One(0) \o One(6) = <<i>> \o <<j>>
  BY <1>1, ItemForms
<1>3. ToSet(<<i>> \o <<j>>) = {i, j}
  BY DEF ToSet
<1>4. (ItemMeans(f, i, v) <=> v \in 0..0) /\ (ItemMeans(f, j, v) <=> v \in 6..6)
  BY <1>1 DEF ItemMeans
<1>5. PICK s : s = One(0) \o One(6)
  OBVIOUS
<1>6. ToSet(s) = {i, j}
  BY <1>2, <1>3, <1>5, Zenon
<1>7. (\E item \in ToSet(s) : ItemMeans(f, item, v)) <=> v = 0 \/ v = 6
  BY <1>4, <1>6
<1>8. QED
  BY <1>5, <1>7, Zenon

\* Generated fields are lists of items.
LEMMA ItemsGiven ==
  /\ All \in Seq(Items)
  /\ \A n \in Nat : Every(n) \in Seq(Items) /\ One(n) \in Seq(Items)
  /\ \A m, n \in Nat : Span(m, n) \in Seq(Items) /\ One(m) \o One(n) \in Seq(Items)
<1>1. \A form \in {"*", "value", "range"}, m, n \in Nat, s \in Int \cup {NoStep} :
        <<[form |-> form, from |-> m, to |-> n, step |-> s]>> \in Seq(Items)
  BY DEF Items
<1>2. All \in Seq(Items)
  BY <1>1, ItemForms
<1>3. ASSUME NEW n \in Nat
      PROVE  Every(n) \in Seq(Items) /\ One(n) \in Seq(Items)
  <2>1. n \in Int \cup {NoStep} /\ NoStep \in Int \cup {NoStep} /\ 0 \in Nat
    OBVIOUS
  <2>2. Every(n) = <<[form |-> "*", from |-> 0, to |-> 0, step |-> n]>>
    BY ItemForms, Zenon
  <2>3. One(n) = <<[form |-> "value", from |-> n, to |-> n, step |-> NoStep]>>
    BY ItemForms, Zenon
  <2>4. QED
    BY <1>1, <2>1, <2>2, <2>3
<1>4. \A m, n \in Nat : Span(m, n) \in Seq(Items)
  BY <1>1, ItemForms
<1>5. \A m, n \in Nat : One(m) \o One(n) \in Seq(Items)
  <2>1. \A s, t \in Seq(Items) : s \o t \in Seq(Items)
    OBVIOUS
  <2>2. QED
    BY <1>3, <2>1, Zenon
<1>6. QED
  BY <1>2, <1>3, <1>4, <1>5, Zenon

\* Where the day or the weekday is left open, the other one decides.
LEMMA OneRestricted ==
  ASSUME NEW expression, NEW t \in Int \X (Low["hour"]..High["hour"]) \X (Low["minute"]..High["minute"])
  PROVE  /\ expression["weekday"] = All =>
              (ExpressionMeans(expression, t)
                 <=> /\ FieldMeans(expression, "minute", t[3]) /\ FieldMeans(expression, "hour", t[2])
                     /\ FieldMeans(expression, "month", DayOf(t[1])[1]) /\ FieldMeans(expression, "day", DayOf(t[1])[2]))
         /\ expression["day"] = All =>
              (ExpressionMeans(expression, t)
                 <=> /\ FieldMeans(expression, "minute", t[3]) /\ FieldMeans(expression, "hour", t[2])
                     /\ FieldMeans(expression, "month", DayOf(t[1])[1]) /\ FieldMeans(expression, "weekday", t[1] % 7))
<1>1. \A f \in FieldNames : expression[f] = All =>
        Whole(expression, f) /\ \A v \in Int : FieldMeans(expression, f, v)
  <2>1. ASSUME NEW f \in FieldNames, expression[f] = All, NEW v \in Int
        PROVE  FieldMeans(expression, f, v)
    BY <2>1, FieldsAsked
  <2>2. \A f \in FieldNames : Low[f]..High[f] \subseteq Int
    BY Fields5
  <2>3. QED
    BY <2>1, <2>2, Zenon DEF Whole
<1>2. "day" \in FieldNames /\ "weekday" \in FieldNames
  BY Fields5
<1>3. t[1] % 7 \in Int /\ DayOf(t[1])[2] \in Int
  <2>1. t[1] \in Int /\ "day" \in FieldNames
    BY <1>2
  <2>2. Low["day"] \in Int /\ High["day"] \in Int
    BY <1>2, Fields5
  <2>3. QED
    BY <2>1, <2>2, DayOfDate
<1>4. expression["weekday"] = All => Whole(expression, "weekday") /\ FieldMeans(expression, "weekday", t[1] % 7)
  BY <1>1, <1>2, <1>3, Zenon
<1>5. expression["day"] = All => Whole(expression, "day") /\ FieldMeans(expression, "day", DayOf(t[1])[2])
  BY <1>1, <1>2, <1>3, Zenon
<1>6. QED
  BY <1>4, <1>5, Zenon DEF ExpressionMeans

\* What a phrase can be.
LEMMA PhraseForms ==
  ASSUME NEW p \in Phrases
  PROVE  \/ p[1] \in {"every_n_minutes", "every_n_hours"} /\ p[2] \in Nat
         \/ /\ p[1] \in {"every_day", "every_weekday", "every_weekend", "every_named_day", "every_month_on_day"}
            /\ p[2] \in Nat /\ p[3] \in Nat /\ p[4] \in Nat
         \/ p[1] = "on" /\ p[2] \in Nat /\ p[3] \in Nat /\ p[4] \in Nat /\ p[5] \in Nat
BY RequestAssumption DEF TimedPhrases

\* The five fields that are generated for each phrase.
LEMMA PhraseFields ==
  ASSUME NEW p \in Phrases
  PROVE  /\ p[1] = "every_n_minutes" => Generated(p) = Fields(Every(p[2]), All, All, All, All)
         /\ p[1] = "every_n_hours" => Generated(p) = Fields(One(0), Every(p[2]), All, All, All)
         /\ p[1] = "every_day" => Generated(p) = Fields(One(p[4]), One(p[3]), All, All, All)
         /\ p[1] = "every_weekday" => Generated(p) = Fields(One(p[4]), One(p[3]), All, All, Span(1, 5))
         /\ p[1] = "every_weekend" => Generated(p) = Fields(One(p[4]), One(p[3]), All, All, One(0) \o One(6))
         /\ p[1] = "every_named_day" => Generated(p) = Fields(One(p[4]), One(p[3]), All, All, One(p[2]))
         /\ p[1] = "every_month_on_day" => Generated(p) = Fields(One(p[4]), One(p[3]), One(p[2]), All, All)
         /\ p[1] = "on" => Generated(p) = Fields(One(p[4]), One(p[3]), One(p[2]), One(p[5]), All)
<1>1. PICK k : k = p[1]
  OBVIOUS
<1>2. QED
  BY <1>1 DEF Generated

\* What is generated for a phrase is an expression.
LEMMA PhraseGenerated ==
  ASSUME NEW p \in Phrases
  PROVE  Generated(p) \in [FieldNames -> Seq(Items)]
<1>1. /\ All \in Seq(Items) /\ Span(1, 5) \in Seq(Items) /\ One(0) \o One(6) \in Seq(Items) /\ One(0) \in Seq(Items)
      /\ \A n \in Nat : Every(n) \in Seq(Items) /\ One(n) \in Seq(Items)
  BY ItemsGiven
<1>2. CASE p[1] = "every_n_minutes"
  <2>1. Generated(p) = Fields(Every(p[2]), All, All, All, All) /\ Every(p[2]) \in Seq(Items)
    BY <1>1, <1>2, PhraseForms, PhraseFields
  <2>2. QED
    BY <1>1, <2>1 DEF Fields, FieldNames
<1>3. CASE p[1] = "every_n_hours"
  <2>1. Generated(p) = Fields(One(0), Every(p[2]), All, All, All) /\ Every(p[2]) \in Seq(Items)
    BY <1>1, <1>3, PhraseForms, PhraseFields
  <2>2. QED
    BY <1>1, <2>1 DEF Fields, FieldNames
<1>4. CASE p[1] \notin {"every_n_minutes", "every_n_hours"}
  <2>1. p[2] \in Nat /\ p[3] \in Nat /\ p[4] \in Nat
    BY <1>4, PhraseForms
  <2>2. One(p[2]) \in Seq(Items) /\ One(p[3]) \in Seq(Items) /\ One(p[4]) \in Seq(Items)
    BY <1>1, <2>1
  <2>3. \A d, m, w \in Seq(Items) : Fields(One(p[4]), One(p[3]), d, m, w) \in [FieldNames -> Seq(Items)]
    BY <2>2 DEF Fields, FieldNames
  <2>4. p[1] = "on" => One(p[5]) \in Seq(Items)
    BY <1>1, PhraseForms
  <2>5. \E d, m, w \in Seq(Items) : Generated(p) = Fields(One(p[4]), One(p[3]), d, m, w)
    <3>1. CASE p[1] = "every_day"
      BY <1>1, <3>1, PhraseFields
    <3>2. CASE p[1] = "every_weekday"
      BY <1>1, <3>2, PhraseFields
    <3>3. CASE p[1] = "every_weekend"
      BY <1>1, <3>3, PhraseFields
    <3>4. CASE p[1] = "every_named_day"
      BY <1>1, <2>2, <3>4, PhraseFields
    <3>5. CASE p[1] = "every_month_on_day"
      BY <1>1, <2>2, <3>5, PhraseFields
    <3>6. CASE p[1] = "on"
      BY <1>1, <2>2, <2>4, <3>6, PhraseFields
    <3>7. QED
      BY <1>4, <3>1, <3>2, <3>3, <3>4, <3>5, <3>6, PhraseForms
  <2>6. QED
    BY <2>3, <2>5
<1>5. QED
  BY <1>2, <1>3, <1>4

\* An expression that was generated for a phrase means what the phrase says.
LEMMA PhraseSaid ==
  ASSUME NEW p \in Phrases, Understood(p),
         NEW t \in Int \X (Low["hour"]..High["hour"]) \X (Low["minute"]..High["minute"])
  PROVE  ExpressionMeans(Generated(p), t) <=> PhraseMeans(p, t)
<1>1. PICK g : g = Generated(p)
  OBVIOUS
<1>2. PICK date \in Int, hour \in Int, minute \in Int : date = t[1] /\ hour = t[2] /\ minute = t[3]
  <2>1. "hour" \in FieldNames /\ "minute" \in FieldNames
    BY Fields5
  <2>2. Low["hour"] \in Int /\ High["hour"] \in Int /\ Low["minute"] \in Int /\ High["minute"] \in Int
    BY <2>1, Fields5
  <2>3. t[1] \in Int /\ t[2] \in Int /\ t[3] \in Int
    BY <2>2
  <2>4. QED
    BY <2>3
<1>3. PICK m \in Int, d \in Int, w \in 0..6 : DayOf(date) = <<m, d>> /\ w = date % 7
  <2>1. "day" \in FieldNames /\ "month" \in FieldNames
    BY Fields5
  <2>2. Low["day"] \in Int /\ High["day"] \in Int /\ Low["month"] \in Int /\ High["month"] \in Int
    BY <2>1, Fields5
  <2>3. DayOf(date)[1] \in Int /\ DayOf(date)[2] \in Int /\ DayOf(date) = <<DayOf(date)[1], DayOf(date)[2]>> /\ date % 7 \in 0..6
    BY <2>2, DayOfDate
  <2>4. QED
    BY <2>3
<1>4. /\ "minute" \in FieldNames /\ "hour" \in FieldNames /\ "day" \in FieldNames
      /\ "month" \in FieldNames /\ "weekday" \in FieldNames /\ Low["minute"] = 0 /\ Low["hour"] = 0
  BY Fields5
<1> DEFINE Minute == FieldMeans(g, "minute", minute)
           Hour == FieldMeans(g, "hour", hour)
           Month == FieldMeans(g, "month", m)
           Day == FieldMeans(g, "day", d)
           Weekday == FieldMeans(g, "weekday", w)
<1>5. /\ g["weekday"] = All => (ExpressionMeans(g, t) <=> Minute /\ Hour /\ Month /\ Day)
      /\ g["day"] = All => (ExpressionMeans(g, t) <=> Minute /\ Hour /\ Month /\ Weekday)
  <2>1. DayOf(t[1])[1] = m /\ DayOf(t[1])[2] = d
    BY <1>2, <1>3
  <2>2. QED
    BY <1>2, <1>3, <2>1, OneRestricted
<1>6. /\ g["minute"] = All => Minute
      /\ g["hour"] = All => Hour
      /\ g["month"] = All => Month
      /\ g["day"] = All => Day
      /\ g["weekday"] = All => Weekday
  BY <1>4, FieldsAsked
<1>7. \A n \in Nat : /\ g["minute"] = Every(n) => (Minute <=> minute % n = 0)
                     /\ g["hour"] = Every(n) => (Hour <=> hour % n = 0)
                     /\ g["minute"] = One(n) => (Minute <=> minute = n)
                     /\ g["hour"] = One(n) => (Hour <=> hour = n)
                     /\ g["day"] = One(n) => (Day <=> d = n)
                     /\ g["month"] = One(n) => (Month <=> m = n)
                     /\ g["weekday"] = One(n) => (Weekday <=> w = n)
  <2>1. ASSUME NEW n \in Nat, NEW f \in FieldNames, NEW v \in Int
        PROVE  /\ g[f] = Every(n) /\ Low[f] = 0 => (FieldMeans(g, f, v) <=> v % n = 0)
               /\ g[f] = One(n) => (FieldMeans(g, f, v) <=> v = n)
    BY FieldsAsked
  <2>2. w \in Int
    OBVIOUS
  <2>3. QED
    BY <1>4, <2>1, <2>2, Zenon
<1>8. /\ g["weekday"] = Span(1, 5) => (Weekday <=> w \in 1..5)
      /\ g["weekday"] = One(0) \o One(6) => (Weekday <=> w = 0 \/ w = 6)
  <2>1. w \in Int /\ 0 \in Nat /\ 1 \in Nat /\ 5 \in Nat /\ 6 \in Nat
    OBVIOUS
  <2>2. ASSUME g["weekday"] = Span(1, 5)
        PROVE  Weekday <=> w \in 1..5
    BY <1>4, <2>1, <2>2, FieldsAsked
  <2>3. ASSUME g["weekday"] = One(0) \o One(6)
        PROVE  Weekday <=> w = 0 \/ w = 6
    <3>1. PICK s : s = One(0) \o One(6)
      OBVIOUS
    <3>2. FieldMeans(g, "weekday", w) <=> \E item \in ToSet(s) : ItemMeans("weekday", item, w)
      BY <2>3, <3>1 DEF FieldMeans
    <3>3. (\E item \in ToSet(s) : ItemMeans("weekday", item, w)) <=> w = 0 \/ w = 6
      BY <1>4, <2>1, <3>1, TwoItems
    <3>4. QED
      BY <3>2, <3>3
  <2>4. QED
    BY <2>2, <2>3
<1> HIDE DEF Minute, Hour, Month, Day, Weekday
<1>11. CASE p[1] = "every_n_minutes"
  <2>1. p[2] \in Nat /\ g = Fields(Every(p[2]), All, All, All, All)
    BY <1>1, <1>11, PhraseForms, PhraseFields
  <2>2. g["minute"] = Every(p[2]) /\ g["hour"] = All /\ g["day"] = All /\ g["month"] = All /\ g["weekday"] = All
    BY <2>1 DEF Fields
  <2>3. ExpressionMeans(g, t) <=> minute % p[2] = 0
    BY <1>5, <1>6, <1>7, <2>1, <2>2, Zenon
  <2>4. PhraseMeans(p, t) <=> minute % p[2] = 0
    BY <1>2, <1>11 DEF PhraseMeans
  <2>5. QED
    BY <1>1, <2>3, <2>4
<1>12. CASE p[1] = "every_n_hours"
  <2>1. p[2] \in Nat /\ g = Fields(One(0), Every(p[2]), All, All, All) /\ 0 \in Nat
    BY <1>1, <1>12, PhraseForms, PhraseFields
  <2>2. g["minute"] = One(0) /\ g["hour"] = Every(p[2]) /\ g["day"] = All /\ g["month"] = All /\ g["weekday"] = All
    BY <2>1 DEF Fields
  <2>3. ExpressionMeans(g, t) <=> hour % p[2] = 0 /\ minute = 0
    BY <1>5, <1>6, <1>7, <2>1, <2>2, Zenon
  <2>4. PhraseMeans(p, t) <=> hour % p[2] = 0 /\ minute = 0
    BY <1>2, <1>12 DEF PhraseMeans
  <2>5. QED
    BY <1>1, <2>3, <2>4
<1>13. CASE p[1] \notin {"every_n_minutes", "every_n_hours"}
  <2>1. p[2] \in Nat /\ p[3] \in Nat /\ p[4] \in Nat /\ (p[1] = "on" => p[5] \in Nat)
    BY <1>13, PhraseForms
  <2>2. PhraseMeans(p, t) <=>
          /\ hour = p[3] /\ minute = p[4]
          /\ CASE p[1] = "every_day" -> TRUE
               [] p[1] = "every_weekday" -> w \notin {0, 6}
               [] p[1] = "every_weekend" -> w \in {0, 6}
               [] p[1] = "every_named_day" -> w = p[2]
               [] p[1] = "every_month_on_day" -> d = p[2]
               [] p[1] = "on" -> <<m, d>> = <<p[5], p[2]>>
    <3>1. DayOf(t[1]) = <<m, d>> /\ DayOf(t[1])[2] = d /\ t[1] % 7 = w
      BY <1>2, <1>3
    <3>2. QED
      BY <1>2, <1>13, <3>1 DEF PhraseMeans
  <2>4. g["minute"] = One(p[4]) /\ g["hour"] = One(p[3]) => (Minute /\ Hour <=> hour = p[3] /\ minute = p[4])
    BY <1>7, <2>1, Zenon
  <2>5. CASE p[1] = "every_day"
    <3>1. g = Fields(One(p[4]), One(p[3]), All, All, All)
      BY <1>1, <2>5, PhraseFields
    <3>2. g["minute"] = One(p[4]) /\ g["hour"] = One(p[3]) /\ g["day"] = All /\ g["month"] = All /\ g["weekday"] = All
      BY <3>1 DEF Fields
    <3>3. ExpressionMeans(g, t) <=> hour = p[3] /\ minute = p[4]
      BY <1>5, <1>6, <2>4, <3>2, Zenon
    <3>4. QED
      BY <1>1, <2>2, <2>5, <3>3
  <2>6. CASE p[1] = "every_weekday"
    <3>1. g = Fields(One(p[4]), One(p[3]), All, All, Span(1, 5))
      BY <1>1, <2>6, PhraseFields
    <3>2. g["minute"] = One(p[4]) /\ g["hour"] = One(p[3]) /\ g["day"] = All /\ g["month"] = All /\ g["weekday"] = Span(1, 5)
      BY <3>1 DEF Fields
    <3>3. ExpressionMeans(g, t) <=> hour = p[3] /\ minute = p[4] /\ w \in 1..5
      BY <1>5, <1>6, <1>8, <2>4, <3>2, Zenon
    <3>4. w \in 1..5 <=> w \notin {0, 6}
      BY <1>3
    <3>5. QED
      BY <1>1, <2>2, <2>6, <3>3, <3>4
  <2>7. CASE p[1] = "every_weekend"
    <3>1. g = Fields(One(p[4]), One(p[3]), All, All, One(0) \o One(6))
      BY <1>1, <2>7, PhraseFields
    <3>2. g["minute"] = One(p[4]) /\ g["hour"] = One(p[3]) /\ g["day"] = All /\ g["month"] = All /\ g["weekday"] = One(0) \o One(6)
      BY <3>1 DEF Fields
    <3>3. ExpressionMeans(g, t) <=> hour = p[3] /\ minute = p[4] /\ (w = 0 \/ w = 6)
      BY <1>5, <1>6, <1>8, <2>4, <3>2, Zenon
    <3>4. QED
      BY <1>1, <2>2, <2>7, <3>3
  <2>8. CASE p[1] = "every_named_day"
    <3>1. g = Fields(One(p[4]), One(p[3]), All, All, One(p[2]))
      BY <1>1, <2>8, PhraseFields
    <3>2. g["minute"] = One(p[4]) /\ g["hour"] = One(p[3]) /\ g["day"] = All /\ g["month"] = All /\ g["weekday"] = One(p[2])
      BY <3>1 DEF Fields
    <3>3. ExpressionMeans(g, t) <=> hour = p[3] /\ minute = p[4] /\ w = p[2]
      BY <1>5, <1>6, <1>7, <2>1, <2>4, <3>2, Zenon
    <3>4. QED
      BY <1>1, <2>2, <2>8, <3>3
  <2>9. CASE p[1] = "every_month_on_day"
    <3>1. g = Fields(One(p[4]), One(p[3]), One(p[2]), All, All)
      BY <1>1, <2>9, PhraseFields
    <3>2. g["minute"] = One(p[4]) /\ g["hour"] = One(p[3]) /\ g["day"] = One(p[2]) /\ g["month"] = All /\ g["weekday"] = All
      BY <3>1 DEF Fields
    <3>3. ExpressionMeans(g, t) <=> hour = p[3] /\ minute = p[4] /\ d = p[2]
      BY <1>5, <1>6, <1>7, <2>1, <2>4, <3>2, Zenon
    <3>4. QED
      BY <1>1, <2>2, <2>9, <3>3
  <2>10. CASE p[1] = "on"
    <3>1. g = Fields(One(p[4]), One(p[3]), One(p[2]), One(p[5]), All) /\ p[5] \in Nat
      BY <1>1, <2>1, <2>10, PhraseFields
    <3>2. g["minute"] = One(p[4]) /\ g["hour"] = One(p[3]) /\ g["day"] = One(p[2]) /\ g["month"] = One(p[5]) /\ g["weekday"] = All
      BY <3>1 DEF Fields
    <3>3. ExpressionMeans(g, t) <=> hour = p[3] /\ minute = p[4] /\ m = p[5] /\ d = p[2]
      BY <1>5, <1>6, <1>7, <2>1, <2>4, <3>1, <3>2, Zenon
    <3>4. QED
      BY <1>1, <2>2, <2>10, <3>3
  <2>11. QED
    BY <1>13, <2>5, <2>6, <2>7, <2>8, <2>9, <2>10, PhraseForms
<1>14. QED
  BY <1>11, <1>12, <1>13

(***************************************************************************)
(* The answer to every request.                                            *)
(***************************************************************************)
Questions ==
  [phrase : {NoPhrase}, expression : Expressions, date : Dates,
   hour : Low["hour"]..High["hour"], minute : Minutes, count : Counts]
  \cup [phrase : Phrases, expression : {<< >>}, date : Dates,
        hour : Low["hour"]..High["hour"], minute : Minutes, count : {3}]

Since(q) == <<q.date, q.hour, q.minute>>

Spoken(q) == q.phrase # NoPhrase

Expression(q) == IF Spoken(q) THEN Generated(q.phrase) ELSE q.expression

FieldsOf(q) == [f \in FieldNames |-> Expanded(f, Expression(q)[f])]

Meant(q) ==
  {t \in (q.date..q.date + MaxLoopDays) \X (Low["hour"]..High["hour"]) \X (Low["minute"]..High["minute"]) :
     ~Before(t, Since(q)) /\ IF q.phrase = NoPhrase THEN ExpressionMeans(q.expression, t) ELSE PhraseMeans(q.phrase, t)}

\* No phrase is the mark for none.
LEMMA NoPhraseApart ==
  NoPhrase \notin Phrases
<1>1. NoPhrase[1] = "none"
  BY DEF NoPhrase
<1>2. \A p \in Phrases : p[1] # "none"
  BY PhraseForms
<1>3. QED
  BY <1>1, <1>2

\* What a question holds.
LEMMA QuestionParts ==
  ASSUME NEW q \in Questions
  PROVE  /\ Spoken(q) => q.phrase \in Phrases
         /\ ~Spoken(q) => q.expression \in Expressions
         /\ q.date \in Nat /\ q.date <= LastDate /\ q.count \in Nat
         /\ Since(q) \in Triples /\ Since(q)[1] = q.date
         /\ Expression(q) \in [FieldNames -> Seq(Items)]
<1>1. /\ q.date \in Dates /\ q.hour \in Low["hour"]..High["hour"] /\ q.minute \in Minutes
      /\ q.count \in Counts \cup {3}
      /\ q.phrase \in Phrases \/ (q.phrase = NoPhrase /\ q.expression \in Expressions)
  BY DEF Questions
<1>9. /\ LastDate \in Nat /\ Dates \subseteq 0..LastDate /\ Counts \subseteq Nat
      /\ Minutes \subseteq Low["minute"]..High["minute"]
  BY ReferenceAssumption
<1>2. "hour" \in FieldNames /\ "minute" \in FieldNames
  BY Fields5
<1>3. q.hour \in Int /\ q.minute \in Int
  <2>1. Low["hour"] \in Int /\ High["hour"] \in Int /\ Low["minute"] \in Int /\ High["minute"] \in Int
    BY <1>2, Fields5
  <2>2. QED
    <3>1. q.minute \in Low["minute"]..High["minute"]
      BY <1>1, <1>9, Zenon
    <3>2. q.hour \in Low["hour"]..High["hour"]
      BY <1>1
    <3>3. QED
      BY <2>1, <3>1, <3>2
<1>4. q.date \in Nat /\ q.date <= LastDate /\ q.count \in Nat
  <2>1. q.date \in 0..LastDate
    BY <1>1, <1>9, Zenon
  <2>2. q.count \in Nat
    <3>1. q.count \in Counts \/ q.count = 3
      BY <1>1, Zenon
    <3>2. 3 \in Nat
      OBVIOUS
    <3>3. QED
      BY <1>9, <3>1, <3>2, Zenon
  <2>3. QED
    BY <1>9, <2>1, <2>2
<1>5. Since(q) \in Triples /\ Since(q)[1] = q.date
  BY <1>3, <1>4 DEF Since, Triples
<1>6. (Spoken(q) => q.phrase \in Phrases) /\ (~Spoken(q) => q.expression \in Expressions)
  BY <1>1, NoPhraseApart, Zenon DEF Spoken
<1>7. Expression(q) \in [FieldNames -> Seq(Items)]
  BY <1>6, PhraseGenerated, RequestAssumption DEF Expression
<1>8. QED
  BY <1>4, <1>5, <1>6, <1>7

\* The times of the days that are searched are those that are meant.
LEMMA ComingMeant ==
  ASSUME NEW q \in Questions, Spoken(q) => Understood(q.phrase), AcceptedAll(Expression(q))
  PROVE  Coming(FieldsOf(q), Since(q), MaxLoopDays + 1) = Meant(q)
<1>1. PICK e, fields :
        /\ e \in [FieldNames -> Seq(Items)] /\ e = Expression(q) /\ fields = FieldsOf(q)
        /\ fields = [f \in FieldNames |-> Expanded(f, e[f])]
  BY QuestionParts DEF FieldsOf
<1>2. PICK Days, H, M : /\ Days = q.date..q.date + MaxLoopDays
                        /\ H = Low["hour"]..High["hour"] /\ M = Low["minute"]..High["minute"]
  OBVIOUS
<1>3. "hour" \in FieldNames /\ "minute" \in FieldNames
  BY Fields5
<1>4. fields["hour"] \subseteq H /\ fields["minute"] \subseteq M
  <2>1. fields["hour"] = Expanded("hour", e["hour"]) /\ fields["minute"] = Expanded("minute", e["minute"])
    BY <1>1, <1>3
  <2>2. QED
    BY <1>1, <1>2, <1>3, <2>1, FieldValues
<1>5. Since(q)[1]..Since(q)[1] + (MaxLoopDays + 1) - 1 = Days /\ Days \subseteq Int
  <2>1. q.date \in Int /\ Since(q)[1] = q.date /\ MaxLoopDays \in Int
    BY QuestionParts, ReferenceAssumption
  <2>2. q.date + (MaxLoopDays + 1) - 1 = q.date + MaxLoopDays
    BY <2>1
  <2>3. QED
    BY <1>2, <2>1, <2>2
<1>6. ASSUME NEW t \in Days \X H \X M
      PROVE  (IF q.phrase = NoPhrase THEN ExpressionMeans(q.expression, t) ELSE PhraseMeans(q.phrase, t))
               <=> t[2] \in fields["hour"] /\ t[3] \in fields["minute"] /\ DaysMatch(fields, t[1])
  <2>1. t \in Int \X (Low["hour"]..High["hour"]) \X (Low["minute"]..High["minute"])
    BY <1>2, <1>5
  <2>2. ExpressionMeans(e, t) <=> t[2] \in fields["hour"] /\ t[3] \in fields["minute"] /\ DaysMatch(fields, t[1])
    BY <1>1, <2>1, DaysMatchMeans
  <2>3. CASE Spoken(q)
    <3>1. e = Generated(q.phrase) /\ q.phrase \in Phrases /\ Understood(q.phrase) /\ q.phrase # NoPhrase
      BY <1>1, <2>3, QuestionParts DEF Expression, Spoken
    <3>2. ExpressionMeans(e, t) <=> PhraseMeans(q.phrase, t)
      BY <2>1, <3>1, PhraseSaid
    <3>3. QED
      BY <2>2, <3>1, <3>2
  <2>4. CASE ~Spoken(q)
    BY <1>1, <2>2, <2>4 DEF Expression, Spoken
  <2>5. QED
    BY <2>3, <2>4
<1>7. Coming(fields, Since(q), MaxLoopDays + 1)
        = {t \in Days \X fields["hour"] \X fields["minute"] : ~Before(t, Since(q)) /\ DaysMatch(fields, t[1])}
  BY <1>5, Zenon DEF Coming
<1>8. Meant(q) = {t \in Days \X H \X M :
                    ~Before(t, Since(q)) /\ IF q.phrase = NoPhrase THEN ExpressionMeans(q.expression, t)
                                            ELSE PhraseMeans(q.phrase, t)}
  BY <1>2, Zenon DEF Meant
<1>9. \A t : t \in Days \X fields["hour"] \X fields["minute"]
               <=> t \in Days \X H \X M /\ t[2] \in fields["hour"] /\ t[3] \in fields["minute"]
  BY <1>4
<1>10. \A t : t \in Coming(fields, Since(q), MaxLoopDays + 1) <=> t \in Meant(q)
  BY <1>6, <1>7, <1>8, <1>9, Zenon
<1>11. QED
  BY <1>1, <1>10, Zenon

Accepting(q) == (Spoken(q) => Understood(q.phrase)) /\ AcceptedAll(Expression(q))

\* The answer has the first of the times that are meant, in their order.
LEMMA TimesAnswered ==
  ASSUME NEW q \in Questions, Accepting(q), NEW times,
         times = TimesUpTo(FieldsOf(q), Since(q), q.count, MaxLoopDays + 1)
  PROVE  /\ \A f \in FieldNames : FieldsOf(q)[f] \subseteq Low[f]..High[f]
         /\ Len(times) = Min({q.count, Cardinality(Meant(q))})
         /\ ToSet(times) \subseteq Meant(q)
         /\ \A n \in 2..Len(times) : Before(times[n - 1], times[n])
         /\ \A t \in Meant(q) \ ToSet(times) : \A u \in ToSet(times) : Before(u, t)
<1>1. /\ Expression(q) \in [FieldNames -> Seq(Items)] /\ AcceptedAll(Expression(q))
      /\ Since(q) \in Triples /\ q.count \in Nat /\ MaxLoopDays + 1 \in Nat
  BY QuestionParts, ReferenceAssumption DEF Accepting
<1>2. \A f \in FieldNames : FieldsOf(q)[f] = Expanded(f, Expression(q)[f])
  BY DEF FieldsOf
<1>3. \A f \in FieldNames : /\ FieldsOf(q)[f] \subseteq Low[f]..High[f]
                            /\ FieldsOf(q)[f] \in SUBSET Int /\ IsFiniteSet(FieldsOf(q)[f])
  <2>1. SUFFICES ASSUME NEW f \in FieldNames
                 PROVE  /\ FieldsOf(q)[f] \subseteq Low[f]..High[f]
                        /\ FieldsOf(q)[f] \in SUBSET Int /\ IsFiniteSet(FieldsOf(q)[f])
    OBVIOUS
  <2>2. /\ \A v : v \in FieldsOf(q)[f] => v \in Low[f]..High[f]
        /\ FieldsOf(q)[f] \in SUBSET Int /\ IsFiniteSet(FieldsOf(q)[f])
    BY <1>1, <1>2, FieldValues
  <2>3. QED
    BY <2>2
<1>4. "hour" \in FieldNames /\ "minute" \in FieldNames
  BY Fields5
<1>5. PICK all : /\ Listing(all, Coming(FieldsOf(q), Since(q), MaxLoopDays + 1))
                 /\ times = Prefix(all, q.count)
                 /\ Coming(FieldsOf(q), Since(q), MaxLoopDays + 1) \in SUBSET Triples
  <2>1. PICK fields : fields = FieldsOf(q)
    OBVIOUS
  <2>2. /\ fields["hour"] \in SUBSET Int /\ IsFiniteSet(fields["hour"])
        /\ fields["minute"] \in SUBSET Int /\ IsFiniteSet(fields["minute"])
    BY <1>3, <1>4, <2>1
  <2>3. QED
    BY <1>1, <2>1, <2>2, TimesUpToLists
<1>6. PICK S \in SUBSET Triples : S = Meant(q) /\ Listing(all, S)
  BY <1>5, ComingMeant DEF Accepting
<1>7. /\ Len(times) = Min({q.count, Cardinality(S)})
      /\ ToSet(times) \subseteq S
      /\ \A n \in 2..Len(times) : Before(times[n - 1], times[n])
      /\ \A t \in S \ ToSet(times) : \A u \in ToSet(times) : Before(u, t)
  BY <1>1, <1>5, <1>6, PrefixFirst, Zenon
<1>8. QED
  BY <1>3, <1>6, <1>7, Zenon

\* What UpcomingExact says of a question and its answer.
Exact(q, a) ==
  /\ a.status = "valid" =>
       /\ \A f \in FieldNames : a.fields[f] \subseteq Low[f]..High[f]
       /\ Len(a.times) = Min({q.count, Cardinality(Meant(q))})
       /\ ToSet(a.times) \subseteq Meant(q)
       /\ \A n \in 2..Len(a.times) : Before(a.times[n - 1], a.times[n])
       /\ \A t \in Meant(q) \ ToSet(a.times) : \A u \in ToSet(a.times) : Before(u, t)
  /\ a.status = "failed" => LastDate \in q.date..q.date + MaxLoopDays

\* The invariant, of the question and its answer.
LEMMA ExactStated ==
  UpcomingExact <=> Exact(asked, answer)
BY Zenon DEF UpcomingExact, Exact, Meant, Since

\* What is answered is exact.
LEMMA AnswerExact ==
  ASSUME asked \in Questions, Answer
  PROVE  Exact(asked, answer') /\ asked' = asked
<1>1. PICK q \in Questions : q = asked
  OBVIOUS
<1> DEFINE Invalid == \/ Spoken(q) /\ ~Understood(q.phrase)
                      \/ \E f \in FieldNames : \E item \in ToSet(Expression(q)[f]) : ~Accepted(f, item)
<1>2. /\ asked' = asked
      /\ answer' = IF Invalid THEN [NoAnswer EXCEPT !.status = "invalid"]
                   ELSE IF EntersLast(FieldsOf(q), Since(q), q.count) THEN [NoAnswer EXCEPT !.status = "failed"]
                   ELSE [status |-> "valid", fields |-> FieldsOf(q),
                         times |-> TimesUpTo(FieldsOf(q), Since(q), q.count, MaxLoopDays + 1)]
  BY <1>1, Zenon DEF Answer, FieldsOf, Since, Expression, Spoken
<1>3. Invalid <=> ~Accepting(q)
  BY Zenon DEF Accepting, AcceptedAll
<1> HIDE DEF Invalid
<1>4. CASE Invalid
  <2>1. answer'.status = "invalid"
    BY <1>2, <1>4 DEF NoAnswer
  <2>2. QED
    BY <1>2, <2>1 DEF Exact
<1>5. CASE ~Invalid /\ EntersLast(FieldsOf(q), Since(q), q.count)
  <2>1. answer'.status = "failed"
    BY <1>2, <1>5 DEF NoAnswer
  <2>2. LastDate \in Int /\ q.date \in Int /\ q.date <= LastDate /\ MaxLoopDays \in Int /\ Since(q)[1] = q.date
    BY QuestionParts, ReferenceAssumption
  <2>3. LastDate \in q.date..q.date + MaxLoopDays
    BY <1>5, <2>2 DEF EntersLast
  <2>4. QED
    BY <1>1, <1>2, <2>1, <2>3 DEF Exact
<1>6. CASE ~Invalid /\ ~EntersLast(FieldsOf(q), Since(q), q.count)
  <2>1. PICK times : times = TimesUpTo(FieldsOf(q), Since(q), q.count, MaxLoopDays + 1)
    OBVIOUS
  <2>2. answer' = [status |-> "valid", fields |-> FieldsOf(q), times |-> times]
    BY <1>2, <1>6, <2>1, Zenon
  <2>3. answer'.status = "valid" /\ answer'.fields = FieldsOf(q) /\ answer'.times = times
    BY <2>2
  <2>4. /\ \A f \in FieldNames : FieldsOf(q)[f] \subseteq Low[f]..High[f]
        /\ Len(times) = Min({q.count, Cardinality(Meant(q))})
        /\ ToSet(times) \subseteq Meant(q)
        /\ \A n \in 2..Len(times) : Before(times[n - 1], times[n])
        /\ \A t \in Meant(q) \ ToSet(times) : \A u \in ToSet(times) : Before(u, t)
    BY <1>3, <1>6, <2>1, TimesAnswered
  <2>5. answer'.status # "failed"
    BY <2>3
  <2>6. Exact(q, answer')
    BY <2>3, <2>4, <2>5, Zenon DEF Exact
  <2>7. QED
    BY <1>1, <1>2, <2>6
<1>7. QED
  BY <1>4, <1>5, <1>6

CronInv == asked \in Questions /\ UpcomingExact

\* For every range of the fields, every calendar, every expression, phrase and
\* reference, the answer is what UpcomingExact says (cron_service.py,
\* _next_times).
THEOREM CronAnswersExact == CronSpec => []UpcomingExact
<1>1. CronInit => CronInv
  <2>1. SUFFICES ASSUME CronInit PROVE CronInv
    OBVIOUS
  <2>2. asked \in Questions
    BY <2>1 DEF CronInit, Questions
  <2>3. answer.status = "none"
    BY <2>1 DEF CronInit, NoAnswer
  <2>4. Exact(asked, answer)
    BY <2>3 DEF Exact
  <2>5. QED
    BY <2>2, <2>4, ExactStated DEF CronInv
<1>2. CronInv /\ [CronNext]_cronVars => CronInv'
  <2>1. SUFFICES ASSUME CronInv, [CronNext]_cronVars PROVE CronInv'
    OBVIOUS
  <2>2. asked' = asked /\ Exact(asked, answer')
    <3>1. CASE Answer
      BY <2>1, <3>1, AnswerExact DEF CronInv
    <3>2. CASE UNCHANGED cronVars
      BY <2>1, <3>2, ExactStated DEF CronInv, cronVars
    <3>3. QED
      BY <2>1, <3>1, <3>2 DEF CronNext
  <2>3. UpcomingExact' <=> Exact(asked', answer')
    BY Zenon DEF UpcomingExact, Exact, Meant, Since
  <2>4. QED
    BY <2>1, <2>2, <2>3 DEF CronInv
<1>3. CronInv => UpcomingExact
  BY DEF CronInv
<1>4. QED
  BY <1>1, <1>2, <1>3, PTL DEF CronSpec

-----------------------------------------------------------------------------
(***************************************************************************)
(* HttpBuilder: requests, URLs and headers.                                *)
(***************************************************************************)
\* The first of five checks that fails.
LEMMA ReasonOfFive ==
  ASSUME NEW A \in BOOLEAN, NEW B \in BOOLEAN, NEW C \in BOOLEAN, NEW D \in BOOLEAN, NEW E \in BOOLEAN,
         NEW a, NEW b, NEW c, NEW d, NEW e, NEW R, R = Reason(<<<<A, a>>, <<B, b>>, <<C, c>>, <<D, d>>, <<E, e>>>>)
  PROVE  /\ A => R = a
         /\ ~A /\ B => R = b
         /\ ~A /\ ~B /\ C => R = c
         /\ ~A /\ ~B /\ ~C /\ D => R = d
         /\ ~A /\ ~B /\ ~C /\ ~D /\ E => R = e
         /\ ~A /\ ~B /\ ~C /\ ~D /\ ~E => R = "none"
<1>1. PICK checks : checks = <<<<A, a>>, <<B, b>>, <<C, c>>, <<D, d>>, <<E, e>>>>
  OBVIOUS
<1>2. /\ DOMAIN checks = 1..5 /\ (checks[1][1] <=> A) /\ (checks[2][1] <=> B) /\ (checks[3][1] <=> C)
      /\ (checks[4][1] <=> D) /\ (checks[5][1] <=> E)
      /\ checks[1][2] = a /\ checks[2][2] = b /\ checks[3][2] = c /\ checks[4][2] = d /\ checks[5][2] = e
  BY <1>1
<1>3. /\ \A n \in 1..5 : checks[n][1] /\ (\A j \in 1..5 : j < n => ~checks[j][1]) => R = checks[n][2]
      /\ (\A j \in 1..5 : ~checks[j][1]) => R = "none"
  <2>1. R = Reason(checks)
    BY <1>1
  <2>2. QED
    BY <1>2, <2>1, ReasonIs
<1>4. \A j \in 1..5 : j = 1 \/ j = 2 \/ j = 3 \/ j = 4 \/ j = 5
  OBVIOUS
<1>5. QED
  BY <1>2, <1>3, <1>4

UrlForms == [scheme : {"none", "http", "ftp"}, user : BOOLEAN, host : {"", "ip", "name", "bad"},
             port : {"none", "good", "bad"}, query : BOOLEAN]

\* What the tools that fetch accept.
LEMMA UrlFaultMeans ==
  ASSUME NEW u \in UrlForms
  PROVE  /\ UrlFault(u) = "none" <=> u.scheme # "ftp" /\ u.host \notin {"", "bad"} /\ ~u.user /\ u.port # "bad"
         /\ u.scheme # "ftp" /\ u.host # "" /\ u.port # "bad" => UrlFault(u) \in {"none", "userinfo", "name"}
<1>1. PICK A : A = (u.scheme = "ftp")
  OBVIOUS
<1>2. PICK B : B = (u.host = "")
  OBVIOUS
<1>3. PICK C : C = u.user
  OBVIOUS
<1>4. PICK D : D = (u.port = "bad")
  OBVIOUS
<1>5. PICK E : E = (u.host = "bad")
  OBVIOUS
<1>6. A \in BOOLEAN /\ B \in BOOLEAN /\ C \in BOOLEAN /\ D \in BOOLEAN /\ E \in BOOLEAN
  BY <1>1, <1>2, <1>3, <1>4, <1>5 DEF UrlForms
<1>7. PICK R : R = Reason(<<<<A, "scheme">>, <<B, "host">>, <<C, "userinfo">>, <<D, "port">>, <<E, "name">>>>)
  OBVIOUS
<1>8. UrlFault(u) = R
  BY <1>1, <1>2, <1>3, <1>4, <1>5, <1>7, Zenon DEF UrlFault
<1>9. /\ A => R = "scheme"
      /\ ~A /\ B => R = "host"
      /\ ~A /\ ~B /\ C => R = "userinfo"
      /\ ~A /\ ~B /\ ~C /\ D => R = "port"
      /\ ~A /\ ~B /\ ~C /\ ~D /\ E => R = "name"
      /\ ~A /\ ~B /\ ~C /\ ~D /\ ~E => R = "none"
  BY <1>6, <1>7, ReasonOfFive
<1>10. QED
  BY <1>1, <1>2, <1>3, <1>4, <1>5, <1>8, <1>9

\* What the parser accepts.
LEMMA ParsedMeans ==
  ASSUME NEW u \in UrlForms
  PROVE  /\ Parsed(u) = "valid" <=> u.scheme # "ftp" /\ ~ReadAsScheme(u) /\ u.host # "" /\ u.port # "bad"
         /\ Parsed(u) = "raises" => u.scheme # "ftp" /\ u.host # "" /\ u.port = "bad"
<1>1. PICK A : A = (u.scheme = "ftp" \/ ReadAsScheme(u))
  OBVIOUS
<1>2. PICK B : B = (u.host = "")
  OBVIOUS
<1>3. PICK C : C = (u.port = "bad")
  OBVIOUS
<1>0. PICK D : D = TRUE
  OBVIOUS
<1>4. A \in BOOLEAN /\ B \in BOOLEAN /\ C \in BOOLEAN /\ D \in BOOLEAN
  BY <1>0, <1>1, <1>2, <1>3
<1>5. PICK R : R = Reason(<<<<A, "unsupported_scheme">>, <<B, "no_host">>, <<C, "raises">>, <<D, "valid">>>>)
  OBVIOUS
<1>6. Parsed(u) = R
  BY <1>0, <1>1, <1>2, <1>3, <1>5, Zenon DEF Parsed
<1>7. /\ A => R = "unsupported_scheme"
      /\ ~A /\ B => R = "no_host"
      /\ ~A /\ ~B /\ C => R = "raises"
      /\ ~A /\ ~B /\ ~C /\ D => R = "valid"
  BY <1>4, <1>5, ReasonOfFour
<1>8. QED
  BY <1>0, <1>1, <1>2, <1>3, <1>6, <1>7

UrlMeant(u, reply) ==
  /\ u.scheme # "none" /\ reply.fault = "none" => reply.parsed = "valid"
  /\ reply.parsed = "valid" => reply.fault \in {"none", "userinfo", "name"}
  /\ (reply.parsed = "raises") => u.port = "bad" /\ reply.fault # "none"

\* The parser and the tools that fetch agree on a URL.
LEMMA UrlIsMeant ==
  ASSUME NEW u \in UrlForms
  PROVE  UrlMeant(u, UrlReply(u))
<1>1. UrlReply(u).fault = UrlFault(u) /\ UrlReply(u).parsed = Parsed(u)
  BY DEF UrlReply
<1>2. u.scheme # "none" => ~ReadAsScheme(u)
  BY DEF ReadAsScheme
<1>3. QED
  BY <1>1, <1>2, UrlFaultMeans, ParsedMeans DEF UrlMeant

\* Where a request is refused, and what it means that it is not.
LEMMA RefusedMeans ==
  ASSUME NEW r
  PROVE  /\ Refused(r) = "none" => /\ Fits(r.headers) /\ Fits(Authorized(r)) /\ r.body # "large"
                                   /\ ~(r.body = "invalid" /\ r.type = "json")
         /\ Refused(r) # "none" =>
              \/ Refused(r) = "url" /\ UrlFault(r.url) # "none"
              \/ Refused(r) = "headers" /\ (~Fits(r.headers) \/ ~Fits(Authorized(r)))
              \/ Refused(r) = "body" /\ r.body = "invalid"
              \/ Refused(r) = "size" /\ r.body = "large"
<1>1. PICK A : A = (UrlFault(r.url) # "none")
  OBVIOUS
<1>2. PICK B : B = ~Fits(r.headers)
  OBVIOUS
<1>3. PICK C : C = (r.body = "invalid" /\ r.type = "json")
  OBVIOUS
<1>4. PICK D : D = (r.body = "large")
  OBVIOUS
<1>5. PICK E : E = ~Fits(Authorized(r))
  OBVIOUS
<1>6. A \in BOOLEAN /\ B \in BOOLEAN /\ C \in BOOLEAN /\ D \in BOOLEAN /\ E \in BOOLEAN
  BY <1>1, <1>2, <1>3, <1>4, <1>5 DEF Fits
<1>7. PICK R : R = Reason(<<<<A, "url">>, <<B, "headers">>, <<C, "body">>, <<D, "size">>, <<E, "headers">>>>)
  OBVIOUS
<1>8. Refused(r) = R
  BY <1>1, <1>2, <1>3, <1>4, <1>5, <1>7, Zenon DEF Refused
<1>9. /\ A => R = "url"
      /\ ~A /\ B => R = "headers"
      /\ ~A /\ ~B /\ C => R = "body"
      /\ ~A /\ ~B /\ ~C /\ D => R = "size"
      /\ ~A /\ ~B /\ ~C /\ ~D /\ E => R = "headers"
      /\ ~A /\ ~B /\ ~C /\ ~D /\ ~E => R = "none"
  BY <1>6, <1>7, ReasonOfFive
<1>10. QED
  BY <1>1, <1>2, <1>3, <1>4, <1>5, <1>8, <1>9

RequestMeant(r, built) ==
  LET names == DOMAIN r.headers \cup (IF r.auth = "none" THEN {} ELSE {"Authorization"})
  IN IF built.refused = "none"
     THEN /\ DOMAIN built.sent.headers = names \cup {"User-Agent"}
          /\ Cardinality(names) <= MaxHeaders
          /\ \A n \in names : /\ built.sent.headers[n].length <= MaxValue
                              /\ built.curl.headers[n] = built.sent.headers[n]
                              /\ n # "Authorization" => built.sent.headers[n] = r.headers[n]
          /\ built.sent.data \notin {"large"} /\ (r.type = "json" => built.sent.data # "invalid")
     ELSE \/ built.refused = "headers" /\ (Cardinality(names) > MaxHeaders \/ ~Fits(Authorized(r)) \/ ~Fits(r.headers))
          \/ built.refused = "body" /\ r.body = "invalid"
          \/ built.refused = "size" /\ r.body = "large"
          \/ built.refused = "url" /\ (Parsed(r.url) # "valid" \/ r.url.user \/ r.url.host = "bad")

\* A request that is built keeps the limits, and one that is not has a reason.
LEMMA RequestIsMeant ==
  ASSUME NEW r, r.url \in UrlForms, r.auth \in {"none", "basic", "bearer"}
  PROVE  RequestMeant(r, RequestReply(r))
<1>1. PICK built : built = RequestReply(r)
  OBVIOUS
<1>2. PICK names : names = DOMAIN r.headers \cup (IF r.auth = "none" THEN {} ELSE {"Authorization"})
  OBVIOUS
<1>3. PICK all : all = Authorized(r)
  OBVIOUS
<1>4. DOMAIN all = names
  BY <1>2, <1>3 DEF Authorized
<1>5. \A n \in names : n # "Authorization" => all[n] = r.headers[n]
  BY <1>2, <1>3 DEF Authorized
<1>6. CASE Refused(r) = "none"
  <2>1. Fits(all) /\ r.body # "large" /\ ~(r.body = "invalid" /\ r.type = "json")
    BY <1>3, <1>6, RefusedMeans
  <2>2. /\ built.refused = "none" /\ built.curl = Curl(r) /\ built.sent = Sent(r)
    BY <1>1, <1>6 DEF RequestReply
  <2>3. built.curl.headers = all
    BY <1>3, <2>2 DEF Curl
  <2>4. built.sent.data = r.body
    BY <2>2 DEF Sent
  <2>5. built.sent.headers = [n \in names \cup {"User-Agent"} |-> IF n \in names THEN all[n] ELSE Header("default", 1)]
    BY <1>3, <1>4, <2>2 DEF Sent
  <2>6. Cardinality(names) <= MaxHeaders /\ \A n \in names : all[n].length <= MaxValue
    BY <1>4, <2>1 DEF Fits
  <2>7. DOMAIN built.sent.headers = names \cup {"User-Agent"} /\ \A n \in names : built.sent.headers[n] = all[n]
    BY <2>5
  <2>8. QED
    BY <1>1, <1>2, <1>5, <2>1, <2>2, <2>3, <2>4, <2>6, <2>7 DEF RequestMeant
<1>7. CASE Refused(r) # "none"
  <2>1. built.refused = Refused(r)
    BY <1>1, <1>7 DEF RequestReply
  <2>2. UrlFault(r.url) # "none" => Parsed(r.url) # "valid" \/ r.url.user \/ r.url.host = "bad"
    BY UrlFaultMeans, ParsedMeans
  <2>3. \/ Refused(r) = "url" /\ UrlFault(r.url) # "none"
        \/ Refused(r) = "headers" /\ (~Fits(r.headers) \/ ~Fits(Authorized(r)))
        \/ Refused(r) = "body" /\ r.body = "invalid"
        \/ Refused(r) = "size" /\ r.body = "large"
    BY <1>7, RefusedMeans
  <2>4. \/ built.refused = "headers" /\ (~Fits(Authorized(r)) \/ ~Fits(r.headers))
        \/ built.refused = "body" /\ r.body = "invalid"
        \/ built.refused = "size" /\ r.body = "large"
        \/ built.refused = "url" /\ (Parsed(r.url) # "valid" \/ r.url.user \/ r.url.host = "bad")
    BY <2>1, <2>2, <2>3
  <2>5. built.refused # "none"
    BY <1>7, <2>1
  <2>6. QED
    BY <1>1, <2>4, <2>5, Zenon DEF RequestMeant
<1>8. QED
  BY <1>6, <1>7

HeadersMeant(headers, reply) ==
  /\ Len(reply.lines) + Cardinality(reply.blank) = Len(headers)
  /\ reply.again \cap reply.blank = {}
  /\ Cardinality({h.name : h \in {reply.lines[i] : i \in DOMAIN reply.lines}})
       = Len(reply.lines) - Cardinality(reply.again)

\* The lines are the headers at the places of those with a name.
LEMMA WrittenLists ==
  ASSUME NEW headers, NEW N \in Nat, DOMAIN headers = 1..N,
         NEW Named \in SUBSET (1..N), \A i \in 1..N : i \in Named <=> headers[i].name # "blank"
  PROVE  /\ Len(Written(headers)) = Cardinality(Named)
         /\ {Written(headers)[i] : i \in DOMAIN Written(headers)} = {headers[i] : i \in Named}
<1>1. PICK S : S = {h \in {headers[i] : i \in DOMAIN headers} : h.name # "blank"}
  OBVIOUS
<1>2. Named = {i \in DOMAIN headers : headers[i] \in S}
  BY <1>1
<1>3. PICK places : places = Ascending(Named)
  OBVIOUS
<1>4. Written(headers) = [n \in DOMAIN places |-> headers[places[n]]]
  BY <1>1, <1>2, <1>3, Zenon DEF Written, Among
<1>5. Named \in SUBSET Int /\ IsFiniteSet(Named)
  <2>1. \A i \in Named : i \in 1..N
    OBVIOUS
  <2>2. Named \subseteq 1..N /\ Named \in SUBSET Int
    BY <2>1
  <2>3. IsFiniteSet(1..N)
    BY FS_Interval
  <2>4. QED
    BY <2>2, <2>3, FS_Subset
<1>0. /\ Cardinality(Named) \in Nat /\ DOMAIN places = 1..Cardinality(Named)
      /\ {places[n] : n \in DOMAIN places} = Named
  <2>1. /\ Cardinality(Named) \in Nat /\ DOMAIN Ascending(Named) = 1..Cardinality(Named)
        /\ {Ascending(Named)[n] : n \in DOMAIN Ascending(Named)} = Named
    BY <1>5, AscendingListed
  <2>2. QED
    BY <1>3, <2>1
<1>6. PICK k \in Nat : /\ k = Cardinality(Named) /\ DOMAIN places = 1..k
                       /\ {places[n] : n \in DOMAIN places} = Named
  BY <1>0, Zenon
<1>7. Len(Written(headers)) = Cardinality(Named)
  <2>1. PICK w : w = Written(headers)
    OBVIOUS
  <2>2. w = [n \in 1..k |-> headers[places[n]]]
    BY <1>4, <1>6, <2>1
  <2>3. w \in [1..k -> {headers[places[n]] : n \in 1..k}]
    BY <2>2
  <2>5. Len(w) = k
    BY <2>3
  <2>4. QED
    BY <1>6, <2>1, <2>5
<1>8. {Written(headers)[i] : i \in DOMAIN Written(headers)} = {headers[places[n]] : n \in DOMAIN places}
  <2>1. DOMAIN Written(headers) = DOMAIN places /\ \A n \in DOMAIN places : Written(headers)[n] = headers[places[n]]
    BY <1>4
  <2>2. QED
    BY <2>1
<1>9. {headers[places[n]] : n \in DOMAIN places} = {headers[i] : i \in {places[n] : n \in DOMAIN places}}
  OBVIOUS
<1>10. QED
  BY <1>6, <1>7, <1>8, <1>9

\* Every header is written, blank or there again.
LEMMA HeadersAreMeant ==
  ASSUME NEW headers, DOMAIN headers = 1..Len(headers), Len(headers) \in Nat
  PROVE  HeadersMeant(headers, HeadersReply(headers))
<1>1. PICK N \in Nat : N = Len(headers)
  OBVIOUS
<1>2. DOMAIN headers = 1..N
  BY <1>1
<1>3. PICK Named : Named = {i \in 1..N : headers[i].name # "blank"}
  OBVIOUS
<1>4. PICK Blank : Blank = {i \in 1..N : headers[i].name = "blank"}
  OBVIOUS
<1>5. PICK Again : Again = Repeats(headers)
  OBVIOUS
<1>6. PICK lines : lines = Written(headers)
  OBVIOUS
<1>7. /\ HeadersReply(headers).lines = lines /\ HeadersReply(headers).blank = Blank
      /\ HeadersReply(headers).again = Again
  BY <1>2, <1>4, <1>5, <1>6 DEF HeadersReply
<1>0. Named \in SUBSET (1..N) /\ \A i \in 1..N : i \in Named <=> headers[i].name # "blank"
  BY <1>3
<1>8. Len(lines) = Cardinality(Named) /\ {lines[i] : i \in DOMAIN lines} = {headers[i] : i \in Named}
  <2>1. /\ Len(Written(headers)) = Cardinality(Named)
        /\ {Written(headers)[i] : i \in DOMAIN Written(headers)} = {headers[i] : i \in Named}
    BY <1>2, <1>0, WrittenLists
  <2>2. QED
    BY <1>6, <2>1, Zenon
<1>9. \A i : i \in Again <=> i \in Named /\ \E j \in Named : j < i /\ headers[j].name = headers[i].name
  <2>1. Again = {i \in 1..N : headers[i].name # "blank" /\ \E j \in 1..(i - 1) : headers[j].name = headers[i].name}
    BY <1>2, <1>5 DEF Repeats
  <2>2. ASSUME NEW i \in Named
        PROVE  i \in Again <=> \E j \in Named : j < i /\ headers[j].name = headers[i].name
    <3>0. i \in 1..N
      BY <1>3, <2>2
    <3>1. \A j : j \in 1..(i - 1) <=> j \in 1..N /\ j < i
      BY <3>0
    <3>2. QED
      BY <1>3, <2>1, <2>2, <3>1, Zenon
  <2>3. QED
    BY <1>3, <2>1, <2>2
<1>10. IsFiniteSet(Named) /\ IsFiniteSet(Blank) /\ IsFiniteSet(Again)
  <2>0. Named \subseteq 1..N /\ Blank \subseteq 1..N
    BY <1>3, <1>4
  <2>1. IsFiniteSet(1..N)
    BY FS_Interval
  <2>2. Again \subseteq Named
    BY <1>9
  <2>3. QED
    BY <2>0, <2>1, <2>2, FS_Subset
<1>11. Cardinality(Named) + Cardinality(Blank) = N
  <2>1. Named \cup Blank = 1..N /\ Named \cap Blank = {}
    BY <1>3, <1>4
  <2>2. Cardinality(1..N) = N
    BY FS_Interval
  <2>3. Cardinality({}) = 0
    BY FS_EmptySet
  <2>4. Cardinality(Named) \in Nat /\ Cardinality(Blank) \in Nat
    BY <1>10, FS_CardinalityType
  <2>5. Cardinality(Named \cup Blank) = Cardinality(Named) + Cardinality(Blank) - Cardinality(Named \cap Blank)
    BY <1>10, FS_Union
  <2>6. N = Cardinality(Named) + Cardinality(Blank) - 0
    BY <2>1, <2>2, <2>3, <2>5, Zenon
  <2>7. QED
    BY <2>4, <2>6
<1>12. PICK First : First = Named \ Again
  OBVIOUS
<1>13. IsFiniteSet(First) /\ Cardinality(First) = Cardinality(Named) - Cardinality(Again)
  <2>1. First \cup Again = Named /\ First \cap Again = {}
    BY <1>9, <1>12
  <2>2. IsFiniteSet(First)
    BY <1>10, <1>12, FS_Subset
  <2>3. Cardinality(First \cup Again) = Cardinality(First) + Cardinality(Again) - Cardinality(First \cap Again)
    BY <1>10, <2>2, FS_Union
  <2>4. Cardinality(First) \in Nat /\ Cardinality(Again) \in Nat /\ Cardinality({}) = 0
    BY <1>10, <2>2, FS_CardinalityType, FS_EmptySet
  <2>5. Cardinality(Named) = Cardinality(First) + Cardinality(Again) - 0
    BY <2>1, <2>3, <2>4, Zenon
  <2>6. QED
    BY <2>2, <2>4, <2>5
<1>14. PICK names : names = {headers[i].name : i \in Named}
  OBVIOUS
<1>15. Cardinality(names) = Cardinality(First)
  <2>1. PICK f : f = [i \in First |-> headers[i].name]
    OBVIOUS
  <2>2. \A i, j \in First : f[i] = f[j] => i = j
    <3>1. \A i, j \in First : i < j => f[i] # f[j]
      BY <1>9, <1>12, <2>1
    <3>0. \A i \in Named : i \in 1..N
      BY <1>3
    <3>2. First \subseteq Nat
      BY <1>12, <3>0
    <3>3. QED
      BY <3>1, <3>2
  <2>3. ASSUME NEW x \in names
        PROVE  \E i \in First : f[i] = x
    <3>1. PICK i \in Named : x = headers[i].name
      BY <1>14
    <3>2. PICK T : T = {j \in Named : headers[j].name = x}
      OBVIOUS
    <3>0. \A j \in Named : j \in 1..N
      BY <1>3
    <3>3. T \in SUBSET Nat /\ T # {}
      BY <3>0, <3>1, <3>2
    <3>4. PICK m \in T : \A n \in T : m <= n
      BY <3>3, LeastMember
    <3>5. m \in Named /\ headers[m].name = x /\ \A n \in T : ~(n < m)
      BY <3>2, <3>3, <3>4
    <3>6. m \in First
      BY <1>9, <1>12, <3>2, <3>5
    <3>7. QED
      BY <2>1, <3>5, <3>6
  <2>4. \A i \in First : f[i] \in names
    BY <1>12, <1>14, <2>1
  <2>5. f \in Bijection(First, names)
    BY <2>1, <2>2, <2>3, <2>4 DEF Bijection, Injection, IsInjective, Surjection
  <2>6. ExistsBijection(First, names)
    BY <2>5 DEF ExistsBijection
  <2>7. QED
    BY <1>13, <2>6, FS_Bijection
<1>16. {h.name : h \in {headers[i] : i \in Named}} = names
  BY <1>14
<1>17. Again \cap Blank = {}
  BY <1>3, <1>4, <1>9
<1>18. QED
  BY <1>1, <1>7, <1>8, <1>11, <1>13, <1>15, <1>16, <1>17 DEF HeadersMeant

HttpInv ==
  /\ call[1] = "url" => call[2] \in Urls /\ (result # << >> => result[1] = UrlReply(call[2]))
  /\ call[1] = "request" => call[2] \in Requests /\ (result # << >> => result[1] = RequestReply(call[2]))
  /\ call[1] = "headers" => call[2] \in HeaderLists /\ (result # << >> => result[1] = HeadersReply(call[2]))

\* For all limits and whatever clients send, requests, URLs and headers are as
\* HttpExact says (http_tools_service.py, build_request, parse_url,
\* generate_headers).
THEOREM HttpBuiltExact ==
  ASSUME HttpIsTyped
  PROVE  HttpSpec => []HttpExact
<1>1. HttpCalled => HttpInv
  BY DEF HttpCalled, Called, HttpInv
<1>2. HttpInv /\ [HttpAnswers]_callVars => HttpInv'
  <2>1. SUFFICES ASSUME HttpInv, [HttpAnswers]_callVars PROVE HttpInv'
    OBVIOUS
  <2>2. CASE UNCHANGED callVars
    BY <2>1, <2>2 DEF HttpInv, callVars
  <2>3. CASE Answers("url", UrlReply)
    BY <2>1, <2>3 DEF HttpInv, Answers
  <2>4. CASE Answers("request", RequestReply)
    BY <2>1, <2>4 DEF HttpInv, Answers
  <2>5. CASE Answers("headers", HeadersReply)
    BY <2>1, <2>5 DEF HttpInv, Answers
  <2>6. CASE Answers("outcome", OutcomeReply)
    BY <2>1, <2>6 DEF HttpInv, Answers
  <2>7. QED
    BY <2>1, <2>2, <2>3, <2>4, <2>5, <2>6 DEF HttpAnswers
<1>3. HttpInv => HttpExact
  <2>1. SUFFICES ASSUME HttpInv PROVE HttpExact
    OBVIOUS
  <2>2. RequestExact
    <3>1. SUFFICES ASSUME Answered("request") PROVE RequestMeant(call[2], result[1])
      BY Zenon DEF RequestExact, RequestMeant
    <3>2. call[2] \in Requests /\ result[1] = RequestReply(call[2])
      BY <2>1, <3>1 DEF HttpInv, Answered
    <3>3. call[2].url \in UrlForms /\ call[2].auth \in {"none", "basic", "bearer"}
      BY <3>2, HttpIsTyped DEF HttpIsTyped, UrlForms
    <3>4. QED
      BY <3>2, <3>3, RequestIsMeant
  <2>3. UrlsAgree
    <3>1. SUFFICES ASSUME Answered("url") PROVE UrlMeant(call[2], result[1])
      BY Zenon DEF UrlsAgree, UrlMeant
    <3>2. call[2] \in Urls /\ result[1] = UrlReply(call[2])
      BY <2>1, <3>1 DEF HttpInv, Answered
    <3>3. call[2] \in UrlForms
      BY <3>2, HttpIsTyped DEF HttpIsTyped, UrlForms
    <3>4. QED
      BY <3>2, <3>3, UrlIsMeant
  <2>4. HeadersAccounted
    <3>1. SUFFICES ASSUME Answered("headers") PROVE HeadersMeant(call[2], result[1])
      BY Zenon DEF HeadersAccounted, HeadersMeant
    <3>2. call[2] \in HeaderLists /\ result[1] = HeadersReply(call[2])
      BY <2>1, <3>1 DEF HttpInv, Answered
    <3>3. DOMAIN call[2] = 1..Len(call[2]) /\ Len(call[2]) \in Nat
      BY <3>2, HttpIsTyped DEF HttpIsTyped
    <3>4. QED
      BY <3>2, <3>3, HeadersAreMeant
  <2>5. QED
    BY <2>2, <2>3, <2>4 DEF HttpExact
<1>4. QED
  BY <1>1, <1>2, <1>3, PTL DEF HttpSpec

-----------------------------------------------------------------------------
(***************************************************************************)
(* DevTools: versions, ranges and changelogs.                              *)
(***************************************************************************)
Identifiers == {0, 1} \X Nat

\* The place where two lists part.
ForkAt(p, q, i) ==
  /\ i \in 1..(Len(p) + 1) /\ i \in 1..(Len(q) + 1)
  /\ i > Len(p) \/ i > Len(q) \/ p[i] # q[i]
  /\ \A j \in 1..(i - 1) : p[j] = q[j]

\* Two lists part at one place.
LEMMA ForkIs ==
  ASSUME NEW p \in Seq(Identifiers), NEW q \in Seq(Identifiers)
  PROVE  ForkAt(p, q, Fork(p, q)) /\ \A i \in Nat : ForkAt(p, q, i) => i = Fork(p, q)
<1>1. PICK m \in Nat, n \in Nat : m = Len(p) /\ n = Len(q)
  OBVIOUS
<1>2. PICK T : T = {i \in 1..(m + 1) : i > m \/ i > n \/ p[i] # q[i]}
  OBVIOUS
<1>3. T \in SUBSET Nat /\ m + 1 \in T
  <2>1. \A i \in T : i \in 1..(m + 1)
    BY <1>2
  <2>2. m + 1 \in 1..(m + 1) /\ m + 1 > m
    OBVIOUS
  <2>3. QED
    BY <1>2, <2>1, <2>2
<1>4. PICK k \in T : \A i \in T : k <= i
  BY <1>3, LeastMember
<1>5. k \in 1..(m + 1) /\ (k > m \/ k > n \/ p[k] # q[k])
  BY <1>2
<1>6. ASSUME NEW j \in 1..(k - 1)
      PROVE  j <= n /\ p[j] = q[j]
  <2>1. j \in 1..(m + 1) /\ ~(j > m) /\ ~(k <= j)
    BY <1>5
  <2>2. j \notin T
    BY <1>4, <2>1
  <2>3. ~(j > n) /\ ~(p[j] # q[j])
    BY <1>2, <2>1, <2>2
  <2>4. QED
    BY <2>1, <2>3
<1>7. \E i \in 1..(Len(p) + 1) : /\ i > Len(p) \/ i > Len(q) \/ p[i] # q[i]
                                 /\ \A j \in 1..(i - 1) : j <= Len(q) /\ p[j] = q[j]
  BY <1>1, <1>5, <1>6, Zenon
<1>8. PICK i : i = Fork(p, q)
  OBVIOUS
<1>9. /\ i \in 1..(Len(p) + 1)
      /\ i > Len(p) \/ i > Len(q) \/ p[i] # q[i]
      /\ \A j \in 1..(i - 1) : j <= Len(q) /\ p[j] = q[j]
  BY <1>7, <1>8, Zenon DEF Fork
<1>10. i \in 1..(Len(q) + 1)
  <2>1. CASE i = 1
    BY <1>1, <2>1
  <2>2. CASE i # 1
    <3>1. i - 1 \in 1..(i - 1)
      BY <1>1, <1>9, <2>2
    <3>2. i - 1 <= Len(q)
      BY <1>9, <3>1
    <3>3. QED
      BY <1>1, <1>9, <3>2
  <2>3. QED
    BY <2>1, <2>2
<1>11. ForkAt(p, q, i)
  BY <1>9, <1>10 DEF ForkAt
<1>12. ASSUME NEW l \in Nat, ForkAt(p, q, l)
       PROVE  l = i
  <2>1. /\ l \in 1..(m + 1) /\ l \in 1..(n + 1) /\ (l > m \/ l > n \/ p[l] # q[l])
        /\ \A j \in 1..(l - 1) : p[j] = q[j]
    BY <1>1, <1>12 DEF ForkAt
  <2>2. /\ i \in 1..(m + 1) /\ i \in 1..(n + 1) /\ (i > m \/ i > n \/ p[i] # q[i])
        /\ \A j \in 1..(i - 1) : p[j] = q[j]
    BY <1>1, <1>11 DEF ForkAt
  <2>3. ~(i < l)
    <3>1. SUFFICES ASSUME i < l PROVE FALSE
      OBVIOUS
    <3>2. i \in 1..(l - 1) /\ ~(i > m) /\ ~(i > n)
      BY <2>1, <2>2, <3>1
    <3>3. QED
      BY <2>1, <2>2, <3>2
  <2>4. ~(l < i)
    <3>1. SUFFICES ASSUME l < i PROVE FALSE
      OBVIOUS
    <3>2. l \in 1..(i - 1) /\ ~(l > m) /\ ~(l > n)
      BY <2>1, <2>2, <3>1
    <3>3. QED
      BY <2>1, <2>2, <3>2
  <2>5. QED
    BY <2>1, <2>2, <2>3, <2>4
<1>13. QED
  BY <1>8, <1>11, <1>12

\* One list of identifiers comes before another one.
IdBelow(s, t) == s[1] < t[1] \/ (s[1] = t[1] /\ s[2] < t[2])

PreBefore(p, q) ==
  \E i \in Nat : ForkAt(p, q, i) /\ i <= Len(q) /\ (i > Len(p) \/ (i <= Len(p) /\ IdBelow(p[i], q[i])))

\* The order of identifiers is strict and total.
LEMMA IdOrder ==
  ASSUME NEW s \in Identifiers, NEW t \in Identifiers, NEW u \in Identifiers
  PROVE  /\ ~(IdBelow(s, t) /\ IdBelow(t, s)) /\ ~IdBelow(s, s)
         /\ s # t => IdBelow(s, t) \/ IdBelow(t, s)
         /\ IdBelow(s, t) /\ IdBelow(t, u) => IdBelow(s, u)
         /\ s[1] # t[1] => (IdBelow(s, t) <=> s[1] < t[1])
         /\ s[1] = t[1] => (IdBelow(s, t) <=> s[2] < t[2])
<1>1. \A x \in Identifiers : x = <<x[1], x[2]>> /\ x[1] \in Nat /\ x[2] \in Nat
  BY DEF Identifiers
<1>2. s # t => s[1] # t[1] \/ s[2] # t[2]
  BY <1>1
<1>3. QED
  BY <1>1, <1>2 DEF IdBelow

\* Two lists part where they part the other way round.
LEMMA ForkSymmetric ==
  ASSUME NEW p, NEW q, NEW i
  PROVE  ForkAt(p, q, i) <=> ForkAt(q, p, i)
BY DEF ForkAt

\* Comparing the identifiers of two prereleases says which one comes before.
LEMMA ForkedMeans ==
  ASSUME NEW p \in Seq(Identifiers), NEW q \in Seq(Identifiers)
  PROVE  /\ Forked(p, q) \in {-1, 0, 1}
         /\ Forked(p, q) = 0 <=> p = q
         /\ Forked(p, q) = -1 <=> PreBefore(p, q)
         /\ Forked(p, q) = 1 <=> PreBefore(q, p)
<1>1. PICK i : i = Fork(p, q)
  OBVIOUS
<1>2. ForkAt(p, q, i) /\ \A k \in Nat : ForkAt(p, q, k) => k = i
  BY <1>1, ForkIs
<1>3. PICK m \in Nat, n \in Nat : m = Len(p) /\ n = Len(q)
  OBVIOUS
<1>4. i \in 1..(m + 1) /\ i \in 1..(n + 1) /\ (i > m \/ i > n \/ p[i] # q[i])
  BY <1>2, <1>3 DEF ForkAt
<1>5. i \in Nat /\ i # 0
  BY <1>4
<1>6. PreBefore(p, q) <=> i <= n /\ (i > m \/ (i <= m /\ IdBelow(p[i], q[i])))
  BY <1>2, <1>3, <1>5, Zenon DEF PreBefore
<1>7. PreBefore(q, p) <=> i <= m /\ (i > n \/ (i <= n /\ IdBelow(q[i], p[i])))
  BY <1>2, <1>3, <1>5, ForkSymmetric, Zenon DEF PreBefore
<1>8. (i > m /\ i > n) <=> p = q
  <2>1. ASSUME i > m, i > n PROVE p = q
    <3>1. i = m + 1 /\ i = n + 1
      BY <1>4, <2>1
    <3>2. m = n /\ \A j \in 1..m : p[j] = q[j]
      <4>1. m = n /\ i - 1 = m
        BY <3>1
      <4>2. \A j \in 1..(i - 1) : p[j] = q[j]
        BY <1>2 DEF ForkAt
      <4>3. QED
        BY <4>1, <4>2
    <3>3. QED
      BY <1>3, <3>2, SeqEqual
  <2>2. ASSUME p = q PROVE i > m /\ i > n
    BY <1>3, <1>4, <2>2
  <2>3. QED
    BY <2>1, <2>2
<1>9. CASE p = q
  <2>1. Forked(p, q) = 0
    BY <1>9 DEF Forked
  <2>2. i > m /\ i > n
    BY <1>8, <1>9
  <2>3. ~PreBefore(p, q) /\ ~PreBefore(q, p)
    BY <1>5, <1>6, <1>7, <2>2
  <2>4. QED
    BY <1>9, <2>1, <2>3
<1>10. CASE p # q /\ i > m
  <2>1. Forked(p, q) = -1
    BY <1>1, <1>3, <1>10, Zenon DEF Forked
  <2>2. ~(i > n) /\ i <= n /\ ~(i <= m)
    BY <1>4, <1>8, <1>10
  <2>3. QED
    BY <1>6, <1>7, <1>10, <2>1, <2>2
<1>11. CASE p # q /\ ~(i > m) /\ i > n
  <2>1. Forked(p, q) = 1
    BY <1>1, <1>3, <1>11, Zenon DEF Forked
  <2>2. ~(i <= n) /\ i <= m
    BY <1>4, <1>11
  <2>3. QED
    BY <1>6, <1>7, <1>11, <2>1, <2>2
<1>12. CASE p # q /\ ~(i > m) /\ ~(i > n)
  <2>1. i \in 1..m /\ i \in 1..n /\ p[i] # q[i]
    BY <1>4, <1>12
  <2>2. PICK s \in Identifiers, t \in Identifiers : s = p[i] /\ t = q[i]
    BY <1>3, <2>1
  <2>3. Forked(p, q) = IF s[1] # t[1] THEN Sign(s[1] < t[1]) ELSE Sign(s[2] < t[2])
    BY <1>1, <1>3, <1>12, <2>2, Zenon DEF Forked
  <2>4. /\ IdBelow(s, t) => Forked(p, q) = -1
        /\ ~IdBelow(s, t) => Forked(p, q) = 1
    BY <2>3, IdOrder DEF Sign
  <2>5. (IdBelow(s, t) /\ ~IdBelow(t, s)) \/ (IdBelow(t, s) /\ ~IdBelow(s, t))
    BY <2>1, <2>2, IdOrder
  <2>6. i <= m /\ i <= n
    BY <2>1
  <2>7. QED
    BY <1>6, <1>7, <1>12, <2>2, <2>4, <2>5, <2>6
<1>13. QED
  BY <1>9, <1>10, <1>11, <1>12

\* The order of prereleases is transitive.
LEMMA PreBeforeTransitive ==
  ASSUME NEW p \in Seq(Identifiers), NEW q \in Seq(Identifiers), NEW r \in Seq(Identifiers),
         PreBefore(p, q), PreBefore(q, r)
  PROVE  PreBefore(p, r)
<1>1. PICK l \in Nat, m \in Nat, n \in Nat : l = Len(p) /\ m = Len(q) /\ n = Len(r)
  OBVIOUS
<1>2. PICK i \in Nat : ForkAt(p, q, i) /\ i <= m /\ (i > l \/ (i <= l /\ IdBelow(p[i], q[i])))
  BY <1>1 DEF PreBefore
<1>3. PICK k \in Nat : ForkAt(q, r, k) /\ k <= n /\ (k > m \/ (k <= m /\ IdBelow(q[k], r[k])))
  BY <1>1 DEF PreBefore
<1>4. /\ i \in 1..(l + 1) /\ i \in 1..(m + 1) /\ \A j \in 1..(i - 1) : p[j] = q[j]
      /\ k \in 1..(m + 1) /\ k \in 1..(n + 1) /\ \A j \in 1..(k - 1) : q[j] = r[j]
  BY <1>1, <1>2, <1>3 DEF ForkAt
<1>5. /\ \A j \in 1..l : p[j] \in Identifiers
      /\ \A j \in 1..m : q[j] \in Identifiers
      /\ \A j \in 1..n : r[j] \in Identifiers
  BY <1>1
<1>6. CASE i < k
  <2>1. i \in 1..(k - 1) /\ i <= n /\ i \in 1..(n + 1)
    BY <1>3, <1>4, <1>6
  <2>2. q[i] = r[i]
    BY <1>4, <2>1
  <2>3. i > l \/ i > n \/ p[i] # r[i]
    <3>1. CASE i > l
      BY <3>1
    <3>2. CASE ~(i > l)
      <4>1. i \in 1..l /\ i \in 1..m /\ IdBelow(p[i], q[i])
        BY <1>2, <1>4, <3>2
      <4>2. p[i] \in Identifiers /\ q[i] \in Identifiers
        BY <1>5, <4>1
      <4>3. QED
        BY <2>2, <4>1, <4>2, IdOrder
    <3>3. QED
      BY <3>1, <3>2
  <2>4. \A j \in 1..(i - 1) : p[j] = r[j]
    <3>1. \A j \in 1..(i - 1) : j \in 1..(k - 1)
      BY <1>4, <1>6
    <3>2. QED
      BY <1>4, <3>1
  <2>5. ForkAt(p, r, i)
    BY <1>1, <1>4, <2>1, <2>3, <2>4 DEF ForkAt
  <2>6. i > l \/ (i <= l /\ IdBelow(p[i], r[i]))
    BY <1>2, <2>2
  <2>7. QED
    BY <1>1, <2>1, <2>5, <2>6 DEF PreBefore
<1>7. CASE k < i
  <2>1. k \in 1..(i - 1) /\ k \in 1..l /\ k \in 1..m /\ k \in 1..n /\ k \in 1..(l + 1) /\ k \in 1..(n + 1)
    BY <1>3, <1>4, <1>7
  <2>2. p[k] = q[k] /\ IdBelow(q[k], r[k])
    BY <1>3, <1>4, <2>1
  <2>3. p[k] # r[k]
    BY <1>5, <2>1, <2>2, IdOrder
  <2>4. \A j \in 1..(k - 1) : p[j] = r[j]
    <3>1. \A j \in 1..(k - 1) : j \in 1..(i - 1)
      BY <1>4, <1>7
    <3>2. QED
      BY <1>4, <3>1
  <2>5. ForkAt(p, r, k)
    BY <1>1, <2>1, <2>3, <2>4 DEF ForkAt
  <2>6. k <= n /\ k <= l /\ IdBelow(p[k], r[k])
    BY <2>1, <2>2
  <2>7. QED
    BY <1>1, <2>5, <2>6 DEF PreBefore
<1>8. CASE i = k
  <2>1. i \in 1..m /\ i \in 1..n /\ i \in 1..(n + 1) /\ IdBelow(q[i], r[i])
    BY <1>2, <1>3, <1>4, <1>8
  <2>2. \A j \in 1..(i - 1) : p[j] = r[j]
    BY <1>4, <1>8
  <2>3. i > l \/ (i <= l /\ IdBelow(p[i], r[i]))
    <3>1. CASE i > l
      BY <3>1
    <3>2. CASE ~(i > l)
      <4>1. i \in 1..l /\ IdBelow(p[i], q[i])
        BY <1>2, <1>4, <3>2
      <4>2. p[i] \in Identifiers /\ q[i] \in Identifiers /\ r[i] \in Identifiers
        BY <1>5, <2>1, <4>1
      <4>3. IdBelow(p[i], r[i])
        BY <2>1, <4>1, <4>2, IdOrder
      <4>4. QED
        BY <4>1, <4>3
    <3>3. QED
      BY <3>1, <3>2
  <2>4. i > l \/ i > n \/ p[i] # r[i]
    <3>1. CASE i > l
      BY <3>1
    <3>2. CASE ~(i > l)
      <4>1. i \in 1..l /\ IdBelow(p[i], r[i])
        BY <1>4, <2>3, <3>2
      <4>2. p[i] \in Identifiers /\ r[i] \in Identifiers
        BY <1>5, <2>1, <4>1
      <4>3. QED
        BY <4>1, <4>2, IdOrder
    <3>3. QED
      BY <3>1, <3>2
  <2>5. ForkAt(p, r, i)
    BY <1>1, <1>4, <2>1, <2>2, <2>4 DEF ForkAt
  <2>6. i <= n
    BY <2>1
  <2>7. QED
    BY <1>1, <2>3, <2>5, <2>6 DEF PreBefore
<1>9. QED
  BY <1>6, <1>7, <1>8

\* Nothing comes before the release, in the order of the code.
LEMMA PreBeforeEmpty ==
  ASSUME NEW p \in Seq(Identifiers)
  PROVE  ~PreBefore(p, << >>) /\ (PreBefore(<< >>, p) <=> p # << >>)
<1>1. PICK e : e = << >>
  OBVIOUS
<1>2. e \in Seq(Identifiers) /\ Len(e) = 0
  BY <1>1
<1>3. PICK m \in Nat : m = Len(p)
  OBVIOUS
<1>4. ~PreBefore(p, e)
  <2>1. SUFFICES ASSUME NEW i \in Nat, ForkAt(p, e, i), i <= 0 PROVE FALSE
    BY <1>2 DEF PreBefore
  <2>2. i \in 1..(m + 1)
    BY <1>3, <2>1 DEF ForkAt
  <2>3. QED
    BY <2>1, <2>2
<1>5. p = e => ~PreBefore(e, p)
  BY <1>4
<1>6. ASSUME p # e PROVE PreBefore(e, p)
  <2>1. m # 0
    BY <1>1, <1>3, <1>6
  <2>2. ForkAt(e, p, 1)
    BY <1>2, <1>3, <2>1 DEF ForkAt
  <2>3. 1 <= m /\ 1 > 0
    BY <2>1
  <2>4. QED
    BY <1>2, <1>3, <2>2, <2>3 DEF PreBefore
<1>7. QED
  BY <1>1, <1>4, <1>5, <1>6

\* One version comes before another one, for _semver_compare.
Less(a, b) == Below(Core(a), Core(b)) \/ (Core(a) = Core(b) /\ PreBefore(a.pre, b.pre))

\* The parts of a version determine it and their order.
LEMMA VersionParts ==
  ASSUME NEW a \in VersionForms, NEW b \in VersionForms
  PROVE  /\ a.major \in Nat /\ a.minor \in Nat /\ a.patch \in Nat /\ a.pre \in Seq(Identifiers)
         /\ Core(a) = Core(b) <=> a.major = b.major /\ a.minor = b.minor /\ a.patch = b.patch
         /\ a = b <=> Core(a) = Core(b) /\ a.pre = b.pre
         /\ Below(Core(a), Core(b)) <=>
              \/ a.major < b.major
              \/ a.major = b.major /\ a.minor < b.minor
              \/ a.major = b.major /\ a.minor = b.minor /\ a.patch < b.patch
<1>1. a.major \in Nat /\ a.minor \in Nat /\ a.patch \in Nat /\ a.pre \in Seq(Identifiers)
  BY DEF VersionForms, Identifiers
<1>2. Core(a) = Core(b) <=> a.major = b.major /\ a.minor = b.minor /\ a.patch = b.patch
  BY DEF Core
<1>3. a = b <=> Core(a) = Core(b) /\ a.pre = b.pre
  <2>1. /\ a = [major |-> a.major, minor |-> a.minor, patch |-> a.patch, pre |-> a.pre]
        /\ b = [major |-> b.major, minor |-> b.minor, patch |-> b.patch, pre |-> b.pre]
    BY DEF VersionForms
  <2>2. QED
    BY <1>2, <2>1, Zenon
<1>4. Below(Core(a), Core(b)) <=>
        \/ a.major < b.major
        \/ a.major = b.major /\ a.minor < b.minor
        \/ a.major = b.major /\ a.minor = b.minor /\ a.patch < b.patch
  <2>1. PICK s, t : s = Core(a) /\ t = Core(b)
    OBVIOUS
  <2>2. /\ s[1] = a.major /\ s[2] = a.minor /\ s[3] = a.patch
        /\ t[1] = b.major /\ t[2] = b.minor /\ t[3] = b.patch
    BY <2>1 DEF Core
  <2>3. Below(s, t) <=> \/ s[1] < t[1]
                        \/ s[1] = t[1] /\ s[2] < t[2]
                        \/ s[1] = t[1] /\ s[2] = t[2] /\ s[3] < t[3]
    <3>1. /\ \A i : i \in 1..3 <=> i = 1 \/ i = 2 \/ i = 3
          /\ \A i : i \in 1..(1 - 1) <=> FALSE
          /\ \A i : i \in 1..(2 - 1) <=> i = 1
          /\ \A i : i \in 1..(3 - 1) <=> i = 1 \/ i = 2
      OBVIOUS
    <3>2. QED
      BY <3>1, Zenon DEF Below
  <2>4. QED
    BY <2>1, <2>2, <2>3
<1>5. QED
  BY <1>1, <1>2, <1>3, <1>4

\* Comparing two versions says which one comes before.
LEMMA CompareMeans ==
  ASSUME NEW a \in VersionForms, NEW b \in VersionForms
  PROVE  /\ Compare(a, b) \in {-1, 0, 1}
         /\ Compare(a, b) = 0 <=> a = b
         /\ Compare(a, b) = -1 <=> Less(a, b)
         /\ Compare(a, b) = 1 <=> Less(b, a)
<1>1. a.pre \in Seq(Identifiers) /\ b.pre \in Seq(Identifiers)
  BY VersionParts
<1>2. CASE Core(a) # Core(b)
  <2>1. a # b /\ Below(Core(a), Core(b)) \in BOOLEAN
    BY <1>2 DEF Below
  <2>2. (Below(Core(a), Core(b)) /\ ~Below(Core(b), Core(a))) \/ (Below(Core(b), Core(a)) /\ ~Below(Core(a), Core(b)))
    BY <1>2, VersionParts
  <2>3. /\ Below(Core(a), Core(b)) => Compare(a, b) = -1
        /\ ~Below(Core(a), Core(b)) => Compare(a, b) = 1
    BY <1>2 DEF Compare, Sign
  <2>4. QED
    BY <1>2, <2>1, <2>2, <2>3 DEF Less
<1>3. CASE Core(a) = Core(b)
  <2>1. ~Below(Core(a), Core(b)) /\ ~Below(Core(b), Core(a))
    BY <1>3, VersionParts
  <2>2. Compare(a, b) = Forked(a.pre, b.pre)
    <3>1. CASE a.pre # << >> /\ b.pre = << >>
      <4>1. Forked(a.pre, b.pre) = 1
        BY <1>1, <3>1, PreBeforeEmpty, ForkedMeans
      <4>2. QED
        BY <1>3, <3>1, <4>1 DEF Compare
    <3>2. CASE a.pre = << >> /\ b.pre # << >>
      <4>1. Forked(a.pre, b.pre) = -1
        BY <1>1, <3>2, PreBeforeEmpty, ForkedMeans
      <4>2. QED
        BY <1>3, <3>2, <4>1 DEF Compare
    <3>3. CASE ~(a.pre # << >> /\ b.pre = << >>) /\ ~(a.pre = << >> /\ b.pre # << >>)
      BY <1>3, <3>3 DEF Compare
    <3>4. QED
      BY <3>1, <3>2, <3>3
  <2>3. /\ Forked(a.pre, b.pre) \in {-1, 0, 1}
        /\ Forked(a.pre, b.pre) = 0 <=> a.pre = b.pre
        /\ Forked(a.pre, b.pre) = -1 <=> PreBefore(a.pre, b.pre)
        /\ Forked(a.pre, b.pre) = 1 <=> PreBefore(b.pre, a.pre)
    BY <1>1, ForkedMeans
  <2>4. (Less(a, b) <=> PreBefore(a.pre, b.pre)) /\ (Less(b, a) <=> PreBefore(b.pre, a.pre))
    BY <1>3, <2>1 DEF Less
  <2>5. a = b <=> a.pre = b.pre
    BY <1>3, VersionParts
  <2>6. QED
    BY <2>2, <2>3, <2>4, <2>5
<1>4. QED
  BY <1>2, <1>3

\* The order of versions is transitive.
LEMMA LessTransitive ==
  ASSUME NEW a \in VersionForms, NEW b \in VersionForms, NEW c \in VersionForms, Less(a, b), Less(b, c)
  PROVE  Less(a, c)
<1>1. a.pre \in Seq(Identifiers) /\ b.pre \in Seq(Identifiers) /\ c.pre \in Seq(Identifiers)
  BY VersionParts
<1>2. Below(Core(a), Core(b)) /\ Below(Core(b), Core(c)) => Below(Core(a), Core(c))
  BY VersionParts
<1>3. QED
  BY <1>1, <1>2, PreBeforeTransitive DEF Less

\* Not before: at least as great.
LEMMA AtLeast ==
  ASSUME NEW a \in VersionForms, NEW b \in VersionForms
  PROVE  /\ Compare(a, b) = -Compare(b, a)
         /\ Compare(a, b) >= 0 <=> ~Less(a, b)
         /\ Compare(a, b) < 0 <=> Less(a, b)
<1>1. /\ Compare(a, b) \in {-1, 0, 1} /\ Compare(b, a) \in {-1, 0, 1}
      /\ Compare(a, b) = 0 <=> a = b
      /\ Compare(a, b) = -1 <=> Less(a, b)
      /\ Compare(a, b) = 1 <=> Less(b, a)
      /\ Compare(b, a) = 0 <=> a = b
      /\ Compare(b, a) = -1 <=> Less(b, a)
      /\ Compare(b, a) = 1 <=> Less(a, b)
  BY CompareMeans
<1>2. QED
  BY <1>1

\* So is its converse with equality.
LEMMA AtLeastTransitive ==
  ASSUME NEW a \in VersionForms, NEW b \in VersionForms, NEW c \in VersionForms,
         Compare(a, b) >= 0, Compare(b, c) >= 0
  PROVE  Compare(a, c) >= 0
<1>1. ~Less(a, b) /\ ~Less(b, c)
  BY AtLeast
<1>2. (a = b \/ Less(b, a)) /\ (b = c \/ Less(c, b))
  BY <1>1, CompareMeans
<1>3. SUFFICES ASSUME Less(a, c) PROVE FALSE
  BY AtLeast
<1>4. Less(b, a) => Less(b, c)
  BY <1>3, LessTransitive
<1>5. a = b => Less(b, c)
  BY <1>3
<1>6. QED
  BY <1>1, <1>2, <1>4, <1>5

\* A bound without a prerelease.
LEMMA LessThanBound ==
  ASSUME NEW v \in VersionForms, NEW i \in Nat, NEW j \in Nat, NEW k \in Nat
  PROVE  /\ Semver(i, j, k, << >>) \in VersionForms
         /\ Less(v, Semver(i, j, k, << >>)) <=>
              \/ v.major < i
              \/ v.major = i /\ v.minor < j
              \/ v.major = i /\ v.minor = j /\ v.patch < k
<1>1. PICK e : e = << >>
  OBVIOUS
<1>2. PICK b : b = Semver(i, j, k, e)
  OBVIOUS
<1>3. b \in VersionForms /\ b.major = i /\ b.minor = j /\ b.patch = k /\ b.pre = e
  <2>1. e \in Seq({0, 1} \X Nat)
    BY <1>1
  <2>2. QED
    BY <1>2, <2>1 DEF Semver, VersionForms
<1>4. v.pre \in Seq(Identifiers)
  BY VersionParts
<1>5. ~PreBefore(v.pre, b.pre)
  BY <1>1, <1>3, <1>4, PreBeforeEmpty
<1>6. Less(v, b) <=> Below(Core(v), Core(b))
  BY <1>5 DEF Less
<1>7. QED
  BY <1>1, <1>2, <1>3, <1>6, VersionParts

\* The bounds of a caret and of a tilde keep what they mean to keep.
LEMMA BoundsKeep ==
  ASSUME NEW v \in VersionForms, NEW w \in VersionForms, Compare(v, w) >= 0
  PROVE  /\ Compare(v, CaretEnd(w)) < 0 <=> Keeps(v, w, Kept(w))
         /\ Compare(v, TildeEnd(w)) < 0 <=> Keeps(v, w, 2)
<1>1. PICK a \in Nat, b \in Nat, c \in Nat : a = v.major /\ b = v.minor /\ c = v.patch
  BY VersionParts
<1>2. PICK x \in Nat, y \in Nat, z \in Nat : x = w.major /\ y = w.minor /\ z = w.patch
  BY VersionParts
<1>3. ~(a < x \/ (a = x /\ b < y) \/ (a = x /\ b = y /\ c < z))
  <2>1. ~Less(v, w)
    BY AtLeast
  <2>2. ~Below(Core(v), Core(w))
    BY <2>1 DEF Less
  <2>3. QED
    BY <1>1, <1>2, <2>2, VersionParts
<1>4. /\ Core(v)[1] = a /\ Core(v)[2] = b /\ Core(v)[3] = c
      /\ Core(w)[1] = x /\ Core(w)[2] = y /\ Core(w)[3] = z
  BY <1>1, <1>2 DEF Core
<1>5. /\ Keeps(v, w, 1) <=> a = x
      /\ Keeps(v, w, 2) <=> a = x /\ b = y
      /\ Keeps(v, w, 3) <=> a = x /\ b = y /\ c = z
  <2>1. /\ \A i : i \in 1..1 <=> i = 1
        /\ \A i : i \in 1..2 <=> i = 1 \/ i = 2
        /\ \A i : i \in 1..3 <=> i = 1 \/ i = 2 \/ i = 3
    OBVIOUS
  <2>2. QED
    BY <1>4, <2>1, Zenon DEF Keeps
<1>6. ASSUME NEW i \in Nat, NEW j \in Nat, NEW k \in Nat
      PROVE  Compare(v, Semver(i, j, k, << >>)) < 0 <=> a < i \/ (a = i /\ b < j) \/ (a = i /\ b = j /\ c < k)
  <2>1. PICK u : u = Semver(i, j, k, << >>)
    OBVIOUS
  <2>2. u \in VersionForms /\ (Less(v, u) <=> a < i \/ (a = i /\ b < j) \/ (a = i /\ b = j /\ c < k))
    BY <1>1, <2>1, LessThanBound
  <2>3. QED
    BY <2>1, <2>2, AtLeast
<1>7. Compare(v, CaretEnd(w)) < 0 <=> Keeps(v, w, Kept(w))
  <2>1. CASE x # 0
    <3>1. CaretEnd(w) = Semver(x + 1, 0, 0, << >>) /\ Kept(w) = 1
      BY <1>2, <2>1 DEF CaretEnd, Kept
    <3>2. Compare(v, Semver(x + 1, 0, 0, << >>)) < 0 <=> a < x + 1 \/ (a = x + 1 /\ b < 0) \/ (a = x + 1 /\ b = 0 /\ c < 0)
      BY <1>6
    <3>3. QED
      BY <1>3, <1>5, <3>1, <3>2
  <2>2. CASE x = 0 /\ y # 0
    <3>1. CaretEnd(w) = Semver(0, y + 1, 0, << >>) /\ Kept(w) = 2
      BY <1>2, <2>2 DEF CaretEnd, Kept
    <3>2. Compare(v, Semver(0, y + 1, 0, << >>)) < 0 <=> a < 0 \/ (a = 0 /\ b < y + 1) \/ (a = 0 /\ b = y + 1 /\ c < 0)
      BY <1>6
    <3>3. QED
      BY <1>3, <1>5, <2>2, <3>1, <3>2
  <2>3. CASE x = 0 /\ y = 0
    <3>1. CaretEnd(w) = Semver(0, 0, z + 1, << >>) /\ Kept(w) = 3
      BY <1>2, <2>3 DEF CaretEnd, Kept
    <3>2. Compare(v, Semver(0, 0, z + 1, << >>)) < 0 <=> a < 0 \/ (a = 0 /\ b < 0) \/ (a = 0 /\ b = 0 /\ c < z + 1)
      BY <1>6
    <3>3. QED
      BY <1>3, <1>5, <2>3, <3>1, <3>2
  <2>4. QED
    BY <2>1, <2>2, <2>3
<1>8. Compare(v, TildeEnd(w)) < 0 <=> Keeps(v, w, 2)
  <2>1. TildeEnd(w) = Semver(x, y + 1, 0, << >>)
    BY <1>2 DEF TildeEnd
  <2>2. Compare(v, Semver(x, y + 1, 0, << >>)) < 0 <=> a < x \/ (a = x /\ b < y + 1) \/ (a = x /\ b = y + 1 /\ c < 0)
    BY <1>6
  <2>3. QED
    BY <1>3, <1>5, <2>1, <2>2
<1>9. QED
  BY <1>7, <1>8

\* An operator of a range matches what it means.
LEMMA MatchedMeans ==
  ASSUME NEW v \in VersionForms, NEW w \in VersionForms, NEW op \in Operators
  PROVE  Matched(v, op, w) <=> Means(v, op, w)
<1>1. CASE op = "^"
  <2>1. Matched(v, op, w) <=> Compare(v, w) >= 0 /\ Compare(v, CaretEnd(w)) < 0
    BY <1>1 DEF Matched, Within
  <2>2. Means(v, op, w) <=> Compare(v, w) >= 0 /\ Keeps(v, w, Kept(w))
    BY <1>1 DEF Means
  <2>3. QED
    BY <2>1, <2>2, BoundsKeep
<1>2. CASE op = "~"
  <2>1. Matched(v, op, w) <=> Compare(v, w) >= 0 /\ Compare(v, TildeEnd(w)) < 0
    BY <1>2 DEF Matched, Within
  <2>2. Means(v, op, w) <=> Compare(v, w) >= 0 /\ Keeps(v, w, 2)
    BY <1>2 DEF Means
  <2>3. QED
    BY <2>1, <2>2, BoundsKeep
<1>3. CASE op \in {"=", "!=", ">", ">=", "<", "<="}
  BY <1>3 DEF Means
<1>4. QED
  BY <1>1, <1>2, <1>3 DEF Operators

(***************************************************************************)
(* Ranges.                                                                 *)
(***************************************************************************)
Comparators == Operators \X (VersionForms \cup {NoVersion, AnyVersion})

\* The first place with one of some answers, or the place after the last.
LEMMA FirstOfIs ==
  ASSUME NEW s, NEW n \in Nat, Len(s) = n, NEW what
  PROVE  /\ FirstOf(s, what) \in 1..(n + 1)
         /\ FirstOf(s, what) <= n => s[FirstOf(s, what)] \in what
         /\ \A j \in 1..(FirstOf(s, what) - 1) : s[j] \notin what
<1>1. PICK T : T = {i \in 1..(n + 1) : i <= n => s[i] \in what}
  OBVIOUS
<1>2. T \in SUBSET Nat /\ n + 1 \in T
  <2>1. \A i \in T : i \in 1..(n + 1)
    BY <1>1
  <2>2. n + 1 \in 1..(n + 1) /\ ~(n + 1 <= n)
    OBVIOUS
  <2>3. QED
    BY <1>1, <2>1, <2>2
<1>3. PICK k \in T : \A i \in T : k <= i
  BY <1>2, LeastMember
<1>4. k \in 1..(n + 1) /\ (k <= n => s[k] \in what)
  BY <1>1
<1>5. ASSUME NEW j \in 1..(k - 1)
      PROVE  s[j] \notin what
  <2>1. j \in 1..(n + 1) /\ ~(k <= j)
    BY <1>4
  <2>2. j \notin T
    BY <1>3, <2>1
  <2>3. QED
    BY <1>1, <2>1, <2>2
<1>6. \E i \in 1..(Len(s) + 1) : /\ i <= Len(s) => s[i] \in what
                                 /\ \A j \in 1..(i - 1) : s[j] \notin what
  BY <1>4, <1>5, Zenon
<1>7. PICK i : i = FirstOf(s, what)
  OBVIOUS
<1>8. /\ i \in 1..(Len(s) + 1) /\ (i <= Len(s) => s[i] \in what)
      /\ \A j \in 1..(i - 1) : s[j] \notin what
  BY <1>6, <1>7, Zenon DEF FirstOf
<1>9. QED
  BY <1>7, <1>8

\* A comparator of a range holds exactly if it means so.
LEMMA TriedMeans ==
  ASSUME NEW v \in VersionForms, NEW c \in Comparators,
         NoVersion \notin VersionForms, AnyVersion \notin VersionForms, NoVersion # AnyVersion
  PROVE  /\ Tried(v, c) \in {"holds", "fails", "invalid"}
         /\ Tried(v, c) = "invalid" <=> c[2] = NoVersion
         /\ Tried(v, c) = "holds" <=> c[2] = AnyVersion \/ (c[2] # NoVersion /\ Means(v, c[1], c[2]))
<1>1. PICK op, w : op = c[1] /\ w = c[2]
  OBVIOUS
<1>2. op \in Operators /\ w \in VersionForms \cup {NoVersion, AnyVersion}
  BY <1>1 DEF Comparators
<1>3. CASE w = AnyVersion
  BY <1>1, <1>3 DEF Tried
<1>4. CASE w = NoVersion
  BY <1>1, <1>4 DEF Tried
<1>5. CASE w \in VersionForms
  <2>1. w # AnyVersion /\ w # NoVersion
    BY <1>5
  <2>2. /\ Matched(v, op, w) => Tried(v, c) = "holds"
        /\ ~Matched(v, op, w) => Tried(v, c) = "fails"
    BY <1>1, <2>1 DEF Tried
  <2>3. Matched(v, op, w) <=> Means(v, op, w)
    BY <1>2, <1>5, MatchedMeans
  <2>4. QED
    BY <1>1, <2>1, <2>2, <2>3
<1>6. QED
  BY <1>2, <1>3, <1>4, <1>5

\* An alternative holds if all its comparators do.
LEMMA AlternativeMeans ==
  ASSUME NEW v \in VersionForms, NEW s \in Seq(Comparators),
         NoVersion \notin VersionForms, AnyVersion \notin VersionForms, NoVersion # AnyVersion
  PROVE  /\ Alternative(v, s) \in {"holds", "fails", "invalid"}
         /\ Alternative(v, s) = "holds" => AllMean(v, s)
         /\ Alternative(v, s) = "fails" => ~AllMean(v, s)
         /\ Alternative(v, s) = "invalid" => \E j \in DOMAIN s : s[j][2] = NoVersion
<1>1. PICK n \in Nat : n = Len(s)
  OBVIOUS
<1>2. DOMAIN s = 1..n /\ \A i \in 1..n : s[i] \in Comparators
  BY <1>1
<1>3. PICK tries : tries = [i \in DOMAIN s |-> Tried(v, s[i])]
  OBVIOUS
<1>4. \A i \in 1..n : /\ tries[i] \in {"holds", "fails", "invalid"}
                      /\ tries[i] = "invalid" <=> s[i][2] = NoVersion
                      /\ tries[i] = "holds" <=> s[i][2] = AnyVersion \/ (s[i][2] # NoVersion /\ Means(v, s[i][1], s[i][2]))
  <2>1. SUFFICES ASSUME NEW i \in 1..n
                 PROVE  /\ tries[i] \in {"holds", "fails", "invalid"}
                        /\ tries[i] = "invalid" <=> s[i][2] = NoVersion
                        /\ tries[i] = "holds" <=> s[i][2] = AnyVersion \/ (s[i][2] # NoVersion /\ Means(v, s[i][1], s[i][2]))
    OBVIOUS
  <2>2. PICK c \in Comparators : c = s[i]
    BY <1>2
  <2>3. tries[i] = Tried(v, c)
    BY <1>2, <1>3, <2>2
  <2>4. QED
    BY <2>2, <2>3, TriedMeans
<1>5. Len(tries) = n
  <2>1. tries = [i \in 1..n |-> Tried(v, s[i])]
    BY <1>2, <1>3
  <2>2. tries \in [1..n -> {Tried(v, s[i]) : i \in 1..n}]
    BY <2>1
  <2>3. QED
    BY <2>2
<1>6. PICK what : what = {"fails", "invalid"}
  OBVIOUS
<1>7. PICK i : i = FirstOf(tries, what)
  OBVIOUS
<1>8. i \in 1..(n + 1) /\ (i <= n => tries[i] \in what) /\ \A j \in 1..(i - 1) : tries[j] \notin what
  BY <1>5, <1>7, FirstOfIs
<1>9. (i > n => Alternative(v, s) = "holds") /\ (~(i > n) => Alternative(v, s) = tries[i])
  <2>1. Alternative(v, s) = IF FirstOf(tries, {"fails", "invalid"}) > Len(tries) THEN "holds"
                            ELSE tries[FirstOf(tries, {"fails", "invalid"})]
    BY <1>3 DEF Alternative
  <2>2. Alternative(v, s) = IF i > n THEN "holds" ELSE tries[i]
    BY <1>5, <1>6, <1>7, <2>1
  <2>3. QED
    BY <2>2
<1>10. AllMean(v, s) <=> \A j \in 1..n : tries[j] = "holds"
  BY <1>2, <1>4, Zenon DEF AllMean
<1>11. CASE i > n
  <2>1. Alternative(v, s) = "holds"
    BY <1>9, <1>11
  <2>2. \A j \in 1..n : j \in 1..(i - 1)
    BY <1>8, <1>11
  <2>3. \A j \in 1..n : tries[j] = "holds"
    BY <1>4, <1>6, <1>8, <2>2
  <2>4. QED
    BY <1>10, <2>1, <2>3
<1>12. CASE ~(i > n)
  <2>1. i \in 1..n
    BY <1>8, <1>12
  <2>2. Alternative(v, s) = tries[i]
    BY <1>9, <1>12
  <2>3. tries[i] \in {"fails", "invalid"}
    BY <1>6, <1>8, <2>1
  <2>4. tries[i] # "holds"
    BY <2>3
  <2>5. ~AllMean(v, s)
    BY <1>10, <2>1, <2>4
  <2>6. tries[i] = "invalid" => \E j \in DOMAIN s : s[j][2] = NoVersion
    BY <1>2, <1>4, <2>1
  <2>7. QED
    BY <2>2, <2>3, <2>4, <2>5, <2>6
<1>13. QED
  BY <1>11, <1>12

\* A range holds if one of its alternatives does.
LEMMA SatisfiesMeans ==
  ASSUME NEW v \in VersionForms, NEW range \in Seq(Seq(Comparators)),
         NoVersion \notin VersionForms, AnyVersion \notin VersionForms, NoVersion # AnyVersion
  PROVE  /\ Satisfies(v, range) = "holds" => range = << >> \/ \E i \in DOMAIN range : AllMean(v, range[i])
         /\ Satisfies(v, range) = "fails" => \A i \in DOMAIN range : ~AllMean(v, range[i])
         /\ Satisfies(v, range) = "invalid" => \E i \in DOMAIN range : \E j \in DOMAIN range[i] : range[i][j][2] = NoVersion
<1>1. PICK n \in Nat : n = Len(range)
  OBVIOUS
<1>2. DOMAIN range = 1..n /\ \A i \in 1..n : range[i] \in Seq(Comparators)
  BY <1>1
<1>3. PICK tries : tries = [i \in DOMAIN range |-> Alternative(v, range[i])]
  OBVIOUS
<1>4. \A i \in 1..n : /\ tries[i] \in {"holds", "fails", "invalid"}
                      /\ tries[i] = "holds" => AllMean(v, range[i])
                      /\ tries[i] = "fails" => ~AllMean(v, range[i])
                      /\ tries[i] = "invalid" => \E j \in DOMAIN range[i] : range[i][j][2] = NoVersion
  <2>1. SUFFICES ASSUME NEW i \in 1..n
                 PROVE  /\ tries[i] \in {"holds", "fails", "invalid"}
                        /\ tries[i] = "holds" => AllMean(v, range[i])
                        /\ tries[i] = "fails" => ~AllMean(v, range[i])
                        /\ tries[i] = "invalid" => \E j \in DOMAIN range[i] : range[i][j][2] = NoVersion
    OBVIOUS
  <2>2. PICK s \in Seq(Comparators) : s = range[i]
    BY <1>2
  <2>3. tries[i] = Alternative(v, s)
    BY <1>2, <1>3, <2>2
  <2>4. QED
    BY <2>2, <2>3, AlternativeMeans
<1>5. Len(tries) = n
  <2>1. tries = [i \in 1..n |-> Alternative(v, range[i])]
    BY <1>2, <1>3
  <2>2. tries \in [1..n -> {Alternative(v, range[i]) : i \in 1..n}]
    BY <2>1
  <2>3. QED
    BY <2>2
<1>6. PICK what : what = {"holds", "invalid"}
  OBVIOUS
<1>7. PICK i : i = FirstOf(tries, what)
  OBVIOUS
<1>8. i \in 1..(n + 1) /\ (i <= n => tries[i] \in what) /\ \A j \in 1..(i - 1) : tries[j] \notin what
  BY <1>5, <1>7, FirstOfIs
<1>9. /\ range = << >> => Satisfies(v, range) = "holds"
      /\ range # << >> /\ i > n => Satisfies(v, range) = "fails"
      /\ range # << >> /\ ~(i > n) => Satisfies(v, range) = tries[i]
  <2>1. Satisfies(v, range) = IF range = << >> THEN "holds"
                              ELSE IF FirstOf(tries, {"holds", "invalid"}) > Len(tries) THEN "fails"
                              ELSE tries[FirstOf(tries, {"holds", "invalid"})]
    BY <1>3 DEF Satisfies
  <2>2. Satisfies(v, range) = IF range = << >> THEN "holds" ELSE IF i > n THEN "fails" ELSE tries[i]
    BY <1>5, <1>6, <1>7, <2>1
  <2>3. QED
    BY <2>2
<1>10. CASE range = << >>
  BY <1>9, <1>10
<1>11. CASE range # << >> /\ i > n
  <2>1. Satisfies(v, range) = "fails"
    BY <1>9, <1>11
  <2>2. \A j \in 1..n : j \in 1..(i - 1)
    BY <1>8, <1>11
  <2>3. \A j \in 1..n : tries[j] = "fails"
    BY <1>4, <1>6, <1>8, <2>2
  <2>4. QED
    BY <1>2, <1>4, <2>1, <2>3
<1>12. CASE range # << >> /\ ~(i > n)
  <2>1. i \in 1..n
    BY <1>8, <1>12
  <2>2. Satisfies(v, range) = tries[i]
    BY <1>9, <1>12
  <2>3. tries[i] \in {"holds", "invalid"}
    BY <1>6, <1>8, <2>1
  <2>4. QED
    BY <1>2, <1>4, <2>1, <2>2, <2>3
<1>13. QED
  BY <1>10, <1>11, <1>12

SemverMeant(r, reply) ==
  LET v == r.version
      w == r.other
      range == r.range
  IN /\ w # NoVersion =>
          /\ reply.value = -Compare(w, v)
          /\ (reply.value = 0) = (v = w)
          /\ \A u \in Versions : reply.value >= 0 /\ Compare(w, u) >= 0 => Compare(v, u) >= 0
     /\ reply.range = "holds" => range = << >> \/ \E i \in DOMAIN range : AllMean(v, range[i])
     /\ reply.range = "fails" => \A i \in DOMAIN range : ~AllMean(v, range[i])
     /\ reply.range = "invalid" => \E i \in DOMAIN range : \E j \in DOMAIN range[i] : range[i][j][2] = NoVersion

\* An answer about versions says what RangesExact says of it.
LEMMA SemverIsMeant ==
  ASSUME DevIsTyped, NEW r \in SemverRequests, SemverReply(r).valid
  PROVE  SemverMeant(r, SemverReply(r))
<1>1. PICK v, w, range, reply : v = r.version /\ w = r.other /\ range = r.range /\ reply = SemverReply(r)
  OBVIOUS
<1>2. v \in Versions \cup {NoVersion} /\ w \in Versions \cup {NoVersion} /\ range \in Ranges
  BY <1>1 DEF SemverRequests
<1>3. v # NoVersion
  BY <1>1 DEF SemverReply
<1>4. /\ w # NoVersion => reply.value = Compare(v, w)
      /\ reply.range = Satisfies(v, range)
  BY <1>1, <1>3 DEF SemverReply
<1>5. /\ Versions \subseteq VersionForms /\ range \in Seq(Seq(Comparators))
      /\ NoVersion \notin VersionForms /\ AnyVersion \notin VersionForms /\ NoVersion # AnyVersion
  BY <1>2, DevIsTyped, Zenon DEF DevIsTyped, Comparators
<1>6. v \in VersionForms
  BY <1>2, <1>3, <1>5
<1>7. ASSUME w # NoVersion
      PROVE  /\ reply.value = -Compare(w, v)
             /\ (reply.value = 0) = (v = w)
             /\ \A u \in Versions : reply.value >= 0 /\ Compare(w, u) >= 0 => Compare(v, u) >= 0
  <2>1. w \in VersionForms
    BY <1>2, <1>5, <1>7
  <2>2. reply.value = Compare(v, w)
    BY <1>4, <1>7
  <2>3. reply.value = -Compare(w, v)
    BY <1>6, <2>1, <2>2, AtLeast
  <2>4. (reply.value = 0) = (v = w)
    BY <1>6, <2>1, <2>2, CompareMeans
  <2>5. ASSUME NEW u \in Versions, reply.value >= 0, Compare(w, u) >= 0
        PROVE  Compare(v, u) >= 0
    <3>1. u \in VersionForms
      BY <1>5
    <3>2. QED
      BY <1>6, <2>1, <2>2, <2>5, <3>1, AtLeastTransitive
  <2>6. QED
    BY <2>3, <2>4, <2>5
<1>8. /\ Satisfies(v, range) = "holds" => range = << >> \/ \E i \in DOMAIN range : AllMean(v, range[i])
      /\ Satisfies(v, range) = "fails" => \A i \in DOMAIN range : ~AllMean(v, range[i])
      /\ Satisfies(v, range) = "invalid" => \E i \in DOMAIN range : \E j \in DOMAIN range[i] : range[i][j][2] = NoVersion
  BY <1>5, <1>6, SatisfiesMeans
<1>9. QED
  BY <1>1, <1>4, <1>7, <1>8, Zenon DEF SemverMeant

(***************************************************************************)
(* Changelogs.                                                             *)
(***************************************************************************)
EntriesOf(reply, i) ==
  {t \in Sections \cup {"breaking"} :
     LET s == IF t = "breaking" THEN reply.breaking ELSE reply.sections[t] IN \E n \in DOMAIN s : s[n] = i}

ChangelogMeant(commits, reply) ==
  /\ \A i \in DOMAIN commits : Cardinality(EntriesOf(reply, i)) = (IF commits[i].text THEN 1 ELSE 0)
  /\ reply.counts["feat"] + reply.counts["fix"] + reply.counts["other"] + reply.excluded = Len(commits)

\* Places in order are those places.
LEMMA ListedIn ==
  ASSUME NEW n \in Nat, NEW S \in SUBSET (1..n)
  PROVE  IsFiniteSet(S) /\ Cardinality(S) \in Nat /\ \A i : (\E k \in DOMAIN Ascending(S) : Ascending(S)[k] = i) <=> i \in S
<1>1. IsFiniteSet(1..n)
  BY FS_Interval
<1>2. IsFiniteSet(S) /\ S \in SUBSET Int
  <2>1. IsFiniteSet(S)
    BY <1>1, FS_Subset
  <2>2. \A i \in S : i \in Int
    OBVIOUS
  <2>3. QED
    BY <2>1, <2>2
<1>3. {Ascending(S)[k] : k \in DOMAIN Ascending(S)} = S /\ Cardinality(S) \in Nat
  BY <1>2, AscendingListed
<1>4. QED
  BY <1>2, <1>3

\* Every commit is in the changelog once, or counted as left out.
LEMMA ChangelogIsMeant ==
  ASSUME NEW commits \in Seq([type : Sections, text : BOOLEAN, breaking : BOOLEAN])
  PROVE  ChangelogMeant(commits, ChangelogReply(commits))
<1>1. PICK n \in Nat : n = Len(commits)
  OBVIOUS
<1>0. PICK Commits : Commits = [type : Sections, text : BOOLEAN, breaking : BOOLEAN]
  OBVIOUS
<1>2. DOMAIN commits = 1..n /\ \A i \in 1..n : commits[i] \in [type : Sections, text : BOOLEAN, breaking : BOOLEAN]
  <2>1. commits \in Seq(Commits)
    BY <1>0
  <2>2. DOMAIN commits = 1..n /\ \A i \in 1..n : commits[i] \in Commits
    BY <1>1, <2>1
  <2>3. QED
    BY <1>0, <2>2, Zenon
<1>3. \A i \in 1..n : commits[i].type \in Sections /\ commits[i].text \in BOOLEAN /\ commits[i].breaking \in BOOLEAN
  BY <1>2
<1>4. PICK reply : reply = ChangelogReply(commits)
  OBVIOUS
<1>5. PICK broken : broken = {i \in Described(commits) : commits[i].breaking}
  OBVIOUS
<1>6. PICK plain : plain = [t \in Sections |-> {i \in Typed(commits, t) : ~commits[i].breaking}]
  OBVIOUS
<1>7. \A t \in Sections : reply.sections[t] = Ascending(plain[t])
  BY <1>4, <1>6 DEF ChangelogReply, SectionOf
<1>8. reply.breaking = Ascending(broken)
  BY <1>4, <1>5 DEF ChangelogReply
<1>9. /\ \A i \in 1..n : i \in Described(commits) <=> commits[i].text
      /\ Described(commits) \subseteq 1..n
  BY <1>2 DEF Described
<1>10. \A t \in Sections : /\ Typed(commits, t) \subseteq Described(commits)
                           /\ \A i \in Described(commits) : i \in Typed(commits, t) <=> commits[i].type = t
  BY DEF Typed
<1>11. /\ broken \in SUBSET (1..n)
       /\ \A i \in 1..n : i \in broken <=> commits[i].text /\ commits[i].breaking
  BY <1>5, <1>9
<1>12. ASSUME NEW t \in Sections
       PROVE  /\ plain[t] \in SUBSET (1..n)
              /\ \A i \in 1..n : i \in plain[t] <=> commits[i].text /\ commits[i].type = t /\ ~commits[i].breaking
  <2>1. plain[t] = {i \in Typed(commits, t) : ~commits[i].breaking}
    BY <1>6
  <2>2. QED
    BY <1>9, <1>10, <2>1
<1>13. ASSUME NEW i \in 1..n
       PROVE  Cardinality(EntriesOf(reply, i)) = (IF commits[i].text THEN 1 ELSE 0)
  <2>1. PICK E : E = EntriesOf(reply, i)
    OBVIOUS
  <2>2. "breaking" \in E <=> i \in broken
    <3>1. \A x : (\E k \in DOMAIN Ascending(broken) : Ascending(broken)[k] = x) <=> x \in broken
      BY <1>11, ListedIn
    <3>2. "breaking" \in E <=> \E k \in DOMAIN reply.breaking : reply.breaking[k] = i
      BY <2>1 DEF EntriesOf
    <3>3. QED
      BY <1>8, <3>1, <3>2
  <2>3. ASSUME NEW t \in Sections
        PROVE  t \in E <=> i \in plain[t]
    <3>1. \A x : (\E k \in DOMAIN Ascending(plain[t]) : Ascending(plain[t])[k] = x) <=> x \in plain[t]
      BY <1>12, ListedIn
    <3>2. t # "breaking"
      BY DEF Sections
    <3>3. t \in E <=> \E k \in DOMAIN reply.sections[t] : reply.sections[t][k] = i
      BY <2>1, <3>2 DEF EntriesOf
    <3>4. QED
      BY <1>7, <3>1, <3>3
  <2>4. E \subseteq Sections \cup {"breaking"}
    BY <2>1 DEF EntriesOf
  <2>5. CASE ~commits[i].text
    <3>1. E = {}
      BY <1>11, <1>12, <2>2, <2>3, <2>4, <2>5
    <3>2. QED
      BY <2>1, <2>5, <3>1, FS_EmptySet
  <2>6. CASE commits[i].text /\ commits[i].breaking
    <3>1. E = {"breaking"}
      BY <1>11, <1>12, <2>2, <2>3, <2>4, <2>6
    <3>2. QED
      BY <2>1, <2>6, <3>1, FS_Singleton
  <2>7. CASE commits[i].text /\ ~commits[i].breaking
    <3>1. PICK type \in Sections : type = commits[i].type
      BY <1>3
    <3>2. E = {type}
      BY <1>11, <1>12, <2>2, <2>3, <2>4, <2>7, <3>1
    <3>3. QED
      BY <2>1, <2>7, <3>2, FS_Singleton
  <2>8. QED
    BY <1>3, <2>5, <2>6, <2>7
<1>14. reply.counts["feat"] + reply.counts["fix"] + reply.counts["other"] + reply.excluded = Len(commits)
  <2>1. PICK A, B, C, D : /\ A = Typed(commits, "feat") /\ B = Typed(commits, "fix")
                          /\ C = Typed(commits, "other") /\ D = Described(commits)
    OBVIOUS
  <2>2. /\ reply.counts["feat"] = Cardinality(A) /\ reply.counts["fix"] = Cardinality(B)
        /\ reply.counts["other"] = Cardinality(C) /\ reply.excluded = n - Cardinality(D)
    BY <1>1, <1>4, <2>1 DEF ChangelogReply, Sections
  <2>3. "feat" \in Sections /\ "fix" \in Sections /\ "other" \in Sections
    BY DEF Sections
  <2>4. /\ A \subseteq D /\ B \subseteq D /\ C \subseteq D /\ D \in SUBSET (1..n)
        /\ \A i \in D : /\ i \in A <=> commits[i].type = "feat"
                        /\ i \in B <=> commits[i].type = "fix"
                        /\ i \in C <=> commits[i].type = "other"
                        /\ commits[i].type = "feat" \/ commits[i].type = "fix" \/ commits[i].type = "other"
    <3>1. \A i \in D : commits[i].type = "feat" \/ commits[i].type = "fix" \/ commits[i].type = "other"
      BY <1>3, <1>9, <2>1 DEF Sections
    <3>2. QED
      BY <1>9, <1>10, <2>1, <2>3, <3>1
  <2>5. PICK AB : AB = A \cup B
    OBVIOUS
  <2>6. AB \cup C = D /\ AB \cap C = {} /\ A \cap B = {}
    BY <2>4, <2>5
  <2>7. /\ IsFiniteSet(A) /\ IsFiniteSet(B) /\ IsFiniteSet(C) /\ IsFiniteSet(D) /\ IsFiniteSet(AB)
        /\ Cardinality(A) \in Nat /\ Cardinality(B) \in Nat /\ Cardinality(C) \in Nat /\ Cardinality(D) \in Nat
        /\ Cardinality(AB) \in Nat
    <3>1. A \in SUBSET (1..n) /\ B \in SUBSET (1..n) /\ C \in SUBSET (1..n) /\ D \in SUBSET (1..n) /\ AB \in SUBSET (1..n)
      BY <2>4, <2>5, Zenon
    <3>2. QED
      BY <3>1, ListedIn
  <2>8. Cardinality(AB) = Cardinality(A) + Cardinality(B) - 0
    <3>1. Cardinality(A \cup B) = Cardinality(A) + Cardinality(B) - Cardinality(A \cap B)
      BY <2>7, FS_Union
    <3>2. QED
      BY <2>5, <2>6, <3>1, FS_EmptySet, Zenon
  <2>9. Cardinality(D) = Cardinality(AB) + Cardinality(C) - 0
    <3>1. Cardinality(AB \cup C) = Cardinality(AB) + Cardinality(C) - Cardinality(AB \cap C)
      BY <2>7, FS_Union
    <3>2. QED
      BY <2>6, <3>1, FS_EmptySet, Zenon
  <2>10. PICK a \in Nat, b \in Nat, c \in Nat, d \in Nat, ab \in Nat :
           a = Cardinality(A) /\ b = Cardinality(B) /\ c = Cardinality(C) /\ d = Cardinality(D) /\ ab = Cardinality(AB)
    BY <2>7, Zenon
  <2>11. a + b + c + (n - d) = n
    BY <2>8, <2>9, <2>10
  <2>12. QED
    BY <1>1, <2>2, <2>10, <2>11, Zenon
<1>15. QED
  BY <1>2, <1>4, <1>13, <1>14, Zenon DEF ChangelogMeant

DevInv ==
  /\ call[1] = "semver" => call[2] \in SemverRequests /\ (result # << >> => result[1] = SemverReply(call[2]))
  /\ call[1] = "changelog" => call[2] \in Changelogs /\ (result # << >> => result[1] = ChangelogReply(call[2]))

\* For all versions, ranges and commits, the order, the ranges and the changelog
\* are as DevExact says (dev_tools_service.py, semver, changelog).
THEOREM DevToolsExact ==
  ASSUME DevIsTyped
  PROVE  DevSpec => []DevExact
<1>1. DevCalled => DevInv
  BY DEF DevCalled, Called, DevInv
<1>2. DevInv /\ [DevAnswers]_callVars => DevInv'
  <2>1. SUFFICES ASSUME DevInv, [DevAnswers]_callVars PROVE DevInv'
    OBVIOUS
  <2>2. CASE UNCHANGED callVars
    BY <2>1, <2>2 DEF DevInv, callVars
  <2>3. CASE Answers("semver", SemverReply)
    BY <2>1, <2>3 DEF DevInv, Answers
  <2>4. CASE Answers("changelog", ChangelogReply)
    BY <2>1, <2>4 DEF DevInv, Answers
  <2>5. CASE Answers("sql", SqlReply)
    BY <2>1, <2>5 DEF DevInv, Answers
  <2>6. QED
    BY <2>1, <2>2, <2>3, <2>4, <2>5 DEF DevAnswers
<1>3. DevInv => DevExact
  <2>1. SUFFICES ASSUME DevInv PROVE DevExact
    OBVIOUS
  <2>2. RangesExact
    <3>1. SUFFICES ASSUME Answered("semver"), result[1].valid PROVE SemverMeant(call[2], result[1])
      BY Zenon DEF RangesExact, SemverMeant
    <3>2. call[2] \in SemverRequests /\ result[1] = SemverReply(call[2])
      BY <2>1, <3>1 DEF DevInv, Answered
    <3>3. QED
      BY <3>1, <3>2, SemverIsMeant, DevIsTyped
  <2>3. ChangelogComplete
    <3>1. SUFFICES ASSUME Answered("changelog") PROVE ChangelogMeant(call[2], result[1])
      BY Zenon DEF ChangelogComplete, ChangelogMeant, EntriesOf
    <3>2. call[2] \in Changelogs /\ result[1] = ChangelogReply(call[2])
      BY <2>1, <3>1 DEF DevInv, Answered
    <3>3. call[2] \in Seq([type : Sections, text : BOOLEAN, breaking : BOOLEAN])
      BY <3>2, DevIsTyped DEF DevIsTyped
    <3>4. QED
      BY <3>2, <3>3, ChangelogIsMeant
  <2>4. QED
    BY <2>2, <2>3 DEF DevExact
<1>4. QED
  BY <1>1, <1>2, <1>3, PTL DEF DevSpec

-----------------------------------------------------------------------------
(***************************************************************************)
(* Pictures (ImageTools).  Lengths are compared by multiplying them out,   *)
(* so what is said of a division or of a rounding is said of products.     *)
(***************************************************************************)
\* Products are ordered as their factors are.
LEMMA Multiplied ==
  ASSUME NEW x \in Int, NEW y \in Int, NEW n \in Nat, x <= y
  PROVE  x * n <= y * n /\ x * n \in Int /\ y * n \in Int
OBVIOUS

\* And factors as their products.
LEMMA Cancelled ==
  ASSUME NEW x \in Int, NEW y \in Int, NEW n \in Nat \ {0}, x * n <= y * n
  PROVE  x <= y
<1>1. SUFFICES ASSUME x >= y + 1 PROVE FALSE
  OBVIOUS
<1>2. (y + 1) * n <= x * n
  BY <1>1, Multiplied
<1>3. QED
  BY <1>2

\* A side that is cut to whole pixels is less than a pixel too short, or one
\* pixel; where a floating-point number may miss a whole one, a pixel.
LEMMA TruncatedBetween ==
  ASSUME NEW n \in Sides, NEW p \in Sides, NEW d \in Sides, NEW m \in Truncated(n, p, d)
  PROVE  /\ m \in Sides /\ (m = 1 \/ m * d <= n * p)
         /\ n * p <= (m + 1) * d
<1>1. PICK x \in Nat : x = n * p
  BY DEF Sides
<1>2. d \in Nat /\ d > 0
  BY DEF Sides
<1>3. PICK k \in Nat, e \in Nat : k = x \div d /\ e = x % d
  BY <1>2, Division
<1>4. e < d /\ x = d * k + e
  BY <1>2, <1>3, Division
<1>5. PICK l \in Int : m = Greater(1, l) /\ (l = k \/ (e = 0 /\ l = k - 1))
  <2>1. PICK l : /\ m = Greater(1, l)
                 /\ l \in {(n * p) \div d} \cup (IF (n * p) % d = 0 THEN {(n * p) \div d - 1} ELSE {})
    BY DEF Truncated
  <2>2. l = k \/ (e = 0 /\ l = k - 1)
    BY <1>1, <1>3, <2>1
  <2>3. QED
    BY <2>1, <2>2
<1>6. m = (IF 1 >= l THEN 1 ELSE l) /\ m \in Sides
  BY <1>5 DEF Greater, Sides
<1>7. d * k <= x /\ x <= d * (k + 1) /\ (e = 0 => x = d * k)
  BY <1>2, <1>4
<1>8. m = 1 \/ m * d <= x
  <2>1. SUFFICES ASSUME m # 1 PROVE m * d <= x
    OBVIOUS
  <2>2. m = l /\ l <= k
    BY <1>5, <1>6, <2>1
  <2>3. m * d <= k * d
    BY <1>2, <1>6, <2>2, Multiplied DEF Sides
  <2>4. QED
    BY <1>2, <1>6, <1>7, <2>3 DEF Sides
<1>9. x <= (m + 1) * d
  <2>1. CASE l = k
    <3>1. (k + 1) * d <= (m + 1) * d
      BY <1>2, <1>6, <2>1, Multiplied DEF Sides
    <3>2. QED
      BY <1>2, <1>6, <1>7, <3>1 DEF Sides
  <2>2. CASE e = 0 /\ l = k - 1
    <3>1. k * d <= (m + 1) * d
      BY <1>2, <1>6, <2>2, Multiplied DEF Sides
    <3>2. QED
      BY <1>2, <1>6, <1>7, <2>2, <3>1 DEF Sides
  <2>3. QED
    BY <1>5, <2>1, <2>2
<1>10. QED
  BY <1>1, <1>6, <1>8, <1>9

\* A side that becomes a given length has it up to a pixel.
LEMMA TruncatedWhole ==
  ASSUME NEW n \in Sides, NEW p \in Sides, NEW m \in Truncated(n, p, n)
  PROVE  m \in Sides /\ m <= p /\ p <= m + 1
<1>1. n \in Nat \ {0} /\ p \in Nat /\ p >= 1
  BY DEF Sides
<1>2. m \in Nat /\ m >= 1 /\ m \in Sides /\ (m = 1 \/ m * n <= n * p) /\ n * p <= (m + 1) * n
  BY TruncatedBetween DEF Sides
<1>3. n * p = p * n
  BY <1>1
<1>4. p <= m + 1
  BY <1>1, <1>2, <1>3, Cancelled
<1>5. m * n <= p * n => m <= p
  BY <1>1, <1>2, Cancelled
<1>6. QED
  BY <1>1, <1>2, <1>3, <1>4, <1>5

\* A picture of width w and height h is scaled to width a: where b is the
\* height that it should have, it is as high up to a pixel.
LEMMA Scaled ==
  ASSUME NEW w \in Sides, NEW h \in Sides, NEW a \in Sides, NEW b \in Sides,
         NEW x \in Truncated(w, a, w), NEW y \in Truncated(h, a, w)
  PROVE  /\ x \in Sides /\ y \in Sides /\ x <= a /\ a <= x + 1
         /\ a * h <= b * w => y <= b
         /\ b * w <= a * h => b <= y + 1
         /\ x > 1 /\ y > 1 => x * h <= (y + 1) * w /\ y * w <= (x + 1) * h
<1>1. /\ w \in Nat \ {0} /\ h \in Nat \ {0} /\ a \in Nat /\ b \in Nat /\ a >= 1 /\ b >= 1
  BY DEF Sides
<1>2. x \in Sides /\ x \in Nat /\ x >= 1 /\ x <= a /\ a <= x + 1
  BY TruncatedWhole DEF Sides
<1>3. y \in Sides /\ y \in Nat /\ y >= 1 /\ (y = 1 \/ y * w <= h * a) /\ h * a <= (y + 1) * w
  BY TruncatedBetween DEF Sides
<1>4. h * a = a * h /\ a * h \in Nat /\ y * w \in Nat /\ (y + 1) * w \in Nat /\ b * w \in Nat
  BY <1>1, <1>3
<1>5. a * h <= b * w => y <= b
  <2>1. SUFFICES ASSUME a * h <= b * w, y # 1 PROVE y <= b
    BY <1>1, <1>3
  <2>2. y * w <= b * w
    BY <1>3, <1>4, <2>1
  <2>3. QED
    BY <1>1, <1>3, <2>2, Cancelled
<1>6. b * w <= a * h => b <= y + 1
  <2>1. SUFFICES ASSUME b * w <= a * h PROVE b <= y + 1
    OBVIOUS
  <2>2. b * w <= (y + 1) * w
    BY <1>3, <1>4, <2>1
  <2>3. QED
    BY <1>1, <1>3, <2>2, Cancelled
<1>7. x * h <= a * h /\ a * h <= (x + 1) * h
  BY <1>1, <1>2, Multiplied
<1>8. x * h <= (y + 1) * w
  BY <1>1, <1>2, <1>3, <1>4, <1>7
<1>9. y > 1 => y * w <= (x + 1) * h
  BY <1>1, <1>2, <1>3, <1>4, <1>7
<1>10. QED
  BY <1>2, <1>3, <1>5, <1>6, <1>8, <1>9

\* What is said of a picture w by h that becomes x by y to fit a by b, or to
\* fill it.
ScaledRight(w, h, a, b, fit, x, y) ==
  /\ x \in Sides /\ y \in Sides
  /\ fit => x <= a /\ y <= b
  /\ ~fit => a <= x + 1 /\ b <= y + 1
  /\ (x <= a /\ a <= x + 1) \/ (y <= b /\ b <= y + 1)
  /\ x > 1 /\ y > 1 => x * h <= (y + 1) * w /\ y * w <= (x + 1) * h

\* The smaller ratio makes a picture fit, the larger one makes it fill.
LEMMA RatioScales ==
  ASSUME NEW p, p.w \in Sides, p.h \in Sides, NEW inner, inner[1] \in Sides, inner[2] \in Sides, NEW mode,
         NEW ratio, ratio = Ratio(p, inner, mode),
         NEW x \in Truncated(p.w, ratio[1], ratio[2]), NEW y \in Truncated(p.h, ratio[1], ratio[2])
  PROVE  ScaledRight(p.w, p.h, inner[1], inner[2], mode = "fit", x, y)
<1>1. PICK w \in Sides, h \in Sides, a \in Sides, b \in Sides : w = p.w /\ h = p.h /\ a = inner[1] /\ b = inner[2]
  OBVIOUS
<1>2. a * h \in Nat /\ b * w \in Nat /\ a \in Nat /\ b \in Nat
  BY DEF Sides
<1>3. PICK fit \in BOOLEAN : fit = (mode = "fit")
  OBVIOUS
<1>4. CASE (a * h <= b * w) = fit
  <2>1. ratio = <<a, w>>
    BY <1>1, <1>3, <1>4 DEF Ratio
  <2>2. x \in Truncated(w, a, w) /\ y \in Truncated(h, a, w)
    BY <1>1, <2>1
  <2>3. /\ x \in Sides /\ y \in Sides /\ x <= a /\ a <= x + 1
        /\ a * h <= b * w => y <= b
        /\ b * w <= a * h => b <= y + 1
        /\ x > 1 /\ y > 1 => x * h <= (y + 1) * w /\ y * w <= (x + 1) * h
    BY <2>2, Scaled
  <2>4. (fit => y <= b) /\ (~fit => b <= y + 1)
    BY <1>2, <1>4, <2>3
  <2>5. ScaledRight(w, h, a, b, fit, x, y)
    BY <2>3, <2>4 DEF ScaledRight
  <2>6. QED
    BY <1>1, <1>3, <2>5
<1>5. CASE (a * h <= b * w) # fit
  <2>1. ratio = <<b, h>>
    BY <1>1, <1>3, <1>5 DEF Ratio
  <2>2. x \in Truncated(w, b, h) /\ y \in Truncated(h, b, h)
    BY <1>1, <2>1
  <2>3. /\ y \in Sides /\ x \in Sides /\ y <= b /\ b <= y + 1
        /\ b * w <= a * h => x <= a
        /\ a * h <= b * w => a <= x + 1
        /\ y > 1 /\ x > 1 => y * w <= (x + 1) * h /\ x * h <= (y + 1) * w
    BY <2>2, Scaled
  <2>4. (fit => x <= a) /\ (~fit => a <= x + 1)
    BY <1>2, <1>5, <2>3
  <2>5. ScaledRight(w, h, a, b, fit, x, y)
    BY <2>3, <2>4 DEF ScaledRight
  <2>6. QED
    BY <1>1, <1>3, <2>5
<1>6. QED
  BY <1>4, <1>5

\* Setting upright keeps a picture one.
LEMMA UprightPicture ==
  ASSUME NEW p \in Picturing
  PROVE  /\ Upright(p) \in Picturing /\ Upright(p).w \in Sides /\ Upright(p).h \in Sides
         /\ ~p.turned => Upright(p).w = p.w /\ Upright(p).h = p.h
BY DEF Upright, Picturing

\* A picture that is given a width has it.
LEMMA WidenedPicture ==
  ASSUME NEW p \in Picturing, NEW width \in Nat, NEW q \in Widened(p, width)
  PROVE  q \in Picturing /\ (width # 0 => q.w = width) /\ q.turned = p.turned
<1>1. CASE width = 0
  BY <1>1 DEF Widened
<1>2. CASE width # 0
  <2>1. PICK m \in Truncated(p.h, width, p.w) : q = [p EXCEPT !.w = width, !.h = m]
    BY <1>2 DEF Widened
  <2>2. width \in Sides /\ p.h \in Sides /\ p.w \in Sides
    BY <1>2 DEF Sides, Picturing
  <2>3. m \in Sides
    BY <2>2, TruncatedBetween
  <2>4. QED
    BY <2>1, <2>2, <2>3 DEF Picturing
<1>3. QED
  BY <1>1, <1>2

\* What is left of a canvas r.box for a picture q within its margins.
Roomy(q, sides, rotate, box, margin) ==
  /\ {box[1], box[2]} = {sides[1], sides[2]} /\ box[1] \in Sides /\ box[2] \in Sides
  /\ rotate => (q.w > q.h) = (box[1] > box[2]) \/ box[1] = box[2]
  /\ margin \in Nat /\ box[1] - 2 * margin \in Sides /\ box[2] - 2 * margin \in Sides

\* The canvas, turned or not, leaves room within its margins.
LEMMA CanvasRoom ==
  ASSUME NEW q, q.w \in Sides, q.h \in Sides, NEW sides \in Sides \X Sides, NEW rotate \in BOOLEAN,
         NEW box, box = Box(q, sides, rotate), NEW wished \in Nat,
         NEW margin, margin = Lesser(wished, (Lesser(box[1], box[2]) - 1) \div 2)
  PROVE  Roomy(q, sides, rotate, box, margin)
<1>1. PICK a \in Sides, b \in Sides : sides = <<a, b>>
  OBVIOUS
<1>2. sides[1] = a /\ sides[2] = b /\ a \in Nat /\ b \in Nat /\ a >= 1 /\ b >= 1 /\ q.w \in Nat /\ q.h \in Nat
  BY <1>1 DEF Sides
<1>3. PICK c, d : c = box[1] /\ d = box[2]
  OBVIOUS
<1>4. /\ (c = a /\ d = b) \/ (c = b /\ d = a)
      /\ rotate => (q.w > q.h) = (c > d) \/ c = d
  BY <1>1, <1>2, <1>3 DEF Box
<1>5. PICK l \in Nat : l = Lesser(c, d) /\ l >= 1 /\ l <= c /\ l <= d
  BY <1>2, <1>4 DEF Lesser
<1>6. PICK n \in Nat : n = (l - 1) \div 2 /\ 2 * n <= l - 1
  BY <1>5
<1>7. margin \in Nat /\ margin <= n
  BY <1>3, <1>5, <1>6 DEF Lesser
<1>8. c - 2 * margin \in Sides /\ d - 2 * margin \in Sides
  BY <1>2, <1>4, <1>5, <1>6, <1>7 DEF Sides
<1>9. QED
  BY <1>2, <1>3, <1>4, <1>7, <1>8 DEF Roomy

\* What fits is in the middle; what fills loses alike at both ends.
LEMMA Middle ==
  ASSUME NEW margin \in Nat, NEW n \in Sides, NEW s \in Sides
  PROVE  /\ s <= n => /\ margin + ((n - s) \div 2) \in Nat
                      /\ (2 * margin + n) - (margin + ((n - s) \div 2)) - s - (margin + ((n - s) \div 2)) \in {0, 1}
         /\ n <= s + 1 => \E f \in Nat, c \in Sides :
              /\ f = Greater(0, (s - n) \div 2) /\ c = Lesser(n, s - f)
              /\ n <= c + 1 /\ n - c \in {0, 1} /\ (s - f - c) - f \in {0, 1}
<1>1. n \in Nat /\ s \in Nat /\ n >= 1 /\ s >= 1
  BY DEF Sides
<1>2. ASSUME s <= n
      PROVE  /\ margin + ((n - s) \div 2) \in Nat
             /\ (2 * margin + n) - (margin + ((n - s) \div 2)) - s - (margin + ((n - s) \div 2)) \in {0, 1}
  <2>1. PICK k \in Nat : k = (n - s) \div 2 /\ (n - s = 2 * k \/ n - s = 2 * k + 1)
    BY <1>1, <1>2
  <2>2. QED
    BY <1>1, <2>1
<1>3. ASSUME n <= s + 1
      PROVE  \E f \in Nat, c \in Sides :
               /\ f = Greater(0, (s - n) \div 2) /\ c = Lesser(n, s - f)
               /\ n <= c + 1 /\ n - c \in {0, 1} /\ (s - f - c) - f \in {0, 1}
  <2>1. PICK k \in Int : k = (s - n) \div 2 /\ (s - n = 2 * k \/ s - n = 2 * k + 1)
    BY <1>1
  <2>2. PICK f \in Nat : f = Greater(0, k) /\ (k >= 0 => f = k) /\ (k < 0 => f = 0)
    BY DEF Greater
  <2>3. PICK c \in Int : c = Lesser(n, s - f) /\ (n <= s - f => c = n) /\ (s - f < n => c = s - f)
    BY <1>1 DEF Lesser
  <2>4. n <= c + 1 /\ n - c \in {0, 1} /\ (s - f - c) - f \in {0, 1} /\ c >= 1
    BY <1>1, <1>3, <2>1, <2>2, <2>3
  <2>5. c \in Sides
    BY <2>4 DEF Sides
  <2>6. QED
    BY <2>1, <2>2, <2>3, <2>4, <2>5
<1>4. QED
  BY <1>2, <1>3

\* What CanvasExact says of a picture r.picture that became scaled and is on
\* the canvas c.
CanvasMeant(r, scaled, c) ==
  LET q == Upright(scaled)
      fit == r.mode = "fit"
  IN /\ {c.box[1], c.box[2]} = {r.box[1], r.box[2]}
     /\ r.rotate => (q.w > q.h) = (c.box[1] > c.box[2]) \/ c.box[1] = c.box[2]
     /\ \A i \in 1..2 :
          LET before == c.at[i]
              after == c.box[i] - c.at[i] - c.shown[i]
          IN /\ before >= 0 /\ c.shown[i] >= 1 /\ after - before \in {0, 1}
             /\ ~fit => c.shown[i] >= c.inner[i] - 1 /\ (c.size[i] - c.from[i] - c.shown[i]) - c.from[i] \in {0, 1}
     /\ \E i \in 1..2 : c.size[i] \in {c.inner[i], c.inner[i] - 1} \/ c.size[i] = 1
     /\ c.size[1] > 1 /\ c.size[2] > 1 =>
          c.size[1] * q.h <= (c.size[2] + 1) * q.w /\ c.size[2] * q.w <= (c.size[1] + 1) * q.h

\* A picture is put on its canvas as CanvasExact says.
LEMMA CanvasIsMeant ==
  ASSUME NEW scaled \in Picturing, NEW r, r.box \in Sides \X Sides, r.rotate \in BOOLEAN, r.margin \in Nat,
         NEW c \in OnCanvas(scaled, r)
  PROVE  CanvasMeant(r, scaled, c)
<1>1. PICK q : q = Upright(scaled) /\ q.w \in Sides /\ q.h \in Sides
  BY UprightPicture
<1>2. PICK box, margin : box = Box(q, r.box, r.rotate) /\ margin = Lesser(r.margin, (Lesser(box[1], box[2]) - 1) \div 2)
  OBVIOUS
<1>3. /\ {box[1], box[2]} = {r.box[1], r.box[2]} /\ box[1] \in Sides /\ box[2] \in Sides
      /\ r.rotate => (q.w > q.h) = (box[1] > box[2]) \/ box[1] = box[2]
      /\ margin \in Nat /\ box[1] - 2 * margin \in Sides /\ box[2] - 2 * margin \in Sides
  <2>1. Roomy(q, r.box, r.rotate, box, margin)
    BY <1>1, <1>2, CanvasRoom
  <2>2. QED
    BY <2>1 DEF Roomy
<1>4. PICK a, b, inner : a \in Sides /\ b \in Sides /\ a = box[1] - 2 * margin /\ b = box[2] - 2 * margin /\ inner = <<a, b>>
  BY <1>3
<1>5. PICK ratio : ratio = Ratio(q, inner, r.mode)
  OBVIOUS
<1>6. PICK x, y, size :
        /\ x \in Truncated(q.w, ratio[1], ratio[2]) /\ y \in Truncated(q.h, ratio[1], ratio[2]) /\ size = <<x, y>>
        /\ c = IF r.mode = "fit" THEN Fitted(box, inner, margin, size) ELSE Filled(box, inner, margin, size)
  <2>1. inner = <<box[1] - 2 * margin, box[2] - 2 * margin>>
    BY <1>4
  <2>2. c \in Canvases(q, box, margin, r.mode)
    BY <1>1, <1>2, Zenon DEF OnCanvas
  <2>3. PICK size \in Truncated(q.w, ratio[1], ratio[2]) \X Truncated(q.h, ratio[1], ratio[2]) :
          c = IF r.mode = "fit" THEN Fitted(box, inner, margin, size) ELSE Filled(box, inner, margin, size)
    BY <1>5, <2>1, <2>2, Zenon DEF Canvases
  <2>4. PICK x \in Truncated(q.w, ratio[1], ratio[2]), y \in Truncated(q.h, ratio[1], ratio[2]) : size = <<x, y>>
    BY <2>3
  <2>5. QED
    BY <2>3, <2>4, Zenon
<1>7. PICK fit \in BOOLEAN : fit = (r.mode = "fit")
  OBVIOUS
<1>8. ScaledRight(q.w, q.h, a, b, fit, x, y)
  <2>1. inner[1] = a /\ inner[2] = b
    BY <1>4
  <2>2. ScaledRight(q.w, q.h, inner[1], inner[2], r.mode = "fit", x, y)
    BY <1>1, <1>4, <1>5, <1>6, <2>1, RatioScales
  <2>3. QED
    BY <1>7, <2>1, <2>2
<1>9. /\ x \in Sides /\ y \in Sides /\ a \in Sides /\ b \in Sides /\ a \in Nat /\ b \in Nat /\ x \in Nat /\ y \in Nat /\ x >= 1 /\ y >= 1
  BY <1>4, <1>8 DEF ScaledRight, Sides
<1>10. /\ box[1] = 2 * margin + a /\ box[2] = 2 * margin + b /\ margin \in Nat
       /\ inner[1] = a /\ inner[2] = b /\ size[1] = x /\ size[2] = y
  BY <1>3, <1>4, <1>6, <1>9 DEF Sides
<1>11. c.box = box /\ c.inner = inner /\ c.size = size
  BY <1>6 DEF Fitted, Filled
<1>12. \A i \in 1..2 :
         LET before == c.at[i]
             after == c.box[i] - c.at[i] - c.shown[i]
         IN /\ before >= 0 /\ c.shown[i] >= 1 /\ after - before \in {0, 1}
            /\ ~fit => c.shown[i] >= c.inner[i] - 1 /\ (c.size[i] - c.from[i] - c.shown[i]) - c.from[i] \in {0, 1}
  <2>1. CASE fit
    <3>1. c.shown = size /\ c.at = [i \in 1..2 |-> margin + ((inner[i] - size[i]) \div 2)]
      BY <1>6, <1>7, <2>1 DEF Fitted
    <3>2. c.at[1] = margin + ((a - x) \div 2) /\ c.at[2] = margin + ((b - y) \div 2)
      BY <1>10, <3>1
    <3>3. /\ c.at[1] \in Nat /\ box[1] - c.at[1] - x - c.at[1] \in {0, 1}
          /\ c.at[2] \in Nat /\ box[2] - c.at[2] - y - c.at[2] \in {0, 1}
      <4>1. x <= a /\ y <= b
        BY <1>8, <2>1 DEF ScaledRight
      <4>2. QED
        BY <1>9, <1>10, <3>2, <4>1, Middle
    <3>4. QED
      BY <1>9, <1>10, <1>11, <2>1, <3>1, <3>3
  <2>2. CASE ~fit
    <3>1. PICK from : from = [i \in 1..2 |-> Greater(0, (size[i] - inner[i]) \div 2)]
      OBVIOUS
    <3>2. /\ c.from = from /\ c.at = <<margin, margin>>
          /\ c.shown = [i \in 1..2 |-> Lesser(inner[i], size[i] - from[i])]
      BY <1>6, <1>7, <2>2, <3>1 DEF Filled
    <3>3. a <= x + 1 /\ b <= y + 1
      BY <1>8, <2>2 DEF ScaledRight
    <3>4. PICK f \in Nat, s \in Sides :
            /\ f = Greater(0, (x - a) \div 2) /\ s = Lesser(a, x - f)
            /\ a <= s + 1 /\ a - s \in {0, 1} /\ (x - f - s) - f \in {0, 1}
      BY <1>9, <1>10, <3>3, Middle
    <3>5. PICK g \in Nat, t \in Sides :
            /\ g = Greater(0, (y - b) \div 2) /\ t = Lesser(b, y - g)
            /\ b <= t + 1 /\ b - t \in {0, 1} /\ (y - g - t) - g \in {0, 1}
      BY <1>9, <1>10, <3>3, Middle
    <3>6. from[1] = f /\ from[2] = g
      BY <1>10, <3>1, <3>4, <3>5
    <3>7. c.shown[1] = s /\ c.shown[2] = t /\ c.at[1] = margin /\ c.at[2] = margin
      BY <1>10, <3>2, <3>4, <3>5, <3>6
    <3>8. s \in Nat /\ t \in Nat /\ s >= 1 /\ t >= 1
      BY DEF Sides
    <3>9. /\ box[1] - margin - s - margin = a - s /\ box[2] - margin - t - margin = b - t
          /\ s >= a - 1 /\ t >= b - 1 /\ a - s \in {0, 1} /\ b - t \in {0, 1}
      BY <1>9, <1>10, <3>4, <3>5, <3>8
    <3>10. /\ c.at[1] >= 0 /\ c.shown[1] >= 1 /\ c.box[1] - c.at[1] - c.shown[1] - c.at[1] \in {0, 1}
           /\ c.shown[1] >= c.inner[1] - 1 /\ (c.size[1] - c.from[1] - c.shown[1]) - c.from[1] \in {0, 1}
      BY <1>10, <1>11, <3>2, <3>4, <3>6, <3>7, <3>8, <3>9
    <3>11. /\ c.at[2] >= 0 /\ c.shown[2] >= 1 /\ c.box[2] - c.at[2] - c.shown[2] - c.at[2] \in {0, 1}
           /\ c.shown[2] >= c.inner[2] - 1 /\ (c.size[2] - c.from[2] - c.shown[2]) - c.from[2] \in {0, 1}
      BY <1>10, <1>11, <3>2, <3>5, <3>6, <3>7, <3>8, <3>9
    <3>12. \A i \in 1..2 : i = 1 \/ i = 2
      OBVIOUS
    <3>13. QED
      BY <3>10, <3>11, <3>12
  <2>3. QED
    BY <2>1, <2>2
<1>13. \E i \in 1..2 : c.size[i] \in {c.inner[i], c.inner[i] - 1} \/ c.size[i] = 1
  <2>1. x \in {a, a - 1} \/ y \in {b, b - 1}
    BY <1>8, <1>9 DEF ScaledRight
  <2>2. QED
    BY <1>10, <1>11, <2>1
<1>14. c.size[1] > 1 /\ c.size[2] > 1 =>
         c.size[1] * q.h <= (c.size[2] + 1) * q.w /\ c.size[2] * q.w <= (c.size[1] + 1) * q.h
  BY <1>8, <1>10, <1>11 DEF ScaledRight
<1>15. QED
  BY <1>1, <1>3, <1>7, <1>11, <1>12, <1>13, <1>14, Zenon DEF CanvasMeant

-----------------------------------------------------------------------------
\* The number of qualities that n probes tell apart doubles with every probe.
Reaches(f, n) == f = [k \in 0..n |-> IF k = 0 THEN 0 ELSE 2 * f[k - 1] + 1]

\* It can be doubled once more.
LEMMA ReachesNext ==
  ASSUME NEW n \in Nat, NEW f, Reaches(f, n)
  PROVE  \E g : Reaches(g, n + 1)
<1>1. PICK g : g = [k \in 0..n + 1 |-> IF k = 0 THEN 0 ELSE 2 * f[k - 1] + 1]
  OBVIOUS
<1>2. \A k \in 0..n : f[k] = IF k = 0 THEN 0 ELSE 2 * f[k - 1] + 1
  BY Zenon DEF Reaches
<1>3. \A k \in 0..n : k \in 0..n + 1
  OBVIOUS
<1>4. \A k \in 0..n : g[k] = f[k]
  BY <1>1, <1>2, <1>3, Zenon
<1>5. \A k \in 0..n + 1 : k # 0 => k - 1 \in 0..n
  OBVIOUS
<1>6. g = [k \in 0..n + 1 |-> IF k = 0 THEN 0 ELSE 2 * g[k - 1] + 1]
  BY <1>1, <1>4, <1>5, Zenon
<1>7. QED
  BY <1>6, Zenon DEF Reaches

\* It can be doubled any number of times.
LEMMA ReachesExists ==
  \A n \in Nat : \E f : Reaches(f, n)
<1> DEFINE S == {n \in Nat : \E f : Reaches(f, n)}
<1>1. 0 \in S
  <2>1. PICK f : f = [k \in 0..0 |-> 0]
    OBVIOUS
  <2>2. f = [k \in 0..0 |-> IF k = 0 THEN 0 ELSE 2 * f[k - 1] + 1]
    <3>1. \A k \in 0..0 : k = 0
      OBVIOUS
    <3>2. QED
      BY <2>1, <3>1, Zenon
  <2>3. QED
    BY <2>2, Zenon DEF Reaches
<1>2. \A n \in S : n + 1 \in S
  BY ReachesNext
<1>3. S = Nat
  <2> HIDE DEF S
  <2>1. S \in SUBSET Nat
    BY DEF S
  <2>2. QED
    BY <1>1, <1>2, <2>1, SetInduction
<1>4. QED
  BY <1>3

\* Probe by probe.
LEMMA ReachStepwise ==
  ASSUME MaxProbes \in Nat
  PROVE  Reach[0] = 0 /\ \A k \in 1..MaxProbes : Reach[k] = 2 * Reach[k - 1] + 1
<1>1. PICK f : Reaches(f, MaxProbes)
  BY ReachesExists
<1>2. f = [k \in 0..MaxProbes |-> IF k = 0 THEN 0 ELSE 2 * f[k - 1] + 1]
  BY <1>1, Zenon DEF Reaches
<1>3. Reach = CHOOSE g : g = [k \in 0..MaxProbes |-> IF k = 0 THEN 0 ELSE 2 * g[k - 1] + 1]
  BY Zenon DEF Reach
<1>4. Reach = [k \in 0..MaxProbes |-> IF k = 0 THEN 0 ELSE 2 * Reach[k - 1] + 1]
  BY <1>2, <1>3, Zenon
<1>5. \A k \in 0..MaxProbes : Reach[k] = IF k = 0 THEN 0 ELSE 2 * Reach[k - 1] + 1
  BY <1>4, Zenon
<1>6. 0 \in 0..MaxProbes /\ \A k \in 1..MaxProbes : k \in 0..MaxProbes /\ k # 0
  OBVIOUS
<1>7. QED
  BY <1>5, <1>6, Zenon

\* The states of a search, probe by probe.
Started == [low |-> LowQuality, high |-> HighQuality, best |-> LowQuality, over |-> FALSE]

Searches(f, t, n) == f = [k \in 0..n |-> IF k = 0 THEN Started ELSE Probe(t, f[k - 1])]

\* There is one more.
LEMMA SearchesNext ==
  ASSUME NEW t, NEW n \in Nat, NEW f, Searches(f, t, n)
  PROVE  \E g : Searches(g, t, n + 1)
<1>1. PICK g : g = [k \in 0..n + 1 |-> IF k = 0 THEN Started ELSE Probe(t, f[k - 1])]
  OBVIOUS
<1>2. \A k \in 0..n : f[k] = IF k = 0 THEN Started ELSE Probe(t, f[k - 1])
  BY Zenon DEF Searches
<1>3. \A k \in 0..n : k \in 0..n + 1
  OBVIOUS
<1>4. \A k \in 0..n : g[k] = f[k]
  BY <1>1, <1>2, <1>3, Zenon
<1>5. \A k \in 0..n + 1 : k # 0 => k - 1 \in 0..n
  OBVIOUS
<1>6. g = [k \in 0..n + 1 |-> IF k = 0 THEN Started ELSE Probe(t, g[k - 1])]
  BY <1>1, <1>4, <1>5, Zenon
<1>7. QED
  BY <1>6, Zenon DEF Searches

\* There are as many as are wanted.
LEMMA SearchesExists ==
  ASSUME NEW t
  PROVE  \A n \in Nat : \E f : Searches(f, t, n)
<1> DEFINE S == {n \in Nat : \E f : Searches(f, t, n)}
<1>1. 0 \in S
  <2>1. PICK f : f = [k \in 0..0 |-> Started]
    OBVIOUS
  <2>2. f = [k \in 0..0 |-> IF k = 0 THEN Started ELSE Probe(t, f[k - 1])]
    <3>1. \A k \in 0..0 : k = 0
      OBVIOUS
    <3>2. QED
      BY <2>1, <3>1, Zenon
  <2>3. QED
    BY <2>2, Zenon DEF Searches
<1>2. \A n \in S : n + 1 \in S
  BY SearchesNext
<1>3. S = Nat
  <2> HIDE DEF S
  <2>1. S \in SUBSET Nat
    BY DEF S
  <2>2. QED
    BY <1>1, <1>2, <2>1, SetInduction
<1>4. QED
  BY <1>3

\* A search starts with all qualities and goes on probe by probe.
LEMMA SearchStepwise ==
  ASSUME MaxProbes \in Nat, NEW t
  PROVE  \E f : /\ f[0] = Started /\ \A k \in 1..MaxProbes : f[k] = Probe(t, f[k - 1])
                /\ Searched(t) = f[MaxProbes]
<1>1. PICK g : Searches(g, t, MaxProbes)
  BY SearchesExists
<1>2. g = [k \in 0..MaxProbes |-> IF k = 0 THEN Started ELSE Probe(t, g[k - 1])]
  BY <1>1, Zenon DEF Searches
<1>3. PICK f : f = CHOOSE h : h = [k \in 0..MaxProbes |-> IF k = 0 THEN Started ELSE Probe(t, h[k - 1])]
  OBVIOUS
<1>4. f = [k \in 0..MaxProbes |-> IF k = 0 THEN Started ELSE Probe(t, f[k - 1])]
  BY <1>2, <1>3, Zenon
<1>5. Searched(t) = f[MaxProbes]
  BY <1>3, Zenon DEF Searched, Started
<1>6. \A k \in 0..MaxProbes : f[k] = IF k = 0 THEN Started ELSE Probe(t, f[k - 1])
  BY <1>4, Zenon
<1>7. 0 \in 0..MaxProbes /\ \A k \in 1..MaxProbes : k \in 0..MaxProbes /\ k # 0
  OBVIOUS
<1>8. QED
  BY <1>5, <1>6, <1>7, Zenon

\* An encoder that is asked within its limits.
Encoder(t) ==
  /\ LowQuality \in Nat /\ HighQuality \in Nat /\ LowQuality <= HighQuality
  /\ MaxOutput \in Nat /\ t.sizes \in [LowQuality..HighQuality -> Nat] /\ t.target \in Nat /\ Kilobyte \in Nat

\* What a file may have is a number, and no more than what was asked for.
LEMMA BudgetKept ==
  ASSUME NEW t, Encoder(t)
  PROVE  Budget(t) \in Nat /\ t.target * Kilobyte \in Nat /\ Budget(t) <= t.target * Kilobyte
<1>1. PICK m \in Nat, k \in Nat : m = t.target /\ k = Kilobyte
  BY DEF Encoder
<1>2. PICK n \in Nat : n = m * k
  OBVIOUS
<1>3. (n * 98) \div 100 \in Nat /\ (n * 98) \div 100 <= n
  BY <1>2
<1>4. Budget(t) = (n * 98) \div 100
  BY <1>1, <1>2, Zenon DEF Budget
<1>5. QED
  BY <1>1, <1>2, <1>3, <1>4

Grows(t) == \A i \in LowQuality..(HighQuality - 1) : t.sizes[i] <= t.sizes[i + 1]

\* What a search knows that has low..high left: what it took keeps the target
\* and may leave, and what is above is too large if higher is never smaller.
Narrowed(t, s) ==
  /\ s = [low |-> s.low, high |-> s.high, best |-> s.best, over |-> s.over]
  /\ s.low \in Int /\ s.high \in Int /\ LowQuality <= s.low /\ s.high <= HighQuality /\ s.over \in BOOLEAN
  /\ s.best \in LowQuality..HighQuality
  /\ s.best = LowQuality \/ t.sizes[s.best] <= Budget(t)
  /\ s.best = s.low - 1 \/ (s.best = LowQuality /\ s.low = LowQuality)
  /\ Grows(t) => \A i \in (s.high + 1)..HighQuality : t.sizes[i] > Budget(t)
  /\ s.over => \E i \in LowQuality..HighQuality : t.sizes[i] > MaxOutput

\* A file of a higher quality is never smaller than one of a lower.
LEMMA GrowsThrough ==
  ASSUME NEW t, Encoder(t), Grows(t), NEW i \in LowQuality..HighQuality, NEW j \in i..HighQuality
  PROVE  t.sizes[i] <= t.sizes[j]
<1>1. PICK low \in Nat, high \in Nat : low = LowQuality /\ high = HighQuality
  BY DEF Encoder
<1>2. PICK f \in [low..high -> Nat] : f = t.sizes
  BY <1>1 DEF Encoder
<1>3. \A k \in low..(high - 1) : f[k] <= f[k + 1]
  BY <1>1, <1>2 DEF Grows
<1>4. PICK S : S = {k \in Nat : k + i <= high => f[i] <= f[i + k]}
  OBVIOUS
<1>5. 0 \in S
  BY <1>1, <1>4
<1>6. ASSUME NEW k \in S PROVE k + 1 \in S
  <2>1. k \in Nat /\ (k + i <= high => f[i] <= f[i + k])
    BY <1>4
  <2>2. SUFFICES ASSUME k + 1 + i <= high PROVE f[i] <= f[i + (k + 1)]
    BY <1>4, <2>1
  <2>3. i + k \in low..(high - 1) /\ i \in low..high /\ (i + k) + 1 \in low..high /\ i + (k + 1) = (i + k) + 1
    BY <1>1, <2>1, <2>2
  <2>4. f[i] <= f[i + k] /\ f[i + k] <= f[(i + k) + 1]
    BY <1>1, <1>3, <2>1, <2>2, <2>3
  <2>5. f[i] \in Nat /\ f[i + k] \in Nat /\ f[(i + k) + 1] \in Nat
    BY <2>3
  <2>6. f[i] <= f[(i + k) + 1]
    BY <2>4, <2>5
  <2>7. QED
    BY <2>3, <2>6
<1>7. S = Nat
  <2>1. S \in SUBSET Nat
    BY <1>4
  <2>2. QED
    BY <1>5, <1>6, <2>1, SetInduction
<1>8. j - i \in Nat /\ (j - i) + i <= high /\ i + (j - i) = j
  BY <1>1
<1>9. QED
  BY <1>2, <1>4, <1>7, <1>8

\* Half of what is left is on either side of the middle.
LEMMA Halved ==
  ASSUME NEW l \in Int, NEW h \in Int, l <= h, NEW n \in Nat, h - l < 2 * n + 1
  PROVE  \E q \in Int : q = (l + h) \div 2 /\ l <= q /\ q <= h /\ h - (q + 1) < n /\ (q - 1) - l < n
<1>1. PICK w \in Int : w = l + h
  OBVIOUS
<1>2. PICK q \in Int : q = w \div 2 /\ (w = 2 * q \/ w = 2 * q + 1)
  OBVIOUS
<1>3. QED
  BY <1>1, <1>2

\* One probe narrows a search, and halves what is left of it.
LEMMA ProbeNarrows ==
  ASSUME NEW t, Encoder(t), NEW s, Narrowed(t, s), NEW u, u = Probe(t, s), NEW n \in Nat,
         s.over \/ s.high - s.low < 2 * n + 1
  PROVE  Narrowed(t, u) /\ (u.over \/ u.high - u.low < n)
<1>1. PICK low \in Nat, high \in Nat : low = LowQuality /\ high = HighQuality /\ low <= high
  BY DEF Encoder
<1>2. PICK f \in [low..high -> Nat] : f = t.sizes
  BY <1>1 DEF Encoder
<1>3. Budget(t) \in Nat /\ MaxOutput \in Nat
  BY BudgetKept DEF Encoder
<1>4. PICK l \in Int, h \in Int, b \in low..high, o \in BOOLEAN :
        l = s.low /\ h = s.high /\ b = s.best /\ o = s.over /\ s = [low |-> l, high |-> h, best |-> b, over |-> o]
  BY <1>1 DEF Narrowed
<1>5. /\ low <= l /\ h <= high
      /\ b = low \/ f[b] <= Budget(t)
      /\ b = l - 1 \/ (b = low /\ l = low)
      /\ Grows(t) => \A i \in (h + 1)..high : f[i] > Budget(t)
  BY <1>1, <1>2, <1>4 DEF Narrowed
<1>6. CASE s.over \/ s.low > s.high
  <2>1. u = s
    BY <1>6 DEF Probe
  <2>2. o \/ h - l < n
    <3>1. o \/ h < l
      BY <1>4, <1>6
    <3>2. h < l => h - l < n
      OBVIOUS
    <3>3. QED
      BY <3>1, <3>2
  <2>3. QED
    BY <1>4, <2>1, <2>2
<1>7. CASE ~o /\ l <= h
  <2>1. PICK q \in Int : q = (l + h) \div 2 /\ l <= q /\ q <= h /\ h - (q + 1) < n /\ (q - 1) - l < n
    <3>1. l \in Int /\ h \in Int /\ l <= h /\ h - l < 2 * n + 1
      BY <1>4, <1>7
    <3>2. QED
      BY <3>1, Halved
  <2>2. l \in Int /\ h \in Int /\ q \in Int /\ low <= l /\ h <= high /\ l <= q /\ q <= h
    BY <1>4, <1>5, <2>1
  <2>3. q \in low..high /\ f[q] \in Nat
    BY <1>1, <1>2, <2>2
  <2>4. u = IF f[q] > MaxOutput THEN [s EXCEPT !.over = TRUE]
            ELSE IF f[q] <= Budget(t) THEN [s EXCEPT !.low = q + 1, !.best = q]
            ELSE [s EXCEPT !.high = q - 1]
    <3>1. ~(s.over \/ s.low > s.high)
      BY <1>4, <1>7
    <3>2. q = (s.low + s.high) \div 2
      BY <1>4, <2>1
    <3>3. QED
      BY <1>2, <3>1, <3>2, Zenon DEF Probe
  <2>5. CASE f[q] > MaxOutput
    <3>1. u = [s EXCEPT !.over = TRUE]
      BY <2>4, <2>5, Zenon
    <3>2. u = [low |-> l, high |-> h, best |-> b, over |-> TRUE]
      BY <1>4, <3>1
    <3>3. u.low = l /\ u.high = h /\ u.best = b /\ u.over = TRUE
      BY <3>2
    <3>4. Narrowed(t, u)
      BY <1>1, <1>2, <1>4, <1>5, <2>3, <2>5, <3>2, <3>3 DEF Narrowed
    <3>5. QED
      BY <3>3, <3>4
  <2>6. CASE ~(f[q] > MaxOutput) /\ f[q] <= Budget(t)
    <3>1. u = [s EXCEPT !.low = q + 1, !.best = q]
      BY <2>4, <2>6, Zenon
    <3>2. u = [low |-> q + 1, high |-> h, best |-> q, over |-> o]
      BY <1>4, <3>1
    <3>3. u.low = q + 1 /\ u.high = h /\ u.best = q /\ u.over = FALSE
      BY <1>7, <3>2
    <3>4. Narrowed(t, u)
      <4>1. u = [low |-> u.low, high |-> u.high, best |-> u.best, over |-> u.over]
        BY <1>7, <3>2, <3>3
      <4>2. /\ u.low \in Int /\ u.high \in Int /\ LowQuality <= u.low /\ u.high <= HighQuality /\ u.over = FALSE
            /\ u.best \in LowQuality..HighQuality /\ u.best = u.low - 1
        BY <1>1, <2>2, <2>3, <3>3
      <4>3. t.sizes[u.best] <= Budget(t)
        BY <1>2, <2>6, <3>3
      <4>4. Grows(t) => \A i \in (u.high + 1)..HighQuality : t.sizes[i] > Budget(t)
        BY <1>1, <1>2, <1>5, <3>3
      <4>5. QED
        BY <4>1, <4>2, <4>3, <4>4 DEF Narrowed
    <3>5. u.high - u.low < n
      BY <2>1, <2>2, <3>3
    <3>6. QED
      BY <3>4, <3>5
  <2>7. CASE ~(f[q] > MaxOutput) /\ ~(f[q] <= Budget(t))
    <3>1. u = [s EXCEPT !.high = q - 1]
      BY <2>4, <2>7, Zenon
    <3>2. u = [low |-> l, high |-> q - 1, best |-> b, over |-> o]
      BY <1>4, <3>1
    <3>3. u.low = l /\ u.high = q - 1 /\ u.best = b /\ u.over = FALSE
      BY <1>7, <3>2
    <3>4. Grows(t) => \A i \in q..high : f[i] > Budget(t)
      <4>1. SUFFICES ASSUME Grows(t), NEW i \in q..high PROVE f[i] > Budget(t)
        OBVIOUS
      <4>2. f[q] <= f[i]
        BY <1>1, <1>2, <2>3, <4>1, GrowsThrough
      <4>3. f[i] \in Nat
        BY <1>1, <1>2, <2>3, <4>1
      <4>4. QED
        BY <1>3, <2>3, <2>7, <4>2, <4>3
    <3>5. (q - 1) + 1 = q /\ q - 1 <= high /\ q - 1 \in Int
      BY <2>2, <2>3
    <3>6. Narrowed(t, u)
      <4>1. u = [low |-> u.low, high |-> u.high, best |-> u.best, over |-> u.over]
        BY <1>7, <3>2, <3>3
      <4>2. /\ u.low \in Int /\ u.high \in Int /\ LowQuality <= u.low /\ u.high <= HighQuality /\ u.over = FALSE
            /\ u.best \in LowQuality..HighQuality
        BY <1>1, <1>4, <2>2, <2>3, <3>3, <3>5
      <4>3. /\ u.best = LowQuality \/ t.sizes[u.best] <= Budget(t)
            /\ u.best = u.low - 1 \/ (u.best = LowQuality /\ u.low = LowQuality)
        BY <1>1, <1>2, <1>5, <3>3
      <4>4. Grows(t) => \A i \in (u.high + 1)..HighQuality : t.sizes[i] > Budget(t)
        BY <1>1, <1>2, <3>3, <3>4, <3>5
      <4>5. QED
        BY <4>1, <4>2, <4>3, <4>4 DEF Narrowed
    <3>7. u.high - u.low < n
      BY <2>1, <2>2, <3>3
    <3>8. QED
      BY <3>6, <3>7
  <2>8. QED
    BY <2>5, <2>6, <2>7
<1>8. QED
  BY <1>4, <1>6, <1>7

\* The numbers are numbers.
LEMMA ReachTypes ==
  ASSUME MaxProbes \in Nat
  PROVE  \A k \in 0..MaxProbes : Reach[k] \in Nat
<1>1. PICK m \in Nat : m = MaxProbes
  OBVIOUS
<1>2. Reach[0] = 0 /\ \A k \in 1..m : Reach[k] = 2 * Reach[k - 1] + 1
  BY <1>1, ReachStepwise
<1>3. PICK S : S = {k \in Nat : k <= m => Reach[k] \in Nat}
  OBVIOUS
<1>4. 0 \in S
  BY <1>2, <1>3
<1>5. ASSUME NEW k \in S PROVE k + 1 \in S
  <2>1. k \in Nat /\ (k <= m => Reach[k] \in Nat)
    BY <1>3
  <2>2. SUFFICES ASSUME k + 1 <= m PROVE Reach[k + 1] \in Nat
    BY <1>3, <2>1
  <2>3. Reach[k] \in Nat /\ k + 1 \in 1..m /\ (k + 1) - 1 = k
    BY <1>1, <2>1, <2>2
  <2>4. Reach[k + 1] = 2 * Reach[k] + 1
    BY <1>2, <2>3
  <2>5. QED
    BY <2>3, <2>4
<1>6. S = Nat
  <2>1. S \in SUBSET Nat
    BY <1>3
  <2>2. QED
    BY <1>4, <1>5, <2>1, SetInduction
<1>7. QED
  BY <1>1, <1>3, <1>6

\* A search that starts with all qualities ends with none left.
LEMMA SearchEnds ==
  ASSUME MaxProbes \in Nat, HighQuality - LowQuality < Reach[MaxProbes], NEW t, Encoder(t)
  PROVE  \E s : s = Searched(t) /\ Narrowed(t, s) /\ (s.over \/ s.high < s.low)
<1>1. PICK m \in Nat : m = MaxProbes
  OBVIOUS
<1>2. PICK f : /\ f[0] = Started /\ \A k \in 1..m : f[k] = Probe(t, f[k - 1])
               /\ Searched(t) = f[m]
  BY <1>1, SearchStepwise
<1>3. Reach[0] = 0 /\ (\A k \in 1..m : Reach[k] = 2 * Reach[k - 1] + 1) /\ \A k \in 0..m : Reach[k] \in Nat
  BY <1>1, ReachStepwise, ReachTypes
<1>4. PICK S : S = {k \in Nat : k <= m => Narrowed(t, f[k]) /\ (f[k].over \/ f[k].high - f[k].low < Reach[m - k])}
  OBVIOUS
<1>5. 0 \in S
  <2>1. PICK low \in Nat, high \in Nat : low = LowQuality /\ high = HighQuality /\ low <= high
    BY DEF Encoder
  <2>2. PICK s : s = f[0] /\ s = [low |-> low, high |-> high, best |-> low, over |-> FALSE]
    BY <1>2, <2>1 DEF Started
  <2>3. Narrowed(t, s)
    <3>1. s.low = low /\ s.high = high /\ s.best = low /\ s.over = FALSE
      BY <2>2
    <3>2. \A i \in (high + 1)..high : FALSE
      BY <2>1
    <3>3. /\ s.low \in Int /\ s.high \in Int /\ LowQuality <= s.low /\ s.high <= HighQuality
          /\ s.best \in LowQuality..HighQuality /\ s.best = LowQuality /\ s.low = LowQuality
      BY <2>1, <3>1
    <3>4. QED
      BY <2>1, <2>2, <3>1, <3>2, <3>3 DEF Narrowed
  <2>4. s.high - s.low < Reach[m - 0]
    BY <1>1, <2>1, <2>2
  <2>5. QED
    BY <1>4, <2>2, <2>3, <2>4
<1>6. ASSUME NEW k \in S PROVE k + 1 \in S
  <2>1. k \in Nat /\ (k <= m => Narrowed(t, f[k]) /\ (f[k].over \/ f[k].high - f[k].low < Reach[m - k]))
    BY <1>4
  <2>2. SUFFICES ASSUME k + 1 <= m
                 PROVE  Narrowed(t, f[k + 1]) /\ (f[k + 1].over \/ f[k + 1].high - f[k + 1].low < Reach[m - (k + 1)])
    BY <1>4, <2>1
  <2>3. /\ k <= m /\ k + 1 \in 1..m /\ (k + 1) - 1 = k /\ m - k \in 1..m /\ m - (k + 1) \in 0..m
        /\ (m - k) - 1 = m - (k + 1)
    BY <1>1, <2>1, <2>2
  <2>4. PICK n \in Nat : n = Reach[m - (k + 1)] /\ Reach[m - k] = 2 * n + 1
    BY <1>3, <2>3
  <2>5. PICK s, u : s = f[k] /\ u = f[k + 1] /\ u = Probe(t, s)
    BY <1>2, <2>3
  <2>6. Narrowed(t, s) /\ (s.over \/ s.high - s.low < 2 * n + 1)
    BY <2>1, <2>3, <2>4, <2>5
  <2>7. Narrowed(t, u) /\ (u.over \/ u.high - u.low < n)
    BY <2>4, <2>5, <2>6, ProbeNarrows
  <2>8. QED
    BY <2>4, <2>5, <2>7
<1>7. S = Nat
  <2>1. S \in SUBSET Nat
    BY <1>4
  <2>2. QED
    BY <1>5, <1>6, <2>1, SetInduction
<1>8. PICK s : s = f[m] /\ Narrowed(t, s) /\ (s.over \/ s.high - s.low < 0)
  <2>1. Narrowed(t, f[m]) /\ (f[m].over \/ f[m].high - f[m].low < Reach[m - m])
    BY <1>1, <1>4, <1>7
  <2>2. m - m = 0
    BY <1>1
  <2>3. QED
    BY <1>3, <2>1, <2>2
<1>9. s.low \in Int /\ s.high \in Int
  BY <1>8 DEF Narrowed
<1>10. s.high - s.low < 0 => s.high < s.low
  BY <1>9
<1>11. QED
  BY <1>2, <1>8, <1>10

\* What TargetExact says of a request t and its reply.
TargetMeant(t, reply) ==
  LET q == reply.quality
      tried == t.target \in MinTarget..MaxTarget
      grows == \A i \in LowQuality..(HighQuality - 1) : t.sizes[i] <= t.sizes[i + 1]
  IN /\ reply.refused = "processing" <=> ~tried
     /\ tried /\ reply.refused = "limit" => \E i \in DOMAIN t.sizes : t.sizes[i] > MaxOutput
     /\ reply.refused = "none" =>
          /\ t.sizes[q] <= MaxOutput
          /\ t.sizes[q] > t.target * Kilobyte => q = LowQuality
          /\ grows => \A i \in (q + 1)..HighQuality : t.sizes[i] > Budget(t)

\* A search ends as TargetExact says.
LEMMA TargetIsMeant ==
  ASSUME MaxProbes \in Nat, HighQuality - LowQuality < Reach[MaxProbes], NEW t, Encoder(t)
  PROVE  TargetMeant(t, TargetReply(t))
<1>1. PICK s : s = Searched(t) /\ Narrowed(t, s) /\ (s.over \/ s.high < s.low)
  BY SearchEnds
<1>2. PICK low \in Nat, high \in Nat : low = LowQuality /\ high = HighQuality /\ low <= high
  BY DEF Encoder
<1>3. PICK f \in [low..high -> Nat] : f = t.sizes
  BY <1>2 DEF Encoder
<1>4. /\ Budget(t) \in Nat /\ t.target * Kilobyte \in Nat /\ Budget(t) <= t.target * Kilobyte
      /\ MaxOutput \in Nat
  BY BudgetKept DEF Encoder
<1>5. PICK q \in low..high : q = s.best /\ s.over \in BOOLEAN /\ s.low \in Int /\ s.high \in Int
  BY <1>1, <1>2 DEF Narrowed
<1>6. f[q] \in Nat /\ q \in Nat
  BY <1>2, <1>3, <1>5
<1>a. PICK untried : untried = (t.target \notin MinTarget..MaxTarget)
  OBVIOUS
<1>b. PICK over : over = s.over
  OBVIOUS
<1>c. PICK large : large = (t.sizes[s.best] > MaxOutput)
  OBVIOUS
<1>d. PICK tried : tried = (t.target \in MinTarget..MaxTarget)
  OBVIOUS
<1>7. /\ untried \in BOOLEAN /\ over \in BOOLEAN /\ large \in BOOLEAN
      /\ (tried <=> ~untried) /\ (over <=> s.over) /\ (large <=> f[q] > MaxOutput)
  <2>1. untried \in BOOLEAN
    BY <1>a
  <2>2. over \in BOOLEAN /\ (over <=> s.over)
    BY <1>5, <1>b
  <2>3. large \in BOOLEAN
    BY <1>c
  <2>4. tried <=> ~untried
    BY <1>a, <1>d
  <2>5. large <=> f[q] > MaxOutput
    BY <1>3, <1>5, <1>c
  <2>6. QED
    BY <2>1, <2>2, <2>3, <2>4, <2>5
<1>8. PICK reply : reply = TargetReply(t)
  OBVIOUS
<1>9. reply.quality = q /\ reply.refused = Reason(<< <<untried, "processing">>, <<over, "limit">>, <<large, "limit">> >>)
  <2>1. reply = [refused |-> Reason(<< <<untried, "processing">>, <<over, "limit">>, <<large, "limit">> >>), quality |-> s.best]
    BY <1>1, <1>8, <1>a, <1>b, <1>c, Zenon DEF TargetReply
  <2>2. QED
    BY <1>5, <2>1, Zenon
<1>e. PICK R : R = Reason(<< <<untried, "processing">>, <<over, "limit">>, <<large, "limit">> >>)
  OBVIOUS
<1>10. /\ ~tried => reply.refused = "processing"
       /\ tried /\ over => reply.refused = "limit"
       /\ tried /\ ~over /\ large => reply.refused = "limit"
       /\ tried /\ ~over /\ ~large => reply.refused = "none"
  <2>1. /\ untried => R = "processing"
        /\ ~untried /\ over => R = "limit"
        /\ ~untried /\ ~over /\ large => R = "limit"
        /\ ~untried /\ ~over /\ ~large => R = "none"
    BY <1>7, <1>e, ReasonOfThree
  <2>2. reply.refused = R
    BY <1>9, <1>e, Zenon
  <2>3. QED
    BY <1>7, <2>1, <2>2
<1>11. reply.refused = "processing" <=> ~tried
  BY <1>7, <1>10
<1>12. tried /\ reply.refused = "limit" => \E i \in DOMAIN t.sizes : t.sizes[i] > MaxOutput
  <2>1. SUFFICES ASSUME tried, reply.refused = "limit" PROVE \E i \in low..high : f[i] > MaxOutput
    BY <1>2, <1>3
  <2>2. CASE s.over
    BY <1>1, <1>2, <1>3, <2>2 DEF Narrowed
  <2>3. CASE ~s.over
    BY <1>7, <1>10, <2>1, <2>3
  <2>4. QED
    BY <2>2, <2>3
<1>13. ASSUME reply.refused = "none"
       PROVE  /\ t.sizes[q] <= MaxOutput
              /\ t.sizes[q] > t.target * Kilobyte => q = LowQuality
              /\ Grows(t) => \A i \in (q + 1)..HighQuality : t.sizes[i] > Budget(t)
  <2>1. ~s.over /\ ~large
    BY <1>7, <1>10, <1>13
  <2>2. f[q] <= MaxOutput
    BY <1>4, <1>6, <1>7, <2>1
  <2>3. f[q] > t.target * Kilobyte => q = low
    <3>1. f[q] <= Budget(t) \/ q = low
      BY <1>1, <1>2, <1>3, <1>5 DEF Narrowed
    <3>2. QED
      BY <1>4, <1>6, <3>1
  <2>4. ASSUME Grows(t), NEW i \in (q + 1)..high
        PROVE  f[i] > Budget(t)
    <3>1. \A j \in (s.high + 1)..high : f[j] > Budget(t)
      BY <1>1, <1>2, <1>3, <2>4 DEF Narrowed
    <3>2. q = s.low - 1 \/ (q = low /\ s.low = low)
      BY <1>1, <1>2, <1>5 DEF Narrowed
    <3>3. i \in (s.high + 1)..high
      <4>1. ~s.over
        BY <1>7, <2>1
      <4>2. s.high < s.low
        BY <1>1, <4>1
      <4>3. PICK l \in Int, h \in Int : l = s.low /\ h = s.high
        BY <1>5
      <4>4. (q = l - 1 \/ (q = low /\ l = low)) /\ h < l
        BY <3>2, <4>2, <4>3
      <4>5. i \in (h + 1)..high
        <5>1. i \in Int /\ i <= high /\ q + 1 <= i
          BY <1>2, <1>6, <2>4
        <5>2. h + 1 <= q + 1
          BY <1>6, <4>3, <4>4
        <5>3. QED
          BY <1>2, <1>6, <4>3, <5>1, <5>2
      <4>6. QED
        BY <4>3, <4>5
    <3>4. QED
      BY <3>1, <3>3
  <2>5. QED
    BY <1>2, <1>3, <2>2, <2>3, <2>4
<1>14. QED
  BY <1>8, <1>9, <1>d, <1>11, <1>12, <1>13, Zenon DEF TargetMeant, Grows

-----------------------------------------------------------------------------
\* If there is no reason, no check failed.
LEMMA NoneFails ==
  ASSUME NEW checks, NEW N \in Nat, DOMAIN checks = 1..N, \A n \in 1..N : checks[n][2] # "none", Reason(checks) = "none"
  PROVE  \A n \in 1..N : ~checks[n][1]
<1>1. PICK F : F = {n \in 1..N : checks[n][1]}
  OBVIOUS
<1>2. CASE F # {}
  <2>1. F \in SUBSET Nat
    BY <1>1
  <2>2. PICK m \in F : \A n \in F : m <= n
    BY <1>2, <2>1, LeastMember
  <2>3. m \in 1..N /\ checks[m][1] /\ \A j \in 1..N : j < m => ~checks[j][1]
    BY <1>1, <2>1, <2>2
  <2>4. Reason(checks) = checks[m][2]
    BY <2>3, ReasonIs
  <2>5. QED
    BY <2>3, <2>4
<1>3. CASE F = {}
  BY <1>1, <1>3
<1>4. QED
  BY <1>2, <1>3

\* The sums of the sizes of the pages, page by page.
Sums(f, sizes, n) == f = [i \in 0..n |-> IF i = 0 THEN 0 ELSE f[i - 1] + sizes[i]]

\* One more page can be added.
LEMMA SumsNext ==
  ASSUME NEW sizes, NEW n \in Nat, NEW f, Sums(f, sizes, n)
  PROVE  \E g : Sums(g, sizes, n + 1)
<1>1. PICK g : g = [k \in 0..n + 1 |-> IF k = 0 THEN 0 ELSE f[k - 1] + sizes[k]]
  OBVIOUS
<1>2. \A k \in 0..n : f[k] = IF k = 0 THEN 0 ELSE f[k - 1] + sizes[k]
  BY Zenon DEF Sums
<1>3. \A k \in 0..n : k \in 0..n + 1
  OBVIOUS
<1>4. \A k \in 0..n : g[k] = f[k]
  BY <1>1, <1>2, <1>3, Zenon
<1>5. \A k \in 0..n + 1 : k # 0 => k - 1 \in 0..n
  OBVIOUS
<1>6. g = [k \in 0..n + 1 |-> IF k = 0 THEN 0 ELSE g[k - 1] + sizes[k]]
  BY <1>1, <1>4, <1>5, Zenon
<1>7. QED
  BY <1>6, Zenon DEF Sums

\* Any number of pages can be added.
LEMMA SumsExists ==
  ASSUME NEW sizes
  PROVE  \A n \in Nat : \E f : Sums(f, sizes, n)
<1> DEFINE S == {n \in Nat : \E f : Sums(f, sizes, n)}
<1>1. 0 \in S
  <2>1. PICK f : f = [k \in 0..0 |-> 0]
    OBVIOUS
  <2>2. f = [k \in 0..0 |-> IF k = 0 THEN 0 ELSE f[k - 1] + sizes[k]]
    <3>1. \A k \in 0..0 : k = 0
      OBVIOUS
    <3>2. QED
      BY <2>1, <3>1, Zenon
  <2>3. QED
    BY <2>2, Zenon DEF Sums
<1>2. \A n \in S : n + 1 \in S
  BY SumsNext
<1>3. S = Nat
  <2> HIDE DEF S
  <2>1. S \in SUBSET Nat
    BY DEF S
  <2>2. QED
    BY <1>1, <1>2, <2>1, SetInduction
<1>4. QED
  BY <1>3

\* Together the pages have a size.
LEMMA UptoIsNumber ==
  ASSUME NEW sizes \in Seq(Nat)
  PROVE  Upto(sizes, Len(sizes)) \in Nat
<1>1. PICK n \in Nat : n = Len(sizes) /\ \A i \in 1..n : sizes[i] \in Nat
  OBVIOUS
<1>2. PICK g : g = [i \in 0..n |-> IF i = 0 THEN 0 ELSE g[i - 1] + sizes[i]]
  BY SumsExists, Zenon DEF Sums
<1>3. PICK f : f = CHOOSE h : h = [i \in 0..n |-> IF i = 0 THEN 0 ELSE h[i - 1] + sizes[i]]
  OBVIOUS
<1>4. f = [i \in 0..n |-> IF i = 0 THEN 0 ELSE f[i - 1] + sizes[i]]
  BY <1>2, <1>3, Zenon
<1>5. Upto(sizes, n) = f[n]
  BY <1>3, Zenon DEF Upto
<1>6. \A k \in 0..n : f[k] = IF k = 0 THEN 0 ELSE f[k - 1] + sizes[k]
  BY <1>4, Zenon
<1>7. PICK S : S = {k \in Nat : k <= n => f[k] \in Nat}
  OBVIOUS
<1>8. 0 \in S
  <2>1. 0 \in 0..n
    OBVIOUS
  <2>2. f[0] = 0
    BY <1>6, <2>1, Zenon
  <2>3. QED
    BY <1>7, <2>2
<1>9. ASSUME NEW k \in S PROVE k + 1 \in S
  <2>1. k \in Nat /\ (k <= n => f[k] \in Nat)
    BY <1>7
  <2>2. SUFFICES ASSUME k + 1 <= n PROVE f[k + 1] \in Nat
    BY <1>7, <2>1
  <2>3. k + 1 \in 0..n /\ k + 1 # 0 /\ (k + 1) - 1 = k /\ k + 1 \in 1..n /\ f[k] \in Nat
    BY <2>1, <2>2
  <2>4. f[k + 1] = f[k] + sizes[k + 1]
    BY <1>6, <2>3, Zenon
  <2>5. QED
    BY <1>1, <2>3, <2>4
<1>10. S = Nat
  <2>1. S \in SUBSET Nat
    BY <1>7
  <2>2. QED
    BY <1>8, <1>9, <2>1, SetInduction
<1>11. QED
  BY <1>1, <1>5, <1>7, <1>10

\* What ScanExact says of a scan s and its reply.
ScanMeant(s, reply) ==
  reply.entries = << >> \/ (reply.entries = s.pages /\ Upto(s.pages, Len(s.pages)) <= MaxOutput)

\* A scan is answered as ScanExact says.
LEMMA ScanIsMeant ==
  ASSUME MaxOutput \in Nat, NEW s, s.pages \in Seq(Nat)
  PROVE  ScanMeant(s, ScanReply(s))
<1>1. PICK count \in Nat : count = Len(s.pages)
  OBVIOUS
<1>2. PICK checks : checks =
        << <<s.large, "limit">>, <<s.format = "unknown", "format">>, <<~s.pdf, "format">>, <<~s.readable, "format">>,
           <<count = 0, "format">>, <<count > MaxPages, "limit">>,
           <<\E i \in 1..count : s.pages[i] > MaxOutput \/ Upto(s.pages, i) > MaxRaster, "limit">>,
           <<Upto(s.pages, count) > MaxOutput, "limit">> >>
  OBVIOUS
<1>3. /\ DOMAIN checks = 1..8
      /\ \A n \in 1..8 : checks[n][2] \in {"format", "limit"}
      /\ (checks[8][1] <=> Upto(s.pages, count) > MaxOutput)
  <2>0. PICK L : L = s.large
    OBVIOUS
  <2>1. PICK A : A = (s.format = "unknown")
    OBVIOUS
  <2>2. PICK B : B = ~s.pdf
    OBVIOUS
  <2>3. PICK C : C = ~s.readable
    OBVIOUS
  <2>4. PICK D : D = (count = 0)
    OBVIOUS
  <2>5. PICK E : E = (count > MaxPages)
    OBVIOUS
  <2>6. PICK F : F = \E i \in 1..count : s.pages[i] > MaxOutput \/ Upto(s.pages, i) > MaxRaster
    OBVIOUS
  <2>7. PICK G : G = (Upto(s.pages, count) > MaxOutput)
    OBVIOUS
  <2>8. checks = << <<L, "limit">>, <<A, "format">>, <<B, "format">>, <<C, "format">>, <<D, "format">>, <<E, "limit">>, <<F, "limit">>,
                    <<G, "limit">> >>
    BY <1>2, <2>0, <2>1, <2>2, <2>3, <2>4, <2>5, <2>6, <2>7, Zenon
  <2>9. /\ DOMAIN checks = 1..8 /\ (checks[8][1] <=> G)
        /\ \A n \in 1..8 : checks[n][2] \in {"format", "limit"}
    BY <2>8
  <2>10. QED
    BY <2>7, <2>9
<1>4. ScanReply(s) = [refused |-> Reason(checks), entries |-> IF Reason(checks) = "none" THEN s.pages ELSE << >>]
  BY <1>1, <1>2, Zenon DEF ScanReply
<1>5. Upto(s.pages, count) \in Nat
  BY <1>1, UptoIsNumber
<1>6. CASE Reason(checks) = "none"
  <2>1. \A n \in 1..8 : checks[n][2] # "none"
    BY <1>3
  <2>2. \A n \in 1..8 : ~checks[n][1]
    BY <1>3, <1>6, <2>1, NoneFails
  <2>3. Upto(s.pages, count) <= MaxOutput
    BY <1>3, <1>5, <2>2
  <2>4. QED
    BY <1>1, <1>4, <1>6, <2>3 DEF ScanMeant
<1>7. CASE Reason(checks) # "none"
  BY <1>4, <1>7 DEF ScanMeant
<1>8. QED
  BY <1>6, <1>7

-----------------------------------------------------------------------------
\* A share of n in d parts, rounded either way, is at most what it is said to be.
LEMMA ShareWithin ==
  ASSUME NEW n \in Nat, NEW d \in Sides, NEW a \in Nat, n <= a * d
  PROVE  /\ n \div d \in Nat /\ n \div d <= a
         /\ (n + d - 1) \div d \in Nat /\ (n + d - 1) \div d <= a /\ n <= ((n + d - 1) \div d) * d
<1>1. d \in Nat /\ d >= 1
  BY DEF Sides
<1>2. PICK k \in Nat, e \in Nat : k = n \div d /\ e <= d - 1 /\ n = d * k + e
  BY <1>1, Division
<1>3. PICK x \in Nat : x = n + d - 1
  BY <1>1
<1>4. PICK l \in Nat, g \in Nat : l = x \div d /\ g <= d - 1 /\ x = d * l + g
  BY <1>1, Division
<1>5. k <= a
  <2>1. SUFFICES ASSUME a + 1 <= k PROVE FALSE
    BY <1>2
  <2>2. (a + 1) * d <= k * d
    BY <1>1, <1>2, <2>1, Multiplied
  <2>3. QED
    BY <1>1, <1>2, <2>2
<1>6. l <= a
  <2>1. SUFFICES ASSUME a + 1 <= l PROVE FALSE
    BY <1>4
  <2>2. (a + 1) * d <= l * d
    BY <1>1, <1>4, <2>1, Multiplied
  <2>3. QED
    BY <1>1, <1>3, <1>4, <2>2
<1>7. n <= l * d
  BY <1>1, <1>3, <1>4
<1>8. QED
  BY <1>2, <1>3, <1>4, <1>5, <1>6, <1>7

\* A thumbnail has pixels, and no more than there were.
LEMMA ThumbnailsWithin ==
  ASSUME NEW a \in Sides, NEW b \in Sides, NEW c \in Sides, NEW d \in Sides, NEW s \in Thumbnails(<<a, b>>, <<c, d>>)
  PROVE  s[1] \in 1..a /\ s[2] \in 1..b
<1>1. a \in Nat /\ b \in Nat /\ c \in Nat /\ d \in Nat /\ a >= 1 /\ b >= 1 /\ c >= 1 /\ d >= 1
  BY DEF Sides
<1>2. \A n \in Nat, e \in Sides, k \in Nat :
        n <= k * e => \A m \in {Greater(1, n \div e), Greater(1, (n + e - 1) \div e)} : m \in Nat /\ m >= 1 /\ (m <= k \/ m = 1)
  BY ShareWithin DEF Greater
<1>3. CASE a <= c /\ b <= d
  <2>1. s = <<a, b>>
    BY <1>3 DEF Thumbnails
  <2>2. QED
    BY <1>1, <2>1
<1>4. CASE ~(a <= c /\ b <= d) /\ c * b >= a * d
  <2>1. PICK m \in {Greater(1, (d * a) \div b), Greater(1, (d * a + b - 1) \div b)} : s = <<m, d>>
    BY <1>4 DEF Thumbnails
  <2>2. d <= b
    <3>1. SUFFICES ASSUME b <= d PROVE c >= a
      BY <1>1, <1>4
    <3>2. b * a <= d * a
      BY <1>1, <3>1, Multiplied
    <3>3. a * b <= c * b
      BY <1>1, <1>4, <3>2
    <3>4. QED
      BY <1>1, <3>3, Cancelled
  <2>3. d * a <= a * b /\ d * a \in Nat
    <3>1. d * a <= b * a
      BY <1>1, <2>2, Multiplied
    <3>2. QED
      BY <1>1, <3>1
  <2>4. m \in Nat /\ m >= 1 /\ (m <= a \/ m = 1)
    BY <1>1, <1>2, <2>1, <2>3
  <2>5. QED
    BY <1>1, <2>1, <2>2, <2>4
<1>5. CASE ~(a <= c /\ b <= d) /\ ~(c * b >= a * d)
  <2>1. PICK m \in {Greater(1, (c * b) \div a), Greater(1, (c * b + a - 1) \div a)} : s = <<c, m>>
    BY <1>5 DEF Thumbnails
  <2>2. c <= a
    <3>1. SUFFICES ASSUME a <= c PROVE d >= b
      BY <1>1, <1>5
    <3>2. a * b <= c * b
      BY <1>1, <3>1, Multiplied
    <3>3. b * a <= d * a
      BY <1>1, <1>5, <3>2
    <3>4. QED
      BY <1>1, <3>3, Cancelled
  <2>3. c * b <= b * a /\ c * b \in Nat
    <3>1. c * b <= a * b
      BY <1>1, <2>2, Multiplied
    <3>2. QED
      BY <1>1, <3>1
  <2>4. m \in Nat /\ m >= 1 /\ (m <= b \/ m = 1)
    BY <1>1, <1>2, <2>1, <2>3
  <2>5. QED
    BY <1>1, <2>1, <2>2, <2>4
<1>6. QED
  BY <1>3, <1>4, <1>5

\* What is rounded is half a part away at most.
LEMMA RoundedNear ==
  ASSUME NEW n \in Nat, NEW d \in Sides
  PROVE  /\ Rounded(n, d) \in Nat
         /\ 2 * (Rounded(n, d) * d) <= 2 * n + d
         /\ 2 * n <= 2 * (Rounded(n, d) * d) + d
<1>1. d \in Nat /\ d >= 1
  BY DEF Sides
<1>2. PICK k \in Nat, e \in Nat : k = n \div d /\ e = n % d /\ e <= d - 1 /\ n = d * k + e
  BY <1>1, Division
<1>3. PICK m \in Nat : m = Rounded(n, d) /\ ((m = k /\ 2 * e <= d) \/ (m = k + 1 /\ d <= 2 * e))
  BY <1>1, <1>2 DEF Rounded
<1>4. m * d = d * k \/ m * d = d * k + d
  BY <1>1, <1>3
<1>5. CASE m = k /\ 2 * e <= d
  <2>1. m * d = d * k
    BY <1>1, <1>5
  <2>2. QED
    BY <1>1, <1>2, <1>3, <1>5, <2>1
<1>6. CASE m = k + 1 /\ d <= 2 * e
  <2>1. m * d = d * k + d
    BY <1>1, <1>6
  <2>2. QED
    BY <1>1, <1>2, <1>3, <1>6, <2>1
<1>7. QED
  BY <1>3, <1>5, <1>6

\* Rounding stays on its side of a whole number.
LEMMA RoundedAside ==
  ASSUME NEW n \in Nat, NEW d \in Sides, NEW k \in Nat
  PROVE  /\ n <= k * d => Rounded(n, d) <= k
         /\ k * d <= n => k <= Rounded(n, d)
<1>1. d \in Nat /\ d >= 1
  BY DEF Sides
<1>2. PICK m \in Nat : m = Rounded(n, d) /\ 2 * (m * d) <= 2 * n + d /\ 2 * n <= 2 * (m * d) + d
  BY RoundedNear
<1>3. ASSUME n <= k * d, k + 1 <= m PROVE FALSE
  <2>1. (k + 1) * d <= m * d
    BY <1>1, <1>3, Multiplied
  <2>2. (k + 1) * d = k * d + d
    BY <1>1
  <2>3. QED
    BY <1>1, <1>2, <1>3, <2>1, <2>2
<1>4. ASSUME k * d <= n, m + 1 <= k PROVE FALSE
  <2>1. (m + 1) * d <= k * d
    BY <1>1, <1>4, Multiplied
  <2>2. (m + 1) * d = m * d + d
    BY <1>1
  <2>3. QED
    BY <1>1, <1>2, <1>4, <2>1, <2>2
<1>5. QED
  BY <1>2, <1>3, <1>4

\* What is more is not rounded to less.
LEMMA RoundedOrdered ==
  ASSUME NEW n \in Nat, NEW l \in Nat, NEW d \in Sides, n <= l
  PROVE  Rounded(n, d) <= Rounded(l, d)
<1>1. d \in Nat /\ d >= 1
  BY DEF Sides
<1>2. PICK m \in Nat : m = Rounded(n, d) /\ 2 * (m * d) <= 2 * n + d
  BY RoundedNear
<1>3. PICK k \in Nat : k = Rounded(l, d) /\ 2 * l <= 2 * (k * d) + d
  BY RoundedNear
<1>4. ASSUME k + 1 <= m, n # l PROVE FALSE
  <2>1. (k + 1) * d <= m * d
    BY <1>1, <1>4, Multiplied
  <2>2. (k + 1) * d = k * d + d
    BY <1>1
  <2>3. k * d \in Nat /\ m * d \in Nat
    BY <1>1
  <2>4. QED
    BY <1>1, <1>2, <1>3, <1>4, <2>1, <2>2, <2>3
<1>5. QED
  BY <1>2, <1>3, <1>4

\* Where nothing rises, nothing changes.
LEMMA FlatBetween ==
  ASSUME NEW n \in Nat, NEW f \in [0..n -> Nat], \A i \in 1..n : f[i - 1] <= f[i],
         NEW m \in 0..n, NEW j \in 0..n, m <= j, \A i \in (m + 1)..j : ~(f[i - 1] < f[i])
  PROVE  f[m] = f[j]
<1>1. PICK S : S = {k \in Nat : m + k <= j => f[m + k] = f[m]}
  OBVIOUS
<1>2. 0 \in S
  BY <1>1
<1>3. ASSUME NEW k \in S PROVE k + 1 \in S
  <2>1. k \in Nat /\ (m + k <= j => f[m + k] = f[m])
    BY <1>1
  <2>2. SUFFICES ASSUME m + (k + 1) <= j PROVE f[m + (k + 1)] = f[m]
    BY <1>1, <2>1
  <2>3. /\ m + (k + 1) \in (m + 1)..j /\ (m + (k + 1)) - 1 = m + k /\ m + k \in 0..n /\ m + (k + 1) \in 1..n
        /\ m + (k + 1) \in 0..n
    BY <2>1, <2>2
  <2>4. f[m + k] <= f[m + (k + 1)] /\ ~(f[m + k] < f[m + (k + 1)])
    BY <2>3
  <2>5. f[m + k] \in Nat /\ f[m + (k + 1)] \in Nat
    BY <2>3
  <2>6. QED
    BY <2>1, <2>2, <2>3, <2>4, <2>5
<1>4. S = Nat
  <2>1. S \in SUBSET Nat
    BY <1>1
  <2>2. QED
    BY <1>2, <1>3, <2>1, SetInduction
<1>5. PICK k \in Nat : m + k = j
  <2>1. j - m \in Nat /\ m + (j - m) = j
    OBVIOUS
  <2>2. QED
    BY <2>1
<1>6. f[m + k] = f[m]
  <2>1. k \in S /\ m + k <= j
    BY <1>4, <1>5
  <2>2. QED
    BY <1>1, <2>1
<1>7. QED
  BY <1>5, <1>6

\* The steps at which a function rises.
Rising(f, n) == {i \in 1..n : f[i - 1] < f[i]}

\* The steps shown, in order, lead from the first value of f to the last.
Climbing(f, n, shown) ==
  \E c \in 1..n :
    /\ DOMAIN shown = 1..c /\ \A k \in 1..c : shown[k] \in 1..n /\ f[shown[k] - 1] < f[shown[k]]
    /\ f[shown[1] - 1] = f[0] /\ f[shown[c]] = f[n]
    /\ \A k \in 1..(c - 1) : f[shown[k]] = f[shown[k + 1] - 1]

\* The steps at which rows are shown follow each other without a gap, from the
\* first row to the last.
LEMMA Rises ==
  ASSUME NEW n \in Nat, NEW f \in [0..n -> Nat], \A i \in 1..n : f[i - 1] <= f[i], f[0] < f[n],
         NEW shown, shown = Ascending(Rising(f, n))
  PROVE  Climbing(f, n, shown)
<1>1. PICK S : S = Rising(f, n) /\ S = {i \in 1..n : f[i - 1] < f[i]}
  BY DEF Rising
<1>2. S \in SUBSET Int /\ S \in SUBSET (1..n)
  BY <1>1
<1>3. IsFiniteSet(1..n) /\ Cardinality(1..n) = n
  BY FS_Interval
<1>4. IsFiniteSet(S) /\ Cardinality(S) <= n
  BY <1>2, <1>3, FS_Subset
<1>5. PICK c \in Nat : /\ c <= n /\ (c = 0 => S = {}) /\ DOMAIN shown = 1..c
                       /\ \A k \in 1..c : shown[k] \in S
                       /\ \A i \in S : \E k \in 1..c : i = shown[k]
                       /\ \A k, l \in 1..c : k < l => shown[k] < shown[l]
  <2>1. /\ DOMAIN Ascending(S) = 1..Cardinality(S) /\ Cardinality(S) \in Nat
        /\ {Ascending(S)[k] : k \in DOMAIN Ascending(S)} = S
        /\ \A k, l \in DOMAIN Ascending(S) : k < l => Ascending(S)[k] < Ascending(S)[l]
    BY <1>2, <1>4, AscendingListed, Zenon
  <2>2. PICK c \in Nat : c = Cardinality(S)
    BY <2>1
  <2>3. c <= n /\ (c = 0 => S = {})
    BY <1>4, <2>2, FS_EmptySet
  <2>4. shown = Ascending(S)
    BY <1>1, Zenon
  <2>5. /\ \A k \in DOMAIN Ascending(S) : Ascending(S)[k] \in S
        /\ \A i \in S : \E k \in DOMAIN Ascending(S) : i = Ascending(S)[k]
    BY <2>1
  <2>6. DOMAIN shown = 1..c
    BY <2>1, <2>2, <2>4, Zenon
  <2>7. /\ \A k \in DOMAIN shown : shown[k] \in S
        /\ \A i \in S : \E k \in DOMAIN shown : i = shown[k]
    BY <2>4, <2>5, Zenon
  <2>8. \A k, l \in DOMAIN shown : k < l => shown[k] < shown[l]
    BY <2>1, <2>4, Zenon
  <2>9. /\ \A k \in 1..c : shown[k] \in S
        /\ \A i \in S : \E k \in 1..c : i = shown[k]
    BY <2>6, <2>7, Zenon
  <2>10. \A k, l \in 1..c : k < l => shown[k] < shown[l]
    BY <2>6, <2>8, Zenon
  <2>11. QED
    BY <2>2, <2>3, <2>6, <2>9, <2>10, Zenon
<1>6. \A k \in 1..c : shown[k] \in S
  BY <1>5
<1>7. \A k \in 1..c : shown[k] \in 1..n /\ f[shown[k] - 1] < f[shown[k]]
  BY <1>1, <1>6
<1>8. \A i \in 1..n : f[i - 1] < f[i] => \E k \in 1..c : i = shown[k]
  <2>1. SUFFICES ASSUME NEW i \in 1..n, f[i - 1] < f[i] PROVE \E k \in 1..c : i = shown[k]
    OBVIOUS
  <2>2. i \in S
    BY <1>1, <2>1
  <2>3. QED
    BY <1>5, <2>2
<1>9. c \in 1..n
  <2>1. SUFFICES ASSUME c = 0 PROVE FALSE
    BY <1>5
  <2>2. \A i \in 1..n : ~(f[i - 1] < f[i])
    BY <1>8, <2>1
  <2>3. 0 \in 0..n /\ n \in 0..n /\ 0 <= n /\ \A i \in (0 + 1)..n : i \in 1..n
    OBVIOUS
  <2>4. f[0] = f[n]
    BY <2>2, <2>3, FlatBetween
  <2>5. QED
    BY <2>3, <2>4
<1>10. 1 \in 1..c /\ c \in 1..c /\ \A k \in 1..c : shown[k] \in 1..n
  BY <1>7, <1>9
<1>a. \A k \in 1..c, l \in 1..n : l = shown[k] => l = shown[1] \/ shown[1] < l
  <2>1. SUFFICES ASSUME NEW k \in 1..c, k # 1 PROVE shown[1] < shown[k]
    OBVIOUS
  <2>2. 1 < k
    BY <2>1
  <2>3. QED
    BY <1>5, <1>10, <2>2
<1>b. \A k \in 1..c, l \in 1..n : l = shown[k] => l = shown[c] \/ l < shown[c]
  <2>1. SUFFICES ASSUME NEW k \in 1..c, k # c PROVE shown[k] < shown[c]
    OBVIOUS
  <2>2. k < c
    BY <1>9, <2>1
  <2>3. QED
    BY <1>5, <1>10, <2>2
<1>11. f[shown[1] - 1] = f[0]
  <2>a. PICK m \in 1..n : m = shown[1]
    BY <1>10
  <2>b. m \in Int /\ 1 <= m /\ m <= n
    BY <2>a
  <2>1. PICK j \in 0..n : j = m - 1
    BY <2>b
  <2>2. \A i \in (0 + 1)..j : ~(f[i - 1] < f[i])
    <3>1. SUFFICES ASSUME NEW i \in (0 + 1)..j, f[i - 1] < f[i] PROVE FALSE
      OBVIOUS
    <3>2. i \in 1..n /\ i < m
      BY <2>b, <2>1, <3>1
    <3>3. PICK k \in 1..c : i = shown[k]
      BY <1>8, <3>1, <3>2
    <3>4. i = m \/ m < i
      BY <1>a, <2>a, <3>2, <3>3
    <3>5. QED
      BY <3>2, <3>4
  <2>3. 0 \in 0..n /\ 0 <= j
    BY <2>1
  <2>4. f[0] = f[j]
    BY <2>1, <2>2, <2>3, FlatBetween
  <2>5. QED
    BY <2>a, <2>1, <2>4
<1>12. f[shown[c]] = f[n]
  <2>1. PICK m \in 1..n : m = shown[c]
    BY <1>10
  <2>a. m \in Int /\ 1 <= m /\ m <= n
    BY <2>1
  <2>2. \A i \in (m + 1)..n : ~(f[i - 1] < f[i])
    <3>1. SUFFICES ASSUME NEW i \in (m + 1)..n, f[i - 1] < f[i] PROVE FALSE
      OBVIOUS
    <3>2. i \in 1..n /\ m < i
      BY <2>1, <3>1
    <3>3. PICK k \in 1..c : i = shown[k]
      BY <1>8, <3>1, <3>2
    <3>4. i = m \/ i < m
      BY <1>b, <2>1, <3>2, <3>3
    <3>5. QED
      BY <2>a, <3>2, <3>4
  <2>3. n \in 0..n /\ m <= n /\ m \in 0..n
    BY <2>1
  <2>4. f[m] = f[n]
    BY <2>1, <2>2, <2>3, FlatBetween
  <2>5. QED
    BY <2>1, <2>4
<1>13. ASSUME NEW k \in 1..(c - 1)
       PROVE  f[shown[k]] = f[shown[k + 1] - 1]
  <2>1. k \in 1..c /\ k + 1 \in 1..c /\ k < k + 1
    BY <1>9
  <2>2. PICK m \in 1..n, l \in 1..n : m = shown[k] /\ l = shown[k + 1] /\ m < l
    BY <1>5, <1>7, <2>1
  <2>a. m \in Int /\ l \in Int /\ 1 <= m /\ m <= n /\ 1 <= l /\ l <= n
    BY <2>2
  <2>3. \A i \in (m + 1)..(l - 1) : ~(f[i - 1] < f[i])
    <3>1. SUFFICES ASSUME NEW i \in (m + 1)..(l - 1), f[i - 1] < f[i] PROVE FALSE
      OBVIOUS
    <3>2. i \in 1..n /\ m < i /\ i < l
      BY <2>a, <3>1
    <3>3. PICK e \in 1..c : i = shown[e]
      BY <1>8, <3>1, <3>2
    <3>4. e = k \/ e = k + 1 \/ e < k \/ k + 1 < e
      BY <2>1, <3>3
    <3>5. i = m \/ i = l \/ i < m \/ l < i
      BY <1>5, <2>1, <2>2, <3>3, <3>4
    <3>6. QED
      BY <2>a, <3>2, <3>5
  <2>4. m \in 0..n /\ l - 1 \in 0..n /\ m <= l - 1
    <3>1. m < l
      BY <2>2
    <3>2. QED
      BY <2>a, <3>1
  <2>5. f[m] = f[l - 1]
    BY <2>3, <2>4, FlatBetween
  <2>6. QED
    BY <2>2, <2>5
<1>14. QED
  BY <1>5, <1>7, <1>9, <1>11, <1>12, <1>13 DEF Climbing

\* Pages that show D / a rows each show them all.
LEMMA PagesEnough ==
  ASSUME NEW q, q.w \in Sides, q.h \in Sides, NEW inner, inner[1] \in Sides, inner[2] \in Sides,
         NEW n \in PageCounts(q, inner)
  PROVE  n \in Nat /\ q.h * inner[1] <= n * (inner[2] * q.w)
<1>1. PICK H \in Nat, D \in Nat : H = q.h * inner[1] /\ D = inner[2] * q.w /\ D >= 1 /\ D \in Sides
  <2>1. PICK w \in Sides, h \in Sides, a \in Sides, b \in Sides : w = q.w /\ h = q.h /\ a = inner[1] /\ b = inner[2]
    OBVIOUS
  <2>2. /\ w \in Nat /\ h \in Nat /\ a \in Nat /\ b \in Nat /\ w >= 1 /\ b >= 1
    BY DEF Sides
  <2>3. h * a \in Nat /\ b * w \in Nat /\ b * w >= 1
    BY <2>2
  <2>4. QED
    BY <2>1, <2>3 DEF Sides
<1>2. PICK k : k = (H + D - 1) \div D
  OBVIOUS
<1>3. n = k \/ n = k + 1
  BY <1>1, <1>2 DEF PageCounts
<1>4. H <= H * D
  BY <1>1
<1>5. k \in Nat /\ H <= k * D
  BY <1>1, <1>2, <1>4, ShareWithin
<1>6. k * D <= (k + 1) * D
  BY <1>1, <1>5
<1>7. n \in Nat /\ H <= n * D
  BY <1>1, <1>3, <1>5, <1>6
<1>8. QED
  BY <1>1, <1>7

\* What PagesExact says of the slices that n pages show of a picture h high.
SlicesMeant(h, n, slices) ==
  /\ Len(slices) \in 1..n
  /\ slices[1][1] = 0 /\ slices[Len(slices)][2] = h
  /\ \A i \in 1..(Len(slices) - 1) : slices[i][2] = slices[i + 1][1]
  /\ \A i \in DOMAIN slices : slices[i][1] < slices[i][2]

\* The row at which page i ends, and page i + 1 begins.
RowTops(h, a, D, n) == [i \in 0..n |-> Lesser(h, Rounded(i * D, a))]

\* What is said of these rows.
RowsRight(h, a, D, n, f) ==
  /\ f \in [0..n -> Nat] /\ f[0] = 0 /\ f[n] = h /\ \A i \in 1..n : f[i - 1] <= f[i]
  /\ \A i \in 0..n : Rounded(Lesser(h * a, i * D), a) = f[i]

\* Where a page begins the one before it ended, as long as there are rows.
LEMMA RowsFollow ==
  ASSUME NEW h \in Sides, NEW a \in Sides, NEW D \in Nat, NEW n \in Nat, h * a <= n * D,
         NEW f, f = RowTops(h, a, D, n)
  PROVE  RowsRight(h, a, D, n, f)
<1>1. h \in Nat /\ a \in Nat /\ h >= 1 /\ a >= 1
  BY DEF Sides
<1>2. PICK H \in Nat : H = h * a
  BY <1>1
<1>a. f = [i \in 0..n |-> Lesser(h, Rounded(i * D, a))]
  BY DEF RowTops
<1>3. ASSUME NEW i \in 0..n
      PROVE  /\ i * D \in Nat /\ Rounded(i * D, a) \in Nat
             /\ f[i] = Lesser(h, Rounded(i * D, a)) /\ Rounded(Lesser(H, i * D), a) = f[i]
  <2>1. PICK x \in Nat : x = i * D
    OBVIOUS
  <2>2. PICK m \in Nat : m = Rounded(x, a)
    BY RoundedNear
  <2>3. x <= H => m <= h
    BY <1>1, <1>2, <2>2, RoundedAside
  <2>4. H <= x => h <= m
    BY <1>1, <1>2, <2>2, RoundedAside
  <2>5. Rounded(H, a) = h
    <3>1. Rounded(H, a) \in Nat
      BY RoundedNear
    <3>2. Rounded(H, a) <= h /\ h <= Rounded(H, a)
      BY <1>1, <1>2, RoundedAside
    <3>3. QED
      BY <1>1, <3>1, <3>2
  <2>6. f[i] = Lesser(h, m)
    BY <1>a, <2>1, <2>2
  <2>7. CASE x <= H
    <3>1. Lesser(H, x) = x
      BY <2>7 DEF Lesser
    <3>2. Lesser(h, m) = m
      BY <1>1, <2>3, <2>7 DEF Lesser
    <3>3. QED
      BY <2>1, <2>2, <2>6, <3>1, <3>2
  <2>8. CASE H < x
    <3>1. Lesser(H, x) = H
      BY <2>8 DEF Lesser
    <3>2. Lesser(h, m) = h
      BY <1>1, <2>4, <2>8 DEF Lesser
    <3>3. QED
      BY <2>1, <2>2, <2>5, <2>6, <3>1, <3>2
  <2>9. QED
    BY <2>1, <2>7, <2>8
<1>4. f \in [0..n -> Nat]
  <2>1. \A i \in 0..n : f[i] \in Nat
    <3>1. SUFFICES ASSUME NEW i \in 0..n PROVE f[i] \in Nat
      OBVIOUS
    <3>2. f[i] = Lesser(h, Rounded(i * D, a)) /\ Rounded(i * D, a) \in Nat
      BY <1>3
    <3>3. QED
      BY <1>1, <3>2 DEF Lesser
  <2>2. QED
    BY <1>a, <2>1
<1>5. f[0] = 0
  <2>1. 0 \in 0..n /\ 0 * D = 0 /\ 0 <= 0 * a
    BY <1>1
  <2>2. Rounded(0, a) <= 0 /\ Rounded(0, a) \in Nat
    BY <1>1, <2>1, RoundedAside, RoundedNear
  <2>3. Rounded(0, a) = 0
    BY <2>2
  <2>4. QED
    BY <1>1, <1>3, <2>1, <2>3 DEF Lesser
<1>6. f[n] = h
  <2>1. n \in 0..n /\ n * D \in Nat
    OBVIOUS
  <2>2. h <= Rounded(n * D, a) /\ Rounded(n * D, a) \in Nat
    BY <1>1, <2>1, RoundedAside, RoundedNear
  <2>3. QED
    BY <1>1, <1>3, <2>1, <2>2 DEF Lesser
<1>7. ASSUME NEW i \in 1..n
      PROVE  f[i - 1] <= f[i]
  <2>1. i \in 0..n /\ i - 1 \in 0..n
    OBVIOUS
  <2>2. PICK x \in Nat, y \in Nat : x = (i - 1) * D /\ y = i * D
    BY <2>1
  <2>3. x <= y
    <3>1. y = x + D
      BY <2>1, <2>2
    <3>2. QED
      BY <2>2, <3>1
  <2>4. Rounded(x, a) <= Rounded(y, a) /\ Rounded(x, a) \in Nat /\ Rounded(y, a) \in Nat
    BY <2>2, <2>3, RoundedOrdered, RoundedNear, Zenon
  <2>5. f[i - 1] = Lesser(h, Rounded(x, a)) /\ f[i] = Lesser(h, Rounded(y, a))
    BY <1>a, <2>1, <2>2
  <2>6. QED
    BY <1>1, <2>4, <2>5 DEF Lesser
<1>8. QED
  BY <1>2, <1>3, <1>4, <1>5, <1>6, <1>7 DEF RowsRight

\* Slices show every row once, from top to bottom.
LEMMA SlicesComplete ==
  ASSUME NEW q, q.w \in Sides, q.h \in Sides, NEW inner, inner[1] \in Sides, inner[2] \in Sides,
         NEW n \in Nat, q.h * inner[1] <= n * (inner[2] * q.w)
  PROVE  SlicesMeant(q.h, n, Slices(q, inner, n))
<1>1. PICK w \in Sides, h \in Sides, a \in Sides, b \in Sides : w = q.w /\ h = q.h /\ a = inner[1] /\ b = inner[2]
  OBVIOUS
<1>2. PICK D \in Nat : D = b * w /\ h * a <= n * D /\ \A i \in 0..n : i * b * w = i * D
  <2>1. w \in Nat /\ b \in Nat
    BY DEF Sides
  <2>2. PICK D \in Nat : D = b * w
    BY <2>1
  <2>3. \A i \in 0..n : i * b * w = i * D
    <3>1. SUFFICES ASSUME NEW i \in Nat PROVE i * b * w = i * (b * w)
      BY <2>2
    <3>2. QED
      BY <2>1
  <2>4. QED
    BY <1>1, <2>2, <2>3
<1>3. PICK f : f = RowTops(h, a, D, n) /\ f = [i \in 0..n |-> Lesser(h, Rounded(i * D, a))]
  BY DEF RowTops
<1>4. /\ f \in [0..n -> Nat] /\ f[0] = 0 /\ f[n] = h /\ \A i \in 1..n : f[i - 1] <= f[i]
      /\ \A i \in 0..n : Rounded(Lesser(h * a, i * D), a) = f[i]
  <2>1. RowsRight(h, a, D, n, f)
    BY <1>2, <1>3, RowsFollow, Zenon
  <2>2. QED
    BY <2>1 DEF RowsRight
<1> DEFINE top(i) == Lesser(q.h, Cut(i * inner[2] * q.w, inner[1]))
           bottom(i) == Rounded(Lesser(q.h * inner[1], i * inner[2] * q.w), inner[1])
           listed == Ascending({i \in 1..n : top(i - 1) < bottom(i)})
<1>5. Slices(q, inner, n) = [k \in DOMAIN listed |-> <<top(listed[k] - 1), bottom(listed[k])>>]
  BY Zenon DEF Slices
<1>6. \A i \in 0..n : top(i) = f[i] /\ bottom(i) = f[i]
  <2>1. SUFFICES ASSUME NEW i \in 0..n PROVE top(i) = f[i] /\ bottom(i) = f[i]
    OBVIOUS
  <2>2. i * inner[2] * q.w = i * D
    BY <1>1, <1>2
  <2>3. top(i) = Lesser(h, Rounded(i * D, a))
    BY <1>1, <2>2, Zenon DEF Cut
  <2>4. bottom(i) = Rounded(Lesser(h * a, i * D), a)
    BY <1>1, <2>2, Zenon
  <2>5. f[i] = Lesser(h, Rounded(i * D, a))
    BY <1>3, Zenon
  <2>6. QED
    BY <1>4, <2>3, <2>4, <2>5, Zenon
<1> HIDE DEF top, bottom
<1>7. PICK shown : shown = Ascending(Rising(f, n))
  OBVIOUS
<1>8. listed = shown
  <2>1. \A i \in 1..n : i \in 0..n /\ i - 1 \in 0..n
    OBVIOUS
  <2>2. \A i \in 1..n : top(i - 1) = f[i - 1] /\ bottom(i) = f[i]
    BY <1>6, <2>1
  <2>3. {i \in 1..n : top(i - 1) < bottom(i)} = {i \in 1..n : f[i - 1] < f[i]}
    BY <2>2
  <2>4. QED
    BY <1>7, <2>3, Zenon DEF Rising
<1> HIDE DEF listed
<1>9. PICK c \in 1..n :
        /\ DOMAIN shown = 1..c /\ \A k \in 1..c : shown[k] \in 1..n /\ f[shown[k] - 1] < f[shown[k]]
        /\ f[shown[1] - 1] = f[0] /\ f[shown[c]] = f[n]
        /\ \A k \in 1..(c - 1) : f[shown[k]] = f[shown[k + 1] - 1]
  <2>1. f[0] < f[n]
    BY <1>4 DEF Sides
  <2>2. QED
    <3>1. Climbing(f, n, shown)
      BY <1>4, <1>7, <2>1, Rises, Zenon
    <3>2. QED
      BY <3>1 DEF Climbing
<1>10. PICK slices : slices = Slices(q, inner, n) /\ slices = [k \in 1..c |-> <<f[shown[k] - 1], f[shown[k]]>>]
  <2>1. \A k \in 1..c : top(listed[k] - 1) = f[shown[k] - 1] /\ bottom(listed[k]) = f[shown[k]]
    <3>1. SUFFICES ASSUME NEW k \in 1..c PROVE top(listed[k] - 1) = f[shown[k] - 1] /\ bottom(listed[k]) = f[shown[k]]
      OBVIOUS
    <3>2. PICK m \in 1..n : m = shown[k] /\ m = listed[k]
      BY <1>8, <1>9
    <3>3. m \in 0..n /\ m - 1 \in 0..n
      BY <3>2
    <3>4. QED
      BY <1>6, <3>2, <3>3
  <2>2. DOMAIN listed = 1..c
    BY <1>8, <1>9
  <2>3. QED
    BY <1>5, <2>1, <2>2, Zenon
<1>11. c \in Nat /\ c >= 1 /\ c <= n
  BY <1>9
<1>12. Len(slices) = c /\ DOMAIN slices = 1..c
  <2>1. PICK T : T = {<<f[shown[k] - 1], f[shown[k]]>> : k \in 1..c}
    OBVIOUS
  <2>2. slices \in [1..c -> T]
    BY <1>10, <2>1, Zenon
  <2>3. QED
    BY <1>11, <2>2
<1>13. \A k \in 1..c : slices[k][1] = f[shown[k] - 1] /\ slices[k][2] = f[shown[k]]
  BY <1>10
<1>14. 1 \in 1..c /\ c \in 1..c
  BY <1>11
<1>15. slices[1][1] = 0 /\ slices[c][2] = h
  BY <1>4, <1>9, <1>13, <1>14
<1>16. \A k \in 1..(c - 1) : slices[k][2] = slices[k + 1][1]
  <2>1. \A k \in 1..(c - 1) : k \in 1..c /\ k + 1 \in 1..c
    BY <1>11
  <2>2. QED
    BY <1>9, <1>13, <2>1
<1>17. \A k \in 1..c : slices[k][1] < slices[k][2]
  BY <1>9, <1>13
<1>18. QED
  BY <1>1, <1>10, <1>11, <1>12, <1>15, <1>16, <1>17 DEF SlicesMeant

\* A picture s[1] / s[3] by s[2] / s[3] that shows a part of q, with so many
\* pixels, is on its page as PagesExact says.
PlacedRight(q, inner, s, crop, pixels) ==
  /\ \A i \in 1..2 : s[i] <= inner[i] * s[3]
  /\ crop[1] \in 1..q.w /\ crop[2] \in 1..q.h
  /\ 2 * Greater(s[1] * crop[2] - s[2] * crop[1], s[2] * crop[1] - s[1] * crop[2]) <= Greater(s[1], s[2])
  /\ \A i \in 1..2 : pixels[i] \in 1..crop[i]

\* What is cut to the shape of a page has it up to half a pixel.
LEMMA CroppedRight ==
  ASSUME NEW q, q.w \in Sides, q.h \in Sides, NEW a \in Sides, NEW b \in Sides,
         NEW crop, crop = Cropped(q, <<a, b>>), crop[1] # 0, crop[2] # 0
  PROVE  \E k \in Sides, l \in Sides :
           /\ crop = <<k, l>> /\ k \in 1..q.w /\ l \in 1..q.h
           /\ 2 * Greater(a * l - b * k, b * k - a * l) <= Greater(a, b)
<1>1. PICK w \in Nat, h \in Nat : w = q.w /\ h = q.h /\ w >= 1 /\ h >= 1
  BY DEF Sides
<1>2. a \in Nat /\ b \in Nat /\ a >= 1 /\ b >= 1
  BY DEF Sides
<1>3. CASE w * b > a * h
  <2>1. crop = <<Rounded(h * a, b), h>>
    BY <1>1, <1>3 DEF Cropped
  <2>2. PICK n \in Nat : n = h * a /\ n = a * h
    BY <1>1, <1>2
  <2>3. PICK m \in Nat : m = Rounded(n, b) /\ 2 * (m * b) <= 2 * n + b /\ 2 * n <= 2 * (m * b) + b
    BY RoundedNear
  <2>4. m <= w
    <3>1. n <= w * b
      BY <1>1, <1>2, <1>3, <2>2
    <3>2. QED
      BY <1>1, <2>2, <2>3, <3>1, RoundedAside
  <2>5. crop = <<m, h>> /\ m # 0
    BY <2>1, <2>2, <2>3
  <2>6. PICK x \in Nat : x = m * b /\ x = b * m
    BY <1>2, <2>3
  <2>7. 2 * Greater(n - x, x - n) <= b /\ b <= Greater(a, b)
    BY <1>2, <2>2, <2>3, <2>6 DEF Greater
  <2>8. Greater(n - x, x - n) \in Int /\ Greater(a, b) \in Int
    BY <1>2, <2>2, <2>6 DEF Greater
  <2>9. 2 * Greater(a * h - b * m, b * m - a * h) <= Greater(a, b)
    BY <1>2, <2>2, <2>6, <2>7, <2>8
  <2>10. m \in Sides /\ h \in Sides /\ m \in 1..q.w /\ h \in 1..q.h
    BY <1>1, <2>3, <2>4, <2>5 DEF Sides
  <2>11. QED
    BY <2>5, <2>9, <2>10
<1>4. CASE ~(w * b > a * h)
  <2>1. crop = <<w, Rounded(w * b, a)>>
    BY <1>1, <1>4 DEF Cropped
  <2>2. PICK n \in Nat : n = w * b /\ n = b * w
    BY <1>1, <1>2
  <2>3. PICK m \in Nat : m = Rounded(n, a) /\ 2 * (m * a) <= 2 * n + a /\ 2 * n <= 2 * (m * a) + a
    BY RoundedNear
  <2>4. m <= h
    <3>1. n <= h * a
      BY <1>1, <1>2, <1>4, <2>2
    <3>2. QED
      BY <1>1, <2>2, <2>3, <3>1, RoundedAside
  <2>5. crop = <<w, m>> /\ m # 0
    BY <2>1, <2>2, <2>3
  <2>6. PICK x \in Nat : x = m * a /\ x = a * m
    BY <1>2, <2>3
  <2>7. 2 * Greater(x - n, n - x) <= a /\ a <= Greater(a, b)
    BY <1>2, <2>2, <2>3, <2>6 DEF Greater
  <2>8. Greater(x - n, n - x) \in Int /\ Greater(a, b) \in Int
    BY <1>2, <2>2, <2>6 DEF Greater
  <2>9. 2 * Greater(a * m - b * w, b * w - a * m) <= Greater(a, b)
    BY <1>2, <2>2, <2>6, <2>7, <2>8
  <2>10. m \in Sides /\ w \in Sides /\ m \in 1..q.h /\ w \in 1..q.w
    BY <1>1, <2>3, <2>4, <2>5 DEF Sides
  <2>11. QED
    BY <2>5, <2>9, <2>10
<1>5. QED
  BY <1>3, <1>4

\* A whole picture that fits is within the margins and has its shape.
LEMMA WholeRight ==
  ASSUME NEW q, q.w \in Sides, q.h \in Sides, NEW a \in Sides, NEW b \in Sides,
         NEW ratio, ratio = Ratio(q, <<a, b>>, "fit")
  PROVE  \E x \in Nat, y \in Nat, d \in Sides :
           /\ x = ratio[1] * q.w /\ y = ratio[1] * q.h /\ d = ratio[2]
           /\ x <= a * d /\ y <= b * d /\ x * q.h = y * q.w
<1>1. PICK w \in Nat, h \in Nat : w = q.w /\ h = q.h /\ w >= 1 /\ h >= 1 /\ w \in Sides /\ h \in Sides
  BY DEF Sides
<1>2. a \in Nat /\ b \in Nat /\ a >= 1 /\ b >= 1
  BY DEF Sides
<1>3. CASE a * h <= b * w
  <2>1. ratio = <<a, w>>
    BY <1>1, <1>3 DEF Ratio
  <2>2. ratio[1] = a /\ ratio[2] = w
    BY <2>1
  <2>3. a * w \in Nat /\ a * h \in Nat /\ (a * w) * h = (a * h) * w /\ a * w <= a * w
    BY <1>1, <1>2
  <2>4. QED
    BY <1>1, <1>3, <2>2, <2>3
<1>4. CASE ~(a * h <= b * w)
  <2>1. ratio = <<b, h>>
    BY <1>1, <1>4 DEF Ratio
  <2>2. ratio[1] = b /\ ratio[2] = h
    BY <2>1
  <2>3. b * w \in Nat /\ b * h \in Nat /\ (b * w) * h = (b * h) * w /\ b * h <= b * h /\ b * w <= a * h
    BY <1>1, <1>2, <1>4
  <2>4. QED
    BY <1>1, <2>2, <2>3
<1>5. QED
  BY <1>3, <1>4

\* What is embedded has pixels, and no more than there were.
LEMMA DownsampledWithin ==
  ASSUME NEW k \in Sides, NEW l \in Sides, NEW x \in Nat, NEW y \in Nat, NEW d \in Sides, NEW dpi \in Sides,
         NEW shown, shown[1] = x, shown[2] = y, NEW s \in Downsampled(<<k, l>>, shown, d, dpi)
  PROVE  s[1] \in 1..k /\ s[2] \in 1..l
<1>1. d \in Nat /\ d >= 1 /\ dpi \in Nat
  BY DEF Sides
<1>2. x * dpi \in Nat /\ y * dpi \in Nat /\ d * 72 \in Sides
  BY <1>1 DEF Sides
<1>3. PICK m \in Nat, n \in Nat : m = Rounded(x * dpi, d * 72) /\ n = Rounded(y * dpi, d * 72)
  BY <1>2, RoundedNear
<1>4. Greater(1, m) \in Sides /\ Greater(1, n) \in Sides
  BY <1>3 DEF Greater, Sides
<1>5. s \in Thumbnails(<<k, l>>, <<Greater(1, m), Greater(1, n)>>)
  BY <1>3 DEF Downsampled
<1>6. QED
  BY <1>4, <1>5, ThumbnailsWithin

\* The room within the margins of a page.
LEMMA PageRoom ==
  ASSUME NEW q, NEW sides \in Sides \X Sides, NEW rotate \in BOOLEAN, NEW margin \in Nat,
         NEW page, page = Box(q, sides, rotate)
  PROVE  page[1] - 2 * margin \in Int /\ page[2] - 2 * margin \in Int
<1>1. PICK a \in Nat, b \in Nat : sides = <<a, b>>
  BY DEF Sides
<1>2. page = <<a, b>> \/ page = <<b, a>>
  BY <1>1 DEF Box
<1>3. QED
  BY <1>2

\* What PagesExact says of a request r for a document and its reply.
PdfMeant(r, pdf) ==
  LET q == Upright(r.picture) IN
  IF "slices" \in DOMAIN pdf
  THEN /\ Len(pdf.slices) \in 1..MaxPages
       /\ pdf.slices[1][1] = 0 /\ pdf.slices[Len(pdf.slices)][2] = q.h
       /\ \A i \in 1..(Len(pdf.slices) - 1) : pdf.slices[i][2] = pdf.slices[i + 1][1]
       /\ \A i \in DOMAIN pdf.slices : pdf.slices[i][1] < pdf.slices[i][2]
  ELSE LET s == pdf.shown IN
       /\ \A i \in 1..2 : s[i] <= (pdf.page[i] - 2 * (IF r.page = NoBox THEN 0 ELSE r.margin)) * s[3]
       /\ pdf.crop[1] \in 1..q.w /\ pdf.crop[2] \in 1..q.h
       /\ 2 * Greater(s[1] * pdf.crop[2] - s[2] * pdf.crop[1], s[2] * pdf.crop[1] - s[1] * pdf.crop[2]) <= Greater(s[1], s[2])
       /\ \A i \in 1..2 : pdf.pixels[i] \in 1..pdf.crop[i]

\* A picture on a page of its own.
LEMMA OwnPageIsMeant ==
  ASSUME NEW r, r.picture \in Picturing, r.page = NoBox, r.most \in Sides, NEW pdf \in PdfReplies(r.picture, r)
  PROVE  PdfMeant(r, pdf)
<1>1. PICK q : q = Upright(r.picture) /\ q.w \in Sides /\ q.h \in Sides
  BY UprightPicture
<1>2. PICK w \in Sides, h \in Sides : w = q.w /\ h = q.h
  BY <1>1
<1>3. PICK s \in Thumbnails(<<w, h>>, <<r.most, r.most>>) :
        pdf = [refused |-> "none", page |-> <<w, h>>, shown |-> <<w, h, 1>>, crop |-> <<w, h>>, pixels |-> s]
  <2>1. PdfReplies(r.picture, r) =
          {[refused |-> "none", page |-> <<w, h>>, shown |-> <<w, h, 1>>, crop |-> <<w, h>>, pixels |-> s] :
             s \in Thumbnails(<<w, h>>, <<r.most, r.most>>)}
    BY <1>1, <1>2, Zenon DEF PdfReplies
  <2>2. QED
    BY <2>1
<1>4. s[1] \in 1..w /\ s[2] \in 1..h
  BY ThumbnailsWithin
<1>5. w \in Nat /\ h \in Nat /\ w >= 1 /\ h >= 1
  BY DEF Sides
<1>6. /\ "slices" \notin DOMAIN pdf /\ pdf.page = <<w, h>> /\ pdf.shown = <<w, h, 1>> /\ pdf.crop = <<w, h>> /\ pdf.pixels = s
  BY <1>3
<1>7. /\ pdf.shown[1] = w /\ pdf.shown[2] = h /\ pdf.shown[3] = 1 /\ pdf.crop[1] = w /\ pdf.crop[2] = h
      /\ pdf.page[1] = w /\ pdf.page[2] = h
  BY <1>6
<1>8. \A i \in 1..2 : pdf.shown[i] <= (pdf.page[i] - 2 * 0) * pdf.shown[3]
  BY <1>5, <1>7
<1>9. 2 * Greater(w * h - h * w, h * w - w * h) <= Greater(w, h)
  <2>1. w * h - h * w = 0 /\ h * w - w * h = 0
    BY <1>5
  <2>2. QED
    BY <1>5, <2>1 DEF Greater
<1>10. w \in 1..w /\ h \in 1..h /\ \A i \in 1..2 : pdf.pixels[i] \in 1..pdf.crop[i]
  BY <1>4, <1>5, <1>6, <1>7
<1>11. QED
  BY <1>1, <1>2, <1>6, <1>7, <1>8, <1>9, <1>10 DEF PdfMeant

\* A picture that is cut into pages.
LEMMA SlicedIsMeant ==
  ASSUME NEW r, NEW q, q = Upright(r.picture), q.w \in Sides, q.h \in Sides,
         NEW inner, inner[1] \in Sides, inner[2] \in Sides, MaxPages \in Nat,
         NEW n \in PageCounts(q, inner), n <= MaxPages,
         NEW pdf, pdf = [refused |-> "none", slices |-> Slices(q, inner, n)]
  PROVE  PdfMeant(r, pdf)
<1>1. PICK slices : slices = Slices(q, inner, n)
  OBVIOUS
<1>2. n \in Nat /\ SlicesMeant(q.h, n, slices)
  BY <1>1, PagesEnough, SlicesComplete
<1>3. "slices" \in DOMAIN pdf /\ pdf.slices = slices
  BY <1>1
<1>4. Len(slices) \in 1..MaxPages
  BY <1>2 DEF SlicesMeant
<1>5. QED
  BY <1>2, <1>3, <1>4, Zenon DEF PdfMeant, SlicesMeant

\* A picture that is on one page.
LEMMA PlacedIsMeant ==
  ASSUME NEW r, NEW q, q = Upright(r.picture), r.page # NoBox, NEW page,
         NEW inner, inner[1] = page[1] - 2 * r.margin, inner[2] = page[2] - 2 * r.margin,
         NEW shown, NEW crop, NEW s, PlacedRight(q, inner, shown, crop, s),
         NEW pdf, pdf = [refused |-> "none", page |-> page, shown |-> shown, crop |-> crop, pixels |-> s]
  PROVE  PdfMeant(r, pdf)
<1>1. "slices" \notin DOMAIN pdf /\ pdf.page = page /\ pdf.shown = shown /\ pdf.crop = crop /\ pdf.pixels = s
  OBVIOUS
<1>2. \A i \in 1..2 : shown[i] <= (page[i] - 2 * r.margin) * shown[3]
  <2>1. \A i \in 1..2 : inner[i] = page[i] - 2 * r.margin
    OBVIOUS
  <2>2. QED
    BY <2>1 DEF PlacedRight
<1>3. QED
  BY <1>1, <1>2, Zenon DEF PdfMeant, PlacedRight

\* Filling the page or fitting on it.
LEMMA OnePageRight ==
  ASSUME NEW q, q.w \in Sides, q.h \in Sides, NEW a \in Sides, NEW b \in Sides, NEW inner, inner = <<a, b>>,
         NEW fill \in BOOLEAN, NEW dpi \in Sides, NEW placed, placed = OnPage(q, inner, fill),
         placed.crop[1] # 0, placed.crop[2] # 0,
         NEW s \in Downsampled(placed.crop, placed.shown, placed.shown[3], dpi)
  PROVE  PlacedRight(q, inner, placed.shown, placed.crop, s)
<1>a. PICK ratio : ratio = Ratio(q, inner, "fit")
  OBVIOUS
<1>b. PICK crop, shown : crop = placed.crop /\ shown = placed.shown
  OBVIOUS
<1>1. a \in Nat /\ b \in Nat /\ a >= 1 /\ b >= 1 /\ inner[1] = a /\ inner[2] = b /\ 1 \in Sides
  BY DEF Sides
<1>2. CASE fill
  <2>1. crop = Cropped(q, <<a, b>>) /\ shown = <<a, b, 1>>
    BY <1>1, <1>2, <1>b DEF OnPage
  <2>2. PICK k \in Sides, l \in Sides :
          /\ crop = <<k, l>> /\ k \in 1..q.w /\ l \in 1..q.h
          /\ 2 * Greater(a * l - b * k, b * k - a * l) <= Greater(a, b)
    BY <1>b, <2>1, CroppedRight
  <2>3. shown[1] = a /\ shown[2] = b /\ shown[3] = 1 /\ crop[1] = k /\ crop[2] = l
    BY <2>1, <2>2
  <2>4. s[1] \in 1..k /\ s[2] \in 1..l
    <3>1. s \in Downsampled(<<k, l>>, shown, 1, dpi)
      BY <1>b, <2>2, <2>3
    <3>2. QED
      BY <1>1, <2>3, <3>1, DownsampledWithin
  <2>5. \A i \in 1..2 : shown[i] <= inner[i] * shown[3] /\ s[i] \in 1..crop[i]
    BY <1>1, <2>3, <2>4
  <2>6. QED
    BY <1>b, <2>2, <2>3, <2>5 DEF PlacedRight
<1>3. CASE ~fill
  <2>1. PICK x \in Nat, y \in Nat, d \in Sides :
          /\ x = ratio[1] * q.w /\ y = ratio[1] * q.h /\ d = ratio[2]
          /\ x <= a * d /\ y <= b * d /\ x * q.h = y * q.w
    BY <1>a, WholeRight
  <2>2. crop = <<q.w, q.h>> /\ shown = <<x, y, d>>
    BY <1>3, <1>a, <1>b, <2>1 DEF OnPage
  <2>3. shown[1] = x /\ shown[2] = y /\ shown[3] = d /\ crop[1] = q.w /\ crop[2] = q.h
    BY <2>2
  <2>4. s[1] \in 1..q.w /\ s[2] \in 1..q.h
    <3>1. s \in Downsampled(<<q.w, q.h>>, shown, d, dpi)
      BY <1>b, <2>2, <2>3
    <3>2. QED
      BY <2>3, <3>1, DownsampledWithin
  <2>5. \A i \in 1..2 : shown[i] <= inner[i] * shown[3] /\ s[i] \in 1..crop[i]
    BY <1>1, <2>1, <2>3, <2>4
  <2>6. 2 * Greater(x * q.h - y * q.w, y * q.w - x * q.h) <= Greater(x, y)
    <3>1. PICK n \in Nat : n = x * q.h /\ n = y * q.w
      BY <2>1 DEF Sides
    <3>2. n - n = 0 /\ Greater(0, 0) = 0 /\ Greater(x, y) >= 0
      BY <2>1, <3>1 DEF Greater
    <3>3. QED
      BY <3>1, <3>2
  <2>7. q.w \in 1..q.w /\ q.h \in 1..q.h
    BY DEF Sides
  <2>8. QED
    BY <1>b, <2>3, <2>5, <2>6, <2>7 DEF PlacedRight
<1>4. QED
  BY <1>2, <1>3

\* A document is made as PagesExact says.
LEMMA PdfIsMeant ==
  ASSUME MaxPages \in Nat, NEW r, r.picture \in Picturing, r.page \in Boxes, r.margin \in Nat, r.rotate \in BOOLEAN,
         r.dpi \in Sides, r.most \in Sides, NEW pdf \in PdfReplies(r.picture, r), pdf.refused = "none"
  PROVE  PdfMeant(r, pdf)
<1>1. CASE r.page = NoBox
  BY <1>1, OwnPageIsMeant
<1>2. CASE r.page # NoBox
  <2>1. r.page \in Sides \X Sides
    BY <1>2 DEF Boxes
  <2>2. PICK q : q = Upright(r.picture) /\ q.w \in Sides /\ q.h \in Sides
    BY UprightPicture
  <2>3. PICK page : page = Box(q, r.page, r.rotate)
    OBVIOUS
  <2>4. PICK a, b, inner : a \in Int /\ b \in Int /\ a = page[1] - 2 * r.margin /\ b = page[2] - 2 * r.margin /\ inner = <<a, b>>
    BY <2>1, <2>3, PageRoom
  <2>5. PICK placed : placed = OnPage(q, inner, r.scale = "fill")
    OBVIOUS
  <2>6. PICK fill \in BOOLEAN : fill = (r.scale = "fill")
    OBVIOUS
  <2>7. pdf \in PageReplies(q, page, inner, r)
    <3>1. inner = <<page[1] - 2 * r.margin, page[2] - 2 * r.margin>>
      BY <2>4
    <3>2. QED
      BY <1>2, <2>2, <2>3, <3>1, Zenon DEF PdfReplies
  <2>9. pdf \in IF inner[1] <= 0 \/ inner[2] <= 0 THEN {[refused |-> "processing"]}
                ELSE IF r.paginate
                THEN {IF n > MaxPages THEN [refused |-> "limit"]
                      ELSE [refused |-> "none", slices |-> Slices(q, inner, n)] : n \in PageCounts(q, inner)}
                ELSE IF placed.crop[1] = 0 \/ placed.crop[2] = 0 THEN {[refused |-> "processing"]}
                ELSE {[refused |-> "none", page |-> page, shown |-> placed.shown, crop |-> placed.crop, pixels |-> s] :
                        s \in Downsampled(placed.crop, placed.shown, placed.shown[3], r.dpi)}
    BY <2>5, <2>7, SMTT(20) DEF PageReplies
  <2>10. \A reason : pdf # [refused |-> reason] \/ reason = "none"
    OBVIOUS
  <2>11. inner[1] = a /\ inner[2] = b
    BY <2>4
  <2>12. a \in Sides /\ b \in Sides
    <3>1. ~(inner[1] <= 0 \/ inner[2] <= 0)
      BY <2>9, <2>10
    <3>2. QED
      BY <2>4, <2>11, <3>1 DEF Sides
  <2>13. ~(inner[1] <= 0 \/ inner[2] <= 0)
    BY <2>11, <2>12 DEF Sides
  <2>14. CASE r.paginate
    <3>1. PICK n \in PageCounts(q, inner) :
            pdf = IF n > MaxPages THEN [refused |-> "limit"] ELSE [refused |-> "none", slices |-> Slices(q, inner, n)]
      BY <2>9, <2>13, <2>14
    <3>2. ~(n > MaxPages)
      BY <2>10, <3>1
    <3>3. n \in Nat
      BY <2>2, <2>11, <2>12, PagesEnough
    <3>4. n <= MaxPages
      BY <3>2, <3>3
    <3>5. pdf = [refused |-> "none", slices |-> Slices(q, inner, n)]
      BY <3>1, <3>2, Zenon
    <3>6. QED
      BY <2>2, <2>11, <2>12, <3>4, <3>5, SlicedIsMeant, Zenon
  <2>15. CASE ~r.paginate
    <3>1. placed.crop[1] # 0 /\ placed.crop[2] # 0
      BY <2>9, <2>10, <2>13, <2>15
    <3>2. PICK s \in Downsampled(placed.crop, placed.shown, placed.shown[3], r.dpi) :
            pdf = [refused |-> "none", page |-> page, shown |-> placed.shown, crop |-> placed.crop, pixels |-> s]
      BY <2>9, <2>13, <2>15, <3>1
    <3>4. PlacedRight(q, inner, placed.shown, placed.crop, s)
      <4>1. inner = <<a, b>> /\ placed = OnPage(q, inner, fill)
        BY <2>4, <2>5, <2>6
      <4>2. QED
        BY <2>2, <2>12, <3>1, <3>2, <4>1, OnePageRight, Zenon
    <3>5. inner[1] = page[1] - 2 * r.margin /\ inner[2] = page[2] - 2 * r.margin
      BY <2>4, <2>11
    <3>6. QED
      BY <1>2, <2>2, <3>2, <3>4, <3>5, PlacedIsMeant, Zenon
  <2>16. QED
    BY <2>14, <2>15
<1>3. QED
  BY <1>1, <1>2

\* A picture that is resized to a canvas is on it as CanvasExact says.
LEMMA ResizeIsMeant ==
  ASSUME NEW r, r.picture \in Picturing, r.width \in Nat, r.box \in Boxes, r.margin \in Nat, r.rotate \in BOOLEAN,
         NEW reply \in ResizeReplies(r), reply.refused = "none", reply.canvas # << >>
  PROVE  CanvasMeant(r, reply.scaled, reply.canvas[1])
<1>1. \E refused :
        reply \in IF refused # "none" THEN {[refused |-> refused]}
                  ELSE {[refused |-> "none", scaled |-> q, canvas |-> << >>] :
                          q \in IF r.box = NoBox THEN Widened(r.picture, r.width) ELSE {}}
                       \cup UNION {{[refused |-> "none", scaled |-> q, canvas |-> <<c>>] : c \in OnCanvas(q, r)} :
                                     q \in IF r.box = NoBox THEN {} ELSE Widened(r.picture, r.width)}
  BY Zenon DEF ResizeReplies
<1>2. \A refused : reply # [refused |-> refused] \/ refused = "none"
  OBVIOUS
<1>3. \A q : reply # [refused |-> "none", scaled |-> q, canvas |-> << >>]
  OBVIOUS
<1>a. PICK q \in IF r.box = NoBox THEN {} ELSE Widened(r.picture, r.width) :
        \E c \in OnCanvas(q, r) : reply = [refused |-> "none", scaled |-> q, canvas |-> <<c>>]
  BY <1>1, <1>2, <1>3
<1>4. PICK c \in OnCanvas(q, r) : reply = [refused |-> "none", scaled |-> q, canvas |-> <<c>>]
  BY <1>a
<1>5. r.box # NoBox /\ q \in Widened(r.picture, r.width)
  BY <1>a
<1>6. r.box \in Sides \X Sides /\ q \in Picturing
  BY <1>5, WidenedPicture DEF Boxes
<1>7. CanvasMeant(r, q, c)
  BY <1>4, <1>6, CanvasIsMeant
<1>8. reply.scaled = q /\ reply.canvas[1] = c
  BY <1>4
<1>9. QED
  BY <1>7, <1>8

\* What WidthExact says of a conversion r and its reply.
WidthMeant(r, reply) ==
  /\ reply.reported = reply.written \/ (r.format = "jpeg" /\ r.picture.turned)
  /\ r.width # 0 => r.width = reply.reported[1]

\* A picture is converted as WidthExact and PagesExact say.
LEMMA ConvertIsMeant ==
  ASSUME MaxPages \in Nat, NEW r, r.picture \in Picturing, r.width \in Nat,
         r.format = "pdf" => /\ r.page \in Boxes /\ r.margin \in Nat /\ r.rotate \in BOOLEAN
                             /\ r.dpi \in Sides /\ r.most \in Sides,
         NEW reply \in ConvertReplies(r), reply.refused = "none"
  PROVE  /\ r.format # "pdf" => WidthMeant(r, reply)
         /\ r.format = "pdf" => PdfMeant(r, reply)
<1>1. PICK p : p = r.picture
  OBVIOUS
<1> DEFINE written(q) == IF r.format = "jpeg" THEN Upright(q) ELSE q
<1>2. \E refused :
        reply \in IF refused # "none" THEN {[refused |-> refused]}
                  ELSE IF r.format = "pdf" THEN PdfReplies(r.picture, r)
                  ELSE {[refused |-> "none", scaled |-> q, reported |-> <<q.w, q.h>>, written |-> <<written(q).w, written(q).h>>] :
                          q \in Widened(r.picture, r.width)}
  BY Zenon DEF ConvertReplies
<1>3. \A refused : reply # [refused |-> refused] \/ refused = "none"
  OBVIOUS
<1>4. CASE r.format = "pdf"
  <2>1. reply \in PdfReplies(r.picture, r)
    BY <1>2, <1>3, <1>4
  <2>2. QED
    BY <1>4, <2>1, PdfIsMeant
<1>5. CASE r.format # "pdf"
  <2>1. PICK q \in Widened(r.picture, r.width) :
          reply = [refused |-> "none", scaled |-> q, reported |-> <<q.w, q.h>>, written |-> <<written(q).w, written(q).h>>]
    BY <1>2, <1>3, <1>5
  <2>2. q \in Picturing /\ (r.width # 0 => q.w = r.width) /\ q.turned = r.picture.turned
    BY WidenedPicture
  <2>3. reply.reported = <<q.w, q.h>> /\ reply.written = <<written(q).w, written(q).h>>
    BY <2>1
  <2>4. (r.format = "jpeg" /\ r.picture.turned) \/ (written(q).w = q.w /\ written(q).h = q.h)
    BY <2>2, UprightPicture
  <2>5. reply.reported[1] = q.w
    BY <2>3
  <2>6. WidthMeant(r, reply)
    BY <2>2, <2>3, <2>4, <2>5 DEF WidthMeant
  <2>7. QED
    BY <1>5, <2>6
<1>6. QED
  BY <1>4, <1>5

-----------------------------------------------------------------------------
\* The reply is one of those to the request.
ImageInv ==
  /\ call[1] = "resize" => call[2] \in Resizings /\ (result # << >> => result[1] \in ResizeReplies(call[2]))
  /\ call[1] = "target" => call[2] \in Targets /\ (result # << >> => result[1] = TargetReply(call[2]))
  /\ call[1] = "convert" => call[2] \in Conversions /\ (result # << >> => result[1] \in ConvertReplies(call[2]))
  /\ call[1] = "scan" => call[2] \in Scans /\ (result # << >> => result[1] = ScanReply(call[2]))

\* Whatever has been asked, the reply is one of its operation.
LEMMA ImageInvariant == ImageSpec => []ImageInv
<1>1. ImageCalled => ImageInv
  BY DEF ImageCalled, Called, ImageInv
<1>2. ImageInv /\ [ImageAnswers]_callVars => ImageInv'
  <2>1. SUFFICES ASSUME ImageInv, [ImageAnswers]_callVars PROVE ImageInv'
    OBVIOUS
  <2>2. CASE UNCHANGED callVars
    BY <2>1, <2>2 DEF ImageInv, callVars
  <2>3. CASE AnswersAny("resize", ResizeReplies)
    BY <2>1, <2>3 DEF ImageInv, AnswersAny
  <2>4. CASE Answers("target", TargetReply)
    BY <2>1, <2>4 DEF ImageInv, Answers
  <2>5. CASE AnswersAny("convert", ConvertReplies)
    BY <2>1, <2>5 DEF ImageInv, AnswersAny
  <2>6. CASE Answers("scan", ScanReply)
    BY <2>1, <2>6 DEF ImageInv, Answers
  <2>7. CASE Answers("cutout", CutoutReply)
    BY <2>1, <2>7 DEF ImageInv, Answers
  <2>8. QED
    BY <2>1, <2>2, <2>3, <2>4, <2>5, <2>6, <2>7 DEF ImageAnswers
<1>3. QED
  BY <1>1, <1>2, PTL DEF ImageSpec

\* For pictures of any size and encoders that make files of any size: canvases,
\* targets, pages and scans are as ImagesExact says (_resize_to_canvas,
\* _encode_under_target, _make_pdf, _rasterize_impl).
THEOREM ImagesMadeExact ==
  ASSUME ImageIsTyped
  PROVE  ImageSpec => []ImagesExact
<1>1. ASSUME ImageInv
      PROVE  CanvasExact
  <2>1. SUFFICES ASSUME Done("resize"), result[1].canvas # << >>
                 PROVE  CanvasMeant(call[2], result[1].scaled, result[1].canvas[1])
    BY Zenon DEF CanvasExact, CanvasMeant
  <2>2. PICK r \in Resizings : r = call[2] /\ result[1] \in ResizeReplies(r) /\ result[1].refused = "none"
    BY <1>1, <2>1 DEF ImageInv, Done, Answered
  <2>3. r.picture \in Picturing /\ r.width \in Nat /\ r.box \in Boxes /\ r.margin \in Nat /\ r.rotate \in BOOLEAN
    BY ImageIsTyped, Zenon DEF ImageIsTyped
  <2>4. CanvasMeant(r, result[1].scaled, result[1].canvas[1])
    BY <2>1, <2>2, <2>3, ResizeIsMeant
  <2>5. QED
    BY <2>2, <2>4, Zenon
<1>2. ASSUME ImageInv
      PROVE  TargetExact
  <2>1. SUFFICES ASSUME Answered("target") PROVE TargetMeant(call[2], result[1])
    BY Zenon DEF TargetExact, TargetMeant
  <2>2. PICK t \in Targets : t = call[2] /\ result[1] = TargetReply(t)
    BY <1>2, <2>1 DEF ImageInv, Answered
  <2>3. Encoder(t) /\ MaxProbes \in Nat /\ HighQuality - LowQuality < Reach[MaxProbes]
    BY ImageIsTyped DEF ImageIsTyped, Encoder
  <2>4. TargetMeant(t, TargetReply(t))
    BY <2>3, TargetIsMeant
  <2>5. QED
    BY <2>2, <2>4, Zenon
<1>3. ASSUME ImageInv
      PROVE  PagesExact /\ WidthExact
  <2>1. SUFFICES ASSUME Done("convert")
                 PROVE  /\ call[2].format # "pdf" => WidthMeant(call[2], result[1])
                        /\ call[2].format = "pdf" => PdfMeant(call[2], result[1])
    BY Zenon DEF PagesExact, PdfMeant, WidthExact, WidthMeant
  <2>2. PICK r \in Conversions : r = call[2] /\ result[1] \in ConvertReplies(r) /\ result[1].refused = "none"
    BY <1>3, <2>1 DEF ImageInv, Done, Answered
  <2>3. /\ MaxPages \in Nat /\ r.picture \in Picturing /\ r.width \in Nat
        /\ r.format = "pdf" => /\ r.page \in Boxes /\ r.margin \in Nat /\ r.rotate \in BOOLEAN
                               /\ r.dpi \in Sides /\ r.most \in Sides
    BY ImageIsTyped DEF ImageIsTyped
  <2>4. /\ r.format # "pdf" => WidthMeant(r, result[1])
        /\ r.format = "pdf" => PdfMeant(r, result[1])
    BY <2>2, <2>3, ConvertIsMeant
  <2>5. QED
    BY <2>2, <2>4, Zenon
<1>4. ASSUME ImageInv
      PROVE  ScanExact
  <2>1. SUFFICES ASSUME Answered("scan") PROVE ScanMeant(call[2], result[1])
    BY Zenon DEF ScanExact, ScanMeant
  <2>2. PICK s \in Scans : s = call[2] /\ result[1] = ScanReply(s)
    BY <1>4, <2>1 DEF ImageInv, Answered
  <2>3. MaxOutput \in Nat /\ s.pages \in Seq(Nat)
    BY ImageIsTyped DEF ImageIsTyped
  <2>4. ScanMeant(s, ScanReply(s))
    BY <2>3, ScanIsMeant
  <2>5. QED
    BY <2>2, <2>4, Zenon
<1>5. ImageInv => ImagesExact
  BY <1>1, <1>2, <1>3, <1>4 DEF ImagesExact
<1>6. QED
  BY <1>5, ImageInvariant, PTL
=============================================================================
