--------------------------- MODULE RegistryProofs ---------------------------
(***************************************************************************)
(* For any domains, top-level domains, TTL and any number of overlapping   *)
(* lookups: the types, that outages are not taken for answers, and that    *)
(* the mapping is trusted only while its document is young enough.  For    *)
(* any zones, requests and number of callers of Lookups: what is answered  *)
(* and what is cached is true of the name it is about.                     *)
(***************************************************************************)
EXTENDS Registry, Lookups, FiniteSetTheorems, SequenceTheorems, WellFoundedInduction, TLAPS

\* A lookup has read the clock before now.  What a fetch stored is stamped no
\* later than its document: the clock is read before the request is sent.
Stamps ==
  /\ \A d \in Domains : began[d] <= now
  /\ ~bumped => fetchedAt <= served

Invariant == TypeOK /\ Stamps /\ TruthfulAnswer

\* Nothing was asked or fetched yet.
LEMMA Initially == Init => Invariant
<1> SUFFICES ASSUME Init PROVE Invariant
  OBVIOUS
<1>1. TypeOK
  <2>1. now \in 1..MaxTime /\ fetchedAt \in 0..now /\ served \in 0..now
        /\ began \in [Domains -> 0..MaxTime]
    BY TimeAssumption DEF Init
  <2>2. bumped \in BOOLEAN
    BY DEF Init
  <2>3. QED
    BY <2>1, <2>2 DEF Init, TypeOK
<1>2. Stamps
  BY DEF Init, Stamps
<1>3. TruthfulAnswer
  BY DEF Init, TruthfulAnswer
<1>4. QED
  BY <1>1, <1>2, <1>3 DEF Invariant

(***************************************************************************)
(* The end of a lookup, of one provider or of both.                        *)
(***************************************************************************)
LEMMA EndStep ==
  ASSUME Invariant, NEW d \in Domains, NEW o \in Outcomes,
         o = "record" => d \in Registered, o = "RegistryNotFound" => d \notin Registered, End(d, o)
  PROVE  /\ pc' \in [Domains -> {"idle", "bootstrap", "registry", "whois"}]
         /\ answer' \in [Domains -> {"none", "registered", "available", "unknown", "error"}]
         /\ TruthfulAnswer'
<1>1. Availability(o) \in {"registered", "available", "unknown", "error"}
  BY DEF Availability
<1>2. /\ Availability(o) = "available" => d \notin Registered
      /\ Availability(o) = "registered" => d \in Registered
  BY DEF Availability, Outcomes
<1>3. QED
  BY <1>1, <1>2 DEF End, Goto, Invariant, TypeOK, TruthfulAnswer

\* An answer of RDAP is truthful.
LEMMA RdapStep ==
  ASSUME Invariant, NEW d \in Domains, NEW o \in Outcomes,
         o = "record" => d \in Registered, o = "RegistryNotFound" => d \notin Registered, RdapEnds(d, o)
  PROVE  /\ pc' \in [Domains -> {"idle", "bootstrap", "registry", "whois"}]
         /\ answer' \in [Domains -> {"none", "registered", "available", "unknown", "error"}]
         /\ TruthfulAnswer'
<1>1. CASE o = "WHOISUnavailable"
  BY <1>1 DEF RdapEnds, Goto, Invariant, TypeOK, TruthfulAnswer
<1>2. CASE o # "WHOISUnavailable"
  BY <1>2, EndStep DEF RdapEnds
<1>3. QED
  BY <1>1, <1>2

\* Choosing between RDAP and WHOIS answers nothing untrue.
LEMMA RouteStep ==
  ASSUME Invariant, NEW d \in Domains, NEW known, Route(d, known)
  PROVE  /\ pc' \in [Domains -> {"idle", "bootstrap", "registry", "whois"}]
         /\ answer' \in [Domains -> {"none", "registered", "available", "unknown", "error"}]
         /\ TruthfulAnswer'
<1>1. CASE TldOf[d] \in known
  BY <1>1 DEF Route, Goto, Invariant, TypeOK, TruthfulAnswer
<1>2. CASE TldOf[d] \notin known
  BY <1>2, RdapStep DEF Route, Outcomes
<1>3. QED
  BY <1>1, <1>2

(***************************************************************************)
(* The steps of a lookup.                                                  *)
(***************************************************************************)
LEMMA LoadedStep ==
  ASSUME Invariant, NEW d \in Domains, NEW known \in SUBSET Tlds, NEW at \in began[d]..now,
         Loaded(d, known, at)
  PROVE  Invariant'
<1>1. /\ pc' \in [Domains -> {"idle", "bootstrap", "registry", "whois"}]
      /\ answer' \in [Domains -> {"none", "registered", "available", "unknown", "error"}]
      /\ TruthfulAnswer'
  BY RouteStep DEF Loaded
<1>2. /\ began[d] \in 0..MaxTime /\ began[d] <= now /\ now \in 1..MaxTime
      /\ at \in 0..now /\ began[d] <= at
  <2>1. began[d] \in 0..MaxTime /\ began[d] <= now /\ now \in 1..MaxTime
    BY DEF Invariant, TypeOK, Stamps
  <2>2. at \in began[d]..now
    OBVIOUS
  <2>3. QED
    BY <2>1, <2>2, TimeAssumption
<1>3. mapping' \in SUBSET Tlds /\ fetchedAt' \in 0..now' /\ served' \in 0..now' /\ now' \in 1..MaxTime
      /\ bumped' \in BOOLEAN /\ fetchedAt' <= served'
  <2>1. fetchedAt' \in 0..now' /\ served' \in 0..now' /\ now' \in 1..MaxTime /\ fetchedAt' <= served'
    BY <1>2, TimeAssumption DEF Loaded
  <2>2. mapping' \in SUBSET Tlds /\ bumped' \in BOOLEAN
    BY DEF Loaded
  <2>3. QED
    BY <2>1, <2>2
<1>4. began' \in [Domains -> 0..MaxTime] /\ \A e \in Domains : began'[e] <= now'
  BY <1>2, TimeAssumption DEF Loaded, Fetched, Invariant, TypeOK, Stamps
<1>5. QED
  BY <1>1, <1>3, <1>4 DEF Invariant, TypeOK, Stamps

\* A fetch that fails keeps the invariant.
LEMMA FetchFailsStep ==
  ASSUME Invariant, NEW d \in Domains, FetchFails(d)
  PROVE  Invariant'
<1>1. /\ pc' \in [Domains -> {"idle", "bootstrap", "registry", "whois"}]
      /\ answer' \in [Domains -> {"none", "registered", "available", "unknown", "error"}]
      /\ TruthfulAnswer'
  <2>1. PICK known : known = mapping
    OBVIOUS
  <2>2. QED
    BY <2>1, RouteStep DEF FetchFails
<1>2. began[d] \in 0..MaxTime /\ began[d] <= now /\ now \in 1..MaxTime
  BY DEF Invariant, TypeOK, Stamps
<1>3. fetchedAt' \in 0..now' /\ bumped' = TRUE
  BY <1>2, TimeAssumption DEF FetchFails
<1>4. began' \in [Domains -> 0..MaxTime] /\ \A e \in Domains : began'[e] <= now'
  BY <1>2, TimeAssumption DEF FetchFails, Fetched, Invariant, TypeOK, Stamps
<1>5. QED
  BY <1>1, <1>3, <1>4 DEF Invariant, TypeOK, Stamps, FetchFails

\* Steps that leave the mapping and the clock alone.
LEMMA LookupStep ==
  ASSUME Invariant, NEW d \in Domains, UNCHANGED <<now, bootstrap>>,
         pc' \in [Domains -> {"idle", "bootstrap", "registry", "whois"}],
         answer' \in [Domains -> {"none", "registered", "available", "unknown", "error"}],
         TruthfulAnswer', began' \in {began, [began EXCEPT ![d] = 0], [began EXCEPT ![d] = now]}
  PROVE  Invariant'
<1>1. /\ now \in 1..MaxTime /\ began \in [Domains -> 0..MaxTime]
      /\ \A e \in Domains : began[e] <= now
  BY DEF Invariant, TypeOK, Stamps
<1>2. began' \in [Domains -> 0..MaxTime] /\ \A e \in Domains : began'[e] <= now
  <2>1. CASE began' = began
    BY <1>1, <2>1
  <2>2. CASE began' = [began EXCEPT ![d] = 0]
    BY <1>1, <2>2, TimeAssumption
  <2>3. CASE began' = [began EXCEPT ![d] = now]
    BY <1>1, <2>3, TimeAssumption
  <2>4. QED
    BY <2>1, <2>2, <2>3
<1>3. QED
  BY <1>2 DEF Invariant, TypeOK, Stamps, bootstrap

\* The clock keeps the invariant.
LEMMA TickStep == ASSUME Invariant, Tick PROVE Invariant'
BY TimeAssumption DEF Invariant, TypeOK, Stamps, TruthfulAnswer, Tick, bootstrap

\* Every step keeps the invariant.
LEMMA NextStep == ASSUME Invariant, [Next]_vars PROVE Invariant'
<1> SUFFICES ASSUME Next PROVE Invariant'
  BY DEF vars, bootstrap, Invariant, TypeOK, Stamps, TruthfulAnswer
<1>1. CASE Tick
  BY <1>1, TickStep
<1>2. ASSUME NEW d \in Domains, Mapped(d) PROVE Invariant'
  <2>1. PICK known : known = mapping
    OBVIOUS
  <2>2. QED
    BY <1>2, <2>1, RouteStep, LookupStep DEF Mapped
<1>3. ASSUME NEW d \in Domains, Fetch(d) PROVE Invariant'
  <2>1. /\ pc' \in [Domains -> {"idle", "bootstrap", "registry", "whois"}]
        /\ answer' = answer /\ TruthfulAnswer'
    BY <1>3 DEF Fetch, Goto, Invariant, TypeOK, TruthfulAnswer
  <2>2. QED
    BY <1>3, <2>1, LookupStep DEF Fetch, Invariant, TypeOK
<1>4. ASSUME NEW d \in Domains, FetchFails(d) PROVE Invariant'
  BY <1>4, FetchFailsStep
<1>5. ASSUME NEW d \in Domains, NEW known \in SUBSET Tlds, NEW at \in began[d]..now, Loaded(d, known, at)
      PROVE Invariant'
  BY <1>5, LoadedStep
<1>6. ASSUME NEW d \in Domains, NEW o \in {"WHOISUnavailable", "other"}, FetchRaises(d, o)
      PROVE Invariant'
  BY <1>6, RdapStep, LookupStep DEF FetchRaises, Fetched, Outcomes
<1>7. ASSUME NEW d \in Domains, NEW o \in Outcomes, RegistryAnswers(d, o) PROVE Invariant'
  <2>1. (o = "record" => d \in Registered) /\ (o = "RegistryNotFound" => d \notin Registered)
    BY <1>7 DEF RegistryAnswers, Says
  <2>2. QED
    BY <1>7, <2>1, RdapStep, LookupStep DEF RegistryAnswers
<1>8. ASSUME NEW d \in Domains, NEW o \in Outcomes, WhoisAnswers(d, o) PROVE Invariant'
  <2>1. (o = "record" => d \in Registered) /\ (o = "RegistryNotFound" => d \notin Registered)
    BY <1>8 DEF WhoisAnswers, Says
  <2>2. FromWhois(o) \in Outcomes /\ FromWhois(o) # "RegistryNotFound"
        /\ (FromWhois(o) = "record" => d \in Registered)
    BY <2>1 DEF FromWhois, Outcomes
  <2>3. QED
    BY <1>8, <2>2, EndStep, LookupStep DEF WhoisAnswers
<1>9. QED
  BY <1>1, <1>2, <1>3, <1>4, <1>5, <1>6, <1>7, <1>8 DEF Next

\* The mapping, the clocks and the answers have the types the code gives them.
THEOREM TypeCorrect == Spec => []TypeOK
<1>1. Invariant => TypeOK
  BY DEF Invariant
<1>2. QED
  BY Initially, NextStep, <1>1, PTL DEF Spec

\* Whatever fails between bootstrap, RDAP and WHOIS, and whatever lookups
\* overlap, a domain is reported as registered or available only if it is.
THEOREM Truthful == Spec => []TruthfulAnswer
<1>1. Invariant => TruthfulAnswer
  BY DEF Invariant
<1>2. QED
  BY Initially, NextStep, <1>1, PTL DEF Spec

\* Fetches that overlap and end in any order never make a lookup trust a
\* document that IANA served a TTL ago or longer, unless a refresh has failed.
THEOREM Fresh == Spec => TrustedMappingFresh
<1>1. ASSUME Invariant, NEW d \in Domains, Mapped(d), ~bumped PROVE now - served < BootstrapTtl
  <2>1. now - fetchedAt < BootstrapTtl
    BY <1>1 DEF Mapped, MappingCurrent
  <2>2. fetchedAt <= served /\ now \in Nat /\ fetchedAt \in Nat /\ served \in Nat
    BY <1>1, TimeAssumption DEF Invariant, TypeOK, Stamps
  <2>3. QED
    BY <2>1, <2>2, TimeAssumption
<1>2. Invariant /\ [Next]_vars =>
        [\A d \in Domains : Mapped(d) /\ ~bumped => now - served < BootstrapTtl]_vars
  BY <1>1
<1>3. QED
  BY Initially, NextStep, <1>2, PTL DEF Spec, TrustedMappingFresh

-----------------------------------------------------------------------------
(***************************************************************************)
(* The members of a sequence that are in a set: the n-th of them is the    *)
(* one with n of them up to its place.                                     *)
(***************************************************************************)
\* A set of natural numbers that is not empty has a least member.
LEMMA LeastMember ==
  ASSUME NEW T \in SUBSET Nat, T # {}
  PROVE  \E m \in T : \A n \in T : m <= n
<1>1. PICK Less : Less = OpToRel(<, Nat)
  OBVIOUS
<1>2. IsWellFoundedOn(Less, Nat)
  BY <1>1, NatLessThanWellFounded, Zenon
<1>3. T \subseteq Nat
  OBVIOUS
<1>4. PICK m \in T : \A n \in T : <<n, m>> \notin Less
  BY <1>2, <1>3, WFMin, Zenon
<1>5. ASSUME NEW n \in T
      PROVE  m <= n
  <2>1. SUFFICES ASSUME n < m PROVE FALSE
    BY <1>3
  <2>2. PICK p : p = <<n, m>>
    OBVIOUS
  <2>3. p \in Nat \X Nat /\ p[1] < p[2]
    BY <1>3, <2>1, <2>2
  <2>4. p \in {ss \in Nat \X Nat : ss[1] < ss[2]}
    BY <2>3
  <2>5. p \in Less
    BY <1>1, <2>4, Zenon DEF OpToRel
  <2>6. QED
    BY <1>4, <2>2, <2>5
<1>6. QED
  BY <1>5

\* The places up to i are finitely many, one more where i is a place itself.
LEMMA UpToNext ==
  ASSUME NEW m \in Nat, NEW P \in SUBSET (1..m), NEW i \in Nat
  PROVE  /\ IsFiniteSet(UpTo(P, i)) /\ Cardinality(UpTo(P, i)) \in Nat
         /\ Cardinality(UpTo(P, i)) <= Cardinality(P) /\ Cardinality(P) \in Nat
         /\ i + 1 \in P => Cardinality(UpTo(P, i + 1)) = Cardinality(UpTo(P, i)) + 1
         /\ i + 1 \notin P => UpTo(P, i + 1) = UpTo(P, i)
<1>1. \A j \in P : j \in 1..m
  OBVIOUS
<1>2. IsFiniteSet(P) /\ Cardinality(P) \in Nat
  <2>1. IsFiniteSet(1..m)
    BY FS_Interval
  <2>2. QED
    BY <2>1, FS_Subset, FS_CardinalityType
<1>3. UpTo(P, i) \subseteq P
  BY DEF UpTo
<1>4. /\ IsFiniteSet(UpTo(P, i)) /\ Cardinality(UpTo(P, i)) \in Nat
      /\ Cardinality(UpTo(P, i)) <= Cardinality(P)
  BY <1>2, <1>3, FS_Subset, FS_CardinalityType
<1>5. \A j \in P : j <= i + 1 <=> j <= i \/ j = i + 1
  BY <1>1
<1>6. i + 1 \notin UpTo(P, i)
  BY DEF UpTo
<1>7. ASSUME i + 1 \in P
      PROVE  Cardinality(UpTo(P, i + 1)) = Cardinality(UpTo(P, i)) + 1
  <2>1. UpTo(P, i + 1) = UpTo(P, i) \cup {i + 1}
    BY <1>7, <1>5, Zenon DEF UpTo
  <2>2. QED
    BY <1>4, <1>6, <2>1, FS_AddElement, Zenon
<1>8. ASSUME i + 1 \notin P
      PROVE  UpTo(P, i + 1) = UpTo(P, i)
  <2>1. \A j \in P : j <= i + 1 <=> j <= i
    BY <1>8, <1>5
  <2>2. QED
    BY <2>1, Zenon DEF UpTo
<1>9. QED
  BY <1>2, <1>4, <1>7, <1>8

\* Each of them has its own number.
LEMMA Numbered ==
  ASSUME NEW m \in Nat, NEW P \in SUBSET (1..m)
  PROVE  /\ \A n \in 1..Cardinality(P) : \E i \in P : Cardinality(UpTo(P, i)) = n
         /\ \A i \in P : Cardinality(UpTo(P, i)) \in 1..Cardinality(P)
         /\ \A i, j \in P : Cardinality(UpTo(P, i)) = Cardinality(UpTo(P, j)) => i = j
<1>1. \A j \in P : j \in 1..m
  OBVIOUS
<1>2. Cardinality(P) \in Nat /\ \A i \in Nat : Cardinality(UpTo(P, i)) \in Nat
  BY UpToNext
<1>3. Cardinality(UpTo(P, 0)) = 0
  <2>1. UpTo(P, 0) = {}
    <3>1. \A j \in P : ~(j <= 0)
      BY <1>1
    <3>2. QED
      BY <3>1, Zenon DEF UpTo
  <2>2. QED
    BY <2>1, FS_EmptySet
<1>4. Cardinality(UpTo(P, m)) = Cardinality(P)
  <2>1. UpTo(P, m) = P
    <3>1. \A j \in P : j <= m
      BY <1>1
    <3>2. QED
      BY <3>1, Zenon DEF UpTo
  <2>2. QED
    BY <2>1
<1>5. ASSUME NEW n \in 1..Cardinality(P)
      PROVE  \E i \in P : Cardinality(UpTo(P, i)) = n
  <2>1. PICK T : T = {i \in Nat : Cardinality(UpTo(P, i)) >= n}
    OBVIOUS
  <2>2. m \in T /\ T \in SUBSET Nat
    BY <1>2, <1>4, <2>1
  <2>3. PICK l \in T : \A i \in T : l <= i
    BY <2>2, LeastMember
  <2>4. l \in Nat /\ l # 0 /\ Cardinality(UpTo(P, l)) >= n
    BY <1>2, <1>3, <2>1, <2>3
  <2>5. PICK k \in Nat : l = k + 1
    BY <2>4
  <2>6. Cardinality(UpTo(P, k)) < n
    BY <1>2, <2>1, <2>3, <2>5
  <2>7. k + 1 \in P /\ Cardinality(UpTo(P, k + 1)) = Cardinality(UpTo(P, k)) + 1
    <3>1. CASE k + 1 \in P
      BY <3>1, UpToNext
    <3>2. CASE k + 1 \notin P
      <4>1. UpTo(P, k + 1) = UpTo(P, k)
        BY <3>2, UpToNext
      <4>2. Cardinality(UpTo(P, k)) \in Nat /\ n \in Nat
        BY <1>2
      <4>3. QED
        BY <2>4, <2>5, <2>6, <4>1, <4>2
    <3>3. QED
      BY <3>1, <3>2
  <2>8. QED
    BY <1>2, <2>4, <2>5, <2>6, <2>7
<1>6. ASSUME NEW i \in P
      PROVE  Cardinality(UpTo(P, i)) \in 1..Cardinality(P)
  <2>1. PICK k \in Nat : i = k + 1
    BY <1>1
  <2>2. /\ Cardinality(UpTo(P, i)) = Cardinality(UpTo(P, k)) + 1
        /\ Cardinality(UpTo(P, k)) \in Nat /\ Cardinality(UpTo(P, i)) <= Cardinality(P)
    <3>1. UpTo(P, k + 1) = UpTo(P, i) /\ k + 1 \in P /\ i \in Nat
      BY <2>1
    <3>2. QED
      BY <2>1, <3>1, UpToNext
  <2>3. QED
    BY <1>2, <2>2
<1>7. ASSUME NEW i \in P, NEW j \in P, i < j
      PROVE  Cardinality(UpTo(P, i)) < Cardinality(UpTo(P, j))
  <2>1. PICK k \in Nat : j = k + 1 /\ i \in Nat /\ i <= k
    BY <1>1, <1>7
  <2>2. Cardinality(UpTo(P, j)) = Cardinality(UpTo(P, k)) + 1 /\ IsFiniteSet(UpTo(P, k))
    BY <2>1, UpToNext
  <2>3. UpTo(P, i) \subseteq UpTo(P, k)
    <3>1. \A l \in P : l <= i => l <= k
      BY <1>1, <2>1
    <3>2. QED
      BY <3>1, Zenon DEF UpTo
  <2>4. Cardinality(UpTo(P, i)) <= Cardinality(UpTo(P, k))
    BY <2>2, <2>3, FS_Subset
  <2>5. QED
    BY <1>2, <2>1, <2>2, <2>4
<1>8. \A i, j \in P : Cardinality(UpTo(P, i)) = Cardinality(UpTo(P, j)) => i = j
  <2>1. SUFFICES ASSUME NEW i \in P, NEW j \in P, i # j
                 PROVE  Cardinality(UpTo(P, i)) # Cardinality(UpTo(P, j))
    OBVIOUS
  <2>2. i \in Nat /\ j \in Nat
    BY <1>1
  <2>3. Cardinality(UpTo(P, i)) \in Nat /\ Cardinality(UpTo(P, j)) \in Nat
    BY <1>2, <2>2
  <2>4. CASE i < j
    BY <1>7, <2>3, <2>4
  <2>5. CASE j < i
    BY <1>7, <2>3, <2>5
  <2>6. QED
    BY <2>1, <2>2, <2>4, <2>5
<1>9. QED
  BY <1>5, <1>6, <1>8

\* A filter of a sequence keeps the members of the set, and only these.
LEMMA AmongMembers ==
  ASSUME NEW T, NEW s \in Seq(T), NEW S
  PROVE  /\ Among(s, S) \in Seq(T) /\ ToSet(Among(s, S)) = ToSet(s) \cap S
         /\ Among(s, S) = << >> <=> ToSet(s) \cap S = {}
<1> DEFINE P == {i \in DOMAIN s : s[i] \in S}
<1>1. Among(s, S) = [n \in 1..Cardinality(P) |-> s[CHOOSE i \in P : Cardinality(UpTo(P, i)) = n]]
  <2>1. Among(s, S) = [n \in DOMAIN Ascending(P) |-> s[Ascending(P)[n]]]
    BY Zenon DEF Among
  <2>2. QED
    BY <2>1 DEF Ascending
<1>2. P = {i \in DOMAIN s : s[i] \in S}
  OBVIOUS
<1> HIDE DEF P
<1>3. PICK m \in Nat : m = Len(s) /\ DOMAIN s = 1..m /\ P \in SUBSET (1..m)
  BY <1>2
<1>4. \A n \in 1..Cardinality(P) : \E i \in P : Cardinality(UpTo(P, i)) = n
  BY <1>3, Numbered, ZenonT(40)
<1>5. /\ \A i \in P : Cardinality(UpTo(P, i)) \in 1..Cardinality(P)
      /\ \A i, j \in P : Cardinality(UpTo(P, i)) = Cardinality(UpTo(P, j)) => i = j
  BY <1>3, Numbered
<1>6. PICK N \in Nat : N = Cardinality(P)
  BY <1>3, UpToNext
<1>7. PICK at : at = [n \in 1..N |-> CHOOSE i \in P : Cardinality(UpTo(P, i)) = n]
  OBVIOUS
<1>8. \A n \in 1..N : at[n] \in P /\ Cardinality(UpTo(P, at[n])) = n
  <2>1. SUFFICES ASSUME NEW n \in 1..N PROVE at[n] \in P /\ Cardinality(UpTo(P, at[n])) = n
    OBVIOUS
  <2>2. \E i \in P : Cardinality(UpTo(P, i)) = n
    BY <1>4, <1>6
  <2>3. at[n] = CHOOSE i \in P : Cardinality(UpTo(P, i)) = n
    BY <1>7
  <2>4. QED
    BY <2>2, <2>3
<1>9. Among(s, S) = [n \in 1..N |-> s[at[n]]]
  BY <1>6, <1>7, <1>1
<1>10. \A i \in P : i \in DOMAIN s /\ s[i] \in T /\ s[i] \in S
  BY <1>2, <1>3
<1>11. \A n \in 1..N : at[n] \in DOMAIN s /\ s[at[n]] \in T /\ s[at[n]] \in S
  BY <1>8, <1>10
<1>12. Among(s, S) \in Seq(T) /\ Len(Among(s, S)) = N /\ DOMAIN Among(s, S) = 1..N
  BY <1>11, <1>9
<1>13. ToSet(Among(s, S)) \subseteq ToSet(s) \cap S
  <2>1. SUFFICES ASSUME NEW x \in ToSet(Among(s, S)) PROVE x \in ToSet(s) /\ x \in S
    OBVIOUS
  <2>2. PICK n \in 1..N : x = s[at[n]]
    BY <1>12, <1>9, <2>1 DEF ToSet
  <2>3. QED
    BY <1>11, <2>2 DEF ToSet
<1>14. ASSUME NEW i \in DOMAIN s, s[i] \in S
       PROVE  s[i] \in ToSet(Among(s, S))
  <2>1. i \in P
    BY <1>2, <1>14
  <2>2. PICK n \in 1..N : n = Cardinality(UpTo(P, i))
    BY <1>6, <1>5, <2>1
  <2>3. at[n] = i
    BY <1>8, <1>5, <2>1, <2>2
  <2>4. QED
    BY <1>12, <1>9, <2>3 DEF ToSet
<1>15. ToSet(s) \cap S \subseteq ToSet(Among(s, S))
  BY <1>14 DEF ToSet
<1>16. Among(s, S) = << >> <=> ToSet(Among(s, S)) = {}
  <2>1. ASSUME Among(s, S) = << >>
        PROVE  ToSet(Among(s, S)) = {}
    BY <2>1 DEF ToSet
  <2>2. ASSUME ToSet(Among(s, S)) = {}
        PROVE  Among(s, S) = << >>
    <3>1. N = 0
      BY <1>12, <2>2, SMTT(30) DEF ToSet
    <3>2. QED
      BY <1>12, <3>1, EmptySeq
  <2>3. QED
    BY <2>1, <2>2
<1>17. QED
  BY <1>12, <1>13, <1>15, <1>16

(***************************************************************************)
(* What the lookups read out of the records.                               *)
(***************************************************************************)
Mailers == DOMAIN ProviderOf \cup {NullMX}

\* Leaving null MX records out once or twice is the same.
LEMMA UsableMembers ==
  ASSUME NEW h \in Seq(Mailers)
  PROVE  /\ Usable(h) \in Seq(Mailers) /\ ToSet(Usable(h)) = ToSet(h) \ {NullMX}
         /\ Usable(h) = << >> <=> ToSet(h) \ {NullMX} = {}
         /\ ToSet(Usable(Usable(h))) = ToSet(Usable(h))
         /\ Usable(Usable(h)) = << >> <=> Usable(h) = << >>
<1>1. \A s \in Seq(Mailers) :
        /\ Usable(s) \in Seq(Mailers) /\ ToSet(Usable(s)) = ToSet(s) \ {NullMX}
        /\ Usable(s) = << >> <=> ToSet(s) \ {NullMX} = {}
  <2>1. SUFFICES ASSUME NEW s \in Seq(Mailers)
                 PROVE  /\ Usable(s) \in Seq(Mailers) /\ ToSet(Usable(s)) = ToSet(s) \ {NullMX}
                        /\ Usable(s) = << >> <=> ToSet(s) \ {NullMX} = {}
    OBVIOUS
  <2>2. PICK S : S = ToSet(s) \ {NullMX}
    OBVIOUS
  <2>3. Usable(s) = Among(s, S) /\ ToSet(s) \cap S = S
    BY <2>2 DEF Usable
  <2>4. QED
    BY <2>2, <2>3, AmongMembers
<1>2. Usable(h) \in Seq(Mailers)
  BY <1>1
<1>3. ToSet(Usable(Usable(h))) = ToSet(Usable(h)) \ {NullMX}
      /\ (Usable(Usable(h)) = << >> <=> ToSet(Usable(h)) \ {NullMX} = {})
  BY <1>1, <1>2
<1>4. QED
  BY <1>1, <1>2, <1>3

\* Nobody is usable among nobody.
LEMMA Nothing == Usable(<< >>) = << >> /\ ToSet(<< >>) = {}
<1>1. << >> \in Seq(Mailers) /\ ToSet(<< >>) = {}
  BY DEF ToSet
<1>2. QED
  BY <1>1, UsableMembers

\* The members of a sequence, of its rest and of two sequences in a row.
LEMMA Members ==
  ASSUME NEW T, NEW s \in Seq(T)
  PROVE  /\ ToSet(s) \subseteq T
         /\ s = << >> <=> ToSet(s) = {}
         /\ s # << >> => /\ Head(s) \in ToSet(s) /\ Tail(s) \in Seq(T) /\ Len(Tail(s)) = Len(s) - 1
                         /\ ToSet(s) = {Head(s)} \cup ToSet(Tail(s))
<1>1. s # << >> => ToSet(s) \subseteq {Head(s)} \cup ToSet(Tail(s))
  <2>1. SUFFICES ASSUME s # << >>, NEW i \in 1..Len(s), i # 1
                 PROVE  s[i] \in ToSet(Tail(s))
    BY DEF ToSet
  <2>2. i - 1 \in 1..Len(Tail(s)) /\ Tail(s)[i - 1] = s[i]
    BY <2>1
  <2>3. QED
    BY <2>2 DEF ToSet
<1>2. s # << >> => ToSet(Tail(s)) \subseteq ToSet(s)
  <2>1. SUFFICES ASSUME s # << >>, NEW i \in 1..Len(Tail(s))
                 PROVE  Tail(s)[i] \in ToSet(s)
    BY DEF ToSet
  <2>2. i + 1 \in 1..Len(s) /\ Tail(s)[i] = s[i + 1]
    BY <2>1
  <2>3. QED
    BY <2>2 DEF ToSet
<1>3. s # << >> => Head(s) \in ToSet(s) /\ Tail(s) \in Seq(T) /\ Len(Tail(s)) = Len(s) - 1
  <2>1. SUFFICES ASSUME s # << >>
                 PROVE  Head(s) \in ToSet(s) /\ Tail(s) \in Seq(T) /\ Len(Tail(s)) = Len(s) - 1
    OBVIOUS
  <2>2. 1 \in 1..Len(s) /\ Head(s) = s[1]
    BY <2>1
  <2>3. QED
    BY <2>1, <2>2 DEF ToSet
<1>4. ToSet(s) \subseteq T
  BY DEF ToSet
<1>5. s = << >> => ToSet(s) = {}
  BY Nothing
<1>6. QED
  BY <1>1, <1>2, <1>3, <1>4, <1>5

\* Two sequences joined have the members of both.
LEMMA JoinedMembers ==
  ASSUME NEW T, NEW s \in Seq(T), NEW u \in Seq(T)
  PROVE  s \o u \in Seq(T) /\ ToSet(s \o u) = ToSet(s) \cup ToSet(u)
<1>1. s \o u \in Seq(T) /\ Len(s \o u) = Len(s) + Len(u)
  OBVIOUS
<1>2. ToSet(s \o u) \subseteq ToSet(s) \cup ToSet(u)
  <2>1. SUFFICES ASSUME NEW i \in 1..Len(s) + Len(u)
                 PROVE  (s \o u)[i] \in ToSet(s) \cup ToSet(u)
    BY <1>1 DEF ToSet
  <2>2. CASE i <= Len(s)
    BY <2>2 DEF ToSet
  <2>3. CASE i > Len(s)
    <3>1. i - Len(s) \in 1..Len(u) /\ (s \o u)[i] = u[i - Len(s)]
      BY <2>3
    <3>2. QED
      BY <3>1 DEF ToSet
  <2>4. QED
    BY <2>2, <2>3
<1>3. ToSet(s) \subseteq ToSet(s \o u)
  <2>1. SUFFICES ASSUME NEW i \in 1..Len(s)
                 PROVE  s[i] \in ToSet(s \o u)
    BY DEF ToSet
  <2>2. i \in 1..Len(s \o u) /\ (s \o u)[i] = s[i]
    BY <1>1
  <2>3. QED
    BY <1>1, <2>2 DEF ToSet
<1>4. ToSet(u) \subseteq ToSet(s \o u)
  <2>1. SUFFICES ASSUME NEW i \in 1..Len(u)
                 PROVE  u[i] \in ToSet(s \o u)
    BY SMTT(30) DEF ToSet
  <2>2. i + Len(s) \in 1..Len(s \o u) /\ (s \o u)[i + Len(s)] = u[i]
    BY <1>1
  <2>3. QED
    BY <1>1, <2>2 DEF ToSet
<1>5. QED
  BY <1>1, <1>2, <1>3, <1>4

Fields == {"pc", "kind", "about", "asked", "left", "got", "ask", "geo", "status"}

\* A call has the fields and the values that the code gives it, and an address
\* is looked up if and only if its kind says so.
Formed(r) ==
  /\ DOMAIN r = Fields
  /\ r.pc \in {"idle", "cache", "query", "geo", "intel"} /\ r.kind \in Kinds
  /\ r.status \in {"none", "ok", "nxdomain", "failed", "blocked"}
  /\ r.about \in (IF r.kind = "ip" THEN Addresses ELSE Names)
  /\ r.asked \in Seq(Types) /\ r.ask \in Seq(Addresses) /\ r.geo \in Addresses \cup {None}
  /\ \E n \in 0..Len(r.asked) : r.left = SubSeq(r.asked, n + 1, Len(r.asked))
  /\ r.kind = "dns" => r.asked # << >>
  /\ r.kind \in {"mx", "email"} => r.asked = <<"MX">>
  /\ r.pc = "cache" => r.kind \in {"dns", "mx", "url", "ip"}
  /\ r.pc = "query" => r.kind # "ip"
  /\ r.pc = "geo" => r.kind \in {"domain", "url", "ip"}
  /\ r.pc = "intel" => r.kind = "ip"

\* What a call has been told is what DNS says, of types it has asked for.
Told(r) ==
  /\ r.got = [t \in DOMAIN r.got |-> r.got[t]] /\ DOMAIN r.got \subseteq ToSet(r.asked)
  /\ DOMAIN r.got # {} => zone[r.about].exists
  /\ \A t \in DOMAIN r.got :
       r.got[t] = IF r.kind = "mx" /\ r.pc = "idle" THEN Usable(Truth(r.about, t)) ELSE Truth(r.about, t)
  /\ r.kind \in {"dns", "mx"} /\ r.pc \in {"cache", "query"} =>
       ToSet(r.asked) \subseteq DOMAIN r.got \cup ToSet(r.left)
  /\ r.kind \in {"dns", "mx"} /\ r.pc = "idle" /\ r.status = "ok" => ToSet(r.asked) \subseteq DOMAIN r.got

\* The addresses a call is about to ask for are its own, and so is the place it
\* has found, but for that of a URL, which another host may have left behind.
Shared(a, d) == \E e \in Names : a \in AddressesOf(e) /\ AddressesOf(e) \cap AddressesOf(d) # {}

Placed(r) ==
  /\ r.kind = "ip" /\ r.pc # "idle" => r.about \in Public /\ r.ask = <<r.about>>
  /\ r.kind = "ip" /\ r.geo # None => r.geo = r.about /\ r.about \in Public
  /\ r.pc = "intel" => r.geo = r.about
  /\ r.kind = "domain" /\ r.pc = "geo" =>
       "A" \in DOMAIN r.got /\ Truth(r.about, "A") # << >> /\ r.ask = <<Head(Truth(r.about, "A"))>>
  /\ r.kind = "domain" /\ r.geo # None => r.geo = Head(Truth(r.about, "A"))
  /\ r.kind = "url" /\ r.pc \in {"cache", "geo"} =>
       PublicOf(Resolved(r)) # << >> /\ r.ask # << >> /\ ToSet(r.ask) \subseteq Public \cap AddressesOf(r.about)
  /\ r.kind = "url" /\ r.geo # None => r.geo \in Public /\ Shared(r.geo, r.about)

\* What is in the cache is true of the name or the address it is filed under.
Entry(key, value) ==
  \/ /\ key \in {"dns"} \X Names \X Seq(Types)
     /\ value = [t \in ToSet(key[3]) |-> Truth(key[2], t)] /\ zone[key[2]].exists
  \/ /\ key \in {"mx"} \X Names
     /\ value = Usable(Truth(key[2], "MX")) /\ zone[key[2]].exists
  \/ /\ key \in {"urlgeo"} \X Addresses
     /\ value \in Public
     /\ \E d \in Names : key[2] \in AddressesOf(d) /\ value \in AddressesOf(d)
  \/ key \in {"ip"} \X Public /\ value = key[2]

Kept == \A key \in DOMAIN cache : Entry(key, cache[key])

LookupsInv ==
  /\ zone \in Zones
  /\ IsFiniteSet(DOMAIN cache) /\ Cardinality(DOMAIN cache) <= MaxEntries /\ Kept
  /\ DOMAIN call = Callers /\ \A c \in Callers : Formed(call[c]) /\ Told(call[c]) /\ Placed(call[c])
  /\ \A c, e \in Callers : Fills(c) /\ Fills(e) /\ Key(call[c]) = Key(call[e]) => c = e

Filling(r) ==
  \/ r.kind = "mx" /\ r.pc = "query"
  \/ r.kind \in {"url", "ip"} /\ r.pc \in {"geo", "intel"}

\* What is true of a call stays true of it.
LEMMA StillTrue ==
  ASSUME zone' = zone, NEW e, NEW s, s = call'[e], Formed(s), Told(s), Placed(s)
  PROVE  (Formed(call[e]) /\ Told(call[e]) /\ Placed(call[e]))'
<1>1. Formed(call[e])'
  BY DEF Formed
<1>2. Told(call[e])'
  BY DEF Told, Truth
<1>3. Placed(call[e])'
  BY DEF Placed, Shared, Truth, AddressesOf, Resolved, Found
<1>4. QED
  BY <1>1, <1>2, <1>3

\* A call that has changed: it, and what it has left in the cache, are as they
\* should be, and it has begun to fill a key only if nobody else fills it.
LEMMA Updated ==
  ASSUME LookupsInv, NEW c \in Callers, NEW r, Formed(r), Told(r), Placed(r), Update(c, r), zone' = zone,
         IsFiniteSet(DOMAIN cache'), Cardinality(DOMAIN cache') <= MaxEntries, Kept',
         Filling(r) => (Filling(call[c]) /\ Key(r) = Key(call[c])) \/ ~Taken(Key(r))
  PROVE  LookupsInv'
<1>1. DOMAIN call' = Callers /\ call'[c] = r /\ \A e \in Callers \ {c} : call'[e] = call[e]
  BY DEF Update, LookupsInv
<1>2. \A e \in Callers : (Formed(call[e]) /\ Told(call[e]) /\ Placed(call[e]))'
  <2>1. SUFFICES ASSUME NEW e \in Callers
                 PROVE  (Formed(call[e]) /\ Told(call[e]) /\ Placed(call[e]))'
    OBVIOUS
  <2>2. PICK s : s = call'[e] /\ Formed(s) /\ Told(s) /\ Placed(s)
    BY <1>1 DEF LookupsInv
  <2>3. QED
    BY <2>2, StillTrue
<1>3. \A e \in Callers : (Fills(e) <=> Filling(call[e])) /\ (Fills(e)' <=> Filling(call'[e]))
  BY DEF Fills, Filling
<1>4. ASSUME NEW e \in Callers \ {c}, Fills(e)', Fills(c)', Key(call'[e]) = Key(call'[c])
      PROVE  FALSE
  <2>1. Fills(e) /\ Filling(r) /\ Key(call[e]) = Key(r)
    BY <1>1, <1>3, <1>4
  <2>2. Taken(Key(r))
    BY <2>1 DEF Taken
  <2>3. Fills(c) /\ Key(call[e]) = Key(call[c])
    BY <1>3, <2>1, <2>2
  <2>4. QED
    BY <2>1, <2>3 DEF LookupsInv
<1>5. \A d, e \in Callers : Fills(d)' /\ Fills(e)' /\ Key(call'[d]) = Key(call'[e]) => d = e
  <2>1. SUFFICES ASSUME NEW d \in Callers, NEW e \in Callers, d # e,
                        Fills(d)', Fills(e)', Key(call'[d]) = Key(call'[e])
                 PROVE  FALSE
    OBVIOUS
  <2>2. CASE d = c \/ e = c
    BY <1>4, <2>1, <2>2
  <2>3. CASE d # c /\ e # c
    <3>1. Fills(d) /\ Fills(e) /\ Key(call[d]) = Key(call[e])
      BY <1>1, <1>3, <2>1, <2>3
    <3>2. QED
      BY <2>1, <3>1 DEF LookupsInv
  <2>4. QED
    BY <2>2, <2>3
<1>6. QED
  <2>1. \A d, e \in Callers : (Fills(d) /\ Fills(e) /\ Key(call[d]) = Key(call[e]) => d = e)'
    BY <1>5 DEF Key, Resolved, Found
  <2>2. zone' \in Zones
    BY DEF LookupsInv
  <2>3. QED
    BY <1>1, <1>2, <2>1, <2>2 DEF LookupsInv

\* The same where the cache stays as it is.
LEMMA UpdatedOnly ==
  ASSUME LookupsInv, NEW c \in Callers, NEW r, Formed(r), Told(r), Placed(r), Update(c, r),
         zone' = zone, cache' = cache,
         Filling(r) => (Filling(call[c]) /\ Key(r) = Key(call[c])) \/ ~Taken(Key(r))
  PROVE  LookupsInv'
<1>1. Kept'
  BY DEF LookupsInv, Kept, Entry, Truth, AddressesOf
<1>2. IsFiniteSet(DOMAIN cache') /\ Cardinality(DOMAIN cache') <= MaxEntries
  BY DEF LookupsInv
<1>3. QED
  BY <1>1, <1>2, Updated

\* A call that has just begun, or is over at once.
Starts(r, q) ==
  /\ DOMAIN r = Fields /\ r.kind = q[1] /\ r.about = q[2] /\ r.left = r.asked /\ r.got = << >> /\ r.geo = None
  /\ r.asked = CASE q[1] = "dns" -> q[3]
                 [] q[1] \in {"mx", "email"} -> <<"MX">>
                 [] q[1] = "domain" -> <<"MX", "NS", "A">>
                 [] q[1] = "url" -> <<"A", "AAAA">>
                 [] OTHER -> << >>

\* A call starts with nothing asked and nothing found.
LEMMA BegunStarts ==
  ASSUME NEW q \in Requests, NEW b, b = Begun(q)
  PROVE  Starts(b, q) /\ b.pc = "query" /\ b.ask = << >> /\ b.status = "none"
BY DEF Begun, Fields, Starts

Opened(r) ==
  /\ r.pc \in {"idle", "cache", "query"} /\ r.ask \in Seq(Addresses) /\ r.status \in {"none", "ok"}
  /\ r.pc = "cache" => r.kind \in {"dns", "mx", "ip"}
  /\ r.pc = "query" => r.kind # "ip"
  /\ r.pc = "idle" /\ r.status = "ok" => r.kind = "ip"

\* A call that starts was told nothing untrue.
LEMMA BegunCall ==
  ASSUME NEW q \in Requests, NEW r, Starts(r, q), Opened(r)
  PROVE  Formed(r) /\ Told(r)
<1>1. /\ q[1] \in Kinds /\ q[2] \in (IF q[1] = "ip" THEN Addresses ELSE Names)
      /\ q[1] = "dns" => q[3] \in Seq(Types) \ {<< >>}
  BY RequestAssumption DEF Kinds
<1>2. r.asked \in Seq(Types) /\ (q[1] = "dns" => r.asked # << >>)
  <2>1. CASE q[1] = "dns"
    BY <1>1, <2>1 DEF Starts
  <2>2. CASE q[1] \in {"mx", "email"}
    <3>1. r.asked = <<"MX">>
      BY <2>2 DEF Starts
    <3>2. <<"MX">> \in Seq(Types)
      BY DEF Types
    <3>3. QED
      BY <2>2, <3>1, <3>2
  <2>3. CASE q[1] = "domain"
    BY <2>3 DEF Types, Starts
  <2>4. CASE q[1] = "url"
    BY <2>4 DEF Types, Starts
  <2>5. CASE q[1] = "ip"
    BY <2>5 DEF Starts
  <2>6. QED
    BY <1>1, <2>1, <2>2, <2>3, <2>4, <2>5 DEF Kinds
<1>3. \E n \in 0..Len(r.asked) : r.left = SubSeq(r.asked, n + 1, Len(r.asked))
  <2>1. PICK s \in Seq(Types) : s = r.asked /\ s = r.left
    BY <1>2 DEF Starts
  <2>2. s = SubSeq(s, 0 + 1, Len(s)) /\ 0 \in 0..Len(s)
    BY <2>1
  <2>3. QED
    BY <2>1, <2>2
<1>4. Formed(r)
  BY <1>1, <1>2, <1>3 DEF Formed, Kinds, Starts, Opened
<1>5. r.got = [t \in DOMAIN r.got |-> r.got[t]] /\ DOMAIN r.got = {}
  BY DEF Starts
<1>6. Told(r)
  BY <1>5 DEF Told, Starts, Opened
<1>7. QED
  BY <1>4, <1>6

\* Nobody has called and nothing is cached yet.
LEMMA LookupsInitially == LookupsInit => LookupsInv
<1> SUFFICES ASSUME LookupsInit PROVE LookupsInv
  OBVIOUS
<1>1. PICK q : q = CHOOSE x \in Requests : TRUE
  OBVIOUS
<1>2. q \in Requests
  BY <1>1, RequestAssumption
<1>3. PICK b, r : b = Begun(q) /\ r = [b EXCEPT !.pc = "idle"]
  OBVIOUS
<1>4. Starts(r, q) /\ r.pc = "idle" /\ r.ask = << >> /\ r.status = "none" /\ r.geo = None
  <2>1. Starts(b, q) /\ b.ask = << >> /\ b.status = "none"
    BY <1>2, <1>3, BegunStarts
  <2>2. QED
    BY <1>3, <2>1 DEF Starts, Fields
<1>5. Formed(r) /\ Told(r)
  <2>1. Opened(r)
    BY <1>4 DEF Opened
  <2>2. QED
    BY <1>2, <1>4, <2>1, BegunCall
<1>6. Placed(r)
  BY <1>4 DEF Placed
<1>7. call = [c \in Callers |-> r] /\ cache = << >> /\ zone \in Zones
  BY <1>1, <1>3 DEF LookupsInit
<1>8. DOMAIN cache = {}
  BY <1>7
<1>9. IsFiniteSet(DOMAIN cache) /\ Cardinality(DOMAIN cache) <= MaxEntries
  BY <1>8, FS_EmptySet, RoomAssumption
<1>10. \A c \in Callers : ~Fills(c)
  BY <1>4, <1>7 DEF Fills
<1>11. QED
  BY <1>5, <1>6, <1>7, <1>8, <1>9, <1>10 DEF LookupsInv, Kept

\* A question to DNS keeps the invariant.
LEMMA AskStep == ASSUME LookupsInv, NEW c \in Callers, Ask(c) PROVE LookupsInv'
<1>1. PICK q \in Requests :
        CASE q[1] \in {"dns", "mx"} -> Update(c, [Begun(q) EXCEPT !.pc = "cache"])
          [] q[1] = "ip" /\ q[2] \in Public -> Update(c, [Begun(q) EXCEPT !.pc = "cache", !.ask = <<q[2]>>])
          [] q[1] = "ip" /\ q[2] \notin Public -> EndCall(c, Begun(q), "ok")
          [] OTHER -> Update(c, Begun(q))
  BY DEF Ask
<1>2. PICK b : b = Begun(q)
  OBVIOUS
<1>3. zone' = zone /\ cache' = cache
  BY DEF Ask
<1>4. Starts(b, q) /\ b.pc = "query" /\ b.ask = << >> /\ b.status = "none"
  BY <1>2, BegunStarts
<1>5. CASE q[1] \in {"dns", "mx"}
  <2>1. PICK r : r = [b EXCEPT !.pc = "cache"]
    OBVIOUS
  <2>2. Update(c, r)
    BY <1>1, <1>2, <1>5, <2>1
  <2>3. Starts(r, q) /\ r.pc = "cache" /\ r.ask = << >> /\ r.status = "none" /\ r.kind = q[1] /\ r.geo = None
    BY <1>4, <2>1 DEF Starts, Fields
  <2>4. Formed(r) /\ Told(r)
    <3>1. Opened(r)
      BY <1>5, <2>3 DEF Opened
    <3>2. QED
      BY <1>5, <2>3, <3>1, BegunCall
  <2>5. Placed(r) /\ ~Filling(r)
    BY <1>5, <2>3 DEF Placed, Filling
  <2>6. QED
    BY <1>3, <2>2, <2>4, <2>5, UpdatedOnly
<1>6. CASE q[1] = "ip" /\ q[2] \in Public
  <2>1. PICK a, r : a = <<q[2]>> /\ r = [b EXCEPT !.pc = "cache", !.ask = a]
    OBVIOUS
  <2>2. Update(c, r)
    BY <1>1, <1>2, <1>6, <2>1
  <2>3. a \in Seq(Addresses)
    BY <1>6, <2>1, ZoneAssumption
  <2>4. /\ Starts(r, q) /\ r.pc = "cache" /\ r.ask = a /\ r.status = "none" /\ r.kind = q[1] /\ r.geo = None
        /\ r.about = q[2]
    BY <1>4, <2>1 DEF Starts, Fields
  <2>5. Formed(r) /\ Told(r)
    <3>1. Opened(r)
      BY <1>6, <2>3, <2>4 DEF Opened
    <3>2. QED
      BY <1>6, <2>3, <2>4, <3>1, BegunCall
  <2>6. Placed(r) /\ ~Filling(r)
    BY <1>6, <2>1, <2>4 DEF Placed, Filling
  <2>7. QED
    BY <1>3, <2>2, <2>5, <2>6, UpdatedOnly
<1>7. CASE q[1] = "ip" /\ q[2] \notin Public
  <2>1. PICK r : r = [b EXCEPT !.pc = "idle", !.ask = << >>, !.status = "ok"]
    OBVIOUS
  <2>2. Update(c, r)
    BY <1>1, <1>2, <1>7, <2>1 DEF EndCall
  <2>3. Starts(r, q) /\ r.pc = "idle" /\ r.ask = << >> /\ r.status = "ok" /\ r.kind = q[1] /\ r.geo = None
    BY <1>4, <2>1 DEF Starts, Fields
  <2>4. Formed(r) /\ Told(r)
    <3>1. Opened(r)
      BY <1>7, <2>3 DEF Opened
    <3>2. QED
      BY <1>7, <2>3, <3>1, BegunCall
  <2>5. Placed(r) /\ ~Filling(r)
    BY <1>7, <2>3 DEF Placed, Filling
  <2>6. QED
    BY <1>3, <2>2, <2>4, <2>5, UpdatedOnly
<1>8. CASE q[1] \notin {"dns", "mx", "ip"}
  <2>1. Update(c, b)
    BY <1>1, <1>2, <1>8
  <2>2. Formed(b) /\ Told(b)
    <3>1. Opened(b)
      BY <1>4, <1>8 DEF Opened, Starts
    <3>2. QED
      BY <1>4, <3>1, BegunCall
  <2>3. Placed(b) /\ ~Filling(b)
    BY <1>4, <1>8 DEF Placed, Filling, Starts
  <2>4. QED
    BY <1>3, <2>1, <2>2, <2>3, UpdatedOnly
<1>9. QED
  BY <1>5, <1>6, <1>7, <1>8

(***************************************************************************)
(* What is kept, and what is read out of what a call was told.             *)
(***************************************************************************)
LEMMA Remembered ==
  ASSUME LookupsInv, zone' = zone, NEW key, NEW value, Remember(key, value), Entry(key, value)
  PROVE  IsFiniteSet(DOMAIN cache') /\ Cardinality(DOMAIN cache') <= MaxEntries /\ Kept'
<1>1. PICK D : D = DOMAIN cache \ {key}
  OBVIOUS
<1>2. PICK kept \in SUBSET D :
        /\ Cardinality(kept) = Min({MaxEntries - 1, Cardinality(D)})
        /\ cache' = [k \in kept \cup {key} |-> IF k = key THEN value ELSE cache[k]]
  BY <1>1 DEF Remember
<1>3. IsFiniteSet(D) /\ Cardinality(D) \in Nat
  BY <1>1, FS_Subset, FS_CardinalityType DEF LookupsInv
<1>4. IsFiniteSet(kept) /\ Cardinality(kept) \in Nat
  BY <1>2, <1>3, FS_Subset, FS_CardinalityType
<1>5. Cardinality(kept) <= MaxEntries - 1
  <2>1. PICK x, y \in Int : x = MaxEntries - 1 /\ y = Cardinality(D)
    BY <1>3, RoomAssumption
  <2>2. PICK z : z = CHOOSE i \in {x, y} : \A j \in {x, y} : i =< j
    OBVIOUS
  <2>3. \E i \in {x, y} : \A j \in {x, y} : i =< j
    BY <2>1
  <2>4. z \in {x, y} /\ \A j \in {x, y} : z =< j
    BY <2>2, <2>3
  <2>5. Cardinality(kept) = z
    BY <1>2, <2>1, <2>2 DEF Min
  <2>6. QED
    BY <2>1, <2>4, <2>5
<1>6. key \notin kept /\ DOMAIN cache' = kept \cup {key}
  BY <1>1, <1>2
<1>7. IsFiniteSet(kept \cup {key}) /\ Cardinality(kept \cup {key}) = Cardinality(kept) + 1
  BY <1>4, <1>6, FS_AddElement, Zenon
<1>8. Cardinality(DOMAIN cache') <= MaxEntries
  BY <1>4, <1>5, <1>6, <1>7, RoomAssumption
<1>9. \A k \in DOMAIN cache' : Entry(k, cache'[k])
  BY <1>1, <1>2, <1>6 DEF LookupsInv, Kept
<1>10. Kept'
  BY <1>9 DEF Kept, Entry, Truth, AddressesOf
<1>11. QED
  BY <1>6, <1>7, <1>8, <1>10

\* The records of a name are sequences of their kind.
LEMMA ReadRecords ==
  ASSUME zone \in Zones, NEW d \in Names
  PROVE  /\ Truth(d, "A") \in Seq(Addresses) /\ Truth(d, "AAAA") \in Seq(Addresses)
         /\ Truth(d, "MX") \in Seq(Mailers)
BY ZoneAssumption DEF Truth, Mailers

\* What a URL resolves to are addresses of its host.
LEMMA ReadAddresses ==
  ASSUME zone \in Zones, NEW r, Formed(r), Told(r), r.kind = "url"
  PROVE  /\ Resolved(r) \in Seq(Addresses) /\ ToSet(Resolved(r)) \subseteq AddressesOf(r.about)
         /\ PublicOf(Resolved(r)) \in Seq(Addresses)
         /\ ToSet(PublicOf(Resolved(r))) \subseteq Public \cap AddressesOf(r.about)
<1>1. PICK a, b, s : a = Found(r, "A") /\ b = Found(r, "AAAA") /\ s = Among(b, ToSet(b) \ ToSet(a))
  OBVIOUS
<1>2. r.about \in Names /\ Truth(r.about, "A") \in Seq(Addresses) /\ Truth(r.about, "AAAA") \in Seq(Addresses)
  BY ReadRecords DEF Formed
<1>3. a \in {<< >>, Truth(r.about, "A")} /\ b \in {<< >>, Truth(r.about, "AAAA")}
  BY <1>1 DEF Found, Told
<1>4. a \in Seq(Addresses) /\ b \in Seq(Addresses)
  <2>1. << >> \in Seq(Addresses)
    OBVIOUS
  <2>2. QED
    BY <1>2, <1>3, <2>1, Zenon
<1>5. ToSet(a) \cup ToSet(b) \subseteq AddressesOf(r.about)
  BY <1>3, Nothing DEF AddressesOf
<1>6. s \in Seq(Addresses) /\ ToSet(s) \subseteq ToSet(b)
  BY <1>1, <1>4, AmongMembers
<1>7. Resolved(r) = a \o s
  BY <1>1 DEF Resolved
<1>8. Resolved(r) \in Seq(Addresses) /\ ToSet(Resolved(r)) = ToSet(a) \cup ToSet(s)
  BY <1>4, <1>6, <1>7, JoinedMembers
<1>9. /\ PublicOf(Resolved(r)) \in Seq(Addresses)
      /\ ToSet(PublicOf(Resolved(r))) = ToSet(Resolved(r)) \cap Public
  BY <1>8, AmongMembers DEF PublicOf
<1>10. QED
  BY <1>5, <1>6, <1>8, <1>9

\* What the invariant says of one call.
LEMMA Recall ==
  ASSUME LookupsInv, NEW c \in Callers
  PROVE  zone \in Zones /\ Formed(call[c]) /\ Told(call[c]) /\ Placed(call[c])
BY DEF LookupsInv

\* What a call finds in the cache under its key.
LEMMA HitStep == ASSUME LookupsInv, NEW c \in Callers, Hit(c) PROVE LookupsInv'
<1>1. PICK r : r = call[c]
  OBVIOUS
<1>2. zone \in Zones /\ Formed(r) /\ Told(r) /\ Placed(r)
  BY <1>1, Recall
<1>3. PICK k : k = Key(r) /\ k \in DOMAIN cache /\ Entry(k, cache[k])
  BY <1>1 DEF Hit, LookupsInv, Kept
<1>4. /\ r.pc = "cache" /\ zone' = zone /\ cache' = cache
      /\ EndCall(c, CASE r.kind = "dns" -> [r EXCEPT !.got = cache[k]]
                      [] r.kind = "mx" -> [r EXCEPT !.got = [t \in {"MX"} |-> cache[k]]]
                      [] OTHER -> [r EXCEPT !.geo = cache[k]], "ok")
  BY <1>1, <1>3 DEF Hit
<1>5. CASE r.kind = "dns"
  <2>1. PICK s, e : s = [r EXCEPT !.got = cache[k]] /\ e = [s EXCEPT !.pc = "idle", !.ask = << >>, !.status = "ok"]
    OBVIOUS
  <2>2. Update(c, e)
    BY <1>4, <1>5, <2>1 DEF EndCall
  <2>3. /\ e.kind = r.kind /\ e.about = r.about /\ e.asked = r.asked /\ e.left = r.left /\ e.geo = r.geo
        /\ e.pc = "idle" /\ e.ask = << >> /\ e.status = "ok" /\ e.got = cache[k] /\ DOMAIN e = Fields
    BY <1>2, <2>1 DEF Formed, Fields
  <2>4. /\ cache[k] = [t \in ToSet(r.asked) |-> Truth(r.about, t)] /\ zone[r.about].exists
    <3>1. k = <<"dns", r.about, r.asked>>
      BY <1>3, <1>5 DEF Key
    <3>2. QED
      BY <1>3, <3>1 DEF Entry
  <2>5. Formed(e)
    BY <1>2, <2>3 DEF Formed
  <2>6. Told(e)
    BY <1>5, <2>3, <2>4 DEF Told
  <2>7. Placed(e) /\ ~Filling(e)
    BY <1>2, <1>5, <2>3 DEF Placed, Filling
  <2>8. QED
    BY <1>4, <2>2, <2>5, <2>6, <2>7, UpdatedOnly
<1>6. CASE r.kind = "mx"
  <2>1. PICK g, s, e : /\ g = [t \in {"MX"} |-> cache[k]] /\ s = [r EXCEPT !.got = g]
                       /\ e = [s EXCEPT !.pc = "idle", !.ask = << >>, !.status = "ok"]
    OBVIOUS
  <2>2. Update(c, e)
    BY <1>4, <1>6, <2>1 DEF EndCall
  <2>3. /\ e.kind = r.kind /\ e.about = r.about /\ e.asked = r.asked /\ e.left = r.left /\ e.geo = r.geo
        /\ e.pc = "idle" /\ e.ask = << >> /\ e.status = "ok" /\ e.got = g /\ DOMAIN e = Fields
    BY <1>2, <2>1 DEF Formed, Fields
  <2>4. /\ cache[k] = Usable(Truth(r.about, "MX")) /\ zone[r.about].exists
    <3>1. k = <<"mx", r.about>>
      BY <1>3, <1>6 DEF Key
    <3>2. QED
      BY <1>3, <3>1 DEF Entry
  <2>5. r.asked = <<"MX">> /\ ToSet(r.asked) = {"MX"}
    BY <1>2, <1>6 DEF Formed, ToSet
  <2>6. Formed(e)
    BY <1>2, <2>3 DEF Formed
  <2>7. Told(e)
    BY <1>6, <2>1, <2>3, <2>4, <2>5 DEF Told
  <2>8. Placed(e) /\ ~Filling(e)
    BY <1>2, <1>6, <2>3 DEF Placed, Filling
  <2>9. QED
    BY <1>4, <2>2, <2>6, <2>7, <2>8, UpdatedOnly
<1>7. CASE r.kind \notin {"dns", "mx"}
  <2>1. PICK v, s, e : /\ v = cache[k] /\ s = [r EXCEPT !.geo = v]
                       /\ e = [s EXCEPT !.pc = "idle", !.ask = << >>, !.status = "ok"]
    OBVIOUS
  <2>2. Update(c, e)
    BY <1>4, <1>7, <2>1 DEF EndCall
  <2>3. /\ e.kind = r.kind /\ e.about = r.about /\ e.asked = r.asked /\ e.left = r.left /\ e.geo = v
        /\ e.pc = "idle" /\ e.ask = << >> /\ e.status = "ok" /\ e.got = r.got /\ DOMAIN e = Fields
    BY <1>2, <2>1 DEF Formed, Fields
  <2>4. /\ r.kind \in {"url", "ip"}
        /\ r.kind = "ip" => v = r.about /\ v \in Public
        /\ r.kind = "url" => v \in Public /\ Shared(v, r.about)
    <3>1. r.kind \in {"url", "ip"}
      BY <1>2, <1>4, <1>7 DEF Formed
    <3>2. CASE r.kind = "ip"
      <4>1. k = <<"ip", r.about>>
        BY <1>3, <3>2 DEF Key
      <4>2. QED
        BY <1>3, <2>1, <3>2, <4>1 DEF Entry
    <3>3. CASE r.kind = "url"
      <4>1. PICK p : p = PublicOf(Resolved(r)) /\ p # << >>
        BY <1>2, <1>4, <3>3 DEF Placed
      <4>2. Head(p) \in AddressesOf(r.about)
        BY <1>2, <3>3, <4>1, Members, ReadAddresses
      <4>3. k = <<"urlgeo", Head(p)>>
        BY <1>3, <3>3, <4>1 DEF Key
      <4>4. v \in Public /\ \E d \in Names : Head(p) \in AddressesOf(d) /\ v \in AddressesOf(d)
        BY <1>3, <2>1, <4>3 DEF Entry
      <4>5. QED
        BY <3>3, <4>2, <4>4 DEF Shared
    <3>4. QED
      BY <3>1, <3>2, <3>3
  <2>5. Formed(e)
    BY <1>2, <2>3, <2>4, ZoneAssumption DEF Formed
  <2>6. Told(e)
    BY <1>2, <1>7, <2>3 DEF Told
  <2>7. Placed(e) /\ ~Filling(e)
    BY <2>3, <2>4 DEF Placed, Filling
  <2>8. QED
    BY <1>4, <2>2, <2>5, <2>6, <2>7, UpdatedOnly
<1>8. QED
  BY <1>5, <1>6, <1>7

\* Calls that nobody touches stay as they should be.
LEMMA CallsKept ==
  ASSUME LookupsInv, zone' = zone, call' = call,
         IsFiniteSet(DOMAIN cache'), Cardinality(DOMAIN cache') <= MaxEntries, Kept'
  PROVE  LookupsInv'
<1>1. zone' \in Zones /\ DOMAIN call' = Callers
  BY DEF LookupsInv
<1>2. \A e \in Callers : (Formed(call[e]) /\ Told(call[e]) /\ Placed(call[e]))'
  <2>1. SUFFICES ASSUME NEW e \in Callers
                 PROVE  (Formed(call[e]) /\ Told(call[e]) /\ Placed(call[e]))'
    OBVIOUS
  <2>2. PICK s : s = call'[e] /\ Formed(s) /\ Told(s) /\ Placed(s)
    BY DEF LookupsInv
  <2>3. QED
    BY <2>2, StillTrue
<1>3. \A d, e \in Callers : (Fills(d) /\ Fills(e) /\ Key(call[d]) = Key(call[e]) => d = e)'
  <2>1. \A d \in Callers : Fills(d)' <=> Fills(d)
    BY DEF Fills
  <2>2. \A d \in Callers : Key(call[d])' = Key(call[d])
    BY DEF Key, Resolved, Found
  <2>3. QED
    BY <2>1, <2>2 DEF LookupsInv
<1>4. QED
  BY <1>1, <1>2, <1>3 DEF LookupsInv

\* The next of the types that a call has left to ask for.
LEMMA NextType ==
  ASSUME NEW r, Formed(r), r.left # << >>
  PROVE  /\ \E n \in 0..Len(r.asked) : Tail(r.left) = SubSeq(r.asked, n + 1, Len(r.asked))
         /\ Head(r.left) \in ToSet(r.asked) /\ ToSet(r.left) = {Head(r.left)} \cup ToSet(Tail(r.left))
<1>1. PICK a \in Seq(Types), n \in 0..Len(r.asked) : a = r.asked /\ r.left = SubSeq(a, n + 1, Len(a))
  BY DEF Formed
<1>2. Len(a) \in Nat
  BY <1>1
<1>3. PICK l, m : l = r.left /\ m = Len(a) /\ m \in Nat
  BY <1>2
<1>4. n \in 0..m /\ l = SubSeq(a, n + 1, m) /\ l # << >>
  BY <1>1, <1>3
<1>5. l \in Seq(Types) /\ Len(l) = m - n /\ \A i \in 1..m - n : l[i] = a[n + i]
  <2>1. SubSeq(a, n + 1, m) \in Seq(Types) /\ Len(SubSeq(a, n + 1, m)) = m - n
    BY <1>1, <1>3, <1>4, SMTT(30)
  <2>2. \A i \in 1..m - n : SubSeq(a, n + 1, m)[i] = a[n + i]
    BY <1>1, <1>3, <1>4
  <2>3. QED
    BY <1>4, <2>1, <2>2
<1>6. n < m
  BY <1>4, <1>5, EmptySeq
<1>7. Tail(l) = SubSeq(a, n + 2, m)
  <2>1. Len(Tail(l)) = m - n - 1 /\ \A i \in 1..m - n - 1 : Tail(l)[i] = l[i + 1]
    BY <1>4, <1>5, <1>6
  <2>2. Len(SubSeq(a, n + 2, m)) = m - n - 1 /\ \A i \in 1..m - n - 1 : SubSeq(a, n + 2, m)[i] = a[n + 1 + i]
    BY <1>1, <1>3, <1>4, <1>6
  <2>3. \A i \in 1..m - n - 1 : Tail(l)[i] = SubSeq(a, n + 2, m)[i]
    <3>1. SUFFICES ASSUME NEW i \in 1..m - n - 1 PROVE Tail(l)[i] = SubSeq(a, n + 2, m)[i]
      OBVIOUS
    <3>2. Tail(l)[i] = l[i + 1] /\ SubSeq(a, n + 2, m)[i] = a[n + 1 + i]
      BY <2>1, <2>2
    <3>3. l[i + 1] = a[n + (i + 1)] /\ n + (i + 1) = n + 1 + i
      BY <1>4, <1>5
    <3>4. QED
      BY <3>2, <3>3
  <2>4. Tail(l) \in Seq(Types) /\ SubSeq(a, n + 2, m) \in Seq(Types)
    BY <1>1, <1>3, <1>4, <1>5
  <2>5. QED
    BY <2>1, <2>2, <2>3, <2>4, SeqEqual
<1>8. Head(l) \in ToSet(a)
  <2>1. Head(l) = a[n + 1] /\ n + 1 \in 1..Len(a)
    BY <1>3, <1>4, <1>5, <1>6
  <2>2. QED
    BY <2>1 DEF ToSet
<1>9. ToSet(l) = {Head(l)} \cup ToSet(Tail(l))
  <2>1. l \in Seq(Types) /\ l # << >>
    BY <1>4, <1>5
  <2>2. QED
    BY <2>1, Members, Zenon
<1>10. QED
  <2>1. n + 1 \in 0..Len(r.asked) /\ Tail(r.left) = SubSeq(r.asked, (n + 1) + 1, Len(r.asked))
    BY <1>1, <1>3, <1>4, <1>6, <1>7
  <2>2. QED
    BY <1>1, <1>3, <1>8, <1>9, <2>1

\* The cache without an entry.
LEMMA Shrunk ==
  ASSUME LookupsInv, zone' = zone, NEW key, cache' = [k \in DOMAIN cache \ {key} |-> cache[k]]
  PROVE  IsFiniteSet(DOMAIN cache') /\ Cardinality(DOMAIN cache') <= MaxEntries /\ Kept'
<1>1. DOMAIN cache' \subseteq DOMAIN cache /\ \A k \in DOMAIN cache' : cache'[k] = cache[k]
  OBVIOUS
<1>2. IsFiniteSet(DOMAIN cache') /\ Cardinality(DOMAIN cache') <= Cardinality(DOMAIN cache)
  BY <1>1, FS_Subset DEF LookupsInv
<1>3. Cardinality(DOMAIN cache') \in Nat /\ Cardinality(DOMAIN cache) \in Nat
  BY <1>2, FS_CardinalityType DEF LookupsInv
<1>4. Kept'
  BY <1>1 DEF LookupsInv, Kept, Entry, Truth, AddressesOf
<1>5. QED
  BY <1>2, <1>3, <1>4, RoomAssumption DEF LookupsInv

\* A miss of the cache keeps the invariant.
LEMMA MissStep == ASSUME LookupsInv, NEW c \in Callers, Miss(c) PROVE LookupsInv'
<1>1. PICK r, p, e : /\ r = call[c] /\ p = IF r.kind \in {"dns", "mx"} THEN "query" ELSE "geo"
                     /\ e = [r EXCEPT !.pc = p]
  OBVIOUS
<1>2. zone \in Zones /\ Formed(r) /\ Told(r) /\ Placed(r)
  BY <1>1, Recall
<1>3. /\ r.pc = "cache" /\ Update(c, e) /\ zone' = zone
      /\ r.kind # "dns" => ~Taken(Key(r))
      /\ cache' = cache \/ cache' = [k \in DOMAIN cache \ {Key(r)} |-> cache[k]]
  BY <1>1 DEF Miss
<1>4. /\ e.kind = r.kind /\ e.about = r.about /\ e.asked = r.asked /\ e.left = r.left /\ e.geo = r.geo
      /\ e.pc = p /\ e.ask = r.ask /\ e.status = r.status /\ e.got = r.got /\ DOMAIN e = Fields
  BY <1>1, <1>2 DEF Formed, Fields
<1>5. \/ p = "query" /\ r.kind \in {"dns", "mx"}
      \/ p = "geo" /\ r.kind \in {"url", "ip"}
  BY <1>1, <1>2, <1>3 DEF Formed
<1>6. Formed(e)
  <2>1. \E n \in 0..Len(e.asked) : e.left = SubSeq(e.asked, n + 1, Len(e.asked))
    BY <1>2, <1>4 DEF Formed
  <2>2. CASE p = "query" /\ r.kind \in {"dns", "mx"}
    BY <1>2, <1>4, <2>1, <2>2 DEF Formed
  <2>3. CASE p = "geo" /\ r.kind \in {"url", "ip"}
    BY <1>2, <1>4, <2>1, <2>3 DEF Formed
  <2>4. QED
    BY <1>5, <2>2, <2>3
<1>7. Told(e)
  BY <1>1, <1>2, <1>3, <1>4 DEF Told
<1>8. Resolved(e) = Resolved(r) /\ Key(e) = Key(r)
  BY <1>4 DEF Resolved, Found, Key
<1>9. Placed(e)
  <2>1. CASE p = "query" /\ r.kind \in {"dns", "mx"}
    BY <1>2, <1>4, <2>1 DEF Placed
  <2>2. CASE r.kind = "url"
    <3>1. PublicOf(Resolved(e)) # << >> /\ e.ask # << >> /\ ToSet(e.ask) \subseteq Public \cap AddressesOf(e.about)
      BY <1>2, <1>3, <1>4, <1>8, <2>2 DEF Placed
    <3>2. e.geo # None => e.geo \in Public /\ Shared(e.geo, e.about)
      BY <1>2, <1>4, <2>2 DEF Placed
    <3>3. p = "geo"
      BY <1>1, <2>2
    <3>4. QED
      BY <1>4, <2>2, <3>1, <3>2, <3>3 DEF Placed
  <2>3. CASE p = "geo" /\ r.kind = "ip"
    BY <1>2, <1>3, <1>4, <2>3 DEF Placed
  <2>4. QED
    BY <1>5, <2>1, <2>2, <2>3
<1>10. Filling(e) => ~Taken(Key(e))
  BY <1>1, <1>3, <1>4, <1>8 DEF Filling
<1>11. IsFiniteSet(DOMAIN cache') /\ Cardinality(DOMAIN cache') <= MaxEntries /\ Kept'
  <2>1. CASE cache' = cache
    BY <1>3, <2>1 DEF LookupsInv, Kept, Entry, Truth, AddressesOf
  <2>2. CASE cache' = [k \in DOMAIN cache \ {Key(r)} |-> cache[k]]
    BY <1>3, <2>2, Shrunk
  <2>3. QED
    BY <1>3, <2>1, <2>2
<1>12. QED
  BY <1>3, <1>6, <1>7, <1>9, <1>10, <1>11, Updated

\* DNS answers for the next type.
LEMMA AnsweredStep == ASSUME LookupsInv, NEW c \in Callers, Answered(c) PROVE LookupsInv'
<1>1. PICK r, t, g, e :
        /\ r = call[c] /\ t = Head(r.left)
        /\ g = [u \in DOMAIN r.got \cup {t} |-> IF u = t THEN zone[r.about].records[t] ELSE r.got[u]]
        /\ e = [r EXCEPT !.left = Tail(r.left), !.got = g]
  OBVIOUS
<1>2. zone \in Zones /\ Formed(r) /\ Told(r) /\ Placed(r)
  BY <1>1, Recall
<1>3. /\ r.pc = "query" /\ r.left # << >> /\ zone[r.about].exists /\ Update(c, e)
      /\ zone' = zone /\ cache' = cache
  BY <1>1 DEF Answered, Asking
<1>4. /\ e.kind = r.kind /\ e.about = r.about /\ e.asked = r.asked /\ e.left = Tail(r.left) /\ e.geo = r.geo
      /\ e.pc = r.pc /\ e.ask = r.ask /\ e.status = r.status /\ e.got = g /\ DOMAIN e = Fields
  BY <1>1, <1>2 DEF Formed, Fields
<1>5. /\ \E n \in 0..Len(r.asked) : Tail(r.left) = SubSeq(r.asked, n + 1, Len(r.asked))
      /\ t \in ToSet(r.asked) /\ ToSet(r.left) = {t} \cup ToSet(Tail(r.left))
  BY <1>1, <1>2, <1>3, NextType
<1>6. Formed(e)
  BY <1>2, <1>4, <1>5 DEF Formed
<1>7. Told(e)
  <2>1. DOMAIN g = DOMAIN r.got \cup {t} /\ g = [u \in DOMAIN g |-> g[u]]
    BY <1>1
  <2>2. \A u \in DOMAIN g : g[u] = Truth(r.about, u)
    BY <1>1, <1>2, <1>3, <2>1 DEF Told, Truth
  <2>3. DOMAIN g \subseteq ToSet(r.asked)
    BY <1>2, <1>5, <2>1 DEF Told
  <2>4. r.kind \in {"dns", "mx"} => ToSet(r.asked) \subseteq DOMAIN g \cup ToSet(Tail(r.left))
    BY <1>2, <1>3, <1>5, <2>1 DEF Told
  <2>5. QED
    BY <1>3, <1>4, <2>1, <2>2, <2>3, <2>4 DEF Told
<1>8. Placed(e)
  BY <1>2, <1>3, <1>4 DEF Placed
<1>9. Filling(e) => Filling(r) /\ Key(e) = Key(r)
  BY <1>3, <1>4 DEF Filling, Key
<1>10. QED
  BY <1>1, <1>3, <1>6, <1>7, <1>8, <1>9, UpdatedOnly

\* DNS fails for the next type.
LEMMA FailsStep == ASSUME LookupsInv, NEW c \in Callers, Fails(c) PROVE LookupsInv'
<1>1. PICK r : r = call[c]
  OBVIOUS
<1>2. zone \in Zones /\ Formed(r) /\ Told(r) /\ Placed(r)
  BY <1>1, Recall
<1>3. PICK how \in {"failed", "nxdomain"} :
        IF r.kind \in {"dns", "mx"} THEN EndCall(c, [r EXCEPT !.got = << >>, !.left = << >>], how)
                                    ELSE Update(c, [r EXCEPT !.left = Tail(r.left)])
  BY <1>1 DEF Fails
<1>4. r.pc = "query" /\ r.left # << >> /\ zone' = zone /\ cache' = cache
  BY <1>1 DEF Fails, Asking
<1>5. CASE r.kind \in {"dns", "mx"}
  <2>1. PICK s, e : /\ s = [r EXCEPT !.got = << >>, !.left = << >>]
                    /\ e = [s EXCEPT !.pc = "idle", !.ask = << >>, !.status = how]
    OBVIOUS
  <2>2. Update(c, e)
    BY <1>3, <1>5, <2>1 DEF EndCall
  <2>3. /\ e.kind = r.kind /\ e.about = r.about /\ e.asked = r.asked /\ e.left = << >> /\ e.geo = r.geo
        /\ e.pc = "idle" /\ e.ask = << >> /\ e.status = how /\ e.got = << >> /\ DOMAIN e = Fields
    BY <1>2, <2>1 DEF Formed, Fields
  <2>4. \E n \in 0..Len(r.asked) : << >> = SubSeq(r.asked, n + 1, Len(r.asked))
    <3>1. PICK a \in Seq(Types) : a = r.asked
      BY <1>2 DEF Formed
    <3>2. << >> = SubSeq(a, Len(a) + 1, Len(a)) /\ Len(a) \in 0..Len(a)
      <4>1. SubSeq(a, Len(a) + 1, Len(a)) \in Seq(Types) /\ Len(SubSeq(a, Len(a) + 1, Len(a))) = 0
        BY <3>1
      <4>2. Len(a) \in Nat
        BY <3>1
      <4>3. QED
        BY <4>1, <4>2, EmptySeq
    <3>3. QED
      BY <3>1, <3>2
  <2>5. Formed(e)
    <3>1. \E n \in 0..Len(e.asked) : e.left = SubSeq(e.asked, n + 1, Len(e.asked))
      BY <2>3, <2>4
    <3>2. e.status \in {"none", "ok", "nxdomain", "failed", "blocked"} /\ e.ask \in Seq(Addresses)
      BY <2>3
    <3>3. QED
      BY <1>2, <1>5, <2>3, <3>1, <3>2 DEF Formed
  <2>6. e.got = [t \in DOMAIN e.got |-> e.got[t]] /\ DOMAIN e.got = {}
    BY <2>3
  <2>7. Told(e)
    BY <2>3, <2>6 DEF Told
  <2>8. Placed(e) /\ ~Filling(e)
    BY <1>2, <1>5, <2>3 DEF Placed, Filling
  <2>9. QED
    BY <1>4, <2>2, <2>5, <2>7, <2>8, UpdatedOnly
<1>6. CASE r.kind \notin {"dns", "mx"}
  <2>1. PICK e : e = [r EXCEPT !.left = Tail(r.left)]
    OBVIOUS
  <2>2. Update(c, e)
    BY <1>3, <1>6, <2>1
  <2>3. /\ e.kind = r.kind /\ e.about = r.about /\ e.asked = r.asked /\ e.left = Tail(r.left) /\ e.geo = r.geo
        /\ e.pc = r.pc /\ e.ask = r.ask /\ e.status = r.status /\ e.got = r.got /\ DOMAIN e = Fields
    BY <1>2, <2>1 DEF Formed, Fields
  <2>4. \E n \in 0..Len(r.asked) : Tail(r.left) = SubSeq(r.asked, n + 1, Len(r.asked))
    BY <1>2, <1>4, NextType
  <2>5. Formed(e)
    BY <1>2, <2>3, <2>4 DEF Formed
  <2>6. Told(e)
    BY <1>2, <1>6, <2>3 DEF Told
  <2>7. Placed(e) /\ ~Filling(e)
    BY <1>2, <1>4, <1>6, <2>3 DEF Placed, Filling
  <2>8. QED
    BY <1>4, <2>2, <2>5, <2>6, <2>7, UpdatedOnly
<1>7. QED
  BY <1>5, <1>6

\* A call that ends without having learned anything new.
Ended(e, r) ==
  /\ DOMAIN e = Fields /\ e.kind = r.kind /\ e.about = r.about /\ e.asked = r.asked /\ e.left = r.left
  /\ e.pc = "idle" /\ e.ask = << >>

\* A call that ends keeps what it found.
LEMMA EndedCall ==
  ASSUME NEW r, Formed(r), NEW e, NEW o \in {"ok", "blocked"}, e = [r EXCEPT !.pc = "idle", !.ask = << >>, !.status = o]
  PROVE  Ended(e, r) /\ e.got = r.got /\ e.geo = r.geo /\ e.status = o
BY DEF Formed, Ended, Fields

\* A call that has ended is well formed and fills nothing.
LEMMA EndedFormed ==
  ASSUME NEW r, Formed(r), NEW e, Ended(e, r), e.geo \in Addresses \cup {None}, e.status \in {"ok", "blocked"}
  PROVE  Formed(e) /\ ~Filling(e)
<1>1. \E n \in 0..Len(e.asked) : e.left = SubSeq(e.asked, n + 1, Len(e.asked))
  BY DEF Formed, Ended
<1>2. e.ask \in Seq(Addresses)
  BY DEF Ended
<1>3. Formed(e)
  BY <1>1, <1>2 DEF Formed, Ended
<1>4. QED
  BY <1>3 DEF Ended, Filling

\* All types have been asked for.
LEMMA CompleteStep == ASSUME LookupsInv, NEW c \in Callers, Complete(c) PROVE LookupsInv'
<1>1. PICK r : r = call[c]
  OBVIOUS
<1>2. zone \in Zones /\ Formed(r) /\ Told(r) /\ Placed(r)
  BY <1>1, Recall
<1>3. r.pc = "query" /\ r.left = << >> /\ zone' = zone
  BY <1>1 DEF Complete
<1>4. /\ r.kind \in {"dns", "mx"} => DOMAIN r.got = ToSet(r.asked)
      /\ r.kind = "mx" => r.asked = <<"MX">> /\ ToSet(r.asked) = {"MX"}
      /\ r.kind = "dns" => r.about \in Names /\ r.asked \in Seq(Types) /\ ToSet(r.asked) # {}
  <2>1. r.kind \in {"dns", "mx"} => DOMAIN r.got = ToSet(r.asked)
    BY <1>2, <1>3, Nothing DEF Told
  <2>2. r.kind = "mx" => r.asked = <<"MX">> /\ ToSet(r.asked) = {"MX"}
    BY <1>2 DEF Formed, ToSet
  <2>3. r.kind = "dns" => r.about \in Names /\ r.asked \in Seq(Types) /\ r.asked # << >>
    BY <1>2 DEF Formed
  <2>4. QED
    BY <2>1, <2>2, <2>3, Members
<1>5. CASE r.kind = "dns"
  <2>1. PICK e : e = [r EXCEPT !.pc = "idle", !.ask = << >>, !.status = "ok"]
    OBVIOUS
  <2>2. Update(c, e) /\ (Remember(Key(r), r.got) \/ cache' = cache)
    BY <1>1, <1>5, <2>1 DEF Complete, EndCall
  <2>3. Ended(e, r) /\ e.got = r.got /\ e.geo = r.geo /\ e.status = "ok"
    BY <1>2, <2>1, EndedCall
  <2>4. Formed(e) /\ ~Filling(e)
    BY <1>2, <2>3, EndedFormed DEF Formed
  <2>5. Told(e)
    BY <1>2, <1>4, <1>5, <2>3 DEF Told, Ended
  <2>6. Placed(e)
    BY <1>5, <2>3 DEF Placed, Ended
  <2>7. Entry(Key(r), r.got)
    <3>1. Key(r) = <<"dns", r.about, r.asked>>
      BY <1>5 DEF Key
    <3>2. zone[r.about].exists /\ \A t \in DOMAIN r.got : r.got[t] = Truth(r.about, t)
      BY <1>2, <1>4, <1>5 DEF Told
    <3>3. r.got = [t \in ToSet(r.asked) |-> Truth(r.about, t)]
      BY <1>2, <1>4, <1>5, <3>2 DEF Told
    <3>4. QED
      BY <1>4, <1>5, <3>1, <3>2, <3>3 DEF Entry
  <2>8. CASE Remember(Key(r), r.got)
    <3>1. IsFiniteSet(DOMAIN cache') /\ Cardinality(DOMAIN cache') <= MaxEntries /\ Kept'
      BY <1>3, <2>7, <2>8, Remembered
    <3>2. QED
      BY <1>3, <2>2, <2>4, <2>5, <2>6, <3>1, Updated
  <2>9. CASE cache' = cache
    BY <1>3, <2>2, <2>4, <2>5, <2>6, <2>9, UpdatedOnly
  <2>10. QED
    BY <2>2, <2>8, <2>9
<1>6. CASE r.kind = "mx"
  <2>1. PICK v, g, s, e : /\ v = Usable(r.got["MX"]) /\ g = [t \in {"MX"} |-> v] /\ s = [r EXCEPT !.got = g]
                          /\ e = [s EXCEPT !.pc = "idle", !.ask = << >>, !.status = "ok"]
    OBVIOUS
  <2>2. Update(c, e) /\ Remember(Key(r), v)
    BY <1>1, <1>6, <2>1 DEF Complete, EndCall
  <2>3. Ended(e, r) /\ e.got = g /\ e.geo = r.geo /\ e.status = "ok"
    BY <1>2, <2>1 DEF Formed, Ended, Fields
  <2>4. Formed(e) /\ ~Filling(e)
    BY <1>2, <2>3, EndedFormed DEF Formed
  <2>5. v = Usable(Truth(r.about, "MX")) /\ zone[r.about].exists
    BY <1>2, <1>3, <1>4, <1>6, <2>1 DEF Told
  <2>6. Told(e)
    BY <1>4, <1>6, <2>1, <2>3, <2>5 DEF Told, Ended
  <2>7. Placed(e)
    BY <1>6, <2>3 DEF Placed, Ended
  <2>8. Entry(Key(r), v)
    <3>1. Key(r) = <<"mx", r.about>> /\ r.about \in Names
      BY <1>2, <1>6 DEF Key, Formed
    <3>2. QED
      BY <2>5, <3>1 DEF Entry
  <2>9. IsFiniteSet(DOMAIN cache') /\ Cardinality(DOMAIN cache') <= MaxEntries /\ Kept'
    BY <1>3, <2>2, <2>8, Remembered
  <2>10. QED
    BY <1>3, <2>2, <2>4, <2>6, <2>7, <2>9, Updated
<1>7. ASSUME r.kind \in {"email", "domain", "url"}, cache' = cache, NEW o \in {"ok", "blocked"}, EndCall(c, r, o)
      PROVE  LookupsInv'
  <2>1. PICK e : e = [r EXCEPT !.pc = "idle", !.ask = << >>, !.status = o]
    OBVIOUS
  <2>2. Update(c, e)
    BY <1>7, <2>1 DEF EndCall
  <2>3. Ended(e, r) /\ e.got = r.got /\ e.geo = r.geo /\ e.status = o
    BY <1>2, <2>1, EndedCall
  <2>4. Formed(e) /\ ~Filling(e)
    BY <1>2, <2>3, EndedFormed DEF Formed
  <2>5. Told(e)
    BY <1>2, <1>7, <2>3 DEF Told, Ended
  <2>6. Placed(e)
    BY <1>2, <1>7, <2>3 DEF Placed, Ended
  <2>7. QED
    BY <1>3, <1>7, <2>2, <2>4, <2>5, <2>6, UpdatedOnly
<1>8. CASE r.kind = "email"
  BY <1>1, <1>7, <1>8 DEF Complete
<1>9. CASE r.kind = "domain" /\ Found(r, "A") = << >>
  BY <1>1, <1>7, <1>9 DEF Complete
<1>10. CASE r.kind = "domain" /\ Found(r, "A") # << >>
  <2>1. PICK a, e : a = <<Head(Found(r, "A"))>> /\ e = [r EXCEPT !.pc = "geo", !.ask = a]
    OBVIOUS
  <2>2. Update(c, e) /\ cache' = cache
    BY <1>1, <1>10, <2>1 DEF Complete
  <2>3. /\ e.kind = r.kind /\ e.about = r.about /\ e.asked = r.asked /\ e.left = r.left /\ e.geo = r.geo
        /\ e.pc = "geo" /\ e.ask = a /\ e.status = r.status /\ e.got = r.got /\ DOMAIN e = Fields
    BY <1>2, <2>1 DEF Formed, Fields
  <2>4. /\ "A" \in DOMAIN r.got /\ Found(r, "A") = Truth(r.about, "A") /\ r.about \in Names
    BY <1>2, <1>10 DEF Found, Told, Formed
  <2>5. a \in Seq(Addresses)
    <3>1. PICK s \in Seq(Addresses) : s = Found(r, "A") /\ s # << >>
      BY <1>2, <1>10, <2>4, ReadRecords
    <3>2. Head(s) \in Addresses
      BY <3>1
    <3>3. QED
      BY <2>1, <3>1, <3>2
  <2>6. Formed(e)
    <3>1. \E n \in 0..Len(e.asked) : e.left = SubSeq(e.asked, n + 1, Len(e.asked))
      BY <1>2, <2>3 DEF Formed
    <3>2. QED
      BY <1>2, <1>10, <2>3, <2>5, <3>1 DEF Formed
  <2>7. Told(e)
    BY <1>2, <1>10, <2>3 DEF Told
  <2>8. Placed(e) /\ ~Filling(e)
    BY <1>2, <1>10, <2>1, <2>3, <2>4 DEF Placed, Filling
  <2>9. QED
    BY <1>3, <2>2, <2>6, <2>7, <2>8, UpdatedOnly
<1>11. CASE r.kind = "url" /\ (Resolved(r) = << >> \/ PublicOf(Resolved(r)) = << >>)
  BY <1>1, <1>7, <1>11 DEF Complete
<1>12. CASE r.kind = "url" /\ Resolved(r) # << >> /\ PublicOf(Resolved(r)) # << >>
  <2>1. PICK a, e : a = PublicOf(Resolved(r)) /\ e = [r EXCEPT !.pc = "cache", !.ask = a]
    OBVIOUS
  <2>2. Update(c, e) /\ cache' = cache
    BY <1>1, <1>12, <2>1 DEF Complete
  <2>3. /\ e.kind = r.kind /\ e.about = r.about /\ e.asked = r.asked /\ e.left = r.left /\ e.geo = r.geo
        /\ e.pc = "cache" /\ e.ask = a /\ e.status = r.status /\ e.got = r.got /\ DOMAIN e = Fields
    BY <1>2, <2>1 DEF Formed, Fields
  <2>4. a \in Seq(Addresses) /\ ToSet(a) \subseteq Public \cap AddressesOf(r.about) /\ a # << >>
    BY <1>2, <1>12, <2>1, ReadAddresses
  <2>5. Resolved(e) = Resolved(r)
    BY <2>3 DEF Resolved, Found
  <2>6. Formed(e)
    <3>1. \E n \in 0..Len(e.asked) : e.left = SubSeq(e.asked, n + 1, Len(e.asked))
      BY <1>2, <2>3 DEF Formed
    <3>2. QED
      BY <1>2, <1>12, <2>3, <2>4, <3>1 DEF Formed
  <2>7. Told(e)
    BY <1>2, <1>12, <2>3 DEF Told
  <2>8. Placed(e) /\ ~Filling(e)
    BY <1>2, <1>12, <2>1, <2>3, <2>4, <2>5 DEF Placed, Filling
  <2>9. QED
    BY <1>3, <2>2, <2>6, <2>7, <2>8, UpdatedOnly
<1>13. QED
  BY <1>2, <1>3, <1>5, <1>6, <1>8, <1>9, <1>10, <1>11, <1>12 DEF Formed, Kinds

\* The next address that a call has to ask for.
LEMMA NextAddress ==
  ASSUME NEW r, Formed(r), Told(r), Placed(r), zone \in Zones, r.pc = "geo"
  PROVE  /\ r.ask # << >> /\ Head(r.ask) \in Addresses /\ r.kind \in {"domain", "url", "ip"}
         /\ r.kind = "ip" => Head(r.ask) = r.about /\ r.about \in Public
         /\ r.kind = "domain" => Head(r.ask) = Head(Truth(r.about, "A"))
         /\ r.kind = "url" => /\ Head(r.ask) \in Public \cap AddressesOf(r.about)
                              /\ Shared(Head(r.ask), r.about)
<1>1. r.kind \in {"domain", "url", "ip"} /\ r.ask \in Seq(Addresses)
      /\ (r.kind # "ip" => r.about \in Names)
  BY DEF Formed
<1>2. CASE r.kind = "ip"
  <2>1. r.ask = <<r.about>> /\ r.about \in Public
    BY <1>2 DEF Placed
  <2>2. QED
    BY <1>2, <2>1, ZoneAssumption
<1>3. CASE r.kind = "domain"
  <2>1. PICK s \in Seq(Addresses) : s = Truth(r.about, "A") /\ s # << >> /\ r.ask = <<Head(s)>>
    BY <1>1, <1>3, ReadRecords DEF Placed
  <2>2. Head(s) \in Addresses
    BY <2>1
  <2>3. QED
    BY <1>3, <2>1, <2>2
<1>4. CASE r.kind = "url"
  <2>1. r.ask # << >> /\ ToSet(r.ask) \subseteq Public \cap AddressesOf(r.about)
    BY <1>4 DEF Placed
  <2>2. Head(r.ask) \in ToSet(r.ask)
    BY <1>1, <2>1, Members
  <2>3. Head(r.ask) \in Public \cap AddressesOf(r.about) /\ r.about \in Names
    BY <1>1, <1>4, <2>1, <2>2
  <2>4. QED
    BY <1>4, <2>1, <2>3, ZoneAssumption DEF Shared
<1>5. QED
  BY <1>1, <1>2, <1>3, <1>4

\* The GeoIP provider has an answer.
LEMMA LocatedStep == ASSUME LookupsInv, NEW c \in Callers, Located(c) PROVE LookupsInv'
<1>1. PICK q, a, r : q = call[c] /\ a = Head(q.ask) /\ r = [q EXCEPT !.geo = a]
  OBVIOUS
<1>2. zone \in Zones /\ Formed(q) /\ Told(q) /\ Placed(q)
  BY <1>1, Recall
<1>3. /\ q.pc = "geo" /\ zone' = zone
      /\ CASE r.kind = "url" -> EndCall(c, r, "ok") /\ Remember(Key(r), r.geo)
           [] r.kind = "domain" -> EndCall(c, r, "ok") /\ UNCHANGED cache
           [] r.kind = "ip" -> Update(c, [r EXCEPT !.pc = "intel"]) /\ UNCHANGED cache
  BY <1>1 DEF Located
<1>4. /\ q.ask # << >> /\ a \in Addresses /\ q.kind \in {"domain", "url", "ip"}
      /\ q.kind = "ip" => a = q.about /\ q.about \in Public
      /\ q.kind = "domain" => a = Head(Truth(q.about, "A"))
      /\ q.kind = "url" => a \in Public \cap AddressesOf(q.about) /\ Shared(a, q.about)
  BY <1>1, <1>2, <1>3, NextAddress
<1>5. /\ r.kind = q.kind /\ r.about = q.about /\ r.asked = q.asked /\ r.left = q.left /\ r.geo = a
      /\ r.pc = q.pc /\ r.ask = q.ask /\ r.status = q.status /\ r.got = q.got /\ DOMAIN r = Fields
  BY <1>1, <1>2 DEF Formed, Fields
<1>6. ASSUME q.kind \in {"url", "domain"}, NEW e, e = [r EXCEPT !.pc = "idle", !.ask = << >>, !.status = "ok"]
      PROVE  Formed(e) /\ Told(e) /\ Placed(e) /\ ~Filling(e)
  <2>1. Ended(e, q) /\ e.got = q.got /\ e.geo = a /\ e.status = "ok"
    BY <1>5, <1>6 DEF Ended, Fields
  <2>2. Formed(e) /\ ~Filling(e)
    BY <1>2, <1>4, <2>1, EndedFormed
  <2>3. Told(e)
    BY <1>2, <1>6, <2>1 DEF Told, Ended
  <2>4. Placed(e)
    BY <1>4, <1>6, <2>1 DEF Placed, Ended
  <2>5. QED
    BY <2>2, <2>3, <2>4
<1>7. CASE q.kind = "url"
  <2>1. PICK e : e = [r EXCEPT !.pc = "idle", !.ask = << >>, !.status = "ok"]
    OBVIOUS
  <2>2. Update(c, e) /\ Remember(Key(r), a)
    BY <1>3, <1>5, <1>7, <2>1 DEF EndCall
  <2>3. Formed(e) /\ Told(e) /\ Placed(e) /\ ~Filling(e)
    BY <1>6, <1>7, <2>1
  <2>4. Entry(Key(r), a)
    <3>1. PICK p \in Seq(Addresses) : p = PublicOf(Resolved(q)) /\ p # << >> /\ ToSet(p) \subseteq AddressesOf(q.about)
      BY <1>2, <1>3, <1>7, ReadAddresses DEF Placed
    <3>2. Resolved(r) = Resolved(q)
      BY <1>5 DEF Resolved, Found
    <3>3. Key(r) = <<"urlgeo", Head(p)>>
      BY <1>5, <1>7, <3>1, <3>2 DEF Key
    <3>4. Head(p) \in Addresses /\ Head(p) \in AddressesOf(q.about) /\ q.about \in Names
      BY <1>2, <1>7, <3>1, Members DEF Formed
    <3>5. QED
      BY <1>4, <1>7, <3>3, <3>4 DEF Entry
  <2>5. IsFiniteSet(DOMAIN cache') /\ Cardinality(DOMAIN cache') <= MaxEntries /\ Kept'
    BY <1>3, <2>2, <2>4, Remembered
  <2>6. QED
    BY <1>3, <2>2, <2>3, <2>5, Updated
<1>8. CASE q.kind = "domain"
  <2>1. PICK e : e = [r EXCEPT !.pc = "idle", !.ask = << >>, !.status = "ok"]
    OBVIOUS
  <2>2. Update(c, e) /\ cache' = cache
    BY <1>3, <1>5, <1>8, <2>1 DEF EndCall
  <2>3. Formed(e) /\ Told(e) /\ Placed(e) /\ ~Filling(e)
    BY <1>6, <1>8, <2>1
  <2>4. QED
    BY <1>3, <2>2, <2>3, UpdatedOnly
<1>9. CASE q.kind = "ip"
  <2>1. PICK e : e = [r EXCEPT !.pc = "intel"]
    OBVIOUS
  <2>2. Update(c, e) /\ cache' = cache
    BY <1>3, <1>5, <1>9, <2>1
  <2>3. /\ e.kind = q.kind /\ e.about = q.about /\ e.asked = q.asked /\ e.left = q.left /\ e.geo = a
        /\ e.pc = "intel" /\ e.ask = q.ask /\ e.status = q.status /\ e.got = q.got /\ DOMAIN e = Fields
    BY <1>5, <2>1 DEF Fields
  <2>4. Formed(e)
    <3>1. \E n \in 0..Len(e.asked) : e.left = SubSeq(e.asked, n + 1, Len(e.asked))
      BY <1>2, <2>3 DEF Formed
    <3>2. QED
      BY <1>2, <1>4, <1>9, <2>3, <3>1 DEF Formed
  <2>5. Told(e)
    BY <1>2, <1>9, <2>3 DEF Told
  <2>6. Placed(e)
    BY <1>2, <1>3, <1>4, <1>9, <2>3 DEF Placed
  <2>7. Filling(q) /\ Key(e) = Key(q)
    BY <1>3, <1>9, <2>3 DEF Filling, Key
  <2>8. QED
    BY <1>1, <1>3, <2>2, <2>4, <2>5, <2>6, <2>7, UpdatedOnly
<1>10. QED
  BY <1>4, <1>7, <1>8, <1>9

\* It has none.
LEMMA NotLocatedStep == ASSUME LookupsInv, NEW c \in Callers, NotLocated(c) PROVE LookupsInv'
<1>1. PICK r : r = call[c]
  OBVIOUS
<1>2. zone \in Zones /\ Formed(r) /\ Told(r) /\ Placed(r)
  BY <1>1, Recall
<1>3. /\ r.pc = "geo" /\ zone' = zone /\ cache' = cache
      /\ IF Len(r.ask) > 1 THEN Update(c, [r EXCEPT !.ask = Tail(r.ask)]) ELSE EndCall(c, r, "ok")
  BY <1>1 DEF NotLocated
<1>4. r.ask \in Seq(Addresses) /\ r.ask # << >> /\ r.kind \in {"domain", "url", "ip"}
      /\ (r.kind # "url" => Len(r.ask) = 1)
  BY <1>2, <1>3, NextAddress DEF Formed, Placed
<1>5. CASE Len(r.ask) > 1
  <2>1. PICK a, e : a = Tail(r.ask) /\ e = [r EXCEPT !.ask = a]
    OBVIOUS
  <2>2. Update(c, e)
    BY <1>3, <1>5, <2>1
  <2>3. /\ e.kind = r.kind /\ e.about = r.about /\ e.asked = r.asked /\ e.left = r.left /\ e.geo = r.geo
        /\ e.pc = r.pc /\ e.ask = a /\ e.status = r.status /\ e.got = r.got /\ DOMAIN e = Fields
    BY <1>2, <2>1 DEF Formed, Fields
  <2>4. r.kind = "url"
    <3>1. SUFFICES ASSUME r.kind # "url" PROVE FALSE
      OBVIOUS
    <3>2. PICK n : n = Len(r.ask) /\ n = 1
      BY <1>4, <3>1
    <3>3. QED
      BY <1>5, <3>2
  <2>5. a \in Seq(Addresses) /\ a # << >> /\ ToSet(a) \subseteq ToSet(r.ask)
    <3>1. a \in Seq(Addresses) /\ Len(a) = Len(r.ask) - 1 /\ ToSet(a) \subseteq ToSet(r.ask)
      BY <1>4, <2>1, Members
    <3>2. a # << >>
      BY <1>4, <1>5, <3>1, EmptySeq
    <3>3. QED
      BY <3>1, <3>2
  <2>6. Formed(e)
    <3>1. \E n \in 0..Len(e.asked) : e.left = SubSeq(e.asked, n + 1, Len(e.asked))
      BY <1>2, <2>3 DEF Formed
    <3>2. QED
      BY <1>2, <2>3, <2>5, <3>1 DEF Formed
  <2>7. Told(e)
    BY <1>2, <1>3, <2>3 DEF Told
  <2>8. Resolved(e) = Resolved(r) /\ Key(e) = Key(r)
    BY <2>3 DEF Resolved, Found, Key
  <2>9. Placed(e)
    <3>1. PublicOf(Resolved(e)) # << >> /\ ToSet(e.ask) \subseteq Public \cap AddressesOf(e.about)
      BY <1>2, <1>3, <2>3, <2>4, <2>5, <2>8 DEF Placed
    <3>2. e.geo # None => e.geo \in Public /\ Shared(e.geo, e.about)
      BY <1>2, <2>3, <2>4 DEF Placed
    <3>3. QED
      BY <1>3, <2>3, <2>4, <2>5, <3>1, <3>2 DEF Placed
  <2>10. Filling(r)
    BY <1>3, <2>4 DEF Filling
  <2>11. QED
    BY <1>1, <1>3, <2>2, <2>6, <2>7, <2>8, <2>9, <2>10, UpdatedOnly
<1>6. CASE ~(Len(r.ask) > 1)
  <2>1. PICK e : e = [r EXCEPT !.pc = "idle", !.ask = << >>, !.status = "ok"]
    OBVIOUS
  <2>2. Update(c, e)
    BY <1>3, <1>6, <2>1 DEF EndCall
  <2>3. Ended(e, r) /\ e.got = r.got /\ e.geo = r.geo /\ e.status = "ok"
    BY <1>2, <2>1, EndedCall
  <2>4. Formed(e) /\ ~Filling(e)
    BY <1>2, <2>3, EndedFormed DEF Formed
  <2>5. Told(e)
    BY <1>2, <1>4, <2>3 DEF Told, Ended
  <2>6. Placed(e)
    BY <1>2, <1>4, <2>3 DEF Placed, Ended
  <2>7. QED
    BY <1>3, <2>2, <2>4, <2>5, <2>6, UpdatedOnly
<1>7. QED
  BY <1>5, <1>6

\* The intelligence provider answers, or does not.
LEMMA IntelStep == ASSUME LookupsInv, NEW c \in Callers, Intel(c) \/ NoIntel(c) PROVE LookupsInv'
<1>1. PICK r : r = call[c]
  OBVIOUS
<1>2. zone \in Zones /\ Formed(r) /\ Told(r) /\ Placed(r)
  BY <1>1, Recall
<1>3. r.pc = "intel" /\ zone' = zone
  BY <1>1 DEF Intel, NoIntel
<1>4. r.kind = "ip" /\ r.geo = r.about /\ r.about \in Public
  BY <1>2, <1>3 DEF Formed, Placed
<1>5. CASE Intel(c)
  <2>1. PICK e : e = [r EXCEPT !.pc = "idle", !.ask = << >>, !.status = "ok"]
    OBVIOUS
  <2>2. Update(c, e) /\ Remember(Key(r), r.geo)
    BY <1>1, <1>5, <2>1 DEF Intel, EndCall
  <2>3. Ended(e, r) /\ e.got = r.got /\ e.geo = r.geo /\ e.status = "ok"
    BY <1>2, <2>1, EndedCall
  <2>4. Formed(e) /\ ~Filling(e)
    BY <1>2, <2>3, EndedFormed DEF Formed
  <2>5. Told(e)
    BY <1>2, <1>4, <2>3 DEF Told, Ended
  <2>6. Placed(e)
    BY <1>4, <2>3 DEF Placed, Ended
  <2>7. Entry(Key(r), r.geo)
    <3>1. Key(r) = <<"ip", r.about>>
      BY <1>4 DEF Key
    <3>2. QED
      BY <1>4, <3>1 DEF Entry
  <2>8. IsFiniteSet(DOMAIN cache') /\ Cardinality(DOMAIN cache') <= MaxEntries /\ Kept'
    BY <1>3, <2>2, <2>7, Remembered
  <2>9. QED
    BY <1>3, <2>2, <2>4, <2>5, <2>6, <2>8, Updated
<1>6. CASE NoIntel(c)
  <2>1. PICK s, e : s = [r EXCEPT !.geo = None] /\ e = [s EXCEPT !.pc = "idle", !.ask = << >>, !.status = "ok"]
    OBVIOUS
  <2>2. Update(c, e) /\ cache' = cache
    BY <1>1, <1>6, <2>1 DEF NoIntel, EndCall
  <2>3. Ended(e, r) /\ e.got = r.got /\ e.geo = None /\ e.status = "ok"
    BY <1>2, <2>1 DEF Formed, Ended, Fields
  <2>4. Formed(e) /\ ~Filling(e)
    BY <1>2, <2>3, EndedFormed
  <2>5. Told(e)
    BY <1>2, <1>4, <2>3 DEF Told, Ended
  <2>6. Placed(e)
    BY <1>4, <2>3 DEF Placed, Ended
  <2>7. QED
    BY <1>3, <2>2, <2>4, <2>5, <2>6, UpdatedOnly
<1>7. QED
  BY <1>5, <1>6

\* Entries that expire keep the invariant.
LEMMA ExpireStep == ASSUME LookupsInv, Expire PROVE LookupsInv'
<1>1. PICK key : cache' = [k \in DOMAIN cache \ {key} |-> cache[k]]
  BY DEF Expire
<1>2. zone' = zone /\ call' = call
  BY DEF Expire
<1>3. IsFiniteSet(DOMAIN cache') /\ Cardinality(DOMAIN cache') <= MaxEntries /\ Kept'
  BY <1>1, <1>2, Shrunk
<1>4. QED
  BY <1>2, <1>3, CallsKept

\* Every step keeps the invariant.
LEMMA LookupsNextStep == ASSUME LookupsInv, [LookupsNext]_lookupVars PROVE LookupsInv'
<1>1. CASE UNCHANGED lookupVars
  <2>1. zone' = zone /\ cache' = cache /\ call' = call
    BY <1>1 DEF lookupVars
  <2>2. IsFiniteSet(DOMAIN cache') /\ Cardinality(DOMAIN cache') <= MaxEntries /\ Kept'
    BY <2>1 DEF LookupsInv, Kept, Entry, Truth, AddressesOf
  <2>3. QED
    BY <2>1, <2>2, CallsKept
<1>2. CASE Expire
  BY <1>2, ExpireStep
<1>3. ASSUME NEW c \in Callers, Lookup(c) PROVE LookupsInv'
  BY <1>3, AskStep, HitStep, MissStep, AnsweredStep, FailsStep, CompleteStep, LocatedStep, NotLocatedStep,
     IntelStep DEF Lookup
<1>4. QED
  BY <1>1, <1>2, <1>3 DEF LookupsNext

(***************************************************************************)
(* What the invariant says of the answers.                                 *)
(***************************************************************************)
OnlyProvider(hosts) ==
  LET known == {ProviderOf[h] : h \in hosts} \ {None}
  IN IF Cardinality(known) = 1 THEN CHOOSE p \in known : TRUE ELSE None

\* The provider depends only on which hosts are usable.
LEMMA ProviderOfHosts == \A hosts : Provider(hosts) = OnlyProvider(ToSet(Usable(hosts)))
BY Zenon DEF Provider, OnlyProvider

\* What is said of mail follows from the MX records of the domain.
LEMMA MailOfTheDomain ==
  ASSUME LookupsInv, NEW c \in Callers, Done(c, {"mx", "email", "domain"}),
         NEW r, r = call[c], NEW hosts, hosts = Usable(Truth(r.about, "MX"))
  PROVE  /\ r.kind = "mx" => r.got["MX"] = hosts
         /\ Mail(r) = "yes" => zone[r.about].exists /\ hosts # << >>
         /\ Mail(r) = "no" => zone[r.about].exists /\ hosts = << >>
         /\ Category(r) = "business" => Provider(hosts) = Provider(Found(r, "MX"))
         /\ Parked(r) = "no" => hosts # << >>
<1>1. zone \in Zones /\ Formed(r) /\ Told(r)
  BY Recall
<1>2. r.pc = "idle" /\ r.status = "ok" /\ r.kind \in {"mx", "email", "domain"}
  BY DEF Done
<1>3. PICK t \in Seq(Mailers) : t = Truth(r.about, "MX") /\ hosts = Usable(t)
  BY <1>1, <1>2, ReadRecords DEF Formed
<1>4. /\ ToSet(Usable(hosts)) = ToSet(hosts)
      /\ Usable(hosts) = << >> <=> hosts = << >>
  BY <1>3, UsableMembers
<1>5. Provider(hosts) = Provider(t)
  BY <1>3, <1>4, ProviderOfHosts
<1>6. ASSUME "MX" \in DOMAIN r.got
      PROVE  /\ zone[r.about].exists /\ Found(r, "MX") = r.got["MX"]
             /\ r.got["MX"] = IF r.kind = "mx" THEN hosts ELSE t
             /\ Usable(r.got["MX"]) = << >> <=> hosts = << >>
  <2>1. zone[r.about].exists /\ Found(r, "MX") = r.got["MX"]
    BY <1>1, <1>6 DEF Told, Found
  <2>2. r.got["MX"] = IF r.kind = "mx" THEN hosts ELSE t
    BY <1>1, <1>2, <1>3, <1>6 DEF Told
  <2>3. QED
    BY <1>3, <1>4, <2>1, <2>2
<1>7. r.kind = "mx" => "MX" \in DOMAIN r.got /\ r.got["MX"] = hosts
  <2>1. r.kind = "mx" => ToSet(r.asked) = {"MX"}
    BY <1>1 DEF Formed, ToSet
  <2>2. r.kind = "mx" => "MX" \in DOMAIN r.got
    BY <1>1, <1>2, <2>1 DEF Told
  <2>3. QED
    BY <1>6, <2>2
<1>8. /\ Mail(r) = "yes" => zone[r.about].exists /\ hosts # << >>
      /\ Mail(r) = "no" => zone[r.about].exists /\ hosts = << >>
  BY <1>6 DEF Mail
<1>9. Category(r) = "business" => Provider(hosts) = Provider(Found(r, "MX"))
  <2>1. CASE "MX" \in DOMAIN r.got
    BY <1>5, <1>6, <2>1
  <2>2. CASE "MX" \notin DOMAIN r.got
    <3>1. Found(r, "MX") = << >>
      BY <2>2 DEF Found
    <3>2. Provider(<< >>) = None
      <4>1. Provider(<< >>) = OnlyProvider({})
        BY Nothing, ProviderOfHosts
      <4>2. {ProviderOf[h] : h \in {}} \ {None} = {} /\ Cardinality({}) = 0
        BY FS_EmptySet
      <4>3. QED
        BY <4>1, <4>2 DEF OnlyProvider
    <3>3. Category(r) # "business"
      BY <3>1, <3>2 DEF Category
    <3>4. QED
      BY <3>3
  <2>3. QED
    BY <2>1, <2>2
<1>10. Parked(r) = "no" => hosts # << >>
  <2>1. CASE "MX" \in DOMAIN r.got
    BY <1>6, <2>1 DEF Parked
  <2>2. CASE "MX" \notin DOMAIN r.got
    BY <2>2, Nothing DEF Parked, Found
  <2>3. QED
    BY <2>1, <2>2
<1>11. QED
  BY <1>7, <1>8, <1>9, <1>10

\* The invariant is about what callers are told.
LEMMA AnswersTruthful == ASSUME LookupsInv PROVE LookupsTruthful
<1>1. LookupsTypeOK
  <2>1. SUFFICES ASSUME NEW c \in Callers, NEW r, r = call[c]
                 PROVE  /\ r.pc \in {"idle", "cache", "query", "geo", "intel"} /\ r.kind \in Kinds
                        /\ r.about \in Names \cup Addresses
                        /\ ToSet(r.asked) \subseteq Types
                        /\ \E n \in 0..Len(r.asked) : r.left = SubSeq(r.asked, n + 1, Len(r.asked))
                        /\ DOMAIN r.got \subseteq Types
                        /\ ToSet(r.ask) \subseteq Addresses /\ (r.pc = "geo" => r.ask # << >>)
                        /\ r.geo \in Addresses \cup {None}
                        /\ r.status \in {"none", "ok", "nxdomain", "failed", "blocked"}
    BY DEF LookupsTypeOK, LookupsInv
  <2>2. zone \in Zones /\ Formed(r) /\ Told(r) /\ Placed(r)
    BY <2>1, Recall
  <2>3. ToSet(r.asked) \subseteq Types /\ ToSet(r.ask) \subseteq Addresses
    BY <2>2, Members DEF Formed
  <2>4. r.pc = "geo" => r.ask # << >>
    BY <2>2, NextAddress
  <2>5. DOMAIN r.got \subseteq Types
    BY <2>2, <2>3 DEF Told
  <2>6. QED
    BY <2>2, <2>3, <2>4, <2>5 DEF Formed
<1>2. MxTruthful
  BY MailOfTheDomain DEF MxTruthful
<1>3. ReplyComplete
  <2>1. ASSUME NEW c \in Callers, Done(c, {"dns"})
        PROVE  call[c].got = [t \in ToSet(call[c].asked) |-> Truth(call[c].about, t)]
    <3>1. PICK r : r = call[c] /\ Told(r)
      BY Recall
    <3>2. r.kind = "dns" /\ r.pc = "idle" /\ r.status = "ok"
      BY <2>1, <3>1 DEF Done
    <3>3. DOMAIN r.got = ToSet(r.asked) /\ \A t \in DOMAIN r.got : r.got[t] = Truth(r.about, t)
      BY <3>1, <3>2 DEF Told
    <3>4. r.got = [t \in DOMAIN r.got |-> r.got[t]]
      BY <3>1 DEF Told
    <3>5. r.got = [t \in ToSet(r.asked) |-> Truth(r.about, t)]
      BY <3>3, <3>4
    <3>6. QED
      BY <3>1, <3>5
  <2>2. ASSUME NEW key \in DOMAIN cache
        PROVE  CASE key[1] = "dns" -> cache[key] = [t \in ToSet(key[3]) |-> Truth(key[2], t)]
                 [] key[1] = "mx" -> zone[key[2]].exists /\ cache[key] = Usable(Truth(key[2], "MX"))
                 [] OTHER -> TRUE
    BY DEF LookupsInv, Kept, Entry
  <2>3. QED
    BY <2>1, <2>2 DEF ReplyComplete
<1>4. GeoOfTheAddress
  <2>1. SUFFICES ASSUME NEW c \in Callers, Done(c, {"ip", "domain", "url"}), call[c].geo # None,
                        NEW r, r = call[c]
                 PROVE  CASE r.kind = "ip" -> r.geo = r.about /\ r.geo \in Public
                          [] r.kind = "domain" -> r.geo = Head(Truth(r.about, "A"))
                          [] OTHER -> /\ r.geo \in Public
                                      /\ \E d \in Names :
                                           r.geo \in AddressesOf(d) /\ AddressesOf(d) \cap AddressesOf(r.about) # {}
    BY DEF GeoOfTheAddress
  <2>2. Placed(r) /\ r.kind \in {"ip", "domain", "url"} /\ r.geo # None
    BY <2>1, Recall DEF Done
  <2>3. QED
    BY <2>2 DEF Placed, Shared
<1>5. QED
  BY <1>1, <1>2, <1>3, <1>4 DEF LookupsTruthful

\* Whatever fails, whoever fills the cache and whatever it forgets, an answer
\* about the mail, the records or the place of a name is true of that name.
THEOREM LookupsTrue == LookupsSpec => []LookupsTruthful
BY LookupsInitially, LookupsNextStep, AnswersTruthful, PTL DEF LookupsSpec
=============================================================================
