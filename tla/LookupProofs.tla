---------------------------- MODULE LookupProofs ----------------------------
(***************************************************************************)
(* What the tools say that look things up, whatever the web and DNS answer *)
(* them: the records and the mail of a domain (MailTools), redirects,      *)
(* robots.txt and the sources of an address (WebTools, IpSources).         *)
(***************************************************************************)
EXTENDS ToolsProofs, MailTools, WebSources, MemoryCache

-----------------------------------------------------------------------------
(***************************************************************************)
(* MailTools: records, signatures and the mail of a domain.                *)
(***************************************************************************)
\* Which errors of DNS are an answer and which say that there is no data.
LEMMA TranslatedMeans ==
  ASSUME NEW status
  PROVE  /\ Translated(status) = "answer" <=> status = "answer"
         /\ Translated(status) = "nodata" <=> status = "NoAnswer"
<1>a. PICK A : A = (status \in {"answer", "NXDOMAIN"})
  OBVIOUS
<1>b. PICK B : B = (status = "NoAnswer")
  OBVIOUS
<1>c. PICK C : C = (status \in {"LifetimeTimeout", "Timeout"})
  OBVIOUS
<1>1. A \in BOOLEAN /\ B \in BOOLEAN /\ C \in BOOLEAN
  BY <1>a, <1>b, <1>c
<1>2. PICK checks : checks = <<<<A, status>>, <<B, "nodata">>, <<C, "timeout">>, <<TRUE, "failed">>>>
  OBVIOUS
<1>3. /\ DOMAIN checks = 1..4 /\ (checks[1][1] <=> A) /\ (checks[2][1] <=> B) /\ (checks[3][1] <=> C) /\ checks[4][1]
      /\ checks[1][2] = status /\ checks[2][2] = "nodata" /\ checks[3][2] = "timeout" /\ checks[4][2] = "failed"
  BY <1>2
<1>4. \A n \in 1..4 : checks[n][1] /\ (\A j \in 1..4 : j < n => ~checks[j][1]) => Reason(checks) = checks[n][2]
  BY <1>3, ReasonIs
<1>5. \A j \in 1..4 : j = 1 \/ j = 2 \/ j = 3 \/ j = 4
  OBVIOUS
<1>6. Translated(status) = Reason(checks)
  BY <1>a, <1>b, <1>c, <1>2, Zenon DEF Translated
<1>7. /\ A => Reason(checks) = status
      /\ ~A /\ B => Reason(checks) = "nodata"
      /\ ~A /\ ~B /\ C => Reason(checks) = "timeout"
      /\ ~A /\ ~B /\ ~C => Reason(checks) = "failed"
  BY <1>1, <1>3, <1>4, <1>5
<1>8. QED
  BY <1>a, <1>b, <1>c, <1>6, <1>7

(***************************************************************************)
(* The class of an address.                                                *)
(***************************************************************************)
Known(q) == {ProviderOf[r[2]] : r \in Usable(q.mx)} \ {None}

\* A list has finitely many members.
LEMMA ImageFinite ==
  ASSUME NEW s, NEW n \in Nat, DOMAIN s = 1..n
  PROVE  IsFiniteSet(ToSet(s))
<1>1. PICK f : f = [i \in 1..n |-> s[i]]
  OBVIOUS
<1>2. f \in Surjection(1..n, ToSet(s))
  BY <1>1 DEF Surjection, ToSet
<1>3. IsFiniteSet(1..n)
  BY FS_Interval
<1>4. QED
  BY <1>2, <1>3, FS_Surjection

\* Finitely many providers are known from the servers of a domain.
LEMMA KnownFinite ==
  ASSUME NEW q, q.mx \in Statuses \X Seq(Nat \X Nat)
  PROVE  IsFiniteSet(Known(q))
<1>0. PICK s : s = q.mx[2] /\ s \in Seq(Nat \X Nat)
  OBVIOUS
<1>1. PICK n \in Nat : DOMAIN s = 1..n
  <2>1. Len(s) \in Nat /\ DOMAIN s = 1..Len(s)
    BY <1>0
  <2>2. QED
    BY <2>1
<1>2. IsFiniteSet(ToSet(s))
  BY <1>1, ImageFinite
<1>3. PICK U : U = Usable(q.mx)
  OBVIOUS
<1>4. IsFiniteSet(U)
  <2>1. U \subseteq ToSet(s)
    BY <1>0, <1>3 DEF Usable
  <2>2. QED
    BY <1>2, <2>1, FS_Subset
<1>5. PICK P : P = {ProviderOf[r[2]] : r \in U}
  OBVIOUS
<1>6. IsFiniteSet(P)
  <2>1. PICK f : f = [r \in U |-> ProviderOf[r[2]]]
    OBVIOUS
  <2>2. f \in Surjection(U, P)
    BY <1>5, <2>1 DEF Surjection
  <2>3. QED
    BY <1>4, <2>2, FS_Surjection
<1>7. Known(q) \subseteq P
  BY <1>3, <1>5 DEF Known
<1>8. QED
  BY <1>6, <1>7, FS_Subset

\* The one provider there is.
LEMMA ProviderSingle ==
  ASSUME NEW q, q.mx \in Statuses \X Seq(Nat \X Nat), SingleProvider(q.mx) # None
  PROVE  Known(q) = {SingleProvider(q.mx)} /\ Usable(q.mx) # {} /\ q.mx[1] = "answer"
<1>1. PICK K : K = Known(q)
  OBVIOUS
<1>2. /\ Cardinality(K) = 1
      /\ SingleProvider(q.mx) = CHOOSE p \in K : TRUE
  BY <1>1 DEF SingleProvider, Known
<1>3. IsFiniteSet(K)
  BY <1>1, KnownFinite
<1>4. PICK p : K = {p}
  BY <1>2, <1>3, FS_Singleton
<1>5. SingleProvider(q.mx) = p
  BY <1>2, <1>4
<1>6. Usable(q.mx) # {}
  BY <1>1, <1>4 DEF Known
<1>7. q.mx[1] = "answer"
  BY <1>6 DEF Usable
<1>8. QED
  BY <1>1, <1>4, <1>5, <1>6, <1>7

Question == [check : BOOLEAN, mx : Statuses \X Seq(Nat \X Nat), disposable : BOOLEAN, free : BOOLEAN]

\* The class of an address, source by source.
LEMMA MainMeans ==
  ASSUME NEW q \in Question
  PROVE  /\ Checked(q) \in BOOLEAN
         /\ q.disposable => Main(q) = "disposable"
         /\ ~q.disposable /\ q.free => Main(q) = "public_email"
         /\ ~q.disposable /\ ~q.free /\ (Checked(q) /\ SingleProvider(q.mx) # None) => Main(q) = "business"
         /\ ~q.disposable /\ ~q.free /\ ~(Checked(q) /\ SingleProvider(q.mx) # None) => Main(q) = "none"
<1>1. Checked(q) \in BOOLEAN
  BY DEF Checked, Question
<1>2. PICK A \in BOOLEAN, B \in BOOLEAN, C \in BOOLEAN :
        A = q.disposable /\ B = q.free /\ C = (Checked(q) /\ SingleProvider(q.mx) # None)
  BY <1>1 DEF Question
<1>3. Main(q) = Reason(<<<<A, "disposable">>, <<B, "public_email">>, <<C, "business">>>>)
  BY <1>2, Zenon DEF Main
<1>4. PICK R : R = Reason(<<<<A, "disposable">>, <<B, "public_email">>, <<C, "business">>>>)
  OBVIOUS
<1>5. /\ A => R = "disposable"
      /\ ~A /\ B => R = "public_email"
      /\ ~A /\ ~B /\ C => R = "business"
      /\ ~A /\ ~B /\ ~C => R = "none"
  BY <1>4, ReasonOfThree
<1>6. QED
  BY <1>1, <1>2, <1>3, <1>4, <1>5

\* No detail of a class without a server, and none at all without DNS.
LEMMA ClassOf ==
  ASSUME NEW q \in Question
  PROVE  /\ q.disposable => Classified(q) = Class("disposable", None, "disposable_domain")
         /\ ~q.disposable /\ q.free /\ ~Checked(q) => Classified(q).main = "public_email" /\ Classified(q).sub = None
         /\ ~q.disposable /\ q.free /\ Checked(q) =>
              Classified(q).main = "public_email" /\ Classified(q).sub = SingleProvider(q.mx)
         /\ ~q.disposable /\ ~q.free /\ (Checked(q) /\ SingleProvider(q.mx) # None) =>
              Classified(q).main = "business" /\ Classified(q).sub = SingleProvider(q.mx)
         /\ ~q.disposable /\ ~q.free /\ ~(Checked(q) /\ SingleProvider(q.mx) # None) =>
              Classified(q).main = None /\ Classified(q).sub = None
<1>1. PICK m : m = Main(q)
  OBVIOUS
<1>2. /\ q.disposable => m = "disposable"
      /\ ~q.disposable /\ q.free => m = "public_email"
      /\ ~q.disposable /\ ~q.free /\ (Checked(q) /\ SingleProvider(q.mx) # None) => m = "business"
      /\ ~q.disposable /\ ~q.free /\ ~(Checked(q) /\ SingleProvider(q.mx) # None) => m = "none"
  BY <1>1, MainMeans
<1>3. \A main, sub, reason : Class(main, sub, reason).main = main /\ Class(main, sub, reason).sub = sub
  BY DEF Class
<1>4. m = "disposable" => Classified(q) = Class("disposable", None, "disposable_domain")
  BY <1>1 DEF Classified
<1>5. m = "public_email" /\ ~Checked(q) => Classified(q) = Class("public_email", None, "mx_check_disabled")
  BY <1>1 DEF Classified
<1>6. m = "public_email" /\ Checked(q) =>
        \E reason : Classified(q) = Class("public_email", SingleProvider(q.mx), reason)
  BY <1>1 DEF Classified
<1>7. m = "business" => Classified(q) = Class("business", SingleProvider(q.mx), "business_mx_provider")
  BY <1>1 DEF Classified
<1>8. m = "none" => \E reason : Classified(q) = Class(None, None, reason)
  BY <1>1 DEF Classified
<1>9. /\ m = "disposable" => Classified(q) = Class("disposable", None, "disposable_domain")
      /\ m = "public_email" /\ ~Checked(q) => Classified(q).main = "public_email" /\ Classified(q).sub = None
      /\ m = "public_email" /\ Checked(q) =>
           Classified(q).main = "public_email" /\ Classified(q).sub = SingleProvider(q.mx)
      /\ m = "business" => Classified(q).main = "business" /\ Classified(q).sub = SingleProvider(q.mx)
      /\ m = "none" => Classified(q).main = None /\ Classified(q).sub = None
  <2>1. /\ m = "public_email" /\ ~Checked(q) => Classified(q).main = "public_email" /\ Classified(q).sub = None
    BY <1>3, <1>5
  <2>2. m = "public_email" /\ Checked(q) =>
          Classified(q).main = "public_email" /\ Classified(q).sub = SingleProvider(q.mx)
    BY <1>3, <1>6
  <2>3. m = "business" => Classified(q).main = "business" /\ Classified(q).sub = SingleProvider(q.mx)
    BY <1>3, <1>7
  <2>4. m = "none" => Classified(q).main = None /\ Classified(q).sub = None
    BY <1>3, <1>8
  <2>5. QED
    BY <1>4, <2>1, <2>2, <2>3, <2>4
<1>10. QED
  BY <1>2, <1>9, Zenon

\* An answer about an address, and what ClassesExact says of it.
ClassMeant(q, reply) ==
  LET class == reply.class
      known == {ProviderOf[r[2]] : r \in {x \in ToSet(q.mx[2]) : x[2] # 0}} \ {None}
      outage == Classified([q EXCEPT !.mx = <<"LifetimeTimeout", << >>>>])
  IN /\ class.main = "business" => ~q.disposable /\ ~q.free /\ reply.mx_exists = TRUE /\ known = {class.sub}
     /\ outage.main \in {class.main, None}
     /\ q.disposable => class = outage
     /\ class.sub # None => class.sub \in known
     /\ reply.mx_exists = FALSE => q.mx[1] = "NoAnswer" \/ \A r \in ToSet(q.mx[2]) : r[2] = 0

\* An answer about an address says what ClassesExact says of it.
LEMMA CheckMeant ==
  ASSUME NEW q \in Question, None \notin BOOLEAN, None \notin {"disposable", "public_email", "business"}
  PROVE  ClassMeant(q, CheckReply(q))
<1>1. PICK K : K = {ProviderOf[r[2]] : r \in {x \in ToSet(q.mx[2]) : x[2] # 0}} \ {None}
  OBVIOUS
<1>2. PICK o : o = [q EXCEPT !.mx = <<"LifetimeTimeout", << >>>>]
  OBVIOUS
<1>3. q.mx \in Statuses \X Seq(Nat \X Nat) /\ q.mx[1] \in Statuses
  BY DEF Question
<1>4. o \in Question /\ o.disposable = q.disposable /\ o.free = q.free /\ o.check = q.check /\ o.mx[1] = "LifetimeTimeout"
  <2>1. PICK m : m = <<"LifetimeTimeout", << >>>>
    OBVIOUS
  <2>2. m \in Statuses \X Seq(Nat \X Nat) /\ m[1] = "LifetimeTimeout"
    <3>1. PICK status, none : status = "LifetimeTimeout" /\ none = << >> /\ m = <<status, none>>
      BY <2>1
    <3>2. status \in Statuses
      BY <3>1 DEF Statuses
    <3>3. none \in Seq(Nat \X Nat)
      BY <3>1
    <3>4. QED
      BY <3>1, <3>2, <3>3
  <2>3. o = [q EXCEPT !.mx = m]
    BY <1>2, <2>1
  <2>4. QED
    BY <2>2, <2>3 DEF Question
<1>5. ~Checked(o)
  <2>1. Translated("LifetimeTimeout") # "answer" /\ Translated("LifetimeTimeout") # "nodata"
    <3>1. PICK status : status = "LifetimeTimeout"
      OBVIOUS
    <3>2. Translated(status) # "answer" /\ Translated(status) # "nodata"
      BY <3>1, TranslatedMeans
    <3>3. QED
      BY <3>1, <3>2
  <2>2. QED
    BY <1>4, <2>1 DEF Checked
<1>6. PICK c, e : c = Classified(q) /\ e = Classified(o)
  OBVIOUS
<1>7. CheckReply(q).class = c
  BY <1>6 DEF CheckReply
<1>8. /\ Checked(q) => CheckReply(q).mx_exists = (Usable(q.mx) # {})
      /\ ~Checked(q) => CheckReply(q).mx_exists = None
  BY DEF CheckReply
<1>9. /\ q.disposable => c = Class("disposable", None, "disposable_domain") /\ e = c
      /\ ~q.disposable /\ q.free => c.main = "public_email" /\ e.main = "public_email"
      /\ ~q.disposable /\ q.free => c.sub = None \/ c.sub = SingleProvider(q.mx)
      /\ ~q.disposable /\ ~q.free => e.main = None
      /\ ~q.disposable /\ ~q.free => \/ c.main = None /\ c.sub = None
                                     \/ /\ c.main = "business" /\ c.sub = SingleProvider(q.mx)
                                        /\ Checked(q) /\ SingleProvider(q.mx) # None
  BY <1>4, <1>5, <1>6, ClassOf
<1>10. Class("disposable", None, "disposable_domain").main = "disposable" /\ Class("disposable", None, "disposable_domain").sub = None
  BY DEF Class
<1>11. SingleProvider(q.mx) # None => K = {SingleProvider(q.mx)} /\ Usable(q.mx) # {}
  <2>1. q.mx[1] = "answer" => Known(q) = K
    BY <1>1 DEF Known, Usable
  <2>2. QED
    BY <1>3, <2>1, ProviderSingle
<1>12. CheckReply(q).mx_exists = FALSE => q.mx[1] = "NoAnswer" \/ \A r \in ToSet(q.mx[2]) : r[2] = 0
  <2>1. SUFFICES ASSUME CheckReply(q).mx_exists = FALSE, q.mx[1] # "NoAnswer"
                 PROVE  \A r \in ToSet(q.mx[2]) : r[2] = 0
    OBVIOUS
  <2>2. Checked(q) /\ Usable(q.mx) = {}
    BY <1>8, <2>1
  <2>3. q.mx[1] = "answer"
    BY <1>3, <2>1, <2>2, TranslatedMeans DEF Checked
  <2>4. QED
    BY <2>2, <2>3 DEF Usable
<1>13. /\ c.main = "business" => ~q.disposable /\ ~q.free /\ CheckReply(q).mx_exists = TRUE /\ K = {c.sub}
       /\ c.sub # None => c.sub \in K
       /\ e.main \in {c.main, None}
       /\ q.disposable => c = e
  <2>1. CASE q.disposable
    BY <1>9, <1>10, <2>1
  <2>2. CASE ~q.disposable /\ q.free
    BY <1>9, <1>11, <2>2
  <2>3. CASE ~q.disposable /\ ~q.free
    BY <1>8, <1>9, <1>11, <2>3
  <2>4. QED
    BY <2>1, <2>2, <2>3
<1>14. QED
  BY <1>1, <1>2, <1>6, <1>7, <1>12, <1>13, Zenon DEF ClassMeant

\* Which errors of a raw query are an answer.
LEMMA RawMeans ==
  ASSUME NEW status
  PROVE  /\ Raw(status) = "answer" <=> status = "answer"
         /\ Raw(status) # "none"
<1>a. PICK A : A = (status \in {"answer", "NXDOMAIN"})
  OBVIOUS
<1>b. PICK B : B = (status \in {"NoAnswer", "Timeout", "other"})
  OBVIOUS
<1>c. PICK C : C = (status = "LifetimeTimeout")
  OBVIOUS
<1>d. PICK D : D = TRUE
  OBVIOUS
<1>1. A \in BOOLEAN /\ B \in BOOLEAN /\ C \in BOOLEAN /\ D \in BOOLEAN
  BY <1>a, <1>b, <1>c, <1>d
<1>2. PICK R : R = Reason(<<<<A, status>>, <<B, "nothing">>, <<C, "timeout">>, <<D, "failed">>>>)
  OBVIOUS
<1>3. Raw(status) = R
  BY <1>a, <1>b, <1>c, <1>d, <1>2, Zenon DEF Raw
<1>4. /\ A => R = status
      /\ ~A /\ B => R = "nothing"
      /\ ~A /\ ~B /\ C => R = "timeout"
      /\ ~A /\ ~B /\ ~C /\ D => R = "failed"
  BY <1>1, <1>2, ReasonOfFour
<1>5. QED
  BY <1>a, <1>b, <1>c, <1>d, <1>3, <1>4

ChainMeant(q, reply) ==
  LET published(given) == IF given[1] = "answer" THEN ToSet(given[2]) ELSE {}
      keys == published(q.keys)
      ds == published(q.ds)
  IN /\ reply.chain # None => keys # {} /\ ds # {}
     /\ reply.chain = FALSE => {d[1] : d \in ds} \cap {k[1] : k \in keys} \subseteq {0}
     /\ reply.chain = TRUE => \E k \in keys, d \in ds : k[1] = d[1]
     /\ ~reply.enabled => keys = {} /\ ds = {}

\* A chain is judged by what was published.
LEMMA ChainIsMeant ==
  ASSUME NEW q, None \notin BOOLEAN
  PROVE  ChainMeant(q, SignedReply(q))
<1>1. PICK keys : keys = IF q.keys[1] = "answer" THEN ToSet(q.keys[2]) ELSE {}
  OBVIOUS
<1>2. PICK ds : ds = IF q.ds[1] = "answer" THEN ToSet(q.ds[2]) ELSE {}
  OBVIOUS
<1>3. RawRecords(q.keys) = keys
  BY <1>1, RawMeans DEF RawRecords
<1>4. RawRecords(q.ds) = ds
  BY <1>2, RawMeans DEF RawRecords
<1>5. PICK reply : reply = SignedReply(q)
  OBVIOUS
<1>6. reply.chain = ChainValid(keys, ds) /\ (reply.enabled <=> keys # {} \/ ds # {})
  BY <1>3, <1>4, <1>5 DEF SignedReply
<1>7. /\ (keys = {} \/ ds = {}) => reply.chain = None
      /\ ~(keys = {} \/ ds = {}) => reply.chain = Chained(keys, ds)
  BY <1>6 DEF ChainValid
<1>8. Chained(keys, ds) <=> \E d \in ds, k \in keys : k[1] # 0 /\ d[1] = k[1]
  BY DEF Chained
<1>9. /\ reply.chain # None => keys # {} /\ ds # {}
      /\ reply.chain = FALSE => {d[1] : d \in ds} \cap {k[1] : k \in keys} \subseteq {0}
      /\ reply.chain = TRUE => \E k \in keys, d \in ds : k[1] = d[1]
      /\ ~reply.enabled => keys = {} /\ ds = {}
  <2>1. reply.chain # None => keys # {} /\ ds # {}
    BY <1>7
  <2>2. ASSUME reply.chain = FALSE PROVE {d[1] : d \in ds} \cap {k[1] : k \in keys} \subseteq {0}
    <3>1. ~Chained(keys, ds)
      BY <1>7, <2>2
    <3>2. QED
      BY <1>8, <3>1
  <2>3. ASSUME reply.chain = TRUE PROVE \E k \in keys, d \in ds : k[1] = d[1]
    <3>1. Chained(keys, ds)
      BY <1>7, <2>3
    <3>2. QED
      BY <1>8, <3>1
  <2>4. ~reply.enabled => keys = {} /\ ds = {}
    BY <1>6
  <2>5. QED
    BY <2>1, <2>2, <2>3, <2>4
<1>10. QED
  BY <1>1, <1>2, <1>5, <1>9, Zenon DEF ChainMeant

(***************************************************************************)
(* Records in the order in which they are to be tried.                     *)
(***************************************************************************)
Records == Nat \X Nat

\* The order of servers is strict and total.
LEMMA PreferredOrders ==
  ASSUME NEW r \in Records, NEW s \in Records, NEW t \in Records
  PROVE  /\ ~Preferred(r, r)
         /\ Preferred(r, s) => ~Preferred(s, r)
         /\ Preferred(r, s) /\ Preferred(s, t) => Preferred(r, t)
         /\ r # s => Preferred(r, s) \/ Preferred(s, r)
<1>1. \A x \in Records : x = <<x[1], x[2]>> /\ x[1] \in Nat /\ x[2] \in Nat
  BY DEF Records
<1>2. r # s => r[1] # s[1] \/ r[2] # s[2]
  BY <1>1
<1>3. QED
  BY <1>1, <1>2 DEF Preferred

\* The records that are tried until r is.
Until(S, r) == {s \in S : s = r \/ Preferred(s, r)}

\* Every record has its own number among the records.
LEMMA RecordsRanked ==
  ASSUME NEW S \in SUBSET Records, IsFiniteSet(S)
  PROVE  /\ Cardinality(S) \in Nat
         /\ \A r \in S : Cardinality(Until(S, r)) \in 1..Cardinality(S)
         /\ \A r, s \in S : Preferred(r, s) => Cardinality(Until(S, r)) < Cardinality(Until(S, s))
         /\ \A n \in 1..Cardinality(S) : \E r \in S : Cardinality(Until(S, r)) = n
<1>1. Cardinality(S) \in Nat
  BY FS_CardinalityType
<1>2. ASSUME NEW r \in S
      PROVE  /\ IsFiniteSet(Until(S, r)) /\ Cardinality(Until(S, r)) \in Nat
             /\ Cardinality(Until(S, r)) \in 1..Cardinality(S)
  <2>1. Until(S, r) \in SUBSET S /\ r \in Until(S, r)
    BY DEF Until
  <2>2. IsFiniteSet(Until(S, r)) /\ Cardinality(Until(S, r)) <= Cardinality(S)
    BY <2>1, FS_Subset
  <2>3. Cardinality(Until(S, r)) \in Nat /\ Cardinality(Until(S, r)) # 0
    BY <2>1, <2>2, FS_CardinalityType, FS_EmptySet
  <2>4. QED
    BY <1>1, <2>2, <2>3
<1>3. ASSUME NEW r \in S, NEW s \in S, Preferred(r, s)
      PROVE  Cardinality(Until(S, r)) < Cardinality(Until(S, s))
  <2>1. Until(S, r) \in SUBSET Until(S, s) /\ Until(S, r) # Until(S, s)
    <3>1. s \in Until(S, s) /\ s \notin Until(S, r)
      <4>1. s # r /\ ~Preferred(s, r)
        BY <1>3, PreferredOrders
      <4>2. QED
        BY <4>1 DEF Until
    <3>2. \A t \in S : (t = r \/ Preferred(t, r)) => Preferred(t, s)
      BY <1>3, PreferredOrders
    <3>3. QED
      BY <3>1, <3>2, Zenon DEF Until
  <2>2. Cardinality(Until(S, r)) <= Cardinality(Until(S, s)) /\ Cardinality(Until(S, r)) # Cardinality(Until(S, s))
    BY <1>2, <2>1, FS_Subset
  <2>3. QED
    BY <1>2, <2>2
<1>4. PICK f : f = [r \in S |-> Cardinality(Until(S, r))]
  OBVIOUS
<1>5. f \in Injection(S, 1..Cardinality(S))
  <2>1. f \in [S -> 1..Cardinality(S)]
    BY <1>2, <1>4
  <2>2. \A r, s \in S : f[r] = f[s] => r = s
    <3>1. \A r, s \in S : r # s => Preferred(r, s) \/ Preferred(s, r)
      BY PreferredOrders
    <3>2. \A r, s \in S : Preferred(r, s) => f[r] < f[s] /\ f[r] \in Nat /\ f[s] \in Nat
      BY <1>2, <1>3, <1>4
    <3>3. QED
      BY <3>1, <3>2
  <2>3. QED
    BY <2>1, <2>2 DEF Injection, IsInjective
<1>6. IsFiniteSet(1..Cardinality(S)) /\ Cardinality(1..Cardinality(S)) = Cardinality(S)
  BY <1>1, FS_Interval
<1>7. f \in Surjection(S, 1..Cardinality(S))
  BY <1>5, <1>6, FS_Injection
<1>8. \A n \in 1..Cardinality(S) : \E r \in S : f[r] = n
  BY <1>7 DEF Surjection
<1>9. QED
  BY <1>1, <1>2, <1>3, <1>4, <1>8

\* Records in order: each once, the preferred ones first.
LEMMA InOrderSorts ==
  ASSUME NEW S \in SUBSET Records, IsFiniteSet(S)
  PROVE  /\ Cardinality(S) \in Nat /\ DOMAIN InOrder(S) = 1..Cardinality(S)
         /\ InOrder(S) \in Seq(S) /\ Len(InOrder(S)) = Cardinality(S)
         /\ \A r \in S : \E n \in DOMAIN InOrder(S) : InOrder(S)[n] = r
         /\ \A m, n \in DOMAIN InOrder(S) : m < n => Preferred(InOrder(S)[m], InOrder(S)[n])
<1>1. PICK N \in Nat : N = Cardinality(S)
  BY RecordsRanked
<1>2. PICK a : a = InOrder(S)
  OBVIOUS
<1>3. a = [n \in 1..N |-> CHOOSE r \in S : Cardinality(Until(S, r)) = n]
  BY <1>1, <1>2 DEF InOrder, Until
<1>4. ASSUME NEW n \in 1..N
      PROVE  a[n] \in S /\ Cardinality(Until(S, a[n])) = n
  <2>1. \E r \in S : Cardinality(Until(S, r)) = n
    BY <1>1, RecordsRanked
  <2>2. a[n] = CHOOSE r \in S : Cardinality(Until(S, r)) = n
    BY <1>3
  <2>3. QED
    BY <2>1, <2>2
<1>5. a \in Seq(S) /\ Len(a) = N /\ DOMAIN a = 1..N
  BY <1>3, <1>4
<1>6. \A r, s \in S : Cardinality(Until(S, r)) = Cardinality(Until(S, s)) => r = s
  <2>1. \A r, s \in S : r # s => Preferred(r, s) \/ Preferred(s, r)
    BY PreferredOrders
  <2>2. \A r, s \in S : Preferred(r, s) => Cardinality(Until(S, r)) < Cardinality(Until(S, s))
    BY RecordsRanked
  <2>3. \A r \in S : Cardinality(Until(S, r)) \in 1..Cardinality(S)
    BY RecordsRanked
  <2>4. \A r \in S : ~(Cardinality(Until(S, r)) < Cardinality(Until(S, r)))
    BY <1>1, <2>3
  <2>5. QED
    BY <2>1, <2>2, <2>4, Zenon
<1>7. ASSUME NEW r \in S
      PROVE  \E n \in DOMAIN a : a[n] = r
  <2>1. PICK n \in 1..N : n = Cardinality(Until(S, r))
    BY <1>1, RecordsRanked
  <2>2. a[n] = r
    BY <1>4, <1>6, <2>1
  <2>3. QED
    BY <1>5, <2>2
<1>8. ASSUME NEW m \in 1..N, NEW n \in 1..N, m < n
      PROVE  Preferred(a[m], a[n])
  <2>1. a[m] \in S /\ a[n] \in S /\ Cardinality(Until(S, a[m])) = m /\ Cardinality(Until(S, a[n])) = n
    BY <1>4
  <2>2. m # n /\ ~(n < m)
    BY <1>8
  <2>3. a[m] # a[n] /\ ~Preferred(a[n], a[m])
    BY <2>1, <2>2, RecordsRanked
  <2>4. QED
    BY <2>1, <2>3, PreferredOrders
<1>9. QED
  BY <1>1, <1>2, <1>5, <1>7, <1>8

\* The first text with a prefix is one of the texts.
LEMMA FirstTextIs ==
  ASSUME NEW given, NEW prefixes, NEW n \in Nat, DOMAIN given[2] = 1..n, FirstText(given, prefixes) # None
  PROVE  \E i \in 1..n : FirstText(given, prefixes) = given[2][i]
<1>1. PICK T : T = {i \in DOMAIN given[2] : given[2][i].starts \in prefixes}
  OBVIOUS
<1>2. T # {} /\ FirstText(given, prefixes) = given[2][Min(T)]
  BY <1>1 DEF FirstText
<1>3. T \subseteq 1..n
  BY <1>1
<1>4. T \in SUBSET Nat
  BY <1>3
<1>5. Min(T) \in T
  BY <1>2, <1>4, LeastOf
<1>6. QED
  BY <1>2, <1>3, <1>5

\* The value of a tag is that of a tag of its name.
LEMMA NumberNamed ==
  ASSUME NEW text, NEW name, NEW n \in Nat, DOMAIN text.tags = 1..n, TagValue(text, name, TRUE) # None
  PROVE  \E i \in 1..n : /\ text.tags[i][1] = name /\ text.tags[i][2]
                         /\ TagValue(text, name, TRUE) = text.tags[i][3]
<1>1. PICK T : T = {i \in DOMAIN text.tags : text.tags[i][1] = name /\ (TRUE => text.tags[i][2])}
  OBVIOUS
<1>2. T # {} /\ TagValue(text, name, TRUE) = text.tags[Min(T)][3]
  BY <1>1 DEF TagValue
<1>3. T \subseteq 1..n
  BY <1>1
<1>4. T \in SUBSET Nat
  BY <1>3
<1>5. Min(T) \in T
  BY <1>2, <1>4, LeastOf
<1>6. QED
  BY <1>1, <1>2, <1>3, <1>5

\* Of the known servers, the first in the order in which they are to be tried.
LEMMA MailProviderIs ==
  ASSUME NEW records \in Seq(Records), NEW mx, mx = InOrder(ToSet(records)), MailProvider(mx) # 0
  PROVE  \E r \in ToSet(records) : /\ RowOf[r[2]] = MailProvider(mx)
                                   /\ \A s \in ToSet(records) : s[1] < r[1] => RowOf[s[2]] = 0
<1>1. PICK S : S = ToSet(records)
  OBVIOUS
<1>2. IsFiniteSet(S) /\ S \in SUBSET Records
  <2>1. PICK n \in Nat : n = Len(records)
    OBVIOUS
  <2>2. DOMAIN records = 1..n /\ \A i \in 1..n : records[i] \in Records
    BY <2>1
  <2>3. IsFiniteSet(ToSet(records))
    BY <2>2, ImageFinite
  <2>4. S \in SUBSET Records
    BY <1>1, <2>2 DEF ToSet
  <2>5. QED
    BY <1>1, <2>3, <2>4
<1>3. PICK n \in Nat : n = Cardinality(S)
  BY <1>2, InOrderSorts
<1>4. /\ DOMAIN mx = 1..n /\ \A i \in 1..n : mx[i] \in S
      /\ \A r \in S : \E i \in 1..n : mx[i] = r
      /\ \A i, j \in 1..n : i < j => Preferred(mx[i], mx[j])
  <2>1. mx = InOrder(S)
    BY <1>1
  <2>2. DOMAIN mx = 1..n /\ mx \in Seq(S) /\ \A r \in S : \E i \in DOMAIN mx : mx[i] = r
    BY <1>2, <1>3, <2>1, InOrderSorts
  <2>3. \A i, j \in DOMAIN mx : i < j => Preferred(mx[i], mx[j])
    BY <1>2, <2>1, InOrderSorts
  <2>4. \A i \in 1..n : mx[i] \in S
    BY <2>2
  <2>5. QED
    BY <2>2, <2>3, <2>4, Zenon
<1>5. PICK T : T = {i \in DOMAIN mx : RowOf[mx[i][2]] # 0}
  OBVIOUS
<1>6. T # {} /\ MailProvider(mx) = RowOf[mx[Min(T)][2]]
  BY <1>5 DEF MailProvider
<1>7. T \subseteq 1..n
  BY <1>4, <1>5
<1>8. T \in SUBSET Nat
  BY <1>7
<1>9. PICK k \in T : k = Min(T) /\ \A i \in T : k <= i
  BY <1>6, <1>8, LeastOf
<1>10. PICK r \in S : r = mx[k]
  BY <1>4, <1>7
<1>11. ASSUME NEW s \in S, s[1] < r[1]
       PROVE  RowOf[s[2]] = 0
  <2>1. PICK i \in 1..n : mx[i] = s
    BY <1>4
  <2>2. Preferred(s, r)
    BY <1>11 DEF Preferred
  <2>3. r \in Records /\ s \in Records
    BY <1>2
  <2>4. ~Preferred(r, s) /\ r # s
    BY <2>2, <2>3, PreferredOrders
  <2>5. ~(k < i) /\ k # i
    BY <1>4, <1>7, <1>10, <2>1, <2>4
  <2>6. ~(k <= i)
    BY <1>7, <2>5
  <2>7. i \notin T
    BY <1>9, <2>6
  <2>8. QED
    BY <1>4, <1>5, <2>1, <2>7
<1>12. QED
  BY <1>1, <1>6, <1>9, <1>10, <1>11

AnalysisMeant(q, reply) ==
  /\ reply.provider # 0 =>
       \E r \in ToSet(q.mx[2]) :
         /\ RowOf[r[2]] = reply.provider
         /\ \A s \in ToSet(q.mx[2]) : s[1] < r[1] => RowOf[s[2]] = 0
  /\ reply.policy # None \/ reply.pct # None =>
       /\ reply.dmarc # None
       /\ reply.policy # None => \E tag \in ToSet(reply.dmarc.tags) : tag[1] = "p" /\ tag[3] = reply.policy
       /\ reply.pct # None => <<"pct", TRUE, reply.pct>> \in ToSet(reply.dmarc.tags)
  /\ reply.mx # << >> => q.mx[1] = "answer"

\* The analysis of a domain reports what was published.
LEMMA AnalysisIsMeant ==
  ASSUME NEW q, NEW n \in Nat, NEW Words, q.mx \in RecordAnswers, DOMAIN q.dmarc[2] = 1..n,
         \A i \in 1..n : q.dmarc[2][i].tags \in Seq(Words \X BOOLEAN \X Nat)
  PROVE  AnalysisMeant(q, AnalysisReply(q))
<1>1. PICK reply : reply = AnalysisReply(q)
  OBVIOUS
<1>2. PICK records \in Seq(Records) : records = q.mx[2]
  BY DEF RecordAnswers, Records
<1>3. PICK mx : mx = reply.mx
  OBVIOUS
<1>4. /\ q.mx[1] = "answer" => mx = InOrder(ToSet(records))
      /\ q.mx[1] # "answer" => mx = << >>
      /\ reply.provider = MailProvider(mx)
  <2>1. mx = IF Translated(q.mx[1]) = "answer" THEN Resolved("MX", q.mx[2]) ELSE << >>
    BY <1>1, <1>3 DEF AnalysisReply
  <2>2. Resolved("MX", q.mx[2]) = InOrder(ToSet(records))
    BY <1>2 DEF Resolved
  <2>3. reply.provider = MailProvider(mx)
    BY <1>1, <2>1 DEF AnalysisReply
  <2>4. QED
    BY <2>1, <2>2, <2>3, TranslatedMeans
<1>5. mx # << >> => q.mx[1] = "answer"
  BY <1>4
<1>6. ASSUME reply.provider # 0
      PROVE  \E r \in ToSet(records) : /\ RowOf[r[2]] = reply.provider
                                       /\ \A s \in ToSet(records) : s[1] < r[1] => RowOf[s[2]] = 0
  <2>1. CASE q.mx[1] = "answer"
    BY <1>4, <1>6, <2>1, MailProviderIs
  <2>2. CASE q.mx[1] # "answer"
    <3>1. MailProvider(<< >>) = 0
      BY DEF MailProvider
    <3>2. QED
      BY <1>4, <1>6, <2>2, <3>1
  <2>3. QED
    BY <2>1, <2>2
<1>7. PICK text : text = reply.dmarc
  OBVIOUS
<1>8. /\ text = FirstText(q.dmarc, {"v=dmarc1"})
      /\ reply.policy = TagValue(text, "p", FALSE) /\ reply.pct = TagValue(text, "pct", TRUE)
  BY <1>1, <1>7 DEF AnalysisReply
<1>9. text = None => reply.policy = None /\ reply.pct = None
  BY <1>8 DEF TagValue
<1>10. ASSUME text # None
       PROVE  /\ reply.policy # None => \E tag \in ToSet(text.tags) : tag[1] = "p" /\ tag[3] = reply.policy
              /\ reply.pct # None => <<"pct", TRUE, reply.pct>> \in ToSet(text.tags)
  <2>1. PICK i \in 1..n : text = q.dmarc[2][i]
    BY <1>8, <1>10, FirstTextIs
  <2>2. PICK tags \in Seq(Words \X BOOLEAN \X Nat) : tags = text.tags
    BY <2>1
  <2>3. PICK m \in Nat : m = Len(tags)
    OBVIOUS
  <2>4. DOMAIN tags = 1..m /\ \A j \in 1..m : tags[j] \in Words \X BOOLEAN \X Nat /\ tags[j] \in ToSet(tags)
    <3>1. PICK Tags : Tags = Words \X BOOLEAN \X Nat
      OBVIOUS
    <3>2. tags \in Seq(Tags)
      BY <3>1
    <3>3. DOMAIN tags = 1..m /\ \A j \in 1..m : tags[j] \in Tags
      BY <2>3, <3>2
    <3>4. \A j \in 1..m : tags[j] \in ToSet(tags)
      BY <3>3 DEF ToSet
    <3>5. QED
      BY <3>1, <3>3, <3>4, Zenon
  <2>0. DOMAIN text.tags = 1..m
    BY <2>2, <2>4
  <2>5. ASSUME reply.policy # None PROVE \E tag \in ToSet(tags) : tag[1] = "p" /\ tag[3] = reply.policy
    <3>3. PICK T : T = {j \in DOMAIN text.tags : text.tags[j][1] = "p" /\ (FALSE => text.tags[j][2])}
      OBVIOUS
    <3>4. T # {} /\ reply.policy = text.tags[Min(T)][3]
      BY <1>8, <2>5, <3>3 DEF TagValue
    <3>5. T \subseteq 1..m
      BY <2>0, <3>3
    <3>6. T \in SUBSET Nat
      BY <3>5
    <3>7. PICK j \in T : j = Min(T)
      BY <3>4, <3>6, LeastOf
    <3>1. tags[j][1] = "p" /\ reply.policy = tags[j][3]
      BY <2>2, <3>3, <3>4, <3>7
    <3>2. QED
      BY <2>4, <3>1, <3>5
  <2>6. ASSUME reply.pct # None PROVE <<"pct", TRUE, reply.pct>> \in ToSet(tags)
    <3>6. TagValue(text, "pct", TRUE) = reply.pct /\ TagValue(text, "pct", TRUE) # None
      BY <1>8, <2>6
    <3>7. PICK j \in 1..m : text.tags[j][1] = "pct" /\ text.tags[j][2] /\ TagValue(text, "pct", TRUE) = text.tags[j][3]
      BY <2>0, <3>6, NumberNamed
    <3>1. tags[j][1] = "pct" /\ tags[j][2] /\ reply.pct = tags[j][3]
      BY <2>2, <3>6, <3>7
    <3>2. PICK tag \in Words \X BOOLEAN \X Nat : tag = tags[j]
      BY <2>4
    <3>3. tag = <<tag[1], tag[2], tag[3]>> /\ tag[2] \in BOOLEAN
      BY <3>2
    <3>4. tag = <<"pct", TRUE, reply.pct>>
      BY <3>1, <3>2, <3>3
    <3>5. QED
      BY <2>4, <3>2, <3>4
  <2>7. QED
    BY <2>2, <2>5, <2>6
<1>11. QED
  BY <1>1, <1>2, <1>3, <1>5, <1>6, <1>7, <1>9, <1>10, Zenon DEF AnalysisMeant
(***************************************************************************)
(* The records of several types.                                           *)
(***************************************************************************)
\* Each type that is asked for is asked for once.
LEMMA DistinctIs ==
  ASSUME NEW types, NEW n \in Nat, DOMAIN types = 1..n
  PROVE  \E c \in Nat : /\ DOMAIN Distinct(types) = 1..c /\ ToSet(Distinct(types)) = ToSet(types)
                        /\ \A a, b \in 1..c : Distinct(types)[a] = Distinct(types)[b] => a = b
<1>1. PICK S : S = {i \in DOMAIN types : \A j \in DOMAIN types : j < i => types[j] # types[i]}
  OBVIOUS
<1>2. S \subseteq 1..n
  BY <1>1
<1>3. S \in SUBSET Int /\ IsFiniteSet(S)
  <2>1. IsFiniteSet(1..n)
    BY FS_Interval
  <2>2. S \in SUBSET Int
    BY <1>2
  <2>3. QED
    BY <1>2, <2>1, <2>2, FS_Subset
<1>4. PICK c, p : c = Cardinality(S) /\ p = Ascending(S)
  OBVIOUS
<1>5. /\ c \in Nat /\ DOMAIN p = 1..c /\ ToSet(p) = S
      /\ \A a, b \in 1..c : a < b => p[a] < p[b]
  BY <1>3, <1>4, AscendingSorts
<1>6. \A a \in 1..c : p[a] \in S
  BY <1>5 DEF ToSet
<1>7. PICK d : d = Distinct(types)
  OBVIOUS
<1>8. d = [a \in 1..c |-> types[p[a]]]
  BY <1>1, <1>4, <1>5, <1>7 DEF Distinct
<1>9. ASSUME NEW a \in 1..c, NEW b \in 1..c, d[a] = d[b]
      PROVE  a = b
  <2>1. types[p[a]] = types[p[b]]
    BY <1>8, <1>9
  <2>2. ~(p[a] < p[b]) /\ ~(p[b] < p[a])
    BY <1>1, <1>6, <2>1
  <2>3. ~(a < b) /\ ~(b < a)
    BY <1>5, <2>2
  <2>4. QED
    BY <1>5, <2>3
<1>10. ASSUME NEW i \in 1..n
       PROVE  \E a \in 1..c : d[a] = types[i]
  <2>1. PICK T : T = {j \in 1..n : types[j] = types[i]}
    OBVIOUS
  <2>2. T \in SUBSET Nat /\ T # {}
    BY <2>1
  <2>3. PICK j \in T : \A k \in T : j <= k
    BY <2>2, LeastMember
  <2>4. j \in S
    <3>1. j \in 1..n /\ types[j] = types[i]
      BY <2>1
    <3>2. \A k \in 1..n : k < j => types[k] # types[j]
      <4>1. SUFFICES ASSUME NEW k \in 1..n, k < j, types[k] = types[j] PROVE FALSE
        OBVIOUS
      <4>2. k \in T
        BY <2>1, <3>1, <4>1
      <4>3. j <= k
        BY <2>3, <4>2
      <4>4. QED
        BY <3>1, <4>1, <4>3
    <3>3. QED
      BY <1>1, <3>1, <3>2
  <2>5. PICK a \in 1..c : p[a] = j
    BY <1>5, <2>4 DEF ToSet
  <2>6. QED
    BY <1>8, <2>1, <2>5
<1>11. ToSet(d) = ToSet(types)
  <2>1. \A a \in 1..c : p[a] \in 1..n /\ d[a] = types[p[a]]
    BY <1>2, <1>6, <1>8
  <2>2. DOMAIN d = 1..c
    BY <1>8
  <2>3. ToSet(d) \subseteq ToSet(types)
    BY <2>1, <2>2 DEF ToSet
  <2>4. ToSet(types) \subseteq ToSet(d)
    BY <1>10, <2>2 DEF ToSet
  <2>5. QED
    BY <2>3, <2>4
<1>12. QED
  BY <1>5, <1>7, <1>8, <1>9, <1>11

\* Where in s the records of a type are: after o others, in the order of part.
Placed(s, part, tag, o) ==
  /\ \A i \in DOMAIN s : s[i][1] = tag <=> i > o /\ i <= o + Len(part)
  /\ o + Len(part) <= Len(s)
  /\ \A j \in DOMAIN part : s[o + j] = part[j]

\* The parts of a reply, joined one after the other up to m.
Joined(s, parts, tags, m, Rows) ==
  /\ s \in Seq(Rows)
  /\ \A i \in DOMAIN s : \E k \in 1..m : s[i][1] = tags[k]
  /\ \A k \in 1..m : \E o \in Nat : Placed(s, parts[k], tags[k], o)

\* One more part leaves the others in their places.
LEMMA PartJoins ==
  ASSUME NEW Rows, NEW s \in Seq(Rows), NEW part \in Seq(Rows), NEW other \in Seq(Rows), NEW tag, NEW new, tag # new,
         NEW o \in Nat, Placed(s, other, tag, o), \A j \in DOMAIN part : part[j][1] = new,
         \A i \in DOMAIN s : s[i][1] # new
  PROVE  Placed(s \o part, other, tag, o) /\ Placed(s \o part, part, new, Len(s))
<1>1. PICK p \in Nat, q \in Nat, l \in Nat : p = Len(s) /\ q = Len(part) /\ l = Len(other)
  OBVIOUS
<1>2. PICK t : t = s \o part
  OBVIOUS
<1>3. /\ t \in Seq(Rows) /\ Len(t) = p + q /\ DOMAIN t = 1..(p + q)
      /\ \A i \in 1..p : t[i] = s[i]
      /\ \A j \in 1..q : t[p + j] = part[j]
      /\ DOMAIN s = 1..p /\ DOMAIN part = 1..q /\ DOMAIN other = 1..l
  BY <1>1, <1>2
<1>4. \A i \in 1..(p + q) : i \in 1..p \/ (t[i][1] = new /\ i > p)
  <2>1. SUFFICES ASSUME NEW i \in 1..(p + q), ~(i \in 1..p)
                 PROVE  t[i][1] = new /\ i > p
    OBVIOUS
  <2>2. PICK j \in 1..q : i = p + j
    <3>1. i - p \in 1..q /\ i = p + (i - p)
      BY <2>1
    <3>2. QED
      BY <3>1
  <2>3. t[i] = part[j] /\ part[j][1] = new
    BY <1>3, <2>2
  <2>4. QED
    BY <2>1, <2>3
<1>5. o + l <= p /\ \A i \in 1..p : s[i][1] = tag <=> i > o /\ i <= o + l
  BY <1>1, <1>3 DEF Placed
<1>6. ASSUME NEW i \in 1..(p + q)
      PROVE  t[i][1] = tag <=> i > o /\ i <= o + l
  <2>1. CASE i \in 1..p
    BY <1>3, <1>5, <2>1
  <2>2. CASE ~(i \in 1..p)
    <3>1. t[i][1] = new
      BY <1>4, <2>2
    <3>2. QED
      BY <1>4, <1>5, <2>2, <3>1
  <2>3. QED
    BY <2>1, <2>2
<1>7. ASSUME NEW j \in 1..l
      PROVE  t[o + j] = other[j]
  <2>1. s[o + j] = other[j]
    BY <1>3 DEF Placed
  <2>3. o + j \in 1..p
    BY <1>5
  <2>2. QED
    BY <1>3, <2>1, <2>3
<1>8. ASSUME NEW i \in 1..(p + q)
      PROVE  t[i][1] = new <=> i > p /\ i <= p + q
  <2>1. i \in 1..p => t[i][1] # new
    BY <1>3
  <2>2. ~(i \in 1..p) => t[i][1] = new
    BY <1>4
  <2>3. QED
    BY <2>1, <2>2
<1>9. Placed(t, other, tag, o)
  BY <1>1, <1>3, <1>5, <1>6, <1>7 DEF Placed
<1>10. Placed(t, part, new, p)
  <2>1. \A i \in DOMAIN t : t[i][1] = new <=> i > p /\ i <= p + Len(part)
    BY <1>1, <1>3, <1>8
  <2>2. p + Len(part) <= Len(t) /\ \A j \in DOMAIN part : t[p + j] = part[j]
    <3>1. p + Len(part) <= Len(t)
      BY <1>1, <1>3
    <3>2. \A j \in DOMAIN part : t[p + j] = part[j]
      BY <1>3
    <3>3. QED
      BY <3>1, <3>2
  <2>3. QED
    BY <2>1, <2>2, Zenon DEF Placed
<1>11. QED
  BY <1>1, <1>2, <1>9, <1>10

\* The first part alone.
LEMMA JoinsFirst ==
  ASSUME NEW Rows, NEW parts, NEW tags, parts[1] \in Seq(Rows), \A j \in DOMAIN parts[1] : parts[1][j][1] = tags[1]
  PROVE  Joined(parts[1], parts, tags, 1, Rows)
<1>0. PICK s, t : s = parts[1] /\ t = tags[1]
  OBVIOUS
<1>1. s \in Seq(Rows) /\ \E l \in Nat : l = Len(s)
  BY <1>0
<1>2. PICK l \in Nat : l = Len(s) /\ DOMAIN s = 1..l /\ \A j \in 1..l : s[j][1] = t
  BY <1>0, <1>1
<1>3. Placed(s, s, t, 0)
  <2>1. \A i \in DOMAIN s : s[i][1] = t <=> i > 0 /\ i <= 0 + Len(s)
    BY <1>1, <1>2
  <2>2. 0 + Len(s) <= Len(s) /\ \A j \in DOMAIN s : s[0 + j] = s[j]
    BY <1>1, <1>2
  <2>3. QED
    BY <2>1, <2>2, Zenon DEF Placed
<1>4. \A k \in 1..1 : k = 1
  OBVIOUS
<1>5. \A i \in DOMAIN s : \E k \in 1..1 : s[i][1] = tags[k]
  BY <1>0, <1>2
<1>6. \A k \in 1..1 : \E o \in Nat : Placed(s, parts[k], tags[k], o)
  <2>1. 0 \in Nat
    OBVIOUS
  <2>2. QED
    BY <1>0, <1>3, <1>4, <2>1, Zenon
<1>7. QED
  BY <1>0, <1>1, <1>5, <1>6, Zenon DEF Joined

\* One more part.
LEMMA JoinsNext ==
  ASSUME NEW Rows, NEW parts, NEW tags, NEW n \in Nat, NEW m \in 1..n, NEW next \in 1..n, next = m + 1,
         \A k \in 1..n : parts[k] \in Seq(Rows), \A k \in 1..n : \A j \in DOMAIN parts[k] : parts[k][j][1] = tags[k],
         \A a, b \in 1..n : tags[a] = tags[b] => a = b,
         NEW s, Joined(s, parts, tags, m, Rows)
  PROVE  Joined(s \o parts[next], parts, tags, next, Rows)
<1>1. /\ s \in Seq(Rows) /\ \A i \in DOMAIN s : \E k \in 1..m : s[i][1] = tags[k]
      /\ \A k \in 1..m : \E o \in Nat : Placed(s, parts[k], tags[k], o)
  BY Zenon DEF Joined
<1>2. PICK part, new : part = parts[next] /\ new = tags[next]
  OBVIOUS
<1>0. part \in Seq(Rows)
  BY <1>2
<1>3. \A j \in DOMAIN part : part[j][1] = new
  BY <1>2
<1>4. \A k \in 1..m : k \in 1..n /\ k # next
  OBVIOUS
<1>5. \A k \in 1..m : tags[k] # new
  BY <1>2, <1>4
<1>6. \A i \in DOMAIN s : s[i][1] # new
  BY <1>1, <1>5
<1>7. ASSUME NEW k \in 1..m
      PROVE  \E o \in Nat : Placed(s \o part, parts[k], tags[k], o)
  <2>1. PICK o \in Nat : Placed(s, parts[k], tags[k], o)
    BY <1>1
  <2>2. parts[k] \in Seq(Rows) /\ tags[k] # new
    BY <1>4, <1>5
  <2>3. Placed(s \o part, parts[k], tags[k], o)
    BY <1>0, <1>1, <1>3, <1>6, <2>1, <2>2, PartJoins
  <2>4. QED
    BY <2>3
<1>8. \E o \in Nat : Placed(s \o part, part, new, o)
  <2>1. m \in 1..m
    OBVIOUS
  <2>2. PICK o \in Nat : Placed(s, parts[m], tags[m], o)
    BY <1>1, <2>1
  <2>3. parts[m] \in Seq(Rows) /\ tags[m] # new
    BY <1>4, <1>5, <2>1
  <2>4. Placed(s \o part, part, new, Len(s))
    BY <1>0, <1>1, <1>3, <1>6, <2>2, <2>3, PartJoins
  <2>5. Len(s) \in Nat
    BY <1>1
  <2>6. QED
    BY <2>4, <2>5
<1>9. \A k \in 1..next : k \in 1..m \/ k = next
  OBVIOUS
<1>10. \A k \in 1..next : \E o \in Nat : Placed(s \o part, parts[k], tags[k], o)
  BY <1>2, <1>7, <1>8, <1>9, Zenon
<1>11. PICK t : t = s \o part
  OBVIOUS
<1>12. ASSUME NEW i \in DOMAIN t
       PROVE  \E k \in 1..next : t[i][1] = tags[k]
  <2>1. PICK p \in Nat, q \in Nat : p = Len(s) /\ q = Len(part)
    BY <1>0, <1>1
  <2>2. /\ DOMAIN t = 1..(p + q) /\ DOMAIN s = 1..p /\ DOMAIN part = 1..q
        /\ \A j \in 1..p : t[j] = s[j]
        /\ \A j \in 1..q : t[p + j] = part[j]
    BY <1>0, <1>1, <1>11, <2>1
  <2>3. CASE i \in 1..p
    <3>1. t[i] = s[i] /\ \E k \in 1..m : s[i][1] = tags[k]
      BY <1>1, <2>2, <2>3
    <3>2. \A k \in 1..m : k \in 1..next
      OBVIOUS
    <3>3. QED
      BY <3>1, <3>2
  <2>4. CASE ~(i \in 1..p)
    <3>1. PICK j \in 1..q : i = p + j
      <4>1. i - p \in 1..q /\ i = p + (i - p)
        BY <2>2, <2>4
      <4>2. QED
        BY <4>1
    <3>2. t[i][1] = tags[next]
      <4>1. t[i] = part[j] /\ part[j][1] = new
        BY <1>3, <2>2, <3>1
      <4>2. QED
        BY <1>2, <4>1
    <3>3. next \in 1..next
      OBVIOUS
    <3>4. QED
      BY <3>2, <3>3
  <2>5. QED
    BY <2>3, <2>4
<1>13. t \in Seq(Rows)
  BY <1>0, <1>1, <1>11
<1>14. Joined(t, parts, tags, next, Rows)
  BY <1>10, <1>11, <1>12, <1>13, Zenon DEF Joined
<1>15. QED
  BY <1>2, <1>11, <1>14

\* All parts have their places in the joined list.
LEMMA PartsJoined ==
  ASSUME NEW Rows, NEW parts, NEW tags, NEW n \in Nat, n # 0, Len(parts) = n,
         \A k \in 1..n : parts[k] \in Seq(Rows), \A k \in 1..n : \A j \in DOMAIN parts[k] : parts[k][j][1] = tags[k],
         \A a, b \in 1..n : tags[a] = tags[b] => a = b
  PROVE  Joined(FlattenSeq(parts), parts, tags, n, Rows)
<1>1. PICK f : /\ FlattenSeq(parts) = f[n] /\ f[1] = parts[1]
               /\ \A i \in 1..n - 1 : f[i + 1] = f[i] \o parts[i + 1]
  <2>1. PICK f : /\ FlattenSeq(parts) = f[Len(parts)] /\ f[1] = parts[1]
                 /\ \A i \in 1..Len(parts) - 1 : f[i + 1] = f[i] \o parts[i + 1]
    BY FlattenStepwise, Zenon
  <2>2. QED
    BY <2>1, Zenon
<1> DEFINE S == {m \in Nat : m + 1 \in 1..n => Joined(f[m + 1], parts, tags, m + 1, Rows)}
<1>2. 0 \in S
  <2>1. 1 \in 1..n
    OBVIOUS
  <2>2. Joined(parts[1], parts, tags, 1, Rows)
    BY <2>1, JoinsFirst
  <2>3. PICK one : one = 0 + 1 /\ one = 1
    OBVIOUS
  <2>4. Joined(f[one], parts, tags, one, Rows)
    BY <1>1, <2>2, <2>3
  <2>5. QED
    BY <2>3, <2>4
<1>3. ASSUME NEW m \in S
      PROVE  m + 1 \in S
  <2>1. SUFFICES ASSUME m + 1 + 1 \in 1..n PROVE Joined(f[m + 1 + 1], parts, tags, m + 1 + 1, Rows)
    OBVIOUS
  <2>2. PICK here \in 1..n, next \in 1..n : here = m + 1 /\ next = m + 1 + 1 /\ next = here + 1 /\ here \in 1..n - 1
    BY <2>1
  <2>3. Joined(f[here], parts, tags, here, Rows)
    BY <2>2
  <2>4. Joined(f[here] \o parts[next], parts, tags, next, Rows)
    <3>1. PICK s : s = f[here]
      OBVIOUS
    <3>2. Joined(s, parts, tags, here, Rows)
      BY <2>3, <3>1
    <3>3. Joined(s \o parts[next], parts, tags, next, Rows)
      BY <2>2, <3>2, JoinsNext
    <3>4. QED
      BY <3>1, <3>3
  <2>5. f[next] = f[here] \o parts[next]
    BY <1>1, <2>2
  <2>6. QED
    BY <2>2, <2>4, <2>5
<1>4. S = Nat
  <2>1. \A m \in S : m + 1 \in S
    BY <1>3
  <2> HIDE DEF S
  <2>2. S \in SUBSET Nat
    BY DEF S
  <2>3. QED
    BY <1>2, <2>1, <2>2, SetInduction
<1>5. PICK m \in Nat : m + 1 = n
  <2>1. n - 1 \in Nat /\ n - 1 + 1 = n
    OBVIOUS
  <2>2. QED
    BY <2>1
<1>6. m \in S
  BY <1>4
<1>7. m + 1 \in 1..n => Joined(f[m + 1], parts, tags, m + 1, Rows)
  BY <1>6
<1>8. n \in 1..n
  OBVIOUS
<1>9. QED
  BY <1>1, <1>5, <1>7, <1>8

\* What _resolve_a_records and the others make of the records of a type.
ResolvedMeant(type, records, found) ==
  /\ found \in Seq(Records)
  /\ type = "SOA" => Len(found) = 1
  /\ type # "SOA" => Len(found) = Len(records)
  /\ \A i \in DOMAIN found : found[i] \in ToSet(records)
  /\ \A i, j \in DOMAIN found :
       i < j => /\ type = "MX" => found[i][1] <= found[j][1]
                /\ type = "NS" => found[i][2] < found[j][2]

\* The records of a type are those of the answer, each once and in order.
LEMMA ResolvedIs ==
  ASSUME NEW type, NEW records \in Seq(Records), records # << >>,
         \A i, j \in DOMAIN records : records[i] = records[j] => i = j,
         type = "NS" => \A i \in DOMAIN records : records[i][1] = 0
  PROVE  ResolvedMeant(type, records, Resolved(type, records))
<1>1. PICK n \in Nat : n = Len(records)
  OBVIOUS
<1>2. DOMAIN records = 1..n /\ n # 0 /\ \A i \in 1..n : records[i] \in Records
  BY <1>1
<1>3. PICK S, found : S = ToSet(records) /\ found = Resolved(type, records)
  OBVIOUS
<1>4. \A i \in 1..n : records[i] \in S
  BY <1>2, <1>3 DEF ToSet
<1>5. S \in SUBSET Records /\ IsFiniteSet(S)
  <2>1. IsFiniteSet(ToSet(records))
    BY <1>2, ImageFinite
  <2>2. S \in SUBSET Records
    BY <1>2, <1>3 DEF ToSet
  <2>3. QED
    BY <1>3, <2>1, <2>2
<1>6. CASE type = "SOA"
  <2>1. found = <<records[1]>>
    BY <1>3, <1>6 DEF Resolved
  <2>2. PICK r \in Records : r = records[1]
    BY <1>2
  <2>3. found \in Seq(Records) /\ Len(found) = 1 /\ DOMAIN found = 1..1 /\ found[1] = r
    BY <2>1, <2>2
  <2>4. \A i \in DOMAIN found : i = 1
    BY <2>3
  <2>5. r \in S
    BY <1>2, <1>4, <2>2
  <2>6. QED
    BY <1>3, <1>6, <2>3, <2>4, <2>5 DEF ResolvedMeant
<1>7. CASE type \notin {"SOA", "MX", "NS"}
  <2>1. found = records
    BY <1>3, <1>7 DEF Resolved
  <2>2. QED
    BY <1>2, <1>3, <1>4, <1>7, <2>1 DEF ResolvedMeant
<1>8. CASE type \in {"MX", "NS"}
  <2>1. found = InOrder(S)
    BY <1>3, <1>8 DEF Resolved
  <2>2. Cardinality(S) = n
    <3>1. PICK f : f = [i \in 1..n |-> records[i]]
      OBVIOUS
    <3>2. f \in Surjection(1..n, S)
      BY <1>2, <1>3, <3>1 DEF Surjection, ToSet
    <3>3. f \in Injection(1..n, S)
      BY <1>2, <1>4, <3>1 DEF Injection, IsInjective
    <3>4. IsFiniteSet(1..n) /\ Cardinality(1..n) = n
      BY <1>2, FS_Interval
    <3>5. QED
      BY <3>2, <3>3, <3>4, FS_Surjection
  <2>3. DOMAIN found = 1..n /\ Len(found) = n /\ found \in Seq(S)
    BY <1>5, <2>1, <2>2, InOrderSorts
  <2>4. \A i, j \in DOMAIN found : i < j => Preferred(found[i], found[j])
    BY <1>5, <2>1, InOrderSorts
  <2>5. \A i \in 1..n : found[i] \in S /\ found[i] \in Records
    BY <1>5, <2>3
  <2>6. found \in Seq(Records)
    BY <2>3, <2>5
  <2>7. ASSUME NEW i \in 1..n, NEW j \in 1..n, i < j
        PROVE  /\ type = "MX" => found[i][1] <= found[j][1]
               /\ type = "NS" => found[i][2] < found[j][2]
    <3>1. PICK x \in Records, y \in Records : x = found[i] /\ y = found[j] /\ x \in S /\ y \in S
      BY <2>5
    <3>2. Preferred(x, y)
      BY <2>3, <2>4, <2>7, <3>1
    <3>3. x[1] \in Nat /\ y[1] \in Nat
      BY DEF Records
    <3>4. type = "NS" => x[1] = 0 /\ y[1] = 0
      BY <1>2, <1>3, <3>1 DEF ToSet
    <3>5. QED
      BY <3>1, <3>2, <3>3, <3>4 DEF Preferred
  <2>8. QED
    BY <1>1, <1>3, <1>8, <2>3, <2>5, <2>6, <2>7 DEF ResolvedMeant
<1>9. QED
  BY <1>3, <1>6, <1>7, <1>8

RecordsMeant(q, reply) ==
  LET wanted == ToSet(q.types)
      answered == {t \in wanted : q.answers[t][1] = "answer"}
  IN /\ (\A t \in wanted : q.answers[t][1] \in {"answer", "NoAnswer"}) => reply.status = "answer"
     /\ reply.status = "answer" => \A t \in wanted : q.answers[t][1] \in {"answer", "NoAnswer", "NXDOMAIN"}
     /\ reply.status = "answer" =>
          /\ ToSet(reply.records) \subseteq UNION {{<<t, r>> : r \in ToSet(q.answers[t][2])} : t \in answered}
          /\ \A t \in answered :
               Cardinality({i \in DOMAIN reply.records : reply.records[i][1] = t})
                 = IF t = "SOA" THEN 1 ELSE Len(q.answers[t][2])
          /\ \A i, j \in DOMAIN reply.records :
               i < j /\ reply.records[i][1] = reply.records[j][1] =>
                 /\ reply.records[i][1] = "MX" => reply.records[i][2][1] <= reply.records[j][2][1]
                 /\ reply.records[i][1] = "NS" => reply.records[i][2][2] < reply.records[j][2][2]

\* What is known of the answers to a query.
Answerable(q) ==
  \A t \in ToSet(q.types) :
    /\ q.answers[t] \in RecordAnswers
    /\ q.answers[t][1] = "answer" => q.answers[t][2] # << >>
    /\ \A i, j \in DOMAIN q.answers[t][2] : q.answers[t][2][i] = q.answers[t][2][j] => i = j
    /\ t = "NS" => \A i \in DOMAIN q.answers[t][2] : q.answers[t][2][i][1] = 0

\* What a part of a reply holds, the records of the type tag.
PartMeant(tag, given, part) ==
  /\ part \in Seq({tag} \X Records)
  /\ given[1] # "answer" => part = << >>
  /\ given[1] = "answer" /\ tag = "SOA" => Len(part) = 1
  /\ given[1] = "answer" /\ tag # "SOA" => Len(part) = Len(given[2])
  /\ \A i \in DOMAIN part : part[i][2] \in ToSet(given[2])
  /\ \A i, j \in DOMAIN part :
       i < j => /\ tag = "MX" => part[i][2][1] <= part[j][2][1]
                /\ tag = "NS" => part[i][2][2] < part[j][2][2]

\* A part holds the records of its type and of no other.
LEMMA PartIs ==
  ASSUME NEW tag, NEW given, given \in RecordAnswers, given[1] \in {"answer", "NoAnswer"},
         given[1] = "answer" => given[2] # << >>,
         \A i, j \in DOMAIN given[2] : given[2][i] = given[2][j] => i = j,
         tag = "NS" => \A i \in DOMAIN given[2] : given[2][i][1] = 0,
         NEW part,
         given[1] = "NoAnswer" => part = << >>,
         given[1] = "answer" =>
           part = [i \in DOMAIN Resolved(tag, given[2]) |-> <<tag, Resolved(tag, given[2])[i]>>]
  PROVE  PartMeant(tag, given, part)
<1>1. CASE given[1] = "NoAnswer"
  BY <1>1 DEF PartMeant
<1>2. CASE given[1] = "answer"
  <2>1. PICK records, found : records = given[2] /\ found = Resolved(tag, records)
    OBVIOUS
  <2>2. records \in Seq(Records)
    BY <2>1 DEF RecordAnswers, Records
  <2>3. ResolvedMeant(tag, records, found)
    BY <1>2, <2>1, <2>2, ResolvedIs
  <2>4. PICK n \in Nat : n = Len(found)
    BY <2>3 DEF ResolvedMeant
  <2>5. DOMAIN found = 1..n /\ \A i \in 1..n : found[i] \in Records /\ found[i] \in ToSet(records)
    BY <2>3, <2>4 DEF ResolvedMeant
  <2>6. part = [i \in 1..n |-> <<tag, found[i]>>]
    BY <1>2, <2>1, <2>5
  <2>7. DOMAIN part = 1..n /\ \A i \in 1..n : part[i] = <<tag, found[i]>>
    BY <2>6
  <2>8. \A i \in 1..n : part[i][1] = tag /\ part[i][2] = found[i]
    BY <2>7
  <2>9. part \in Seq({tag} \X Records) /\ Len(part) = n
    <3>1. PICK Rows : Rows = {tag} \X Records
      OBVIOUS
    <3>2. \A i \in 1..n : <<tag, found[i]>> \in Rows
      BY <2>5, <3>1
    <3>3. part \in Seq(Rows) /\ Len(part) = n
      BY <2>6, <3>2
    <3>4. QED
      BY <3>1, <3>3
  <2>10. /\ tag = "SOA" => n = 1
         /\ tag # "SOA" => n = Len(records)
         /\ \A i, j \in 1..n :
              i < j => /\ tag = "MX" => found[i][1] <= found[j][1]
                       /\ tag = "NS" => found[i][2] < found[j][2]
    BY <2>3, <2>4, <2>5 DEF ResolvedMeant
  <2>11. \A i \in DOMAIN part : part[i][2] \in ToSet(given[2])
    BY <2>1, <2>5, <2>7, <2>8
  <2>12. \A i, j \in DOMAIN part :
            i < j => /\ tag = "MX" => part[i][2][1] <= part[j][2][1]
                     /\ tag = "NS" => part[i][2][2] < part[j][2][2]
    BY <2>7, <2>8, <2>10
  <2>13. QED
    BY <1>2, <2>1, <2>9, <2>10, <2>11, <2>12 DEF PartMeant
<1>3. QED
  BY <1>1, <1>2

\* What the joined parts say.
LEMMA JoinedMeans ==
  ASSUME NEW q, Answerable(q), NEW types, NEW c \in Nat, ToSet(types) = ToSet(q.types), DOMAIN types = 1..c,
         \A a, b \in 1..c : types[a] = types[b] => a = b,
         NEW parts, \A k \in 1..c : PartMeant(types[k], q.answers[types[k]], parts[k]),
         NEW all, NEW Rows, Joined(all, parts, types, c, Rows)
  PROVE  /\ \A i \in DOMAIN all : \E t \in ToSet(q.types) :
              /\ q.answers[t][1] = "answer" /\ all[i][1] = t /\ all[i][2] \in ToSet(q.answers[t][2])
         /\ \A t \in ToSet(q.types) : q.answers[t][1] = "answer" =>
              Cardinality({i \in DOMAIN all : all[i][1] = t}) = IF t = "SOA" THEN 1 ELSE Len(q.answers[t][2])
         /\ \A i, j \in DOMAIN all :
              i < j /\ all[i][1] = all[j][1] =>
                /\ all[i][1] = "MX" => all[i][2][1] <= all[j][2][1]
                /\ all[i][1] = "NS" => all[i][2][2] < all[j][2][2]
<1>1. PICK n \in Nat : n = Len(all) /\ DOMAIN all = 1..n
  <2>1. all \in Seq(Rows)
    BY Zenon DEF Joined
  <2>2. Len(all) \in Nat /\ DOMAIN all = 1..Len(all)
    BY <2>1
  <2>3. QED
    BY <2>2
<1>2. /\ \A i \in 1..n : \E k \in 1..c : all[i][1] = types[k]
      /\ \A k \in 1..c : \E o \in Nat : Placed(all, parts[k], types[k], o)
  BY <1>1, Zenon DEF Joined
<1>3. \A k \in 1..c : types[k] \in ToSet(q.types)
  BY DEF ToSet
<1>4. ASSUME NEW k \in 1..c, NEW i \in 1..n, all[i][1] = types[k]
      PROVE  \E o, l, j \in Nat :
               /\ j \in 1..l /\ l = Len(parts[k]) /\ DOMAIN parts[k] = 1..l /\ i = o + j /\ all[i] = parts[k][j]
               /\ Placed(all, parts[k], types[k], o)
  <2>1. PICK o \in Nat : Placed(all, parts[k], types[k], o)
    BY <1>2
  <2>2. PICK l \in Nat : l = Len(parts[k]) /\ DOMAIN parts[k] = 1..l
    BY DEF PartMeant
  <2>3. i > o /\ i <= o + l
    BY <1>1, <1>4, <2>1, <2>2 DEF Placed
  <2>4. PICK j \in 1..l : i = o + j
    <3>1. i - o \in 1..l /\ i = o + (i - o)
      BY <2>3
    <3>2. QED
      BY <3>1
  <2>5. all[i] = parts[k][j]
    BY <2>1, <2>2, <2>4 DEF Placed
  <2>6. QED
    BY <2>1, <2>2, <2>4, <2>5
<1>5. ASSUME NEW i \in 1..n
      PROVE  \E t \in ToSet(q.types) :
               /\ q.answers[t][1] = "answer" /\ all[i][1] = t /\ all[i][2] \in ToSet(q.answers[t][2])
  <2>1. PICK k \in 1..c : all[i][1] = types[k]
    BY <1>2
  <2>2. PICK o, l, j \in Nat :
          /\ j \in 1..l /\ l = Len(parts[k]) /\ DOMAIN parts[k] = 1..l /\ i = o + j /\ all[i] = parts[k][j]
          /\ Placed(all, parts[k], types[k], o)
    BY <1>4, <2>1, Zenon
  <2>3. PICK t \in ToSet(q.types) : t = types[k]
    BY <1>3
  <2>4. PartMeant(t, q.answers[t], parts[k])
    BY <2>3
  <2>5. parts[k] # << >>
    BY <2>2
  <2>6. q.answers[t][1] = "answer" /\ all[i][2] \in ToSet(q.answers[t][2])
    BY <2>2, <2>4, <2>5 DEF PartMeant
  <2>7. QED
    BY <2>1, <2>3, <2>6
<1>6. ASSUME NEW t \in ToSet(q.types), q.answers[t][1] = "answer"
      PROVE  Cardinality({i \in DOMAIN all : all[i][1] = t}) = IF t = "SOA" THEN 1 ELSE Len(q.answers[t][2])
  <2>1. PICK k \in 1..c : t = types[k]
    BY DEF ToSet
  <2>2. PICK o \in Nat : Placed(all, parts[k], t, o)
    BY <1>2, <2>1
  <2>3. PartMeant(t, q.answers[t], parts[k])
    BY <2>1
  <2>4. PICK l \in Nat : l = Len(parts[k]) /\ DOMAIN parts[k] = 1..l
    BY <2>3 DEF PartMeant
  <2>5. PICK places : places = {i \in DOMAIN all : all[i][1] = t}
    OBVIOUS
  <2>6. places = (o + 1)..(o + l)
    <3>1. \A i \in 1..n : i \in places <=> i > o /\ i <= o + l
      BY <1>1, <2>2, <2>4, <2>5 DEF Placed
    <3>2. o + l <= n
      BY <1>1, <2>2, <2>4 DEF Placed
    <3>3. places \subseteq 1..n
      BY <1>1, <2>5
    <3>4. \A i \in (o + 1)..(o + l) : i \in 1..n /\ i > o /\ i <= o + l
      BY <3>2
    <3>5. \A i \in 1..n : i > o /\ i <= o + l => i \in (o + 1)..(o + l)
      OBVIOUS
    <3>6. \A i \in places : i \in (o + 1)..(o + l)
      BY <3>1, <3>3, <3>5
    <3>7. \A i \in (o + 1)..(o + l) : i \in places
      BY <3>1, <3>4
    <3>8. QED
      BY <3>6, <3>7, Zenon
  <2>7. Cardinality((o + 1)..(o + l)) = l
    <3>1. PICK a \in Int, b \in Int : a = o + 1 /\ b = o + l
      OBVIOUS
    <3>2. Cardinality(a..b) = IF a > b THEN 0 ELSE b - a + 1
      BY FS_Interval
    <3>3. QED
      BY <3>1, <3>2
  <2>8. /\ t = "SOA" => l = 1
        /\ t # "SOA" => l = Len(q.answers[t][2])
    BY <1>6, <2>3, <2>4 DEF PartMeant
  <2>9. QED
    BY <2>5, <2>6, <2>7, <2>8
<1>7. ASSUME NEW i \in 1..n, NEW j \in 1..n, i < j, all[i][1] = all[j][1]
      PROVE  /\ all[i][1] = "MX" => all[i][2][1] <= all[j][2][1]
             /\ all[i][1] = "NS" => all[i][2][2] < all[j][2][2]
  <2>1. PICK k \in 1..c : all[i][1] = types[k]
    BY <1>2
  <2>2. PICK o \in Nat : Placed(all, parts[k], types[k], o)
    BY <1>2
  <2>3. PICK l \in Nat : l = Len(parts[k]) /\ DOMAIN parts[k] = 1..l
    <3>1. PartMeant(types[k], q.answers[types[k]], parts[k])
      OBVIOUS
    <3>2. QED
      BY <3>1 DEF PartMeant
  <2>4. i > o /\ i <= o + l /\ j > o /\ j <= o + l
    BY <1>1, <1>7, <2>1, <2>2, <2>3 DEF Placed
  <2>5. PICK a \in 1..l, b \in 1..l : i = o + a /\ j = o + b
    <3>1. i - o \in 1..l /\ i = o + (i - o) /\ j - o \in 1..l /\ j = o + (j - o)
      BY <2>4
    <3>2. QED
      BY <3>1
  <2>6. a < b
    BY <1>7, <2>5
  <2>7. all[i] = parts[k][a] /\ all[j] = parts[k][b]
    BY <2>2, <2>3, <2>5 DEF Placed
  <2>8. PICK t, part, given : t = types[k] /\ part = parts[k] /\ given = q.answers[types[k]]
    OBVIOUS
  <2>9. PartMeant(t, given, part)
    BY <2>8
  <2>10. /\ t = "MX" => part[a][2][1] <= part[b][2][1]
         /\ t = "NS" => part[a][2][2] < part[b][2][2]
    BY <2>3, <2>6, <2>8, <2>9 DEF PartMeant
  <2>11. QED
    BY <2>1, <2>7, <2>8, <2>10
<1>8. QED
  BY <1>1, <1>5, <1>6, <1>7

\* A reply with records says what RecordsExact says of it.
LEMMA RecordsIsMeant ==
  ASSUME NEW q, NEW n \in Nat, DOMAIN q.types = 1..n, Answerable(q)
  PROVE  RecordsMeant(q, RecordsReply(q))
<1>1. PICK types : types = Distinct(q.types)
  OBVIOUS
<1>2. PICK c \in Nat : /\ DOMAIN types = 1..c /\ ToSet(types) = ToSet(q.types)
                       /\ \A a, b \in 1..c : types[a] = types[b] => a = b
  BY <1>1, DistinctIs
<1>3. PICK failing : failing = {k \in DOMAIN types : Translated(q.answers[types[k]][1]) \notin {"answer", "nodata"}}
  OBVIOUS
<1>4. PICK parts : parts = [k \in DOMAIN types |->
                              IF Translated(q.answers[types[k]][1]) = "nodata" THEN << >>
                              ELSE LET found == Resolved(types[k], q.answers[types[k]][2])
                                   IN [i \in DOMAIN found |-> <<types[k], found[i]>>]]
  OBVIOUS
<1>5. PICK reply : reply = RecordsReply(q)
  OBVIOUS
<1>6. /\ failing = {} => reply = [status |-> "answer", records |-> FlattenSeq(parts)]
      /\ failing # {} => reply = [status |-> Translated(q.answers[types[Min(failing)]][1]), records |-> << >>]
  BY <1>1, <1>3, <1>4, <1>5, Zenon DEF RecordsReply
<1>7. failing \in SUBSET (1..c)
  BY <1>2, <1>3
<1>8. reply.status = "answer" <=> failing = {}
  <2>1. ASSUME failing # {} PROVE reply.status # "answer"
    <3>1. failing \in SUBSET Nat
      BY <1>7
    <3>2. Min(failing) \in failing
      BY <2>1, <3>1, LeastOf
    <3>3. Translated(q.answers[types[Min(failing)]][1]) # "answer"
      <4>1. PICK m : m = Min(failing)
        OBVIOUS
      <4>2. \A k \in failing : Translated(q.answers[types[k]][1]) \notin {"answer", "nodata"}
        BY <1>3, Zenon
      <4>3. Translated(q.answers[types[m]][1]) \notin {"answer", "nodata"}
        BY <3>2, <4>1, <4>2, Zenon
      <4>4. QED
        BY <4>1, <4>3, Zenon
    <3>4. QED
      BY <1>6, <2>1, <3>3
  <2>2. QED
    BY <1>6, <2>1
<1>9. failing = {} <=> \A t \in ToSet(q.types) : q.answers[t][1] \in {"answer", "NoAnswer"}
  <2>1. \A k \in 1..c : k \in failing <=> q.answers[types[k]][1] \notin {"answer", "NoAnswer"}
    <3>1. SUFFICES ASSUME NEW k \in 1..c
                   PROVE  k \in failing <=> q.answers[types[k]][1] \notin {"answer", "NoAnswer"}
      OBVIOUS
    <3>2. k \in failing <=> Translated(q.answers[types[k]][1]) \notin {"answer", "nodata"}
      BY <1>2, <1>3
    <3>3. QED
      BY <3>2, TranslatedMeans
  <2>2. \A k \in 1..c : types[k] \in ToSet(q.types)
    BY <1>2 DEF ToSet
  <2>3. \A t \in ToSet(q.types) : \E k \in 1..c : t = types[k]
    BY <1>2 DEF ToSet
  <2>4. QED
    BY <1>7, <2>1, <2>2, <2>3, Zenon
<1>10. ASSUME failing = {}
       PROVE  \A k \in 1..c : PartMeant(types[k], q.answers[types[k]], parts[k])
  <2>1. SUFFICES ASSUME NEW k \in 1..c PROVE PartMeant(types[k], q.answers[types[k]], parts[k])
    OBVIOUS
  <2>2. PICK t, given, part : t = types[k] /\ given = q.answers[types[k]] /\ part = parts[k]
    OBVIOUS
  <2>3. t \in ToSet(q.types) /\ given = q.answers[t]
    BY <1>2, <2>2 DEF ToSet
  <2>4. /\ given \in RecordAnswers /\ given[1] \in {"answer", "NoAnswer"}
        /\ given[1] = "answer" => given[2] # << >>
        /\ \A i, j \in DOMAIN given[2] : given[2][i] = given[2][j] => i = j
        /\ t = "NS" => \A i \in DOMAIN given[2] : given[2][i][1] = 0
    <3>1. given[1] \in {"answer", "NoAnswer"}
      BY <1>9, <1>10, <2>3
    <3>2. QED
      BY <2>3, <3>1, Zenon DEF Answerable
  <2>5. part = IF Translated(given[1]) = "nodata" THEN << >>
               ELSE LET found == Resolved(t, given[2]) IN [i \in DOMAIN found |-> <<t, found[i]>>]
    BY <1>2, <1>4, <2>2, Zenon
  <2>6. /\ given[1] = "NoAnswer" => part = << >>
        /\ given[1] = "answer" =>
             part = [i \in DOMAIN Resolved(t, given[2]) |-> <<t, Resolved(t, given[2])[i]>>]
    BY <2>5, TranslatedMeans
  <2>7. PartMeant(t, given, part)
    BY <2>4, <2>6, PartIs
  <2>8. QED
    BY <2>2, <2>7
<1>11. ASSUME failing = {}
       PROVE  RecordsMeant(q, reply)
  <2>1. PICK all : all = FlattenSeq(parts) /\ all = reply.records
    BY <1>6, <1>11
  <2>2. DOMAIN parts = 1..c /\ Len(parts) = c
    BY <1>2, <1>4
  <2>3. CASE c = 0
    <3>1. FlattenSeq(parts) = parts
      BY <2>2, <2>3 DEF FlattenSeq
    <3>0. 1..c = {}
      BY <2>3
    <3>2. DOMAIN all = {}
      BY <2>1, <2>2, <3>0, <3>1, Zenon
    <3>3. ToSet(q.types) = {}
      <4>1. DOMAIN types = {}
        BY <1>2, <3>0
      <4>2. ToSet(types) = {}
        BY <4>1 DEF ToSet
      <4>3. QED
        BY <1>2, <4>2
    <3>4. ToSet(all) = {}
      BY <3>2 DEF ToSet
    <3>5. QED
      BY <1>8, <1>9, <1>11, <2>1, <3>2, <3>3, <3>4 DEF RecordsMeant
  <2>4. CASE c # 0
    <3>1. PICK Rows : Rows = ToSet(q.types) \X Records
      OBVIOUS
    <3>2. ASSUME NEW k \in 1..c
          PROVE  parts[k] \in Seq(Rows) /\ \A j \in DOMAIN parts[k] : parts[k][j][1] = types[k]
      <4>1. PICK t, part : t = types[k] /\ part = parts[k]
        OBVIOUS
      <4>2. t \in ToSet(q.types)
        BY <1>2, <4>1 DEF ToSet
      <4>3. part \in Seq({t} \X Records)
        BY <1>10, <1>11, <4>1 DEF PartMeant
      <4>4. PICK Own : Own = {t} \X Records
        OBVIOUS
      <4>5. PICK l \in Nat : l = Len(part)
        BY <4>3
      <4>6. DOMAIN part = 1..l /\ \A j \in 1..l : part[j] \in Own
        BY <4>3, <4>4, <4>5
      <4>7. \A r \in Own : r \in Rows /\ r[1] = t
        BY <3>1, <4>2, <4>4
      <4>8. part \in Seq(Rows)
        BY <4>3, <4>5, <4>6, <4>7
      <4>9. QED
        BY <4>1, <4>6, <4>7, <4>8
    <3>3. Joined(FlattenSeq(parts), parts, types, c, Rows)
      BY <1>2, <2>2, <2>4, <3>2, PartsJoined
    <3>4. Joined(all, parts, types, c, Rows)
      BY <2>1, <3>3
    <3>5. /\ \A i \in DOMAIN all : \E t \in ToSet(q.types) :
               /\ q.answers[t][1] = "answer" /\ all[i][1] = t /\ all[i][2] \in ToSet(q.answers[t][2])
          /\ \A t \in ToSet(q.types) : q.answers[t][1] = "answer" =>
               Cardinality({i \in DOMAIN all : all[i][1] = t}) = IF t = "SOA" THEN 1 ELSE Len(q.answers[t][2])
          /\ \A i, j \in DOMAIN all :
               i < j /\ all[i][1] = all[j][1] =>
                 /\ all[i][1] = "MX" => all[i][2][1] <= all[j][2][1]
                 /\ all[i][1] = "NS" => all[i][2][2] < all[j][2][2]
      BY <1>2, <1>10, <1>11, <3>4, JoinedMeans, Zenon
    <3>6. \A i \in DOMAIN all : all[i] = <<all[i][1], all[i][2]>>
      <4>1. all \in Seq(Rows)
        BY <3>4, Zenon DEF Joined
      <4>2. \A i \in DOMAIN all : all[i] \in Rows
        BY <4>1
      <4>3. QED
        BY <3>1, <4>2
    <3>7. ToSet(all) \subseteq
            UNION {{<<t, r>> : r \in ToSet(q.answers[t][2])} : t \in {u \in ToSet(q.types) : q.answers[u][1] = "answer"}}
      <4>1. SUFFICES ASSUME NEW i \in DOMAIN all
                     PROVE  \E t \in {u \in ToSet(q.types) : q.answers[u][1] = "answer"} :
                              all[i] \in {<<t, r>> : r \in ToSet(q.answers[t][2])}
        BY DEF ToSet
      <4>2. QED
        BY <3>5, <3>6
    <3>8. \A t \in {u \in ToSet(q.types) : q.answers[u][1] = "answer"} :
            Cardinality({i \in DOMAIN all : all[i][1] = t}) = IF t = "SOA" THEN 1 ELSE Len(q.answers[t][2])
      BY <3>5, Zenon
    <3>9. reply.status = "answer" <=> \A t \in ToSet(q.types) : q.answers[t][1] \in {"answer", "NoAnswer"}
      BY <1>8, <1>9
    <3>10. QED
      <4>1. /\ ToSet(reply.records) \subseteq
                 UNION {{<<t, r>> : r \in ToSet(q.answers[t][2])} :
                          t \in {u \in ToSet(q.types) : q.answers[u][1] = "answer"}}
            /\ \A t \in {u \in ToSet(q.types) : q.answers[u][1] = "answer"} :
                 Cardinality({i \in DOMAIN reply.records : reply.records[i][1] = t})
                   = IF t = "SOA" THEN 1 ELSE Len(q.answers[t][2])
            /\ \A i, j \in DOMAIN reply.records :
                 i < j /\ reply.records[i][1] = reply.records[j][1] =>
                   /\ reply.records[i][1] = "MX" => reply.records[i][2][1] <= reply.records[j][2][1]
                   /\ reply.records[i][1] = "NS" => reply.records[i][2][2] < reply.records[j][2][2]
        BY <2>1, <3>5, <3>7, <3>8
      <4>2. QED
        BY <3>9, <4>1, Zenon DEF RecordsMeant
  <2>5. QED
    BY <2>3, <2>4
<1>12. ASSUME failing # {}
       PROVE  RecordsMeant(q, reply)
  <2>1. reply.status # "answer"
    BY <1>8, <1>12
  <2>2. ~\A t \in ToSet(q.types) : q.answers[t][1] \in {"answer", "NoAnswer"}
    BY <1>9, <1>12
  <2>3. QED
    BY <2>1, <2>2, Zenon DEF RecordsMeant
<1>13. QED
  BY <1>5, <1>11, <1>12

\* A reply is about what has been asked, and is what the tool makes of it.
MailInv ==
  /\ call[1] = "records" => call[2] \in RecordQueries /\ (result # << >> => result[1] = RecordsReply(call[2]))
  /\ call[1] = "dnssec" => call[2] \in Signatures /\ (result # << >> => result[1] = SignedReply(call[2]))
  /\ call[1] = "analyze" => call[2] \in MailDomains /\ (result # << >> => result[1] = AnalysisReply(call[2]))
  /\ call[1] = "email" => call[2] \in MailChecks /\ (result # << >> => result[1] = CheckReply(call[2]))

\* Whatever has been asked, the reply is the one of its tool.
LEMMA MailInvariant == MailSpec => []MailInv
<1>1. MailCalled => MailInv
  BY DEF MailCalled, Called, MailInv
<1>2. MailInv /\ [MailAnswers]_callVars => MailInv'
  <2>1. SUFFICES ASSUME MailInv, [MailAnswers]_callVars PROVE MailInv'
    OBVIOUS
  <2>2. CASE UNCHANGED callVars
    BY <2>1, <2>2 DEF MailInv, callVars
  <2>3. CASE Answers("records", RecordsReply)
    BY <2>1, <2>3 DEF MailInv, Answers
  <2>4. CASE Answers("dnssec", SignedReply)
    BY <2>1, <2>4 DEF MailInv, Answers
  <2>5. CASE Answers("analyze", AnalysisReply)
    BY <2>1, <2>5 DEF MailInv, Answers
  <2>6. CASE Answers("email", CheckReply)
    BY <2>1, <2>6 DEF MailInv, Answers
  <2>7. QED
    BY <2>1, <2>2, <2>3, <2>4, <2>5, <2>6 DEF MailAnswers
<1>3. QED
  BY <1>1, <1>2, PTL DEF MailSpec

\* For all lists and whatever DNS answers, the class of an address is as
\* ClassesExact says (email_service.py, classify_email_detailed).
THEOREM MailClassesExact ==
  ASSUME MailIsTyped
  PROVE  MailSpec => []ClassesExact
<1>1. MailInv => ClassesExact
  <2>1. SUFFICES ASSUME MailInv, Answered("email") PROVE ClassMeant(call[2], result[1])
    BY Zenon DEF ClassesExact, ClassMeant
  <2>2. call[2] \in MailChecks /\ result[1] = CheckReply(call[2])
    BY <2>1 DEF MailInv, Answered
  <2>3. call[2] \in Question /\ None \notin BOOLEAN /\ None \notin {"disposable", "public_email", "business"}
    BY <2>2, MailIsTyped DEF MailIsTyped, Question, RecordAnswers
  <2>4. QED
    BY <2>2, <2>3, CheckMeant
<1>2. QED
  BY <1>1, MailInvariant, PTL

\* For all queries and whatever DNS answers, the records, the chain of signatures
\* and the analysis of a domain are as MailExact says (DNSPythonProvider.lookup,
\* dns_tools_service.py, dnssec_validate and email_domain_analyze).
THEOREM MailReadsExact ==
  ASSUME MailIsTyped
  PROVE  MailSpec => []MailExact
<1>1. ASSUME MailInv
      PROVE  RecordsExact
  <2>1. SUFFICES ASSUME Answered("records") PROVE RecordsMeant(call[2], result[1])
    BY Zenon DEF RecordsExact, RecordsMeant
  <2>2. PICK q \in RecordQueries : q = call[2] /\ result[1] = RecordsReply(q)
    BY <1>1, <2>1 DEF MailInv, Answered
  <2>3. Answerable(q)
    BY MailIsTyped, Zenon DEF MailIsTyped, Answerable
  <2>4. PICK n \in Nat : DOMAIN q.types = 1..n
    <3>1. q.types = [i \in 1..Len(q.types) |-> q.types[i]] /\ Len(q.types) \in Nat
      BY MailIsTyped, Zenon DEF MailIsTyped
    <3>2. PICK n, types : n = Len(q.types) /\ types = q.types
      OBVIOUS
    <3>3. types = [i \in 1..n |-> types[i]] /\ n \in Nat
      BY <3>1, <3>2, Zenon
    <3>4. QED
      BY <3>2, <3>3
  <2>5. QED
    BY <2>2, <2>3, <2>4, RecordsIsMeant
<1>2. ASSUME MailInv
      PROVE  ChainExact
  <2>1. SUFFICES ASSUME Answered("dnssec") PROVE ChainMeant(call[2], result[1])
    BY Zenon DEF ChainExact, ChainMeant
  <2>2. result[1] = SignedReply(call[2])
    BY <1>2, <2>1 DEF MailInv, Answered
  <2>3. None \notin BOOLEAN
    BY MailIsTyped DEF MailIsTyped
  <2>4. QED
    BY <2>2, <2>3, ChainIsMeant
<1>3. ASSUME MailInv
      PROVE  AnalysisExact
  <2>1. SUFFICES ASSUME Answered("analyze") PROVE AnalysisMeant(call[2], result[1])
    BY Zenon DEF AnalysisExact, AnalysisMeant
  <2>2. PICK q \in MailDomains : q = call[2] /\ result[1] = AnalysisReply(q)
    BY <1>3, <2>1 DEF MailInv, Answered
  <2>3. PICK texts, n, Words : texts = q.dmarc[2] /\ n = Len(texts) /\ Words = STRING
    OBVIOUS
  <2>4. /\ q.mx \in RecordAnswers /\ texts = [i \in 1..n |-> texts[i]] /\ n \in Nat
        /\ \A text \in ToSet(texts) : text.tags \in Seq(Words \X BOOLEAN \X Nat)
    BY <2>3, MailIsTyped, Zenon DEF MailIsTyped
  <2>5. DOMAIN texts = 1..n
    BY <2>4
  <2>6. \A i \in 1..n : texts[i].tags \in Seq(Words \X BOOLEAN \X Nat)
    BY <2>4, <2>5 DEF ToSet
  <2>7. AnalysisMeant(q, AnalysisReply(q))
    BY <2>3, <2>4, <2>5, <2>6, AnalysisIsMeant
  <2>8. QED
    BY <2>2, <2>7
<1>4. MailInv => MailExact
  BY <1>1, <1>2, <1>3 DEF MailExact
<1>5. QED
  BY <1>4, MailInvariant, PTL

-----------------------------------------------------------------------------
(***************************************************************************)
(* WebSources: chains of redirects, the rules of robots.txt and what three *)
(* sources say of an address.                                              *)
(***************************************************************************)
Begun(q) == [hops |-> << >>, current |-> q.url, status |-> "going"]

\* Where a URL leads to, None if it leads nowhere.
Led(site, u) == IF u # None /\ site[u][1] = "redirect" THEN site[u][2] ELSE None

\* The states of the loop of analyze_redirects.
Walks(f, q, n) == f = [k \in 0..n |-> IF k = 0 THEN Begun(q) ELSE Hop(q.site, f[k - 1])]

\* The loop goes round one more time.
LEMMA WalksNext ==
  ASSUME NEW q, NEW n \in Nat, NEW f, Walks(f, q, n)
  PROVE  \E g : Walks(g, q, n + 1)
<1>1. PICK g : g = [k \in 0..n + 1 |-> IF k = 0 THEN Begun(q) ELSE Hop(q.site, f[k - 1])]
  OBVIOUS
<1>2. \A k \in 0..n : f[k] = IF k = 0 THEN Begun(q) ELSE Hop(q.site, f[k - 1])
  BY Zenon DEF Walks
<1>3. \A k \in 0..n : k \in 0..n + 1
  OBVIOUS
<1>4. \A k \in 0..n : g[k] = f[k]
  BY <1>1, <1>2, <1>3, Zenon
<1>5. \A k \in 0..n + 1 : k # 0 => k - 1 \in 0..n
  OBVIOUS
<1>6. g = [k \in 0..n + 1 |-> IF k = 0 THEN Begun(q) ELSE Hop(q.site, g[k - 1])]
  BY <1>1, <1>4, <1>5, Zenon
<1>7. QED
  BY <1>6, Zenon DEF Walks

\* The loop goes round any number of times.
LEMMA WalksExists ==
  ASSUME NEW q
  PROVE  \A n \in Nat : \E f : Walks(f, q, n)
<1> DEFINE S == {n \in Nat : \E f : Walks(f, q, n)}
<1>1. 0 \in S
  <2>1. PICK f : f = [k \in 0..0 |-> Begun(q)]
    OBVIOUS
  <2>2. f = [k \in 0..0 |-> IF k = 0 THEN Begun(q) ELSE Hop(q.site, f[k - 1])]
    <3>1. \A k \in 0..0 : k = 0
      OBVIOUS
    <3>2. QED
      BY <2>1, <3>1, Zenon
  <2>3. QED
    BY <2>2, Zenon DEF Walks
<1>2. \A n \in S : n + 1 \in S
  BY WalksNext
<1>3. S = Nat
  <2> HIDE DEF S
  <2>1. S \in SUBSET Nat
    BY DEF S
  <2>2. QED
    BY <1>1, <1>2, <2>1, SetInduction
<1>4. QED
  BY <1>3

\* Step by step.
LEMMA WalksStepwise ==
  ASSUME NEW q, NEW n \in Nat, NEW f, Walks(f, q, n)
  PROVE  DOMAIN f = 0..n /\ f[0] = Begun(q) /\ \A k \in 1..n : f[k] = Hop(q.site, f[k - 1])
<1>1. DOMAIN f = 0..n /\ \A k \in 0..n : f[k] = IF k = 0 THEN Begun(q) ELSE Hop(q.site, f[k - 1])
  BY Zenon DEF Walks
<1>2. 0 \in 0..n /\ \A k \in 1..n : k \in 0..n /\ k # 0
  OBVIOUS
<1>3. QED
  BY <1>1, <1>2, Zenon

\* The URLs that a client comes to.
Orbits(f, q, n) == f = [k \in 0..n |-> IF k = 0 THEN q.url ELSE Led(q.site, f[k - 1])]

\* A client follows a redirect one more time.
LEMMA OrbitsNext ==
  ASSUME NEW q, NEW n \in Nat, NEW f, Orbits(f, q, n)
  PROVE  \E g : Orbits(g, q, n + 1)
<1>1. PICK g : g = [k \in 0..n + 1 |-> IF k = 0 THEN q.url ELSE Led(q.site, f[k - 1])]
  OBVIOUS
<1>2. \A k \in 0..n : f[k] = IF k = 0 THEN q.url ELSE Led(q.site, f[k - 1])
  BY Zenon DEF Orbits
<1>3. \A k \in 0..n : k \in 0..n + 1
  OBVIOUS
<1>4. \A k \in 0..n : g[k] = f[k]
  BY <1>1, <1>2, <1>3, Zenon
<1>5. \A k \in 0..n + 1 : k # 0 => k - 1 \in 0..n
  OBVIOUS
<1>6. g = [k \in 0..n + 1 |-> IF k = 0 THEN q.url ELSE Led(q.site, g[k - 1])]
  BY <1>1, <1>4, <1>5, Zenon
<1>7. QED
  BY <1>6, Zenon DEF Orbits

\* A client follows a redirect any number of times.
LEMMA OrbitsExists ==
  ASSUME NEW q
  PROVE  \A n \in Nat : \E f : Orbits(f, q, n)
<1> DEFINE S == {n \in Nat : \E f : Orbits(f, q, n)}
<1>1. 0 \in S
  <2>1. PICK f : f = [k \in 0..0 |-> q.url]
    OBVIOUS
  <2>2. f = [k \in 0..0 |-> IF k = 0 THEN q.url ELSE Led(q.site, f[k - 1])]
    <3>1. \A k \in 0..0 : k = 0
      OBVIOUS
    <3>2. QED
      BY <2>1, <3>1, Zenon
  <2>3. QED
    BY <2>2, Zenon DEF Orbits
<1>2. \A n \in S : n + 1 \in S
  BY OrbitsNext
<1>3. S = Nat
  <2> HIDE DEF S
  <2>1. S \in SUBSET Nat
    BY DEF S
  <2>2. QED
    BY <1>1, <1>2, <2>1, SetInduction
<1>4. QED
  BY <1>3

\* Step by step.
LEMMA OrbitsStepwise ==
  ASSUME NEW q, NEW n \in Nat, NEW f, Orbits(f, q, n)
  PROVE  DOMAIN f = 0..n /\ f[0] = q.url /\ \A k \in 1..n : f[k] = Led(q.site, f[k - 1])
<1>1. DOMAIN f = 0..n /\ \A k \in 0..n : f[k] = IF k = 0 THEN q.url ELSE Led(q.site, f[k - 1])
  BY Zenon DEF Orbits
<1>2. 0 \in 0..n /\ \A k \in 1..n : k \in 0..n /\ k # 0
  OBVIOUS
<1>3. QED
  BY <1>1, <1>2, Zenon

\* The loop, and what is made of its last state.
LEMMA WalkedStepwise ==
  ASSUME NEW q, NEW m \in Nat, m = q.max + 1
  PROVE  \E f : /\ f[0] = Begun(q) /\ \A k \in 1..m : f[k] = Hop(q.site, f[k - 1])
                /\ Walked(q) = Ended(f[m])
<1>1. PICK f : f = CHOOSE g : Walks(g, q, m)
  OBVIOUS
<1>2. f[0] = Begun(q) /\ \A k \in 1..m : f[k] = Hop(q.site, f[k - 1])
  <2>1. \E g : Walks(g, q, m)
    BY WalksExists
  <2>2. Walks(f, q, m)
    BY <1>1, <2>1, Zenon
  <2>3. QED
    BY <2>2, WalksStepwise
<1>3. f = CHOOSE g : Walks(g, q, q.max + 1)
  BY <1>1, Zenon
<1>4. Walked(q) = Ended(f[q.max + 1])
  BY <1>3, Zenon DEF Walked, Walks, Begun
<1>5. QED
  BY <1>2, <1>4, Zenon

\* Where a client comes to, step by step.
LEMMA OrbitStepwise ==
  ASSUME NEW q, NEW m \in Nat, m = q.max + 1
  PROVE  /\ DOMAIN Orbit(q) = 0..m /\ Orbit(q)[0] = q.url
         /\ \A k \in 1..m : Orbit(q)[k] = Led(q.site, Orbit(q)[k - 1])
<1>1. PICK f : f = CHOOSE g : Orbits(g, q, m)
  OBVIOUS
<1>2. DOMAIN f = 0..m /\ f[0] = q.url /\ \A k \in 1..m : f[k] = Led(q.site, f[k - 1])
  <2>1. \E g : Orbits(g, q, m)
    BY OrbitsExists
  <2>2. Orbits(f, q, m)
    BY <1>1, <2>1, Zenon
  <2>3. QED
    BY <2>2, OrbitsStepwise
<1>3. f = CHOOSE g : Orbits(g, q, q.max + 1)
  BY <1>1, Zenon
<1>4. Orbit(q) = f
  BY <1>3, Zenon DEF Orbit, Orbits, Led
<1>5. QED
  BY <1>2, <1>4, Zenon

\* Each of the URLs of an orbit leads to the next one.
Leads(site, orbit, m) == \A k \in 1..m : orbit[k] = Led(site, orbit[k - 1])

\* A client that has come to nowhere stays there.
LEMMA OrbitStays ==
  ASSUME NEW site, NEW m \in Nat, NEW orbit, Leads(site, orbit, m),
         NEW i \in 0..m, orbit[i] = None
  PROVE  \A j \in 0..m : i < j => orbit[j] = None
<1>1. Led(site, None) = None
  BY DEF Led
<1>2. PICK Z : Z = {d \in Nat : i + d <= m => orbit[i + d] = None}
  OBVIOUS
<1>3. Z \in SUBSET Nat /\ 0 \in Z
  BY <1>2
<1>4. ASSUME NEW d \in Z
      PROVE  d + 1 \in Z
  <2>1. SUFFICES ASSUME i + (d + 1) <= m PROVE orbit[i + (d + 1)] = None
    BY <1>2, <1>3
  <2>2. orbit[i + d] = None /\ i + (d + 1) \in 1..m /\ (i + (d + 1)) - 1 = i + d
    BY <1>2, <2>1
  <2>3. orbit[i + (d + 1)] = Led(site, orbit[i + d])
    BY <2>2 DEF Leads
  <2>4. QED
    BY <1>1, <2>2, <2>3
<1>5. Z = Nat
  BY <1>3, <1>4, SetInduction
<1>6. ASSUME NEW j \in 0..m, i < j
      PROVE  orbit[j] = None
  <2>1. j - i \in Z /\ i + (j - i) = j
    BY <1>5, <1>6
  <2>2. QED
    BY <1>2, <2>1
<1>7. QED
  BY <1>6

\* Each of the hops is a redirect, but for the last, and there once.
Shown(site, hops) ==
  /\ Len(hops) >= 1
  /\ \A i, j \in 1..Len(hops) - 1 : i < j => hops[i] # hops[j]
  /\ \A i \in 1..Len(hops) - 1 : site[hops[i]][1] = "redirect"

\* The last of the hops has been there before.
Looped(hops) == \E i \in 1..Len(hops) - 1 : hops[i] = hops[Len(hops)]

\* What the loop has done with a site after k rounds; o is where a client comes to.
Fit(site, o, s, k) ==
  /\ s = [hops |-> s.hops, current |-> s.current, status |-> s.status]
  /\ s.hops \in Seq(DOMAIN site) /\ s.current \in DOMAIN site /\ s.status \in {"going", "done", "failed"}
  /\ Len(s.hops) <= k
  /\ \A i \in 1..Len(s.hops) : s.hops[i] = o[i - 1]
  /\ s.status = "going" => /\ Len(s.hops) = k /\ s.current = o[k]
                           /\ \A i, j \in 1..k : i < j => s.hops[i] # s.hops[j]
                           /\ \A i \in 1..k : site[s.hops[i]][1] = "redirect"
  /\ s.status = "done" => Shown(site, s.hops) /\ (Looped(s.hops) \/ site[s.hops[Len(s.hops)]][1] = "page")

\* One round.
LEMMA HopFits ==
  ASSUME NEW site, NEW o, NEW s, NEW k \in Nat, Fit(site, o, s, k), o[k + 1] = Led(site, o[k]), None \notin DOMAIN site,
         \A u \in DOMAIN site : site[u][1] = "redirect" => site[u][2] \in DOMAIN site
  PROVE  Fit(site, o, Hop(site, s), k + 1)
<1>1. PICK h, c, t : h = s.hops /\ c = s.current /\ t = s.status
  OBVIOUS
<1>2. s = [hops |-> h, current |-> c, status |-> t]
  BY <1>1, Zenon DEF Fit
<1>3. h \in Seq(DOMAIN site) /\ c \in DOMAIN site /\ t \in {"going", "done", "failed"} /\ Len(h) <= k /\ Len(h) \in Nat
  BY <1>1 DEF Fit
<1>4. \A i \in 1..Len(h) : h[i] = o[i - 1]
  BY <1>1, Zenon DEF Fit
<1>5. t = "going" => /\ Len(h) = k /\ c = o[k]
                     /\ \A i, j \in 1..k : i < j => h[i] # h[j]
                     /\ \A i \in 1..k : site[h[i]][1] = "redirect"
  BY <1>1, Zenon DEF Fit
<1>6. t = "done" => Shown(site, h) /\ (Looped(h) \/ site[h[Len(h)]][1] = "page")
  BY <1>1, Zenon DEF Fit
<1>7. PICK g : g = Append(h, c)
  OBVIOUS
<1>8. g \in Seq(DOMAIN site) /\ Len(g) = Len(h) + 1 /\ g[Len(h) + 1] = c /\ \A i \in 1..Len(h) : g[i] = h[i]
  BY <1>3, <1>7
<1>9. ASSUME t = "going"
      PROVE  /\ \A i \in 1..Len(g) : g[i] = o[i - 1]
             /\ Len(g) = k + 1
  BY <1>3, <1>4, <1>5, <1>8, <1>9
<1>10. CASE t # "going"
  <2>1. Hop(site, s) = s
    BY <1>1, <1>10 DEF Hop
  <2>2. Len(s.hops) <= k + 1
    BY <1>1, <1>3
  <2>3. s.status # "going"
    BY <1>1, <1>10
  <2>4. Fit(site, o, s, k + 1)
    BY <2>2, <2>3, Zenon DEF Fit
  <2>5. QED
    BY <2>1, <2>4, Zenon
<1>11. CASE t = "going" /\ (Seen(c, h) \/ site[c][1] = "page")
  <2>1. Hop(site, s) = [hops |-> g, current |-> c, status |-> "done"]
    BY <1>2, <1>7, <1>11 DEF Hop
  <2>2. Shown(site, g)
    BY <1>3, <1>5, <1>8, <1>9, <1>11 DEF Shown
  <2>3. ASSUME Seen(c, h)
        PROVE  Looped(g)
    <3>1. PICK i \in DOMAIN h : c = h[i]
      BY <2>3 DEF Seen, ToSet
    <3>2. i \in 1..Len(g) - 1 /\ g[i] = g[Len(g)]
      BY <1>3, <1>8, <3>1
    <3>3. QED
      BY <3>2, Zenon DEF Looped
  <2>4. site[c][1] = "page" => site[g[Len(g)]][1] = "page"
    BY <1>3, <1>8
  <2>5. Looped(g) \/ site[g[Len(g)]][1] = "page"
    BY <1>11, <2>3, <2>4, Zenon
  <2>6. Len(g) <= k + 1
    BY <1>3, <1>5, <1>8, <1>11
  <2>7. PICK r : r = [hops |-> g, current |-> c, status |-> "done"]
    OBVIOUS
  <2>8. r = [hops |-> r.hops, current |-> r.current, status |-> r.status] /\ r.hops = g /\ r.current = c /\ r.status = "done"
    BY <2>7
  <2>9. Fit(site, o, r, k + 1)
    BY <1>3, <1>8, <1>9, <1>11, <2>2, <2>5, <2>6, <2>8, Zenon DEF Fit
  <2>10. QED
    BY <2>1, <2>7, <2>9, Zenon
<1>12. CASE t = "going" /\ ~(Seen(c, h) \/ site[c][1] = "page") /\ site[c][1] = "redirect"
  <2>1. Hop(site, s) = [hops |-> g, current |-> site[c][2], status |-> "going"]
    BY <1>2, <1>7, <1>12 DEF Hop
  <2>2. \A i \in 1..k : h[i] # c
    BY <1>3, <1>5, <1>12 DEF Seen, ToSet
  <2>3. \A i, j \in 1..k + 1 : i < j => g[i] # g[j]
    BY <1>3, <1>5, <1>8, <1>12, <2>2
  <2>4. \A i \in 1..k + 1 : site[g[i]][1] = "redirect"
    BY <1>3, <1>5, <1>8, <1>12
  <2>5. site[c][2] = o[k + 1]
    BY <1>3, <1>5, <1>12 DEF Led
  <2>6. PICK r : r = [hops |-> g, current |-> site[c][2], status |-> "going"]
    OBVIOUS
  <2>7. r = [hops |-> r.hops, current |-> r.current, status |-> r.status] /\ r.hops = g /\ r.current = site[c][2] /\ r.status = "going"
    BY <2>6
  <2>8. site[c][2] \in DOMAIN site
    BY <1>3, <1>12
  <2>9. Len(g) <= k + 1
    BY <1>3, <1>8
  <2>10. Fit(site, o, r, k + 1)
    BY <1>8, <1>9, <1>12, <2>3, <2>4, <2>5, <2>7, <2>8, <2>9, Zenon DEF Fit
  <2>11. QED
    BY <2>1, <2>6, <2>10, Zenon
<1>13. CASE t = "going" /\ ~(Seen(c, h) \/ site[c][1] = "page") /\ site[c][1] # "redirect"
  <2>1. Hop(site, s) = [hops |-> h, current |-> c, status |-> "failed"]
    BY <1>2, <1>13 DEF Hop
  <2>2. PICK r : r = [hops |-> h, current |-> c, status |-> "failed"]
    OBVIOUS
  <2>3. r = [hops |-> r.hops, current |-> r.current, status |-> r.status] /\ r.hops = h /\ r.current = c /\ r.status = "failed"
    BY <2>2
  <2>4. Len(h) <= k + 1
    BY <1>3
  <2>5. Fit(site, o, r, k + 1)
    BY <1>3, <1>4, <2>3, <2>4, Zenon DEF Fit
  <2>6. QED
    BY <2>1, <2>2, <2>5, Zenon
<1>14. QED
  BY <1>10, <1>11, <1>12, <1>13, Zenon

\* All rounds.
LEMMA WalkFits ==
  ASSUME NEW site, NEW o, NEW f, NEW q, NEW m \in Nat, q.site = site, q.url \in DOMAIN site, None \notin DOMAIN site,
         \A u \in DOMAIN site : site[u][1] = "redirect" => site[u][2] \in DOMAIN site,
         f[0] = Begun(q), \A k \in 1..m : f[k] = Hop(site, f[k - 1]),
         o[0] = q.url, \A k \in 1..m : o[k] = Led(site, o[k - 1])
  PROVE  Fit(site, o, f[m], m)
<1>1. PICK S : S = {k \in Nat : k <= m => Fit(site, o, f[k], k)}
  OBVIOUS
<1>2. Fit(site, o, f[0], 0)
  <2>1. PICK r : r = Begun(q)
    OBVIOUS
  <2>2. r = [hops |-> r.hops, current |-> r.current, status |-> r.status] /\ r.hops = << >> /\ r.current = q.url /\ r.status = "going"
    BY <2>1 DEF Begun
  <2>3. Fit(site, o, r, 0)
    BY <2>2 DEF Fit
  <2>4. QED
    BY <2>1, <2>3, Zenon
<1>3. \A n \in S : n + 1 \in S
  <2>1. SUFFICES ASSUME NEW n \in Nat, n + 1 <= m, Fit(site, o, f[n], n)
                 PROVE  Fit(site, o, f[n + 1], n + 1)
    BY <1>1
  <2>2. n + 1 \in 1..m /\ (n + 1) - 1 = n
    BY <2>1
  <2>3. f[n + 1] = Hop(site, f[n]) /\ o[n + 1] = Led(site, o[n])
    BY <2>2
  <2>4. Fit(site, o, Hop(site, f[n]), n + 1)
    BY <2>1, <2>3, HopFits
  <2>5. QED
    BY <2>3, <2>4, Zenon
<1>4. S = Nat
  <2>1. S \in SUBSET Nat /\ 0 \in S
    BY <1>1, <1>2
  <2>2. QED
    BY <1>3, <2>1, SetInduction
<1>5. QED
  BY <1>1, <1>4

\* The end of the loop.
LEMMA EndedFits ==
  ASSUME NEW site, NEW o, NEW s, NEW m \in Nat, Fit(site, o, s, m), NEW e, e = Ended(s)
  PROVE  /\ e.hops \in Seq(DOMAIN site) /\ Len(e.hops) <= m + 1
         /\ \A i \in 1..Len(e.hops) : e.hops[i] = o[i - 1]
         /\ e.status # "failed" => /\ Shown(site, e.hops)
                                   /\ \/ Len(e.hops) = m + 1 \/ Looped(e.hops)
                                      \/ site[e.hops[Len(e.hops)]][1] = "page"
<1>1. PICK h, c, t : h = s.hops /\ c = s.current /\ t = s.status
  OBVIOUS
<1>2. s = [hops |-> h, current |-> c, status |-> t]
  BY <1>1, Zenon DEF Fit
<1>3. h \in Seq(DOMAIN site) /\ c \in DOMAIN site /\ t \in {"going", "done", "failed"} /\ Len(h) <= m /\ Len(h) \in Nat
  BY <1>1 DEF Fit
<1>4. \A i \in 1..Len(h) : h[i] = o[i - 1]
  BY <1>1, Zenon DEF Fit
<1>5. CASE t = "going"
  <2>1. /\ Len(h) = m /\ c = o[m]
        /\ \A i, j \in 1..m : i < j => h[i] # h[j]
        /\ \A i \in 1..m : site[h[i]][1] = "redirect"
    BY <1>1, <1>5, Zenon DEF Fit
  <2>2. PICK g : g = Append(h, c)
    OBVIOUS
  <2>3. g \in Seq(DOMAIN site) /\ Len(g) = m + 1 /\ g[m + 1] = c /\ \A i \in 1..m : g[i] = h[i]
    BY <1>3, <2>1, <2>2
  <2>4. e = [hops |-> g, current |-> c, status |-> "done"]
    BY <1>2, <1>5, <2>2 DEF Ended
  <2>5. \A i \in 1..Len(g) : g[i] = o[i - 1]
    BY <1>3, <1>4, <2>1, <2>3
  <2>6. Shown(site, g)
    BY <2>1, <2>3 DEF Shown
  <2>7. e.hops = g
    BY <2>4
  <2>8. QED
    BY <2>3, <2>5, <2>6, <2>7
<1>6. CASE t # "going"
  <2>1. e = s
    BY <1>1, <1>6 DEF Ended
  <2>2. t = "done" => Shown(site, h) /\ (Looped(h) \/ site[h[Len(h)]][1] = "page")
    BY <1>1, Zenon DEF Fit
  <2>3. e.hops = h /\ e.status = t
    BY <1>1, <2>1
  <2>4. Len(h) <= m + 1
    BY <1>3
  <2>5. t # "failed" => t = "done"
    BY <1>3, <1>6
  <2>6. QED
    BY <1>3, <1>4, <2>2, <2>3, <2>4, <2>5, Zenon
<1>7. QED
  BY <1>5, <1>6

\* The fields of a reply that follows the redirects to their end.
LEMMA RepliedRedirects ==
  ASSUME NEW q, NEW w, w = Walked(q), NEW h, h = w.hops, NEW reply, reply = RedirectReply(q), reply.status = "done"
  PROVE  /\ w.status # "failed" /\ reply.hops = h /\ reply.total = Len(h) - 1
         /\ reply.is_loop <=> Len(h) > 1 /\ Last(h) \in ToSet(Front(h))
         /\ reply.www <=> q.url.name = Last(h).name /\ q.url.www # Last(h).www
<1>1. w.status # "failed"
  BY DEF RedirectReply
<1>2. PICK loop, https, www : /\ loop = (Len(h) > 1 /\ Last(h) \in ToSet(Front(h)))
                              /\ https = (q.url.scheme = "http" /\ Last(h).scheme = "https")
                              /\ www = (q.url.name = Last(h).name /\ q.url.www # Last(h).www)
  OBVIOUS
<1>3. reply = [status |-> "done", hops |-> h, total |-> Len(h) - 1, is_loop |-> loop, https |-> https, www |-> www]
  BY <1>1, <1>2, Zenon DEF RedirectReply
<1>4. reply.hops = h /\ reply.total = Len(h) - 1 /\ reply.is_loop = loop /\ reply.www = www
  BY <1>3
<1>5. QED
  BY <1>1, <1>2, <1>4, Zenon

\* What the redirects of a site come to.
RedirectsMeant(q, reply) ==
  LET orbit == Orbit(q)
  IN /\ \A i \in DOMAIN reply.hops : reply.hops[i] = orbit[i - 1]
     /\ IsInjective(Front(reply.hops))
     /\ reply.is_loop <=> \E i, j \in DOMAIN orbit : i < j /\ orbit[i] = orbit[j] /\ orbit[j] # None
     /\ reply.total < q.max + 1 => reply.is_loop \/ q.site[Last(reply.hops)][1] = "page"
     /\ reply.www /\ ~reply.https => Last(reply.hops) # q.url

\* A redirect of a site leads to a page of it.
Linked(q) ==
  /\ q.max \in Nat /\ q.url \in DOMAIN q.site /\ None \notin DOMAIN q.site
  /\ \A u \in DOMAIN q.site : q.site[u][1] = "redirect" => q.site[u][2] \in DOMAIN q.site

\* A chain that ends is as RedirectsExact says.
LEMMA RedirectsAreMeant ==
  ASSUME NEW q, Linked(q), NEW reply, reply = RedirectReply(q), reply.status = "done"
  PROVE  RedirectsMeant(q, reply)
<1>1. PICK orbit : orbit = Orbit(q)
  OBVIOUS
<1>2. /\ q.max \in Nat /\ q.url \in DOMAIN q.site /\ None \notin DOMAIN q.site
      /\ \A u \in DOMAIN q.site : q.site[u][1] = "redirect" => q.site[u][2] \in DOMAIN q.site
  BY Zenon DEF Linked
<1>3. PICK m \in Nat : m = q.max + 1
  BY <1>2
<1>4. PICK site : site = q.site
  OBVIOUS
<1>5. PICK f : /\ f[0] = Begun(q) /\ \A k \in 1..m : f[k] = Hop(q.site, f[k - 1])
               /\ Walked(q) = Ended(f[m])
  BY <1>3, WalkedStepwise
<1>6. DOMAIN orbit = 0..m /\ orbit[0] = q.url /\ \A k \in 1..m : orbit[k] = Led(site, orbit[k - 1])
  <2>1. PICK o : o = Orbit(q)
    OBVIOUS
  <2>2. DOMAIN o = 0..m /\ o[0] = q.url /\ \A k \in 1..m : o[k] = Led(q.site, o[k - 1])
    BY <1>3, <2>1, OrbitStepwise
  <2>3. QED
    BY <1>1, <1>4, <2>1, <2>2, Zenon
<1>7. Fit(site, orbit, f[m], m)
  BY <1>2, <1>4, <1>5, <1>6, WalkFits
<1>8. PICK w : w = Walked(q)
  OBVIOUS
<1>9. PICK h : h = w.hops
  OBVIOUS
<1>10. /\ w.status # "failed" /\ reply.hops = h /\ reply.total = Len(h) - 1
       /\ reply.is_loop <=> Len(h) > 1 /\ Last(h) \in ToSet(Front(h))
       /\ reply.www <=> q.url.name = Last(h).name /\ q.url.www # Last(h).www
  BY <1>8, <1>9, RepliedRedirects
<1>11. /\ h \in Seq(DOMAIN site) /\ Len(h) <= m + 1 /\ \A i \in 1..Len(h) : h[i] = orbit[i - 1]
       /\ Shown(site, h) /\ (Len(h) = m + 1 \/ Looped(h) \/ site[h[Len(h)]][1] = "page")
  BY <1>5, <1>7, <1>8, <1>9, <1>10, EndedFits
<1>12. PICK n \in Nat : n = Len(h) /\ n >= 1 /\ n <= m + 1
  BY <1>11 DEF Shown
<1>13. /\ \A i, j \in 1..n - 1 : i < j => h[i] # h[j]
       /\ \A i \in 1..n - 1 : site[h[i]][1] = "redirect"
  BY <1>11, <1>12, Zenon DEF Shown
<1>14. PICK front : front = Front(h)
  OBVIOUS
<1>15. DOMAIN front = 1..n - 1 /\ \A i \in 1..n - 1 : front[i] = h[i]
  BY <1>11, <1>12, <1>14 DEF Front
<1>16. Last(h) = h[n]
  BY <1>12 DEF Last
<1>17. reply.is_loop <=> Looped(h)
  <2>1. (n > 1 /\ h[n] \in ToSet(front)) <=> \E i \in 1..n - 1 : h[i] = h[n]
    BY <1>12, <1>15 DEF ToSet
  <2>2. QED
    BY <1>10, <1>12, <1>14, <1>16, <2>1, Zenon DEF Looped
<1>18. \A i \in 0..n - 1 : i \in 0..m /\ i + 1 \in 1..n /\ h[i + 1] = orbit[i] /\ orbit[i] \in DOMAIN site /\ orbit[i] # None
  <2>1. SUFFICES ASSUME NEW i \in 0..n - 1
                 PROVE  i \in 0..m /\ i + 1 \in 1..n /\ h[i + 1] = orbit[i] /\ orbit[i] \in DOMAIN site /\ orbit[i] # None
    OBVIOUS
  <2>2. i \in 0..m /\ i + 1 \in 1..n /\ (i + 1) - 1 = i
    BY <1>12
  <2>3. h[i + 1] = orbit[i] /\ h[i + 1] \in DOMAIN site
    BY <1>11, <1>12, <2>2
  <2>4. QED
    BY <1>2, <1>4, <2>2, <2>3
<1>19. Looped(h) <=> \E i, j \in DOMAIN orbit : i < j /\ orbit[i] = orbit[j] /\ orbit[j] # None
  <2>1. ASSUME NEW i \in 1..n - 1, h[i] = h[n]
        PROVE  \E k, j \in DOMAIN orbit : k < j /\ orbit[k] = orbit[j] /\ orbit[j] # None
    <3>1. i - 1 \in 0..n - 1 /\ n - 1 \in 0..n - 1 /\ i - 1 < n - 1 /\ (i - 1) + 1 = i /\ (n - 1) + 1 = n
      BY <1>12
    <3>2. orbit[i - 1] = orbit[n - 1] /\ orbit[n - 1] # None /\ i - 1 \in DOMAIN orbit /\ n - 1 \in DOMAIN orbit
      BY <1>6, <1>18, <2>1, <3>1
    <3>3. QED
      BY <3>1, <3>2, Zenon
  <2>2. ASSUME NEW i \in 0..m, NEW j \in 0..m, i < j, orbit[i] = orbit[j], orbit[j] # None, ~Looped(h)
        PROVE  FALSE
    <3>1. ~(j \in 0..n - 1)
      <4>1. SUFFICES ASSUME j \in 0..n - 1 PROVE FALSE
        OBVIOUS
      <4>2. i \in 0..n - 1
        BY <2>2, <4>1
      <4>3. h[i + 1] = h[j + 1] /\ i + 1 < j + 1 /\ i + 1 \in 1..n - 1 /\ j + 1 \in 1..n
        BY <1>12, <1>18, <2>2, <4>1, <4>2
      <4>4. CASE j + 1 = n
        BY <1>12, <2>2, <4>3, <4>4 DEF Looped
      <4>5. CASE j + 1 # n
        BY <1>12, <1>13, <4>3, <4>5
      <4>6. QED
        BY <4>4, <4>5
    <3>2. n # m + 1 /\ n \in 1..m /\ n <= j
      BY <1>12, <2>2, <3>1
    <3>3. site[h[n]][1] = "page"
      BY <1>11, <1>12, <2>2, <3>2
    <3>4. h[n] = orbit[n - 1]
      BY <1>11, <1>12
    <3>5. orbit[n] = None
      <4>1. Led(site, h[n]) = None
        BY <3>3 DEF Led
      <4>2. QED
        BY <1>6, <3>2, <3>4, <4>1
    <3>6. n \in 0..m
      BY <3>2
    <3>7. \A l \in 0..m : n < l => orbit[l] = None
      <4>1. Leads(site, orbit, m)
        BY <1>6, Zenon DEF Leads
      <4>2. QED
        BY <3>5, <3>6, <4>1, OrbitStays
    <3>8. CASE n = j
      BY <2>2, <3>5, <3>8
    <3>9. CASE n < j
      BY <2>2, <3>7, <3>9
    <3>10. QED
      BY <1>12, <2>2, <3>2, <3>8, <3>9
  <2>3. QED
    BY <1>6, <1>12, <2>1, <2>2, Zenon DEF Looped
<1>20. \A i \in DOMAIN reply.hops : reply.hops[i] = orbit[i - 1]
  BY <1>10, <1>11
<1>21. IsInjective(front)
  <2>1. ASSUME NEW i \in 1..n - 1, NEW j \in 1..n - 1, front[i] = front[j]
        PROVE  i = j
    BY <1>12, <1>13, <1>15, <2>1
  <2>2. QED
    BY <1>15, <2>1, Zenon DEF IsInjective
<1>22. reply.total < q.max + 1 => reply.is_loop \/ site[Last(h)][1] = "page"
  <2>1. SUFFICES ASSUME reply.total < q.max + 1, ~Looped(h) PROVE site[Last(h)][1] = "page"
    BY <1>17, Zenon
  <2>2. Len(h) # m + 1
    BY <1>3, <1>10, <1>12, <2>1
  <2>3. QED
    BY <1>11, <1>12, <1>16, <2>1, <2>2
<1>23. reply.www => Last(h) # q.url
  BY <1>10
<1>24. (reply.is_loop) <=> \E i, j \in DOMAIN orbit : i < j /\ orbit[i] = orbit[j] /\ orbit[j] # None
  BY <1>17, <1>19, Zenon
<1>25. QED
  BY <1>1, <1>4, <1>10, <1>14, <1>20, <1>21, <1>22, <1>23, <1>24, Zenon DEF RedirectsMeant

-----------------------------------------------------------------------------
\* A number above all others comes last.
LEMMA AscendingGrows ==
  ASSUME NEW S \in SUBSET Int, IsFiniteSet(S), NEW x \in Int, \A i \in S : i < x
  PROVE  Ascending(S \cup {x}) = Append(Ascending(S), x)
<1>1. PICK T : T = S \cup {x}
  OBVIOUS
<1>2. x \notin S /\ T \in SUBSET Int
  BY <1>1
<1>3. IsFiniteSet(T) /\ Cardinality(T) = Cardinality(S) + 1
  BY <1>1, <1>2, FS_AddElement
<1>4. PICK N \in Nat : N = Cardinality(S)
  BY FS_CardinalityType
<1>5. /\ UpTo(T, x) = T
      /\ \A i \in S : UpTo(T, i) = UpTo(S, i)
  <2>1. \A j \in T : j <= x
    BY <1>1
  <2>2. UpTo(T, x) = T
    BY <2>1, Zenon DEF UpTo
  <2>3. ASSUME NEW i \in S
        PROVE  UpTo(T, i) = UpTo(S, i)
    <3>1. ~(x <= i)
      OBVIOUS
    <3>2. \A j \in T : j <= i => j \in S
      BY <1>1, <3>1, Zenon
    <3>3. QED
      BY <1>1, <3>2, Zenon DEF UpTo
  <2>4. QED
    BY <2>2, <2>3
<1>6. PICK A, B : A = Ascending(S) /\ B = Ascending(T)
  OBVIOUS
<1>7. /\ A \in Seq(S) /\ DOMAIN A = 1..N /\ Len(A) = N
      /\ \A n \in 1..N : A[n] \in S /\ Cardinality(UpTo(S, A[n])) = n
  <2>1. \A n \in 1..N : A[n] = CHOOSE i \in S : Cardinality(UpTo(S, i)) = n
    BY <1>4, <1>6, Zenon DEF Ascending
  <2>2. \A n \in 1..N : \E i \in S : Cardinality(UpTo(S, i)) = n
    BY <1>4, Ranked
  <2>3. \A n \in 1..N : A[n] \in S /\ Cardinality(UpTo(S, A[n])) = n
    BY <2>1, <2>2, Zenon
  <2>4. A \in Seq(S) /\ DOMAIN A = 1..N /\ Len(A) = N
    BY <1>4, <1>6, AscendingSorts
  <2>5. QED
    BY <2>3, <2>4
<1>8. /\ B \in Seq(T) /\ DOMAIN B = 1..N + 1 /\ Len(B) = N + 1
      /\ \A n \in 1..N + 1 : B[n] \in T /\ Cardinality(UpTo(T, B[n])) = n
  <2>1. \A n \in 1..N + 1 : B[n] = CHOOSE i \in T : Cardinality(UpTo(T, i)) = n
    BY <1>3, <1>4, <1>6, Zenon DEF Ascending
  <2>2. \A n \in 1..N + 1 : \E i \in T : Cardinality(UpTo(T, i)) = n
    BY <1>2, <1>3, <1>4, Ranked
  <2>3. \A n \in 1..N + 1 : B[n] \in T /\ Cardinality(UpTo(T, B[n])) = n
    BY <2>1, <2>2, Zenon
  <2>4. B \in Seq(T) /\ DOMAIN B = 1..N + 1 /\ Len(B) = N + 1
    BY <1>2, <1>3, <1>4, <1>6, AscendingSorts
  <2>5. QED
    BY <2>3, <2>4
<1>9. \A i, j \in T : i < j => Cardinality(UpTo(T, i)) < Cardinality(UpTo(T, j))
  BY <1>2, <1>3, Ranked
<1>10. \A i \in T : Cardinality(UpTo(T, i)) \in Nat
  BY <1>2, <1>3, <1>4, Ranked
<1>11. \A n \in 1..N : B[n] = A[n]
  <2>1. SUFFICES ASSUME NEW n \in 1..N
                 PROVE  B[n] = A[n]
    OBVIOUS
  <2>2. PICK a, b : a = A[n] /\ b = B[n]
    OBVIOUS
  <2>3. a \in S /\ a \in T /\ Cardinality(UpTo(T, a)) = n
    BY <1>1, <1>5, <1>7, <2>2
  <2>4. b \in T /\ Cardinality(UpTo(T, b)) = n
    BY <1>8, <2>2
  <2>5. a \in Int /\ b \in Int /\ ~(a < b) /\ ~(b < a)
    BY <1>2, <1>9, <2>3, <2>4
  <2>6. QED
    BY <2>2, <2>5
<1>12. B[N + 1] = x
  <2>1. PICK b : b = B[N + 1]
    OBVIOUS
  <2>2. b \in T /\ Cardinality(UpTo(T, b)) = N + 1
    BY <1>8, <2>1
  <2>3. Cardinality(UpTo(T, x)) = N + 1 /\ x \in T
    BY <1>1, <1>3, <1>4, <1>5
  <2>4. b \in Int /\ ~(b < x) /\ ~(x < b)
    BY <1>2, <1>9, <2>2, <2>3
  <2>5. QED
    BY <2>1, <2>4
<1>13. B = Append(A, x)
  <2>1. A \in Seq(Int) /\ B \in Seq(Int) /\ Append(A, x) \in Seq(Int) /\ Len(Append(A, x)) = N + 1
    <3>1. A \in Seq(Int) /\ B \in Seq(Int)
      <4>1. \A n \in 1..N : A[n] \in Int
        BY <1>7
      <4>2. \A n \in 1..N + 1 : B[n] \in Int
        BY <1>2, <1>8
      <4>3. A = [n \in 1..N |-> A[n]] /\ B = [n \in 1..N + 1 |-> B[n]]
        BY <1>7, <1>8
      <4>4. QED
        BY <1>4, <4>1, <4>2, <1>7, <1>8
    <3>2. QED
      BY <1>7, <3>1
  <2>2. \A n \in 1..N + 1 : B[n] = Append(A, x)[n]
    BY <1>7, <1>11, <1>12, <2>1
  <2>3. QED
    BY <1>8, <2>1, <2>2, SeqEqual
<1>14. QED
  BY <1>1, <1>6, <1>13, Zenon

\* The agent that a line belongs to.
Owner(text, i) ==
  LET above == {j \in 1..i : text[j][1] = "user-agent"} IN IF above = {} THEN None ELSE text[Max(above)][2]

\* A line belongs to the agent of the line above it, or names another one.
LEMMA OwnerNext ==
  ASSUME NEW text, NEW n \in Nat
  PROVE  /\ Owner(text, 0) = None
         /\ Owner(text, n + 1) = IF text[n + 1][1] = "user-agent" THEN text[n + 1][2] ELSE Owner(text, n)
<1>1. PICK A, B : A = {j \in 1..n : text[j][1] = "user-agent"} /\ B = {j \in 1..n + 1 : text[j][1] = "user-agent"}
  OBVIOUS
<1>2. Owner(text, 0) = None
  <2>1. {j \in 1..0 : text[j][1] = "user-agent"} = {}
    OBVIOUS
  <2>2. QED
    BY <2>1, Zenon DEF Owner
<1>3. CASE text[n + 1][1] = "user-agent"
  <2>1. n + 1 \in B /\ \A j \in B : n + 1 >= j /\ j \in Int
    BY <1>1, <1>3
  <2>2. PICK m : m = Max(B)
    OBVIOUS
  <2>3. m \in B /\ m >= n + 1
    <3>1. m = CHOOSE y \in B : \A z \in B : y >= z
      BY <2>2, Zenon DEF Max
    <3>2. m \in B /\ \A z \in B : m >= z
      BY <2>1, <3>1, Zenon
    <3>3. QED
      BY <2>1, <3>2
  <2>4. m = n + 1
    BY <2>1, <2>3
  <2>5. Owner(text, n + 1) = text[Max(B)][2]
    <3>1. B # {}
      BY <2>1
    <3>2. QED
      BY <1>1, <3>1, Zenon DEF Owner
  <2>6. QED
    BY <1>2, <1>3, <2>2, <2>4, <2>5, Zenon
<1>4. CASE text[n + 1][1] # "user-agent"
  <2>1. \A j \in 1..n : j \in 1..n + 1
    OBVIOUS
  <2>2. \A j \in 1..n + 1 : j \in 1..n \/ j = n + 1
    OBVIOUS
  <2>3. A = B
    <3>1. \A j : j \in A => j \in B
      BY <1>1, <2>1, Zenon
    <3>2. \A j : j \in B => j \in A
      <4>1. SUFFICES ASSUME NEW j \in B PROVE j \in A
        OBVIOUS
      <4>2. j \in 1..n + 1 /\ text[j][1] = "user-agent"
        BY <1>1, Zenon
      <4>3. j \in 1..n
        BY <1>4, <2>2, <4>2, Zenon
      <4>4. QED
        BY <1>1, <4>2, <4>3, Zenon
    <3>3. QED
      BY <3>1, <3>2, Zenon
  <2>4. {j \in 1..n : text[j][1] = "user-agent"} = {j \in 1..n + 1 : text[j][1] = "user-agent"}
    BY <1>1, <2>3, Zenon
  <2>5. Owner(text, n + 1) = Owner(text, n)
    BY <2>4, Zenon DEF Owner
  <2>6. QED
    BY <1>2, <1>4, <2>5, Zenon
<1>5. QED
  BY <1>3, <1>4, Zenon

\* A line gives a key to an agent; those of the first n that do, and what they say.
Gives(text, i, key, a) == text[i][1] = key /\ Owner(text, i) = a
LinesFor(text, key, a, n) == {i \in 1..n : Gives(text, i, key, a)}
Saying(text, S) == [k \in DOMAIN Ascending(S) |-> text[Ascending(S)[k]][2]]

\* Another line says one thing more.
LEMMA SayingGrows ==
  ASSUME NEW text, NEW n \in Nat, NEW S \in SUBSET (1..n)
  PROVE  /\ Saying(text, S \cup {n + 1}) = Append(Saying(text, S), text[n + 1][2])
         /\ Saying(text, {}) = << >>
<1>1. S \in SUBSET Int /\ IsFiniteSet(S) /\ \A i \in S : i < n + 1
  <2>1. IsFiniteSet(1..n)
    BY FS_Interval
  <2>2. \A i \in S : i \in 1..n
    OBVIOUS
  <2>3. IsFiniteSet(S)
    BY <2>1, FS_Subset
  <2>4. QED
    BY <2>2, <2>3
<1>2. Ascending(S \cup {n + 1}) = Append(Ascending(S), n + 1)
  BY <1>1, AscendingGrows
<1>3. PICK A, B : A = Ascending(S) /\ B = Ascending(S \cup {n + 1})
  OBVIOUS
<1>4. A \in Seq(S) /\ B = Append(A, n + 1)
  BY <1>1, <1>2, <1>3, AscendingSorts
<1>5. PICK N \in Nat : N = Len(A)
  BY <1>4
<1>6. DOMAIN A = 1..N /\ DOMAIN B = 1..N + 1 /\ B[N + 1] = n + 1 /\ \A k \in 1..N : B[k] = A[k] /\ A[k] \in 1..n
  <2>1. DOMAIN A = 1..N /\ DOMAIN B = 1..N + 1 /\ B[N + 1] = n + 1 /\ \A k \in 1..N : B[k] = A[k]
    BY <1>4, <1>5
  <2>2. \A k \in 1..N : A[k] \in S
    BY <1>4, <1>5
  <2>3. \A i \in S : i \in 1..n
    OBVIOUS
  <2>4. QED
    BY <2>1, <2>2, <2>3, Zenon
<1>7. PICK V : V = [i \in 1..n + 1 |-> text[i][2]]
  OBVIOUS
<1>8. PICK T : T = {V[i] : i \in 1..n + 1}
  OBVIOUS
<1>9. PICK s, t : s = Saying(text, S) /\ t = Saying(text, S \cup {n + 1})
  OBVIOUS
<1>10. s = [k \in 1..N |-> V[A[k]]]
  <2>1. \A k \in 1..N : A[k] \in 1..n + 1
    BY <1>5, <1>6
  <2>2. \A k \in 1..N : V[A[k]] = text[A[k]][2]
    BY <1>7, <2>1
  <2>3. QED
    BY <1>3, <1>6, <1>9, <2>2, Zenon DEF Saying
<1>11. t = [k \in 1..N + 1 |-> V[B[k]]]
  <2>1. \A k \in 1..N + 1 : B[k] \in 1..n + 1
    BY <1>5, <1>6
  <2>2. \A k \in 1..N + 1 : V[B[k]] = text[B[k]][2]
    BY <1>7, <2>1
  <2>3. QED
    BY <1>3, <1>6, <1>9, <2>2, Zenon DEF Saying
<1>12. \A i \in 1..n + 1 : V[i] \in T
  BY <1>8, Zenon
<1>13. s \in Seq(T) /\ Len(s) = N
  <2>1. \A k \in 1..N : V[A[k]] \in T
    <3>1. \A k \in 1..N : A[k] \in 1..n + 1
      BY <1>6
    <3>2. QED
      BY <1>12, <3>1, Zenon
  <2>2. QED
    BY <1>5, <1>10, <2>1
<1>14. t \in Seq(T) /\ Len(t) = N + 1
  <2>1. \A k \in 1..N + 1 : V[B[k]] \in T
    <3>1. \A k \in 1..N + 1 : B[k] \in 1..n + 1
      BY <1>5, <1>6
    <3>2. QED
      BY <1>12, <3>1, Zenon
  <2>2. QED
    BY <1>5, <1>11, <2>1
<1>15. V[n + 1] = text[n + 1][2] /\ V[n + 1] \in T
  BY <1>7, <1>12
<1>16. PICK v \in T : v = V[n + 1]
  BY <1>15
<1>17. Append(s, v) \in Seq(T) /\ Len(Append(s, v)) = N + 1
  BY <1>13
<1>18. \A k \in 1..N + 1 : t[k] = Append(s, v)[k]
  BY <1>6, <1>10, <1>11, <1>13, <1>16
<1>19. t = Append(s, v)
  BY <1>14, <1>17, <1>18, SeqEqual
<1>20. Saying(text, {}) = << >>
  <2>1. DOMAIN Ascending({}) = 1..0
    BY FS_EmptySet, AscendingSorts
  <2>2. PICK e : e = Saying(text, {})
    OBVIOUS
  <2>3. e = [k \in 1..0 |-> text[Ascending({})[k]][2]]
    BY <2>1, <2>2, Zenon DEF Saying
  <2>4. e = << >>
    BY <2>3
  <2>5. QED
    BY <2>2, <2>4
<1>21. QED
  BY <1>9, <1>15, <1>16, <1>19, <1>20, Zenon

\* Nothing was read.
Unheard(agents) == [current |-> None, rules |-> [a \in agents |-> [allow |-> << >>, disallow |-> << >>]]]

\* The states of the reader of robots.txt.
Hears(f, text, agents, n) == f = [k \in 0..n |-> IF k = 0 THEN Unheard(agents) ELSE Heard(f[k - 1], text[k])]

\* A line is read one more time.
LEMMA HearsNext ==
  ASSUME NEW text, NEW agents, NEW n \in Nat, NEW f, Hears(f, text, agents, n)
  PROVE  \E g : Hears(g, text, agents, n + 1)
<1>1. PICK g : g = [k \in 0..n + 1 |-> IF k = 0 THEN Unheard(agents) ELSE Heard(f[k - 1], text[k])]
  OBVIOUS
<1>2. \A k \in 0..n : f[k] = IF k = 0 THEN Unheard(agents) ELSE Heard(f[k - 1], text[k])
  BY Zenon DEF Hears
<1>3. \A k \in 0..n : k \in 0..n + 1
  OBVIOUS
<1>4. \A k \in 0..n : g[k] = f[k]
  BY <1>1, <1>2, <1>3, Zenon
<1>5. \A k \in 0..n + 1 : k # 0 => k - 1 \in 0..n
  OBVIOUS
<1>6. g = [k \in 0..n + 1 |-> IF k = 0 THEN Unheard(agents) ELSE Heard(g[k - 1], text[k])]
  BY <1>1, <1>4, <1>5, Zenon
<1>7. QED
  BY <1>6, Zenon DEF Hears

\* A line is read any number of times.
LEMMA HearsExists ==
  ASSUME NEW text, NEW agents
  PROVE  \A n \in Nat : \E f : Hears(f, text, agents, n)
<1> DEFINE S == {n \in Nat : \E f : Hears(f, text, agents, n)}
<1>1. 0 \in S
  <2>1. PICK f : f = [k \in 0..0 |-> Unheard(agents)]
    OBVIOUS
  <2>2. f = [k \in 0..0 |-> IF k = 0 THEN Unheard(agents) ELSE Heard(f[k - 1], text[k])]
    <3>1. \A k \in 0..0 : k = 0
      OBVIOUS
    <3>2. QED
      BY <2>1, <3>1, Zenon
  <2>3. QED
    BY <2>2, Zenon DEF Hears
<1>2. \A n \in S : n + 1 \in S
  BY HearsNext
<1>3. S = Nat
  <2> HIDE DEF S
  <2>1. S \in SUBSET Nat
    BY DEF S
  <2>2. QED
    BY <1>1, <1>2, <2>1, SetInduction
<1>4. QED
  BY <1>3

\* Step by step.
LEMMA HearsStepwise ==
  ASSUME NEW text, NEW agents, NEW n \in Nat, NEW f, Hears(f, text, agents, n)
  PROVE  DOMAIN f = 0..n /\ f[0] = Unheard(agents) /\ \A k \in 1..n : f[k] = Heard(f[k - 1], text[k])
<1>1. DOMAIN f = 0..n /\ \A k \in 0..n : f[k] = IF k = 0 THEN Unheard(agents) ELSE Heard(f[k - 1], text[k])
  BY Zenon DEF Hears
<1>2. 0 \in 0..n /\ \A k \in 1..n : k \in 0..n /\ k # 0
  OBVIOUS
<1>3. QED
  BY <1>1, <1>2, Zenon

\* What the first n lines say, and to whom the next one belongs.
Told(text, agents, n) ==
  [current |-> Owner(text, n),
   rules |-> [a \in agents |-> [allow |-> Saying(text, LinesFor(text, "allow", a, n)),
                                disallow |-> Saying(text, LinesFor(text, "disallow", a, n))]]]

\* A line with a key that belongs to an agent is one more of its lines, and no line of others.
LEMMA LinesMore ==
  ASSUME NEW text, NEW n \in Nat, NEW key, NEW a, Gives(text, n + 1, key, a)
  PROVE  LinesFor(text, key, a, n + 1) = LinesFor(text, key, a, n) \cup {n + 1}
<1>1. \A i : i \in 1..n + 1 <=> i \in 1..n \/ i = n + 1
  OBVIOUS
<1>2. QED
  BY <1>1, Zenon DEF LinesFor

\* A line that gives the key to nobody, or to another agent, changes nothing.
LEMMA LinesSame ==
  ASSUME NEW text, NEW n \in Nat, NEW key, NEW a, ~Gives(text, n + 1, key, a)
  PROVE  LinesFor(text, key, a, n + 1) = LinesFor(text, key, a, n)
<1>1. \A i : i \in 1..n + 1 <=> i \in 1..n \/ i = n + 1
  OBVIOUS
<1>2. QED
  BY <1>1, Zenon DEF LinesFor

\* The lines are among those that were read.
LEMMA LinesFirst ==
  ASSUME NEW text, NEW n \in Nat, NEW key, NEW a
  PROVE  LinesFor(text, key, a, n) \in SUBSET (1..n) /\ LinesFor(text, key, a, 0) = {}
<1>1. \A i : i \notin 1..0
  OBVIOUS
<1>2. QED
  BY <1>1, Zenon DEF LinesFor

\* One line.
LEMMA HeardTells ==
  ASSUME NEW text, NEW agents, None \notin agents, NEW n \in Nat, NEW s, s = Told(text, agents, n)
  PROVE  Heard(s, text[n + 1]) = Told(text, agents, n + 1)
<1>1. PICK key, v : key = text[n + 1][1] /\ v = text[n + 1][2]
  OBVIOUS
<1>2. PICK c, d : c = Owner(text, n) /\ d = Owner(text, n + 1)
  OBVIOUS
<1>3. d = IF key = "user-agent" THEN v ELSE c
  BY <1>1, <1>2, OwnerNext, Zenon
<1>4. PICK A, B : A = [a \in agents |-> Saying(text, LinesFor(text, "allow", a, n))]
                  /\ B = [a \in agents |-> Saying(text, LinesFor(text, "disallow", a, n))]
  OBVIOUS
<1>5. PICK A1, B1 : A1 = [a \in agents |-> Saying(text, LinesFor(text, "allow", a, n + 1))]
                    /\ B1 = [a \in agents |-> Saying(text, LinesFor(text, "disallow", a, n + 1))]
  OBVIOUS
<1>6. PICK R : R = [a \in agents |-> [allow |-> A[a], disallow |-> B[a]]]
  OBVIOUS
<1>7. PICK R1 : R1 = [a \in agents |-> [allow |-> A1[a], disallow |-> B1[a]]]
  OBVIOUS
<1>8. s = [current |-> c, rules |-> R]
  BY <1>2, <1>4, <1>6, Zenon DEF Told
<1>9. Told(text, agents, n + 1) = [current |-> d, rules |-> R1]
  BY <1>2, <1>5, <1>7, Zenon DEF Told
<1>10. \A a \in agents : /\ A1[a] = IF key = "allow" /\ d = a THEN Append(A[a], v) ELSE A[a]
                         /\ B1[a] = IF key = "disallow" /\ d = a THEN Append(B[a], v) ELSE B[a]
  <2>1. SUFFICES ASSUME NEW a \in agents
                 PROVE  /\ A1[a] = IF key = "allow" /\ d = a THEN Append(A[a], v) ELSE A[a]
                        /\ B1[a] = IF key = "disallow" /\ d = a THEN Append(B[a], v) ELSE B[a]
    OBVIOUS
  <2>2. ASSUME NEW k
        PROVE  Saying(text, LinesFor(text, k, a, n + 1)) =
                 IF key = k /\ d = a THEN Append(Saying(text, LinesFor(text, k, a, n)), v) ELSE Saying(text, LinesFor(text, k, a, n))
    <3>1. LinesFor(text, k, a, n) \in SUBSET (1..n)
      BY LinesFirst, Zenon
    <3>2. Saying(text, LinesFor(text, k, a, n) \cup {n + 1}) = Append(Saying(text, LinesFor(text, k, a, n)), v)
      BY <1>1, <3>1, SayingGrows, Zenon
    <3>3. Gives(text, n + 1, k, a) <=> key = k /\ d = a
      BY <1>1, <1>2, Zenon DEF Gives
    <3>4. CASE Gives(text, n + 1, k, a)
      <4>1. LinesFor(text, k, a, n + 1) = LinesFor(text, k, a, n) \cup {n + 1}
        BY <3>4, LinesMore
      <4>2. QED
        BY <3>2, <3>3, <3>4, <4>1, Zenon
    <3>5. CASE ~Gives(text, n + 1, k, a)
      <4>1. LinesFor(text, k, a, n + 1) = LinesFor(text, k, a, n)
        BY <3>5, LinesSame
      <4>2. QED
        BY <3>3, <3>5, <4>1, Zenon
    <3>6. QED
      BY <3>4, <3>5
  <2>3. QED
    BY <1>4, <1>5, <2>2, Zenon
<1>11. CASE key = "user-agent"
  <2>1. Heard(s, text[n + 1]) = [current |-> v, rules |-> R]
    BY <1>1, <1>8, <1>11 DEF Heard, ForAgent
  <2>2. \A a \in agents : A1[a] = A[a] /\ B1[a] = B[a]
    BY <1>10, <1>11
  <2>3. R1 = R
    BY <1>6, <1>7, <2>2, Zenon
  <2>4. QED
    BY <1>3, <1>9, <1>11, <2>1, <2>3, Zenon
<1>12. CASE key \notin {"user-agent", "allow", "disallow"} \/ (key # "user-agent" /\ c = None)
  <2>1. Heard(s, text[n + 1]) = s
    BY <1>1, <1>8, <1>12 DEF Heard
  <2>2. d = c
    BY <1>3, <1>12
  <2>3. \A a \in agents : A1[a] = A[a] /\ B1[a] = B[a]
    BY <1>10, <1>12, <2>2
  <2>4. R1 = R
    BY <1>6, <1>7, <2>3, Zenon
  <2>5. QED
    BY <1>8, <1>9, <2>1, <2>2, <2>4, Zenon
<1>13. CASE key \in {"allow", "disallow"} /\ c # None
  <2>1. d = c
    BY <1>3, <1>13
  <2>2. Heard(s, text[n + 1]) = [current |-> c, rules |-> [R EXCEPT ![c][key] = Append(@, v)]]
    <3>1. s.current = c /\ s.rules = R
      BY <1>8
    <3>2. Heard(s, text[n + 1]) = [s EXCEPT !.rules[c][key] = Append(@, v)]
      BY <1>1, <1>13, <3>1, Zenon DEF Heard
    <3>3. [s EXCEPT !.rules[c][key] = Append(@, v)] = [s EXCEPT !.rules = [R EXCEPT ![c][key] = Append(@, v)]]
      BY <3>1, Zenon
    <3>4. PICK Q : Q = [R EXCEPT ![c][key] = Append(@, v)]
      OBVIOUS
    <3>5. [s EXCEPT !.rules = Q] = [current |-> c, rules |-> Q]
      BY <1>8
    <3>6. QED
      BY <3>2, <3>3, <3>4, <3>5, Zenon
  <2>3. CASE key = "allow"
    <3>1. [R EXCEPT ![c][key] = Append(@, v)] =
            [a \in agents |-> IF a = c THEN [allow |-> Append(A[a], v), disallow |-> B[a]] ELSE [allow |-> A[a], disallow |-> B[a]]]
      <4>1. PICK F : F = [R EXCEPT ![c][key] = Append(@, v)]
        OBVIOUS
      <4>2. DOMAIN F = agents /\ \A a \in agents : F[a] = IF a = c THEN [R[a] EXCEPT ![key] = Append(R[a][key], v)] ELSE R[a]
        BY <1>6, <4>1
      <4>3. \A a \in agents : R[a] = [allow |-> A[a], disallow |-> B[a]]
        BY <1>6
      <4>4. \A a \in agents : [R[a] EXCEPT ![key] = Append(R[a][key], v)] = [allow |-> Append(A[a], v), disallow |-> B[a]]
        <5>1. SUFFICES ASSUME NEW a \in agents
                       PROVE  [R[a] EXCEPT ![key] = Append(R[a][key], v)] = [allow |-> Append(A[a], v), disallow |-> B[a]]
          OBVIOUS
        <5>2. PICK r, x, y : r = R[a] /\ x = A[a] /\ y = B[a]
          OBVIOUS
        <5>3. r = [allow |-> x, disallow |-> y]
          BY <4>3, <5>2, Zenon
        <5>4. PICK z : z = Append(x, v)
          OBVIOUS
        <5>5. r["allow"] = x
          BY <5>3
        <5>6. [r EXCEPT !["allow"] = z] = [allow |-> z, disallow |-> y]
          BY <5>3
        <5>7. QED
          BY <2>3, <5>2, <5>4, <5>5, <5>6, Zenon
      <4>5. F = [a \in agents |-> F[a]]
        BY <4>1, <4>2, Zenon
      <4>6. QED
        BY <4>1, <4>2, <4>3, <4>4, <4>5, Zenon
    <3>2. \A a \in agents : A1[a] = (IF a = c THEN Append(A[a], v) ELSE A[a]) /\ B1[a] = B[a]
      BY <1>10, <2>1, <2>3
    <3>3. R1 = [R EXCEPT ![c][key] = Append(@, v)]
      BY <1>7, <3>1, <3>2
    <3>4. QED
      BY <1>9, <2>1, <2>2, <3>3, Zenon
  <2>4. CASE key = "disallow"
    <3>1. [R EXCEPT ![c][key] = Append(@, v)] =
            [a \in agents |-> IF a = c THEN [allow |-> A[a], disallow |-> Append(B[a], v)] ELSE [allow |-> A[a], disallow |-> B[a]]]
      <4>1. PICK F : F = [R EXCEPT ![c][key] = Append(@, v)]
        OBVIOUS
      <4>2. DOMAIN F = agents /\ \A a \in agents : F[a] = IF a = c THEN [R[a] EXCEPT ![key] = Append(R[a][key], v)] ELSE R[a]
        BY <1>6, <4>1
      <4>3. \A a \in agents : R[a] = [allow |-> A[a], disallow |-> B[a]]
        BY <1>6
      <4>4. \A a \in agents : [R[a] EXCEPT ![key] = Append(R[a][key], v)] = [allow |-> A[a], disallow |-> Append(B[a], v)]
        <5>1. SUFFICES ASSUME NEW a \in agents
                       PROVE  [R[a] EXCEPT ![key] = Append(R[a][key], v)] = [allow |-> A[a], disallow |-> Append(B[a], v)]
          OBVIOUS
        <5>2. PICK r, x, y : r = R[a] /\ x = A[a] /\ y = B[a]
          OBVIOUS
        <5>3. r = [allow |-> x, disallow |-> y]
          BY <4>3, <5>2, Zenon
        <5>4. PICK z : z = Append(y, v)
          OBVIOUS
        <5>5. r["disallow"] = y
          BY <5>3
        <5>6. [r EXCEPT !["disallow"] = z] = [allow |-> x, disallow |-> z]
          BY <5>3
        <5>7. QED
          BY <2>4, <5>2, <5>4, <5>5, <5>6, Zenon
      <4>5. F = [a \in agents |-> F[a]]
        BY <4>1, <4>2, Zenon
      <4>6. QED
        BY <4>1, <4>2, <4>3, <4>4, <4>5, Zenon
    <3>2. \A a \in agents : B1[a] = (IF a = c THEN Append(B[a], v) ELSE B[a]) /\ A1[a] = A[a]
      BY <1>10, <2>1, <2>4
    <3>3. R1 = [R EXCEPT ![c][key] = Append(@, v)]
      BY <1>7, <3>1, <3>2
    <3>4. QED
      BY <1>9, <2>1, <2>2, <3>3, Zenon
  <2>5. QED
    BY <1>13, <2>3, <2>4
<1>14. QED
  BY <1>11, <1>12, <1>13

\* All lines.
LEMMA RobotsTold ==
  ASSUME NEW text, NEW N \in Nat, N = Len(text), \A i \in 1..N : text[i][2] # None, DOMAIN text = 1..N
  PROVE  \E agents : RobotsReply(text) = Told(text, agents, N).rules
<1>1. PICK agents : agents = {line[2] : line \in {l \in ToSet(text) : l[1] = "user-agent"}}
  OBVIOUS
<1>2. None \notin agents
  <2>1. \A l \in ToSet(text) : l[2] # None
    BY DEF ToSet
  <2>2. QED
    BY <1>1, <2>1
<1>3. PICK f : f = CHOOSE g : Hears(g, text, agents, N)
  OBVIOUS
<1>4. DOMAIN f = 0..N /\ f[0] = Unheard(agents) /\ \A k \in 1..N : f[k] = Heard(f[k - 1], text[k])
  <2>1. \E g : Hears(g, text, agents, N)
    BY HearsExists
  <2>2. Hears(f, text, agents, N)
    BY <1>3, <2>1, Zenon
  <2>3. DOMAIN f = 0..N /\ \A k \in 0..N : f[k] = IF k = 0 THEN Unheard(agents) ELSE Heard(f[k - 1], text[k])
    BY <2>2, Zenon DEF Hears
  <2>4. 0 \in 0..N /\ \A k \in 1..N : k \in 0..N /\ k # 0
    OBVIOUS
  <2>5. QED
    BY <2>3, <2>4, Zenon
<1>5. RobotsReply(text) = f[N].rules
  <2>1. f = CHOOSE g : Hears(g, text, agents, Len(text))
    BY <1>3, Zenon
  <2>2. RobotsReply(text) = f[Len(text)].rules
    BY <1>1, <2>1, Zenon DEF RobotsReply, Hears, Unheard
  <2>3. QED
    BY <2>2, Zenon
<1>6. f[0] = Told(text, agents, 0)
  <2>1. Owner(text, 0) = None
    BY OwnerNext
  <2>2. \A a \in agents : Saying(text, LinesFor(text, "allow", a, 0)) = << >> /\ Saying(text, LinesFor(text, "disallow", a, 0)) = << >>
    <3>1. Saying(text, {}) = << >>
      <4>1. {} \in SUBSET (1..0)
        OBVIOUS
      <4>2. QED
        BY <4>1, SayingGrows
    <3>2. \A key, a : LinesFor(text, key, a, 0) = {}
      BY LinesFirst
    <3>3. QED
      BY <3>1, <3>2, Zenon
  <2>3. Told(text, agents, 0) = Unheard(agents)
    BY <2>1, <2>2, Zenon DEF Told, Unheard
  <2>4. QED
    BY <1>4, <2>3, Zenon
<1>7. PICK S : S = {k \in Nat : k <= N => f[k] = Told(text, agents, k)}
  OBVIOUS
<1>8. \A n \in S : n + 1 \in S
  <2>1. SUFFICES ASSUME NEW n \in Nat, n + 1 <= N, f[n] = Told(text, agents, n)
                 PROVE  f[n + 1] = Told(text, agents, n + 1)
    BY <1>7
  <2>2. n + 1 \in 1..N /\ (n + 1) - 1 = n
    BY <2>1
  <2>3. f[n + 1] = Heard(f[n], text[n + 1])
    BY <1>4, <2>2
  <2>4. QED
    BY <1>2, <2>1, <2>3, HeardTells, Zenon
<1>9. S = Nat
  <2>1. S \in SUBSET Nat /\ 0 \in S
    BY <1>6, <1>7
  <2>2. QED
    BY <1>8, <2>1, SetInduction
<1>10. f[N] = Told(text, agents, N)
  BY <1>7, <1>9
<1>11. QED
  BY <1>5, <1>10, Zenon

\* Every rule is listed for its agent, and for no other one.
RobotsMeant(text, reply) ==
  LET owner(i) == LET above == {j \in 1..i : text[j][1] = "user-agent"}
                  IN IF above = {} THEN None ELSE text[Max(above)][2]
      rules(a, key) == Ascending({i \in DOMAIN text : text[i][1] = key /\ owner(i) = a})
  IN \A a \in DOMAIN reply :
       /\ reply[a].allow = [k \in DOMAIN rules(a, "allow") |-> text[rules(a, "allow")[k]][2]]
       /\ reply[a].disallow = [k \in DOMAIN rules(a, "disallow") |-> text[rules(a, "disallow")[k]][2]]

\* A whole text is read as RobotsExact says.
LEMMA RobotsAreMeant ==
  ASSUME NEW text, NEW N \in Nat, N = Len(text), \A i \in 1..N : text[i][2] # None, DOMAIN text = 1..N
  PROVE  RobotsMeant(text, RobotsReply(text))
<1>1. PICK agents : RobotsReply(text) = Told(text, agents, N).rules
  BY RobotsTold, Zenon
<1>2. PICK reply : reply = RobotsReply(text)
  OBVIOUS
<1>3. PICK R : R = [a \in agents |-> [allow |-> Saying(text, LinesFor(text, "allow", a, N)),
                                      disallow |-> Saying(text, LinesFor(text, "disallow", a, N))]]
  OBVIOUS
<1>4. reply = R
  <2>1. PICK c : c = Owner(text, N)
    OBVIOUS
  <2>2. Told(text, agents, N) = [current |-> c, rules |-> R]
    BY <1>3, <2>1, Zenon DEF Told
  <2>3. [current |-> c, rules |-> R].rules = R
    OBVIOUS
  <2>4. QED
    BY <1>1, <1>2, <2>2, <2>3, Zenon
<1>5. ASSUME NEW a \in DOMAIN reply
      PROVE  /\ reply[a].allow = Saying(text, LinesFor(text, "allow", a, N))
             /\ reply[a].disallow = Saying(text, LinesFor(text, "disallow", a, N))
  <2>1. a \in agents
    BY <1>3, <1>4, Zenon
  <2>2. PICK x, y : x = Saying(text, LinesFor(text, "allow", a, N)) /\ y = Saying(text, LinesFor(text, "disallow", a, N))
    OBVIOUS
  <2>3. reply[a] = [allow |-> x, disallow |-> y]
    BY <1>3, <1>4, <2>1, <2>2, Zenon
  <2>4. reply[a].allow = x /\ reply[a].disallow = y
    BY <2>3
  <2>5. QED
    BY <2>2, <2>4, Zenon
<1>6. ASSUME NEW a, NEW key
      PROVE  LinesFor(text, key, a, N) = {i \in DOMAIN text : text[i][1] = key /\ Owner(text, i) = a}
  BY Zenon DEF LinesFor, Gives
<1>7. ASSUME NEW a \in DOMAIN reply
      PROVE  /\ reply[a].allow = Saying(text, {i \in DOMAIN text : text[i][1] = "allow" /\ Owner(text, i) = a})
             /\ reply[a].disallow = Saying(text, {i \in DOMAIN text : text[i][1] = "disallow" /\ Owner(text, i) = a})
  BY <1>5, <1>6, Zenon
<1>8. RobotsMeant(text, reply)
  BY <1>7, Zenon DEF RobotsMeant, Saying, Owner
<1>9. QED
  BY <1>2, <1>8, Zenon

-----------------------------------------------------------------------------
\* What is reported as soon as one source has answered; G, S and C are what the
\* sources and the provider of signals say.
Reported(r, security, rdap, G, S, C) ==
  /\ r["country"] = G["country"]
  /\ r["code"] = Or(G["code"], S["code"]) /\ r["asn"] = Or(G["asn"], S["asn"]) /\ r["org"] = Or(G["org"], S["org"])
  /\ r["lat"] = IF G["lat"] = "odd" THEN None ELSE G["lat"]
  /\ r["route"] = IF rdap = None THEN None ELSE Route(rdap)
  /\ r["hosting"] = Or(C["hosting"], Or(S["datacenter"], G["hosting"]))
  /\ r["datacenter"] = Or(C["datacenter"], Or(S["datacenter"], G["hosting"]))
  /\ r["tor"] = Or(C["tor"], IF security # Silent THEN S["tor"] ELSE G["tor"])
  /\ r["vpn"] = Or(C["vpn"], IF security # Silent THEN S["vpn"] ELSE G["vpn"])
  /\ r["relay"] = Or(C["relay"], G["relay"]) /\ r["abuser"] = Or(C["abuser"], S["abuser"])

\* The reply is made of what was said.
LEMMA ReplyFields ==
  ASSUME NEW q, ~Failed(q), NEW r, r = IpReply(q), NEW G, NEW S, NEW C, G = [f \in IpFields |-> Said(q.geo, f)],
         S = [f \in IpFields |-> Said(q.security, f)], C = [f \in IpFields |-> Said(q.signals, f)]
  PROVE  Reported(r, q.security, q.rdap, G, S, C)
<1>1. /\ \A f \in PlaceFields \cup {"route"} : f \in IpFields /\ f \notin SignalFields
      /\ \A f \in SignalFields : f \in IpFields
  BY DEF IpFields, PlaceFields, SignalFields
<1>2. PICK all : all = Gathered(q)
  OBVIOUS
<1>3. /\ \A f \in PlaceFields \cup {"route"} : r[f] = all[f]
      /\ \A f \in SignalFields : r[f] = Or(C[f], all[f])
  BY <1>1, <1>2, Zenon DEF IpReply
<1>4. /\ {"country", "code", "lat", "asn", "org"} = PlaceFields
      /\ {"hosting", "datacenter", "tor", "vpn", "relay", "abuser"} = SignalFields
  BY Zenon DEF PlaceFields, SignalFields
<1>5. PICK lat : lat = IF G["lat"] = "odd" THEN None ELSE G["lat"]
  OBVIOUS
<1>6. PICK route : route = IF q.rdap = None THEN None ELSE Route(q.rdap)
  OBVIOUS
<1>7. PICK tor : tor = IF q.security # Silent THEN S["tor"] ELSE G["tor"]
  OBVIOUS
<1>8. PICK vpn : vpn = IF q.security # Silent THEN S["vpn"] ELSE G["vpn"]
  OBVIOUS
<1>9. PICK hosting, code, asn, org : /\ hosting = Or(S["datacenter"], G["hosting"]) /\ code = Or(G["code"], S["code"])
                                      /\ asn = Or(G["asn"], S["asn"]) /\ org = Or(G["org"], S["org"])
  OBVIOUS
<1>10. PICK country, relay, abuser : country = G["country"] /\ relay = G["relay"] /\ abuser = S["abuser"]
  OBVIOUS
<1>11. \A f \in PlaceFields \cup SignalFields : G[f] = Said(q.geo, f) /\ S[f] = Said(q.security, f)
  BY <1>1, Zenon
<1>12. all = [country |-> country, code |-> code, lat |-> lat, asn |-> asn, org |-> org, route |-> route,
             hosting |-> hosting, datacenter |-> hosting, tor |-> tor, vpn |-> vpn, relay |-> relay, abuser |-> abuser]
  <2>1. /\ G["country"] = Said(q.geo, "country") /\ G["lat"] = Said(q.geo, "lat")
        /\ G["code"] = Said(q.geo, "code") /\ S["code"] = Said(q.security, "code")
        /\ G["asn"] = Said(q.geo, "asn") /\ S["asn"] = Said(q.security, "asn")
        /\ G["org"] = Said(q.geo, "org") /\ S["org"] = Said(q.security, "org")
    BY <1>4, <1>11
  <2>2. /\ S["datacenter"] = Said(q.security, "datacenter") /\ G["hosting"] = Said(q.geo, "hosting")
        /\ G["tor"] = Said(q.geo, "tor") /\ S["tor"] = Said(q.security, "tor")
        /\ G["vpn"] = Said(q.geo, "vpn") /\ S["vpn"] = Said(q.security, "vpn")
        /\ G["relay"] = Said(q.geo, "relay") /\ S["abuser"] = Said(q.security, "abuser")
    BY <1>4, <1>11
  <2>3. QED
    BY <1>2, <1>5, <1>6, <1>7, <1>8, <1>9, <1>10, <2>1, <2>2, Zenon DEF Gathered
<1>13. /\ all["country"] = country /\ all["code"] = code /\ all["asn"] = asn /\ all["org"] = org /\ all["lat"] = lat
      /\ all["route"] = route /\ all["hosting"] = hosting /\ all["datacenter"] = hosting
      /\ all["tor"] = tor /\ all["vpn"] = vpn /\ all["relay"] = relay /\ all["abuser"] = abuser
  BY <1>12
<1>14. /\ r["country"] = country /\ r["code"] = code /\ r["asn"] = asn /\ r["org"] = org /\ r["lat"] = lat /\ r["route"] = route
      /\ r["hosting"] = Or(C["hosting"], hosting) /\ r["datacenter"] = Or(C["datacenter"], hosting)
      /\ r["tor"] = Or(C["tor"], tor) /\ r["vpn"] = Or(C["vpn"], vpn)
      /\ r["relay"] = Or(C["relay"], relay) /\ r["abuser"] = Or(C["abuser"], abuser)
  BY <1>3, <1>4, <1>13
<1>15. QED
  BY <1>5, <1>6, <1>7, <1>8, <1>9, <1>10, <1>14, Zenon DEF Reported

\* The two names of a field and what is said under them.
LEMMA VoicesAre ==
  ASSUME NEW q, NEW field
  PROVE  /\ field \notin {"hosting", "datacenter"} =>
              Voices(q, field) = {Said(q.signals, field), Said(q.geo, field), Said(q.security, field)}
         /\ field \in {"hosting", "datacenter"} =>
              Voices(q, field) = {Said(q.signals, field), Said(q.geo, "hosting"), Said(q.geo, "datacenter"),
                                  Said(q.security, "hosting"), Said(q.security, "datacenter")}
<1>1. CASE field \notin {"hosting", "datacenter"}
  BY <1>1 DEF Voices
<1>2. CASE field \in {"hosting", "datacenter"}
  BY <1>2 DEF Voices
<1>3. QED
  BY <1>1, <1>2

\* Nothing is known of an address when the lookup raises an exception.
LEMMA FailedSaysNothing ==
  ASSUME NEW q, Failed(q)
  PROVE  \A f \in IpFields : IpReply(q)[f] = None
BY Zenon DEF IpReply

\* Nothing is made up.
LEMMA NothingMadeUp ==
  ASSUME NEW q, NEW r, r = IpReply(q), NEW field \in IpFields \ {"route"}
  PROVE  r[field] \in Voices(q, field) \cup {None}
<1>1. CASE Failed(q)
  BY <1>1, FailedSaysNothing
<1>2. CASE ~Failed(q)
  <2>1. PICK G, S, C : G = [f \in IpFields |-> Said(q.geo, f)] /\ S = [f \in IpFields |-> Said(q.security, f)]
                       /\ C = [f \in IpFields |-> Said(q.signals, f)]
    OBVIOUS
  <2>2. Reported(r, q.security, q.rdap, G, S, C)
    BY <1>2, <2>1, ReplyFields, Zenon
  <2>3. \A f \in IpFields : G[f] = Said(q.geo, f) /\ S[f] = Said(q.security, f) /\ C[f] = Said(q.signals, f)
    BY <2>1, Zenon
  <2>4. field \in IpFields /\ {"hosting", "datacenter"} \in SUBSET IpFields
    BY DEF IpFields, SignalFields
  <2>5. CASE field \in {"hosting", "datacenter"}
    <3>1. {C[field], G["hosting"], S["datacenter"]} \in SUBSET Voices(q, field)
      <4>1. Voices(q, field) = {Said(q.signals, field), Said(q.geo, "hosting"), Said(q.geo, "datacenter"),
                                Said(q.security, "hosting"), Said(q.security, "datacenter")}
        BY <2>5, VoicesAre, Zenon
      <4>2. C[field] = Said(q.signals, field) /\ G["hosting"] = Said(q.geo, "hosting") /\ S["datacenter"] = Said(q.security, "datacenter")
        BY <2>3, <2>4
      <4>3. QED
        BY <4>1, <4>2
    <3>2. r[field] = Or(C[field], Or(S["datacenter"], G["hosting"]))
      BY <2>2, <2>5 DEF Reported
    <3>3. r[field] \in {C[field], G["hosting"], S["datacenter"]}
      BY <3>2 DEF Or
    <3>4. QED
      BY <3>1, <3>3
  <2>6. CASE field \notin {"hosting", "datacenter"}
    <3>1. Voices(q, field) = {C[field], G[field], S[field]}
      <4>1. Voices(q, field) = {Said(q.signals, field), Said(q.geo, field), Said(q.security, field)}
        BY <2>6, VoicesAre, Zenon
      <4>2. C[field] = Said(q.signals, field) /\ G[field] = Said(q.geo, field) /\ S[field] = Said(q.security, field)
        BY <2>3, <2>4, Zenon
      <4>3. QED
        BY <4>1, <4>2
    <3>2. field \in {"country", "code", "lat", "asn", "org", "tor", "vpn", "relay", "abuser"}
      BY <2>6 DEF IpFields, PlaceFields, SignalFields
    <3>3. \/ r[field] = G[field] \/ r[field] = None \/ r[field] = Or(G[field], S[field])
          \/ r[field] = Or(C[field], S[field]) \/ r[field] = Or(C[field], G[field])
      BY <2>2, <3>2 DEF Reported
    <3>4. r[field] \in {C[field], G[field], S[field]} \cup {None}
      BY <3>3 DEF Or
    <3>5. QED
      BY <3>1, <3>4, Zenon
  <2>7. QED
    BY <2>5, <2>6
<1>3. QED
  BY <1>1, <1>2

\* What a request about an address is made of.
Asked(q) ==
  /\ q = [geo |-> q.geo, security |-> q.security, signals |-> q.signals, rdap |-> q.rdap]
  /\ DOMAIN q.geo \subseteq GeoFields /\ DOMAIN q.security \subseteq SecurityFields
  /\ DOMAIN q.signals \subseteq SignalFields

\* An answer takes nothing away, but for Tor and VPN.
LEMMA NothingTaken ==
  ASSUME NEW q, Asked(q), NEW less \in {[q EXCEPT !.geo = Silent], [q EXCEPT !.security = Silent], [q EXCEPT !.rdap = None]},
         NEW field \in IpFields, NEW r, r = IpReply(q), NEW s, s = IpReply(less), s[field] # None, r[field] = None
  PROVE  (field \in {"tor", "vpn"} /\ q.security # Silent) \/ Malformed(q)
<1> SUFFICES ASSUME ~Malformed(q)
             PROVE  field \in {"tor", "vpn"} /\ q.security # Silent
  OBVIOUS
<1>1. PICK a, b, c, d : a = q.geo /\ b = q.security /\ c = q.signals /\ d = q.rdap
  OBVIOUS
<1>2. q = [geo |-> a, security |-> b, signals |-> c, rdap |-> d]
  BY <1>1, Zenon DEF Asked
<1>3. PICK a1, b1, d1 : a1 = less.geo /\ b1 = less.security /\ d1 = less.rdap
  OBVIOUS
<1>4. /\ less.signals = c
      /\ (a1 = Silent /\ b1 = b /\ d1 = d) \/ (a1 = a /\ b1 = Silent /\ d1 = d) \/ (a1 = a /\ b1 = b /\ d1 = None)
  BY <1>2, <1>3
<1>5. ~Failed(less)
  BY FailedSaysNothing
<1>6. ~Failed(q)
  BY <1>1, <1>3, <1>4, <1>5 DEF Failed
<1>7. PICK G, S, C : G = [f \in IpFields |-> Said(a, f)] /\ S = [f \in IpFields |-> Said(b, f)] /\ C = [f \in IpFields |-> Said(c, f)]
  OBVIOUS
<1>8. Reported(r, b, d, G, S, C)
  BY <1>1, <1>6, <1>7, ReplyFields, Zenon
<1>9. PICK G1, S1 : G1 = [f \in IpFields |-> Said(a1, f)] /\ S1 = [f \in IpFields |-> Said(b1, f)]
  OBVIOUS
<1>10. Reported(s, b1, d1, G1, S1, C)
  <2>1. C = [f \in IpFields |-> Said(less.signals, f)]
    BY <1>4, <1>7, Zenon
  <2>2. QED
    BY <1>3, <1>5, <1>9, <2>1, ReplyFields, Zenon
<1>11. \A f \in IpFields : Said(Silent, f) = None
  BY DEF Said, Silent
<1>12. /\ \A f \in IpFields : G1[f] \in {G[f], None} /\ S1[f] \in {S[f], None}
       /\ (b1 # Silent => b1 = b)
       /\ b1 = b \/ (a1 = a /\ d1 = d /\ b1 = Silent)
       /\ (a1 = a => G1 = G)
       /\ (b1 = b => S1 = S)
       /\ d1 = d \/ d1 = None
  <2>1. \A f \in IpFields : /\ G[f] = Said(a, f) /\ S[f] = Said(b, f)
                            /\ G1[f] = Said(a1, f) /\ S1[f] = Said(b1, f)
    BY <1>7, <1>9, Zenon
  <2>2. (a1 = a \/ a1 = Silent) /\ (b1 = b \/ b1 = Silent) /\ (d1 = d \/ d1 = None)
    BY <1>4
  <2>3. \A f \in IpFields : G1[f] \in {G[f], None} /\ S1[f] \in {S[f], None}
    BY <1>11, <2>1, <2>2
  <2>4. (a1 = a => G1 = G) /\ (b1 = b => S1 = S)
    BY <1>7, <1>9, Zenon
  <2>5. QED
    BY <1>4, <2>2, <2>3, <2>4
<1>13. \A f \in IpFields : /\ f \in {"country", "code", "lat", "asn", "org", "route", "hosting", "datacenter", "tor", "vpn", "relay", "abuser"}
  BY DEF IpFields, PlaceFields, SignalFields
<1>14. {"country", "code", "lat", "asn", "org", "route", "hosting", "datacenter", "tor", "vpn", "relay", "abuser"} \subseteq IpFields
  BY DEF IpFields, PlaceFields, SignalFields
<1>15. CASE field \in {"country", "code", "lat", "asn", "org", "route"}
  BY <1>8, <1>10, <1>12, <1>14, <1>15 DEF Or, Reported
<1>16. CASE field \in {"hosting", "datacenter", "relay", "abuser"}
  BY <1>8, <1>10, <1>12, <1>14, <1>16 DEF Or, Reported
<1>17. CASE field \in {"tor", "vpn"}
  <2>1. SUFFICES ASSUME b = Silent PROVE FALSE
    BY <1>1, <1>17
  <2>2. b1 = Silent
    BY <1>4, <2>1
  <2>3. QED
    BY <1>8, <1>10, <1>12, <1>14, <1>17, <2>1, <2>2 DEF Or, Reported
<1>18. QED
  BY <1>13, <1>15, <1>16, <1>17

\* What is said is reported.
LEMMA NothingKeptBack ==
  ASSUME NEW q, Asked(q), ~Failed(q), NEW field \in IpFields \ {"route"}, NEW r, r = IpReply(q), r[field] = None
  PROVE  (field \in {"tor", "vpn"} /\ q.security # Silent) \/ Voices(q, field) \subseteq {None, "odd"}
<1>1. PICK G, S, C : G = [f \in IpFields |-> Said(q.geo, f)] /\ S = [f \in IpFields |-> Said(q.security, f)]
                     /\ C = [f \in IpFields |-> Said(q.signals, f)]
  OBVIOUS
<1>2. Reported(r, q.security, q.rdap, G, S, C)
  BY <1>1, ReplyFields, Zenon
<1>3. \A f \in IpFields : G[f] = Said(q.geo, f) /\ S[f] = Said(q.security, f) /\ C[f] = Said(q.signals, f)
  BY <1>1, Zenon
<1>4. /\ \A f \in {"datacenter", "abuser"} : f \in IpFields /\ f \notin GeoFields
      /\ \A f \in {"country", "lat", "hosting", "relay"} : f \in IpFields /\ f \notin SecurityFields
      /\ \A f \in {"country", "code", "lat", "asn", "org"} : f \in IpFields /\ f \notin SignalFields
      /\ \A f \in {"hosting", "datacenter", "tor", "vpn", "relay", "abuser"} : f \in IpFields
  BY DEF IpFields, PlaceFields, SignalFields, GeoFields, SecurityFields
<1>5. /\ G["datacenter"] = None /\ G["abuser"] = None
      /\ S["country"] = None /\ S["lat"] = None /\ S["hosting"] = None /\ S["relay"] = None
      /\ C["country"] = None /\ C["code"] = None /\ C["lat"] = None /\ C["asn"] = None /\ C["org"] = None
  <2>1. /\ \A f \in IpFields : f \notin GeoFields => Said(q.geo, f) = None
        /\ \A f \in IpFields : f \notin SecurityFields => Said(q.security, f) = None
        /\ \A f \in IpFields : f \notin SignalFields => Said(q.signals, f) = None
    <3>1. /\ \A f \in DOMAIN q.geo : f \in GeoFields
          /\ \A f \in DOMAIN q.security : f \in SecurityFields
          /\ \A f \in DOMAIN q.signals : f \in SignalFields
      BY Zenon DEF Asked
    <3>2. QED
      BY <3>1, Zenon DEF Said
  <2>2. QED
    BY <1>3, <1>4, <2>1
<1>6. field \in {"country", "code", "lat", "asn", "org", "hosting", "datacenter", "tor", "vpn", "relay", "abuser"}
  BY DEF IpFields, PlaceFields, SignalFields
<1>7. CASE field \in {"hosting", "datacenter"}
  <2>1. C[field] = None /\ G["hosting"] = None /\ S["datacenter"] = None
    BY <1>2, <1>7 DEF Or, Reported
  <2>2. Voices(q, field) = {Said(q.signals, field), Said(q.geo, "hosting"), Said(q.geo, "datacenter"),
                            Said(q.security, "hosting"), Said(q.security, "datacenter")}
    BY <1>7, VoicesAre, Zenon
  <2>3. /\ Said(q.signals, field) = None /\ Said(q.geo, "hosting") = None /\ Said(q.geo, "datacenter") = None
        /\ Said(q.security, "hosting") = None /\ Said(q.security, "datacenter") = None
    BY <1>3, <1>4, <1>5, <2>1
  <2>4. QED
    BY <2>2, <2>3
<1>8. CASE field \notin {"hosting", "datacenter"}
  <2>1. SUFFICES ASSUME field \in {"tor", "vpn"} => q.security = Silent
                 PROVE  Voices(q, field) \subseteq {None, "odd"}
    OBVIOUS
  <2>2. Voices(q, field) = {C[field], G[field], S[field]}
    <3>1. field \in IpFields
      OBVIOUS
    <3>2. Voices(q, field) = {Said(q.signals, field), Said(q.geo, field), Said(q.security, field)}
      BY <1>8, VoicesAre, Zenon
    <3>3. C[field] = Said(q.signals, field) /\ G[field] = Said(q.geo, field) /\ S[field] = Said(q.security, field)
      BY <1>3, <3>1, Zenon
    <3>4. QED
      BY <3>2, <3>3
  <2>3. field \in {"tor", "vpn"} => S[field] = None
    <3>1. field \in {"tor", "vpn"} => Said(q.security, field) = None
      BY <2>1 DEF Said, Silent
    <3>2. QED
      BY <1>3, <3>1
  <2>4. C[field] = None /\ G[field] \in {None, "odd"} /\ S[field] = None
    BY <1>2, <1>5, <1>6, <1>8, <2>1, <2>3 DEF Or, Reported
  <2>5. QED
    BY <2>2, <2>4
<1>9. QED
  BY <1>7, <1>8

\* The sizes of networks.
Sizes(f, n) == f = [k \in 0..n |-> IF k = 0 THEN 1 ELSE 2 * f[k - 1]]

\* A size is doubled one more time.
LEMMA SizesNext ==
  ASSUME NEW n \in Nat, NEW f, Sizes(f, n)
  PROVE  \E g : Sizes(g, n + 1)
<1>1. PICK g : g = [k \in 0..n + 1 |-> IF k = 0 THEN 1 ELSE 2 * f[k - 1]]
  OBVIOUS
<1>2. \A k \in 0..n : f[k] = IF k = 0 THEN 1 ELSE 2 * f[k - 1]
  BY Zenon DEF Sizes
<1>3. \A k \in 0..n : k \in 0..n + 1
  OBVIOUS
<1>4. \A k \in 0..n : g[k] = f[k]
  BY <1>1, <1>2, <1>3, Zenon
<1>5. \A k \in 0..n + 1 : k # 0 => k - 1 \in 0..n
  OBVIOUS
<1>6. g = [k \in 0..n + 1 |-> IF k = 0 THEN 1 ELSE 2 * g[k - 1]]
  BY <1>1, <1>4, <1>5, Zenon
<1>7. QED
  BY <1>6, Zenon DEF Sizes

\* A size is doubled any number of times.
LEMMA SizesExists ==
  \A n \in Nat : \E f : Sizes(f, n)
<1> DEFINE S == {n \in Nat : \E f : Sizes(f, n)}
<1>1. 0 \in S
  <2>1. PICK f : f = [k \in 0..0 |-> 1]
    OBVIOUS
  <2>2. f = [k \in 0..0 |-> IF k = 0 THEN 1 ELSE 2 * f[k - 1]]
    <3>1. \A k \in 0..0 : k = 0
      OBVIOUS
    <3>2. QED
      BY <2>1, <3>1, Zenon
  <2>3. QED
    BY <2>2, Zenon DEF Sizes
<1>2. \A n \in S : n + 1 \in S
  BY SizesNext
<1>3. S = Nat
  <2> HIDE DEF S
  <2>1. S \in SUBSET Nat
    BY DEF S
  <2>2. QED
    BY <1>1, <1>2, <2>1, SetInduction
<1>4. QED
  BY <1>3

\* Step by step.
LEMMA SizesStepwise ==
  ASSUME NEW n \in Nat, NEW f, Sizes(f, n)
  PROVE  DOMAIN f = 0..n /\ f[0] = 1 /\ \A k \in 1..n : f[k] = 2 * f[k - 1]
<1>1. DOMAIN f = 0..n /\ \A k \in 0..n : f[k] = IF k = 0 THEN 1 ELSE 2 * f[k - 1]
  BY Zenon DEF Sizes
<1>2. 0 \in 0..n /\ \A k \in 1..n : k \in 0..n /\ k # 0
  OBVIOUS
<1>3. QED
  BY <1>1, <1>2, Zenon

\* An address is a network of its own.
LEMMA OneAddress ==
  ASSUME Bits \in Nat, NEW x \in Nat
  PROVE  Network([first |-> x, last |-> x])
<1>1. PICK f : f = CHOOSE g : Sizes(g, Bits)
  OBVIOUS
<1>2. f[0] = 1
  <2>1. \E g : Sizes(g, Bits)
    BY SizesExists
  <2>2. Sizes(f, Bits)
    BY <1>1, <2>1, Zenon
  <2>3. QED
    BY <2>2, SizesStepwise
<1>3. Size = f
  BY <1>1, Zenon DEF Size, Sizes
<1>4. Size[0] = 1
  BY <1>2, <1>3, Zenon
<1>5. PICK net : net = [first |-> x, last |-> x]
  OBVIOUS
<1>6. net.first = x /\ net.last = x
  BY <1>5
<1>7. (net.last - net.first) = (Size[0] - 1) /\ (net.first % Size[0]) = 0
  BY <1>4, <1>6
<1>8. 0 \in 0..Bits
  OBVIOUS
<1>9. Network(net)
  BY <1>7, <1>8 DEF Network
<1>10. QED
  BY <1>5, <1>9, Zenon

\* The route of an address that no CIDR was said of.
RouteMeant(q, reply) ==
  reply.route # None /\ q.rdap.cidrs = << >> =>
    LET rdap == q.rdap
        route == reply.route
    IN /\ Network(route) /\ route.first = rdap.first /\ route.last <= rdap.last
       /\ Network([first |-> rdap.first, last |-> rdap.last]) => route.last = rdap.last

\* The route of a range is as RouteExact says.
LEMMA RouteIsMeant ==
  ASSUME Bits \in Nat, NEW q, q.rdap # None => q.rdap.first \in Nat \cup {None} /\ q.rdap.last \in Nat \cup {None}
  PROVE  RouteMeant(q, IpReply(q))
<1>1. PICK rdap, reply : rdap = q.rdap /\ reply = IpReply(q)
  OBVIOUS
<1>2. SUFFICES ASSUME reply.route # None, rdap.cidrs = << >>
               PROVE  /\ Network(reply.route) /\ reply.route.first = rdap.first /\ reply.route.last <= rdap.last
                      /\ Network([first |-> rdap.first, last |-> rdap.last]) => reply.route.last = rdap.last
  BY <1>1, Zenon DEF RouteMeant
<1>3. PICK route : route = reply["route"] /\ route = reply.route
  OBVIOUS
<1>4. "route" \in IpFields
  BY DEF IpFields
<1>5. ~Failed(q)
  BY <1>1, <1>2, <1>3, <1>4, FailedSaysNothing, Zenon
<1>6. rdap # None /\ route = Route(rdap)
  <2>1. PICK G, S, C : G = [f \in IpFields |-> Said(q.geo, f)] /\ S = [f \in IpFields |-> Said(q.security, f)]
                       /\ C = [f \in IpFields |-> Said(q.signals, f)]
    OBVIOUS
  <2>2. Reported(reply, q.security, q.rdap, G, S, C)
    BY <1>1, <1>5, <2>1, ReplyFields, Zenon
  <2>3. route = IF rdap = None THEN None ELSE Route(rdap)
    BY <1>1, <1>3, <2>2, Zenon DEF Reported
  <2>4. QED
    BY <1>2, <1>3, <2>3
<1>7. PICK from : from = {last \in rdap.first..rdap.last : Network([first |-> rdap.first, last |-> last])}
  OBVIOUS
<1>8. /\ rdap.first # None /\ rdap.last # None /\ ~(rdap.last < rdap.first)
      /\ route = [first |-> rdap.first, last |-> CHOOSE last \in from : \A other \in from : other <= last]
  <2>1. FullCidrs(rdap.cidrs) = {}
    BY <1>2 DEF FullCidrs
  <2>2. route = IF rdap.first = None \/ rdap.last = None \/ rdap.last < rdap.first THEN None
                ELSE [first |-> rdap.first, last |-> CHOOSE last \in from : \A other \in from : other <= last]
    BY <1>6, <1>7, <2>1, Zenon DEF Route
  <2>3. route # None
    BY <1>2, <1>3
  <2>4. QED
    BY <2>2, <2>3, Zenon
<1>9. PICK low \in Nat, high \in Nat : low = rdap.first /\ high = rdap.last /\ low <= high
  BY <1>1, <1>6, <1>8
<1>10. PICK end : end = CHOOSE last \in from : \A other \in from : other <= last
  OBVIOUS
<1>11. from = {last \in low..high : Network([first |-> low, last |-> last])}
  BY <1>7, <1>9, Zenon
<1>12. end \in from /\ \A other \in from : other <= end
  <2>1. low \in low..high
    BY <1>9
  <2>2. low \in from
    BY <1>11, <2>1, OneAddress, Zenon
  <2>3. from \in SUBSET (low..high) /\ from # {}
    BY <1>11, <2>2, Zenon
  <2>4. \E m \in from : \A n \in from : n <= m
    BY <1>9, <2>3, GreatestMember
  <2>5. QED
    BY <1>10, <2>4, Zenon
<1>13. end \in low..high /\ Network([first |-> low, last |-> end])
  BY <1>11, <1>12, Zenon
<1>14. route = [first |-> low, last |-> end]
  BY <1>8, <1>9, <1>10, Zenon
<1>15. Network(route) /\ route.first = low /\ route.last = end /\ end <= high
  <2>1. route.first = low /\ route.last = end
    BY <1>14
  <2>2. Network(route)
    BY <1>13, <1>14, Zenon
  <2>3. QED
    BY <1>13, <2>1, <2>2
<1>16. Network([first |-> low, last |-> high]) => end = high
  <2>1. SUFFICES ASSUME Network([first |-> low, last |-> high]) PROVE end = high
    OBVIOUS
  <2>2. high \in low..high
    BY <1>9
  <2>3. high \in from
    BY <1>11, <2>1, <2>2, Zenon
  <2>4. QED
    BY <1>12, <1>13, <2>3
<1>17. QED
  BY <1>3, <1>9, <1>15, <1>16

\* Nothing is made up, taken away or kept back.
SourcesMeant(q, reply) ==
  LET mute(field) == field \in {"tor", "vpn"} /\ q.security # Silent
      without == {[q EXCEPT !.geo = Silent], [q EXCEPT !.security = Silent], [q EXCEPT !.rdap = None]}
  IN /\ \A field \in IpFields \ {"route"} : reply[field] \in Voices(q, field) \cup {None}
     /\ \A less \in without, field \in IpFields :
          IpReply(less)[field] # None /\ reply[field] = None => mute(field) \/ Malformed(q)
     /\ \A field \in IpFields \ {"route"} :
          (\E less \in without : less # q) /\ reply[field] = None =>
            mute(field) \/ Malformed(q) \/ Voices(q, field) \subseteq {None, "odd"}

\* What the three sources say is put together as SourcesExact says.
LEMMA SourcesAreMeant ==
  ASSUME NEW q, Asked(q)
  PROVE  SourcesMeant(q, IpReply(q))
<1>1. PICK reply : reply = IpReply(q)
  OBVIOUS
<1>2. \A field \in IpFields \ {"route"} : reply[field] \in Voices(q, field) \cup {None}
  BY <1>1, NothingMadeUp, Zenon
<1>3. PICK without : without = {[q EXCEPT !.geo = Silent], [q EXCEPT !.security = Silent], [q EXCEPT !.rdap = None]}
  OBVIOUS
<1>4. ASSUME NEW less \in without, NEW field \in IpFields, IpReply(less)[field] # None, reply[field] = None
      PROVE  (field \in {"tor", "vpn"} /\ q.security # Silent) \/ Malformed(q)
  BY <1>1, <1>3, <1>4, NothingTaken, Zenon
<1>5. ASSUME NEW less \in without, less # q
      PROVE  ~Failed(q) \/ Malformed(q)
  <2>1. SUFFICES ASSUME Failed(q), ~Malformed(q) PROVE FALSE
    OBVIOUS
  <2>2. q = [geo |-> q.geo, security |-> q.security, signals |-> q.signals, rdap |-> q.rdap]
    BY Zenon DEF Asked
  <2>3. q.geo = Silent /\ q.security = Silent /\ q.rdap = None
    BY <2>1, Zenon DEF Failed
  <2>4. PICK e, c : e = Silent /\ c = q.signals
    OBVIOUS
  <2>5. q = [geo |-> e, security |-> e, signals |-> c, rdap |-> None]
    BY <2>2, <2>3, <2>4, Zenon
  <2>6. less = q
    BY <1>3, <1>5, <2>4, <2>5
  <2>7. QED
    BY <1>5, <2>6
<1>6. ASSUME NEW field \in IpFields \ {"route"}, NEW less \in without, less # q, reply[field] = None
      PROVE  (field \in {"tor", "vpn"} /\ q.security # Silent) \/ Malformed(q) \/ Voices(q, field) \subseteq {None, "odd"}
  BY <1>1, <1>5, <1>6, NothingKeptBack
<1>7. SourcesMeant(q, reply)
  BY <1>2, <1>3, <1>4, <1>6, Zenon DEF SourcesMeant
<1>8. QED
  BY <1>1, <1>7, Zenon

-----------------------------------------------------------------------------
\* The reply is that of the request, for the tools that are asked.
WebInv ==
  /\ call[1] = "redirects" => call[2] \in Chains /\ (result # << >> => result[1] = RedirectReply(call[2]))
  /\ call[1] = "robots" => call[2] \in RobotsTexts /\ (result # << >> => result[1] = RobotsReply(call[2]))
  /\ call[1] = "ip" => call[2] \in Inquiries /\ (result # << >> => result[1] = IpReply(call[2]))

\* Whatever has been asked, the reply is the one of its tool.
LEMMA WebInvariant == WebSpec => []WebInv
<1>1. WebCalled \/ IpCalled => WebInv
  BY DEF WebCalled, IpCalled, Called, WebInv
<1>2. WebInv /\ [WebAnswers \/ IpAnswers]_callVars => WebInv'
  <2>1. SUFFICES ASSUME WebInv, [WebAnswers \/ IpAnswers]_callVars PROVE WebInv'
    OBVIOUS
  <2>2. CASE UNCHANGED callVars
    BY <2>1, <2>2 DEF WebInv, callVars
  <2>3. CASE Answers("redirects", RedirectReply)
    BY <2>1, <2>3 DEF WebInv, Answers
  <2>4. CASE Answers("robots", RobotsReply)
    BY <2>1, <2>4 DEF WebInv, Answers
  <2>5. CASE Answers("ip", IpReply)
    BY <2>1, <2>5 DEF WebInv, Answers
  <2>6. CASE Answers("technologies", Detected)
    BY <2>1, <2>6 DEF WebInv, Answers
  <2>7. CASE Answers("type", TypingReply)
    BY <2>1, <2>7 DEF WebInv, Answers
  <2>8. CASE Answers("canonical", CanonicalReply)
    BY <2>1, <2>8 DEF WebInv, Answers
  <2>9. QED
    BY <2>1, <2>2, <2>3, <2>4, <2>5, <2>6, <2>7, <2>8 DEF WebAnswers, IpAnswers
<1>3. QED
  BY <1>1, <1>2, PTL DEF WebSpec

\* For any site, text and sources: chains of redirects, rules of robots.txt and
\* what is known of an address are as WebExact says (analyze_redirects, robots,
\* free.py, IPService.lookup).
THEOREM WebReadsExact ==
  ASSUME WebIsTyped, IpIsTyped
  PROVE  WebSpec => []WebExact
<1>1. ASSUME WebInv
      PROVE  RedirectsExact
  <2>1. SUFFICES ASSUME Answered("redirects"), result[1].status = "done" PROVE RedirectsMeant(call[2], result[1])
    BY Zenon DEF RedirectsExact, RedirectsMeant
  <2>2. PICK q \in Chains : q = call[2] /\ result[1] = RedirectReply(q)
    BY <1>1, <2>1 DEF WebInv, Answered
  <2>3. Linked(q)
    BY WebIsTyped, Zenon DEF WebIsTyped, Linked
  <2>4. RedirectsMeant(q, result[1])
    BY <2>1, <2>2, <2>3, RedirectsAreMeant
  <2>5. QED
    BY <2>2, <2>4, Zenon
<1>2. ASSUME WebInv
      PROVE  RobotsExact
  <2>1. SUFFICES ASSUME Answered("robots") PROVE RobotsMeant(call[2], result[1])
    BY Zenon DEF RobotsExact, RobotsMeant
  <2>2. PICK text \in RobotsTexts : text = call[2] /\ result[1] = RobotsReply(text)
    BY <1>2, <2>1 DEF WebInv, Answered
  <2>3. PICK N : N = Len(text)
    OBVIOUS
  <2>4. DOMAIN text = 1..N /\ N \in Nat /\ \A i \in DOMAIN text : text[i][2] # None
    BY <2>3, WebIsTyped, Zenon DEF WebIsTyped
  <2>5. RobotsMeant(text, RobotsReply(text))
    BY <2>3, <2>4, RobotsAreMeant
  <2>6. QED
    BY <2>2, <2>5, Zenon
<1>3. ASSUME WebInv
      PROVE  SourcesExact /\ RouteExact
  <2>1. SUFFICES ASSUME Answered("ip") PROVE SourcesMeant(call[2], result[1]) /\ RouteMeant(call[2], result[1])
    BY Zenon DEF SourcesExact, SourcesMeant, RouteExact, RouteMeant
  <2>2. PICK q \in Inquiries : q = call[2] /\ result[1] = IpReply(q)
    BY <1>3, <2>1 DEF WebInv, Answered
  <2>3. Asked(q) /\ Bits \in Nat /\ (q.rdap # None => q.rdap.first \in Nat \cup {None} /\ q.rdap.last \in Nat \cup {None})
    BY IpIsTyped, Zenon DEF IpIsTyped, Asked
  <2>4. SourcesMeant(q, IpReply(q)) /\ RouteMeant(q, IpReply(q))
    BY <2>3, SourcesAreMeant, RouteIsMeant
  <2>5. QED
    BY <2>2, <2>4, Zenon
<1>4. WebInv => WebExact
  BY <1>1, <1>2, <1>3 DEF WebExact
<1>5. QED
  BY <1>4, WebInvariant, PTL

-----------------------------------------------------------------------------
(***************************************************************************)
(* MemoryCache, where answers are kept.  For any number of requests, keys, *)
(* TTLs and any size of the store: the types, the bound on the store, that *)
(* one factory per key runs at a time, and that the cache implements the   *)
(* read-through cache of ReadThrough.                                      *)
(***************************************************************************)
\* A request that waits or fills does so for a coalesced key, and a filling
\* request holds the lock of its key: what makes SingleFlight inductive.
LockHeld ==
  \A c \in Callers :
    /\ pc[c] # "idle" => wants[c] \in FillKeys
    /\ pc[c] = "filling" => locks[wants[c]].held

FlightInv == LockHeld /\ SingleFlight

(***************************************************************************)
(* What the helpers do to the store.                                       *)
(***************************************************************************)
LEMMA ProbedEntries ==
  ASSUME TypeOK, NEW k
  PROVE  /\ DOMAIN Probed(k) \in SUBSET DOMAIN store
         /\ Probed(k) = Restrict(store, DOMAIN Probed(k))
         /\ Visible \in SUBSET DOMAIN Probed(k)
<1> USE DEF TypeOK, Probed, Restrict, Visible, Fresh
<1>1. CASE k \in DOMAIN store /\ ~Fresh(k)
  BY <1>1
<1>2. CASE ~(k \in DOMAIN store /\ ~Fresh(k))
  BY <1>2
<1>3. QED
  BY <1>1, <1>2

\* Making room for a key only takes entries away.
LEMMA RoomEntries ==
  ASSUME TypeOK, NEW k, NEW table \in RoomFor(k)
  PROVE  /\ DOMAIN table \in SUBSET DOMAIN store
         /\ table = Restrict(store, DOMAIN table)
<1>1. CASE MustEvict(k)
  <2>1. PICK v \in SoonestToExpire : table = Restrict(store, DOMAIN store \ {v})
    BY <1>1 DEF RoomFor
  <2>2. QED
    BY <2>1 DEF Restrict
<1>2. CASE ~MustEvict(k)
  BY <1>2 DEF RoomFor, Restrict, TypeOK
<1>3. QED
  BY <1>1, <1>2

\* A part of the store is a table of entries.
LEMMA SubtableType ==
  ASSUME TypeOK, NEW T, DOMAIN T \in SUBSET DOMAIN store, T = Restrict(store, DOMAIN T)
  PROVE  DOMAIN T \in SUBSET Keys /\ T \in [DOMAIN T -> Entry]
BY DEF TypeOK, Restrict

\* What is stored is an entry of one more key.
LEMMA SetType ==
  ASSUME TypeOK, NEW k \in Keys, Set(k)
  PROVE  DOMAIN store' \in SUBSET Keys /\ store' \in [DOMAIN store' -> Entry]
<1>1. PICK table \in RoomFor(k) : store' = WithEntry(table, k)
  BY DEF Set
<1>2. DOMAIN table \in SUBSET Keys /\ table \in [DOMAIN table -> Entry]
  BY RoomEntries, SubtableType
<1>3. [expires |-> now + Ttl[k], born |-> now] \in Entry
  <2>1. Ttl[k] \in Int /\ Ttl[k] > 0 /\ now \in Nat
    BY TtlAssumption, SizeAssumption DEF Set, TypeOK
  <2>2. QED
    BY <2>1 DEF Entry
<1>4. QED
  BY <1>1, <1>2, <1>3 DEF WithEntry

(***************************************************************************)
(* Type correctness.                                                       *)
(***************************************************************************)
LEMMA TypeInit == Init => TypeOK
BY SizeAssumption DEF Init, TypeOK, Entry

\* Every step keeps the types.
LEMMA TypeStep == TypeOK /\ FlightInv /\ [Next]_vars => TypeOK'
<1> SUFFICES ASSUME TypeOK, FlightInv, [Next]_vars
             PROVE  TypeOK'
  OBVIOUS
<1>a. ASSUME NEW k
      PROVE  DOMAIN Probed(k) \in SUBSET Keys /\ Probed(k) \in [DOMAIN Probed(k) -> Entry]
  BY ProbedEntries, SubtableType
<1>b. ASSUME NEW c \in Callers, pc[c] = "waiting", MyTurn(c)
      PROVE  wants[c] \in FillKeys /\ Tail(locks[wants[c]].waiters) \in Seq(Callers)
  <2>1. wants[c] \in FillKeys
    BY <1>b DEF FlightInv, LockHeld
  <2>2. locks[wants[c]].waiters \in Seq(Callers) /\ locks[wants[c]].waiters # << >>
    BY <1>b, <2>1 DEF TypeOK, MyTurn
  <2>3. QED
    BY <2>1, <2>2
<1>1. ASSUME NEW c \in Callers, NEW k \in FillKeys, Hit(c, k)
      PROVE  TypeOK'
  BY <1>1 DEF Hit, TypeOK, vars
<1>2. ASSUME NEW c \in Callers, NEW k \in FillKeys, StartFill(c, k)
      PROVE  TypeOK'
  BY <1>2, <1>a DEF StartFill, Continue, TypeOK
<1>3. ASSUME NEW c \in Callers, NEW k \in FillKeys, Queue(c, k)
      PROVE  TypeOK'
  <2>1. locks[k] \in [held : BOOLEAN, waiters : Seq(Callers)] /\ locks[k].waiters \in Seq(Callers)
    BY DEF TypeOK
  <2>2. Append(locks[k].waiters, c) \in Seq(Callers)
    BY <2>1
  <2>3. locks' \in [FillKeys -> [held : BOOLEAN, waiters : Seq(Callers)]]
    BY <1>3, <2>1, <2>2 DEF Queue, TypeOK
  <2>4. QED
    BY <1>3, <1>a, <2>3 DEF Queue, Continue, TypeOK
<1>4. ASSUME NEW c \in Callers, Share(c)
      PROVE  TypeOK'
  <2>1. wants[c] \in FillKeys /\ Tail(locks[wants[c]].waiters) \in Seq(Callers)
    BY <1>4, <1>b DEF Share
  <2>2. locks' \in [FillKeys -> [held : BOOLEAN, waiters : Seq(Callers)]]
    BY <1>4, <2>1 DEF Share, TypeOK
  <2>3. QED
    BY <1>4, <2>2 DEF Share, Return, Continue, TypeOK
<1>5. ASSUME NEW c \in Callers, Refill(c)
      PROVE  TypeOK'
  <2>1. wants[c] \in FillKeys /\ Tail(locks[wants[c]].waiters) \in Seq(Callers)
    BY <1>5, <1>b DEF Refill
  <2>2. locks' \in [FillKeys -> [held : BOOLEAN, waiters : Seq(Callers)]]
    BY <1>5, <2>1 DEF Refill, TypeOK
  <2>3. QED
    BY <1>5, <1>a, <2>1, <2>2 DEF Refill, Continue, TypeOK
<1>6. ASSUME NEW c \in Callers, Fill(c)
      PROVE  TypeOK'
  BY <1>6, SetType, ZenonT(40) DEF Fill, Release, Return, Continue, TypeOK, FlightInv, LockHeld, Keys
<1>7. ASSUME NEW c \in Callers, Fail(c)
      PROVE  TypeOK'
  BY <1>7 DEF Fail, Release, Return, Continue, TypeOK
<1>8. ASSUME NEW k \in PlainKeys, Get(k)
      PROVE  TypeOK'
  BY <1>8, <1>a DEF Get, TypeOK
<1>9. ASSUME NEW k \in PlainKeys, Put(k)
      PROVE  TypeOK'
  BY <1>9, SetType DEF Put, TypeOK, Keys
<1>10. ASSUME NEW k \in PlainKeys, Delete(k)
       PROVE  TypeOK'
  BY <1>10 DEF Delete, TypeOK, Restrict
<1>11. CASE Tick
  BY <1>11, SizeAssumption DEF Tick, TypeOK
<1>12. CASE UNCHANGED vars
  BY <1>12 DEF vars, TypeOK
<1>13. QED
  BY <1>1, <1>2, <1>3, <1>4, <1>5, <1>6, <1>7, <1>8, <1>9, <1>10, <1>11, <1>12 DEF Next

(***************************************************************************)
(* One factory per key at a time.                                          *)
(***************************************************************************)
LEMMA FlightInit == Init => FlightInv
BY DEF Init, FlightInv, LockHeld, SingleFlight, Filling

\* A request that starts to fill k found the lock of k free, so nobody fills k.
LEMMA TakeLock ==
  ASSUME TypeOK, FlightInv, NEW c \in Callers, NEW k \in FillKeys, ~locks[k].held,
         Continue(c, "filling", k), locks'[k].held,
         \A j \in FillKeys \ {k} : locks'[j].held = locks[j].held
  PROVE  FlightInv'
<1>1. \A d \in Callers : ~Filling(d, k)
  BY DEF FlightInv, LockHeld, Filling
<1>2. /\ pc' = [pc EXCEPT ![c] = "filling"] /\ wants' = [wants EXCEPT ![c] = k]
      /\ \A d \in Callers \ {c} : pc'[d] = pc[d] /\ wants'[d] = wants[d]
      /\ pc'[c] = "filling" /\ wants'[c] = k
  BY DEF Continue, TypeOK
<1>3. LockHeld'
  BY <1>1, <1>2 DEF FlightInv, LockHeld, Filling
<1>4. SingleFlight'
  BY <1>1, <1>2 DEF FlightInv, SingleFlight, Filling
<1>5. QED
  BY <1>3, <1>4 DEF FlightInv

\* A filling request that ends releases a lock nobody else fills under.
LEMMA DropLock ==
  ASSUME TypeOK, FlightInv, NEW c \in Callers, pc[c] = "filling", Release(wants[c]), Return(c)
  PROVE  FlightInv'
<1>1. wants[c] \in FillKeys
  BY DEF FlightInv, LockHeld
<1>2. \A d \in Callers \ {c} : pc'[d] = pc[d] /\ wants'[d] = wants[d]
  BY DEF Return, Continue, TypeOK
<1>3. pc'[c] = "idle"
  BY DEF Return, Continue, TypeOK
<1>4. \A d \in Callers \ {c} : pc[d] = "filling" => wants[d] # wants[c]
  BY <1>1 DEF FlightInv, SingleFlight, Filling
<1>5. \A j \in FillKeys \ {wants[c]} : locks'[j].held = locks[j].held
  BY <1>1 DEF Release, TypeOK
<1>6. LockHeld'
  BY <1>2, <1>3, <1>4, <1>5 DEF FlightInv, LockHeld
<1>7. SingleFlight'
  BY <1>2, <1>3 DEF FlightInv, SingleFlight, Filling
<1>8. QED
  BY <1>6, <1>7 DEF FlightInv

\* Queueing and being answered by another request's value leave the holders
\* alone.
LEMMA KeepLock ==
  ASSUME TypeOK, FlightInv, NEW c \in Callers, pc[c] # "filling", NEW k \in FillKeys, NEW s,
         \/ s = "waiting" /\ Continue(c, s, k)
         \/ Return(c),
         \A j \in FillKeys : locks'[j].held = locks[j].held
  PROVE  FlightInv'
<1>1. \A d \in Callers \ {c} : pc'[d] = pc[d] /\ wants'[d] = wants[d]
  BY DEF Return, Continue, TypeOK
<1>2. pc'[c] = "idle" \/ (pc'[c] = "waiting" /\ wants'[c] = k)
  BY DEF Return, Continue, TypeOK
<1>3. LockHeld'
  BY <1>1, <1>2 DEF FlightInv, LockHeld
<1>4. SingleFlight'
  BY <1>1, <1>2 DEF FlightInv, SingleFlight, Filling
<1>5. QED
  BY <1>3, <1>4 DEF FlightInv

\* Every step keeps each lock with the request that fills its key.
LEMMA FlightStep == TypeOK /\ FlightInv /\ [Next]_vars => FlightInv'
<1> SUFFICES ASSUME TypeOK, FlightInv, [Next]_vars
             PROVE  FlightInv'
  OBVIOUS
<1>1. ASSUME NEW c \in Callers, NEW k \in FillKeys, StartFill(c, k)
      PROVE  FlightInv'
  <2>1. ~locks[k].held /\ Continue(c, "filling", k)
    BY <1>1 DEF StartFill, FreeLock
  <2>2. locks'[k].held /\ \A j \in FillKeys \ {k} : locks'[j].held = locks[j].held
    BY <1>1 DEF StartFill, TypeOK
  <2>3. QED
    BY <2>1, <2>2, TakeLock
<1>2. ASSUME NEW c \in Callers, NEW k \in FillKeys, Queue(c, k)
      PROVE  FlightInv'
  <2>1. \A j \in FillKeys : locks'[j].held = locks[j].held
    BY <1>2 DEF Queue, TypeOK
  <2>2. QED
    BY <1>2, <2>1, KeepLock DEF Queue
<1>3. ASSUME NEW c \in Callers, Share(c)
      PROVE  FlightInv'
  <2>1. wants[c] \in FillKeys
    BY <1>3 DEF Share, FlightInv, LockHeld
  <2>2. \A j \in FillKeys : locks'[j].held = locks[j].held
    BY <1>3, <2>1 DEF Share, TypeOK
  <2>3. QED
    BY <1>3, <2>1, <2>2, KeepLock DEF Share
<1>4. ASSUME NEW c \in Callers, Refill(c)
      PROVE  FlightInv'
  <2>1. wants[c] \in FillKeys
    BY <1>4 DEF Refill, FlightInv, LockHeld
  <2>2. ~locks[wants[c]].held /\ Continue(c, "filling", wants[c])
    BY <1>4 DEF Refill, MyTurn
  <2>3. locks'[wants[c]].held /\ \A j \in FillKeys \ {wants[c]} : locks'[j].held = locks[j].held
    BY <1>4, <2>1 DEF Refill, TypeOK
  <2>4. QED
    BY <2>1, <2>2, <2>3, TakeLock
<1>5. ASSUME NEW c \in Callers, Fill(c) \/ Fail(c)
      PROVE  FlightInv'
  BY <1>5, DropLock DEF Fill, Fail
<1>6. ASSUME UNCHANGED <<locks, pc, wants>>
      PROVE  FlightInv'
  BY <1>6 DEF FlightInv, LockHeld, SingleFlight, Filling
<1>7. QED
  BY <1>1, <1>2, <1>3, <1>4, <1>5, <1>6 DEF Next, Hit, Get, Put, Delete, Tick, vars

\* The variables have the types the code gives them, for every instance.
THEOREM TypeCorrect == Spec => []TypeOK
<1>1. QED
  BY TypeInit, TypeStep, FlightInit, FlightStep, PTL DEF Spec

\* However many requests miss on one key, and however fills fail and waiters
\* are woken, one factory per key runs at a time.
THEOREM OneFlight == Spec => []SingleFlight
<1>1. FlightInv => SingleFlight
  BY DEF FlightInv
<1>2. QED
  BY <1>1, TypeInit, TypeStep, FlightInit, FlightStep, PTL DEF Spec

(***************************************************************************)
(* The bound on the store.                                                 *)
(***************************************************************************)
LEMMA RoomBounded ==
  ASSUME StoreBounded, NEW k, NEW table \in RoomFor(k)
  PROVE  /\ IsFiniteSet(DOMAIN table)
         /\ Cardinality(DOMAIN table) <= MaxEntries
         /\ k \notin DOMAIN table => Cardinality(DOMAIN table) < MaxEntries
<1>1. IsFiniteSet(DOMAIN store) /\ Cardinality(DOMAIN store) \in Nat /\ Cardinality(DOMAIN store) <= MaxEntries
  BY FS_CardinalityType DEF StoreBounded
<1>2. CASE MustEvict(k)
  <2>1. PICK v \in SoonestToExpire : table = Restrict(store, DOMAIN store \ {v})
    BY <1>2 DEF RoomFor
  <2>2. v \in DOMAIN store /\ DOMAIN table = DOMAIN store \ {v}
    BY <2>1 DEF SoonestToExpire, Restrict
  <2>3. IsFiniteSet(DOMAIN table) /\ Cardinality(DOMAIN table) = Cardinality(DOMAIN store) - 1
    BY <1>1, <2>2, FS_RemoveElement
  <2>4. QED
    BY <1>1, <2>3, SizeAssumption
<1>3. CASE ~MustEvict(k)
  BY <1>1, <1>3, SizeAssumption DEF RoomFor, MustEvict
<1>4. QED
  BY <1>2, <1>3

\* Every step keeps the store within its limit.
LEMMA BoundStep == TypeOK /\ StoreBounded /\ [Next]_vars => StoreBounded'
<1> SUFFICES ASSUME TypeOK, StoreBounded, [Next]_vars
             PROVE  StoreBounded'
  OBVIOUS
<1>1. ASSUME NEW k, Set(k)
      PROVE  StoreBounded'
  <2>1. PICK table \in RoomFor(k) : store' = WithEntry(table, k)
    BY <1>1 DEF Set
  <2>2. DOMAIN store' = DOMAIN table \cup {k}
    BY <2>1 DEF WithEntry
  <2>3. /\ IsFiniteSet(DOMAIN store')
        /\ Cardinality(DOMAIN store') =
             IF k \in DOMAIN table THEN Cardinality(DOMAIN table) ELSE Cardinality(DOMAIN table) + 1
    BY <2>2, RoomBounded, FS_AddElement
  <2>4. Cardinality(DOMAIN table) \in Nat
    BY RoomBounded, FS_CardinalityType
  <2>5. QED
    BY <2>3, <2>4, RoomBounded, SizeAssumption DEF StoreBounded
<1>2. ASSUME DOMAIN store' \in SUBSET DOMAIN store
      PROVE  StoreBounded'
  <2>1. IsFiniteSet(DOMAIN store') /\ Cardinality(DOMAIN store') <= Cardinality(DOMAIN store)
    BY <1>2, FS_Subset DEF StoreBounded
  <2>2. Cardinality(DOMAIN store') \in Nat /\ Cardinality(DOMAIN store) \in Nat
    BY <2>1, FS_CardinalityType DEF StoreBounded
  <2>3. QED
    BY <2>1, <2>2, SizeAssumption DEF StoreBounded
<1>3. ASSUME NEW c \in Callers, NEW k \in FillKeys, StartFill(c, k) \/ Queue(c, k)
      PROVE  StoreBounded'
  BY <1>2, <1>3, ProbedEntries DEF StartFill, Queue
<1>4. ASSUME NEW c \in Callers, Refill(c)
      PROVE  StoreBounded'
  BY <1>2, <1>4, ProbedEntries DEF Refill
<1>5. ASSUME NEW k \in PlainKeys, Get(k) \/ Delete(k)
      PROVE  StoreBounded'
  BY <1>2, <1>5, ProbedEntries DEF Get, Delete, Restrict
<1>6. ASSUME UNCHANGED store
      PROVE  StoreBounded'
  BY <1>6 DEF StoreBounded
<1>7. QED
  BY <1>1, <1>3, <1>4, <1>5, <1>6 DEF Next, Hit, Share, Fill, Fail, Put, Tick, vars

\* An empty store is within its limit.
LEMMA BoundInit == Init => StoreBounded
BY FS_EmptySet, SizeAssumption DEF Init, StoreBounded

\* The store never outgrows its bound, whichever services write to it.
THEOREM BoundedStore == Spec => []StoreBounded
<1>1. QED
  BY TypeInit, TypeStep, FlightInit, FlightStep, BoundInit, BoundStep, PTL DEF Spec

(***************************************************************************)
(* The refinement: the abstract slots are the fresh entries, and the keys  *)
(* being filled are those of the filling requests.                         *)
(***************************************************************************)
Held == Restrict(store, Visible)

BeingFilled == {wants[c] : c \in {d \in Callers : pc[d] = "filling"}}

\* The abstract slots are the entries that have not expired.
LEMMA SlotTable ==
  ASSUME TypeOK
  PROVE  /\ DOMAIN Held = Visible
         /\ Visible \in SUBSET DOMAIN store
         /\ \A j \in Visible : Held[j] = store[j]
         /\ \A j \in DOMAIN store : store[j] \in Entry /\ (j \in Visible <=> store[j].expires > now)
BY DEF Held, Restrict, Visible, Fresh, TypeOK

\* Dropping entries that are not fresh is invisible.
LEMMA SameSlots ==
  ASSUME TypeOK, NEW T, DOMAIN T \in SUBSET DOMAIN store, T = Restrict(store, DOMAIN T),
         Visible \in SUBSET DOMAIN T, store' = T, now' = now
  PROVE  Held' = Held
<1>1. \A j \in DOMAIN T : T[j] = store[j]
  BY DEF Restrict
<1>2. Visible' = Visible
  BY <1>1 DEF Visible, Fresh
<1>3. QED
  BY <1>1, <1>2 DEF Held, Restrict

\* What a lookup removes had expired: the slots do not show it.
LEMMA ProbedSlots ==
  ASSUME TypeOK, NEW k, store' = Probed(k), now' = now
  PROVE  Held' = Held
BY ProbedEntries, SameSlots

\* The abstract module counts as this one does.
LEMMA SameCardinality == \A S : Abstract!Cardinality(S) = Cardinality(S)
BY DEF Cardinality, Abstract!Cardinality, IsFiniteSet, Abstract!IsFiniteSet

\* What is left of the store without one entry leaves room for another.
LEMMA FewerVisible ==
  ASSUME StoreBounded, NEW x \in DOMAIN store, NEW S, S \in SUBSET (DOMAIN store \ {x})
  PROVE  Cardinality(S) < MaxEntries
<1>1. IsFiniteSet(DOMAIN store \ {x}) /\ Cardinality(DOMAIN store \ {x}) = Cardinality(DOMAIN store) - 1
  BY FS_RemoveElement DEF StoreBounded
<1>2. IsFiniteSet(S) /\ Cardinality(S) <= Cardinality(DOMAIN store \ {x})
  BY <1>1, FS_Subset
<1>3. Cardinality(S) \in Nat /\ Cardinality(DOMAIN store) \in Nat
  BY <1>2, FS_CardinalityType DEF StoreBounded
<1>4. QED
  BY <1>1, <1>2, <1>3, SizeAssumption DEF StoreBounded

\* What writing an entry does to the visible ones: those of the table it is
\* written to, and itself.
LEMMA WrittenSlots ==
  ASSUME TypeOK, NEW k \in Keys, Ttl[k] > 0, NEW table \in RoomFor(k),
         store' = WithEntry(table, k), now' = now
  PROVE  Held' = [j \in (Visible \cap DOMAIN table) \cup {k} |->
                     IF j = k THEN [expires |-> now + Ttl[k], born |-> now] ELSE store[j]]
<1>1. /\ DOMAIN store' = DOMAIN table \cup {k}
      /\ store'[k] = [expires |-> now + Ttl[k], born |-> now]
      /\ \A j \in DOMAIN table : j # k => store'[j] = store[j]
  BY RoomEntries DEF WithEntry, Restrict
<1>2. now + Ttl[k] > now
  BY TtlAssumption, SizeAssumption DEF TypeOK
<1>3. Visible' = (Visible \cap DOMAIN table) \cup {k}
  BY <1>1, <1>2, RoomEntries DEF Visible, Fresh
<1>4. QED
  BY <1>1, <1>3 DEF Held, Restrict

\* set is the abstract write of its key.
LEMMA AbstractWrite ==
  ASSUME TypeOK, StoreBounded, NEW k \in Keys, Set(k), now' = now
  PROVE  Abstract!Write(k)
<1> DEFINE e == [expires |-> now + Ttl[k], born |-> now]
<1>1. PICK table \in RoomFor(k) : store' = WithEntry(table, k)
  BY DEF Set
<1>2. Ttl[k] > 0
  BY DEF Set
<1>3. Held' = [j \in (Visible \cap DOMAIN table) \cup {k} |-> IF j = k THEN e ELSE store[j]]
  BY <1>1, <1>2, WrittenSlots
<1>4. CASE ~MustEvict(k)
  <2>1. table = store
    BY <1>4 DEF RoomFor
  <2>2. Held' = Abstract!With(Held, k, e)
    BY <1>3, <2>1, SlotTable DEF Abstract!With
  <2>3. k \in Visible \/ Cardinality(Visible) < MaxEntries
    <3>1. CASE k \in DOMAIN store
      <4>1. k \notin Visible => Visible \in SUBSET (DOMAIN store \ {k})
        BY SlotTable
      <4>2. QED
        BY <3>1, <4>1, FewerVisible
    <3>2. CASE k \notin DOMAIN store
      <4>1. IsFiniteSet(DOMAIN store) /\ IsFiniteSet(Visible) /\ Cardinality(Visible) <= Cardinality(DOMAIN store)
        BY SlotTable, FS_Subset DEF StoreBounded
      <4>2. Cardinality(Visible) \in Nat /\ Cardinality(DOMAIN store) \in Nat
        BY <4>1, FS_CardinalityType
      <4>3. QED
        BY <1>4, <3>2, <4>1, <4>2, SizeAssumption DEF MustEvict
    <3>3. QED
      BY <3>1, <3>2
  <2>4. QED
    BY <1>2, <2>2, <2>3, SlotTable, SameCardinality DEF Abstract!Write, Held
<1>5. CASE MustEvict(k)
  <2>1. PICK v \in SoonestToExpire : table = Restrict(store, DOMAIN store \ {v})
    BY <1>5 DEF RoomFor
  <2>2. /\ v \in DOMAIN store /\ DOMAIN table = DOMAIN store \ {v} /\ k \notin DOMAIN store
        /\ \A j \in DOMAIN store : store[v].expires <= store[j].expires
    BY <1>5, <2>1 DEF SoonestToExpire, Restrict, MustEvict
  <2>3. CASE v \notin Visible
    <3>1. Visible \in SUBSET (DOMAIN store \ {v})
      BY <2>3, SlotTable
    <3>2. Cardinality(Visible) < MaxEntries
      BY <2>2, <3>1, FewerVisible
    <3>3. Held' = Abstract!With(Held, k, e)
      BY <1>3, <2>2, <3>1, SlotTable DEF Abstract!With
    <3>4. QED
      BY <1>2, <3>2, <3>3, SlotTable, SameCardinality DEF Abstract!Write, Held
  <2>4. CASE v \in Visible
    <3>1. store[v].expires > now
      BY <2>4, SlotTable
    <3>2. \A j \in DOMAIN store : store[j].expires > now
      <4>1. SUFFICES ASSUME NEW j \in DOMAIN store PROVE store[j].expires > now
        OBVIOUS
      <4>2. store[v].expires \in Int /\ store[j].expires \in Int /\ now \in Int
        BY <2>2, SlotTable DEF Entry, TypeOK
      <4>3. QED
        BY <2>2, <3>1, <4>2
    <3>3. Visible = DOMAIN store
      BY <3>2, SlotTable
    <3>4. ~(k \in Visible \/ Cardinality(Visible) < MaxEntries)
      <4>1. Cardinality(Visible) \in Nat
        BY <3>3, FS_CardinalityType DEF StoreBounded
      <4>2. QED
        BY <1>5, <2>2, <3>3, <4>1, SizeAssumption DEF MustEvict
    <3>5. Abstract!EarliestToGo(v)
      BY <2>2, <2>4, <3>3, SlotTable DEF Abstract!EarliestToGo, Held
    <3>6. Held' = Abstract!With(Abstract!Without(Held, v), k, e)
      BY <1>3, <2>2, <3>3, SlotTable DEF Abstract!With, Abstract!Without
    <3>7. v \in DOMAIN Held
      BY <2>4, SlotTable
    <3>8. QED
      BY <1>2, <3>4, <3>5, <3>6, <3>7, SlotTable, SameCardinality DEF Abstract!Write, Held
  <2>5. QED
    BY <2>3, <2>4
<1>6. QED
  BY <1>4, <1>5

\* A request that finds the lock free and no fresh value begins a fill.
LEMMA AbstractBegin ==
  ASSUME TypeOK, FlightInv, NEW c \in Callers, NEW k \in FillKeys, ~locks[k].held, ~Fresh(k),
         Continue(c, "filling", k), pc[c] # "filling", store' = Probed(k), now' = now
  PROVE  Abstract!BeginFill(k)
<1>1. Held' = Held
  BY ProbedSlots
<1>2. \A d \in Callers : pc[d] = "filling" => wants[d] # k
  BY DEF FlightInv, LockHeld
<1>3. BeingFilled' = BeingFilled \cup {k}
  <2>1. /\ \A d \in Callers \ {c} : pc'[d] = pc[d] /\ wants'[d] = wants[d]
        /\ pc'[c] = "filling" /\ wants'[c] = k
    BY DEF Continue, TypeOK
  <2>2. QED
    BY <2>1 DEF BeingFilled
<1>4. k \notin DOMAIN Held \cup BeingFilled
  BY <1>2, SlotTable DEF Visible, BeingFilled
<1>5. QED
  BY <1>1, <1>3, <1>4 DEF Abstract!BeginFill, Held, BeingFilled

\* A fill that ends, with or without a value, is the abstract end of it.
LEMMA AbstractEnd ==
  ASSUME TypeOK, StoreBounded, FlightInv, NEW c \in Callers, NEW k \in FillKeys,
         k = wants[c], Fill(c) \/ Fail(c)
  PROVE  Abstract!EndFill(k)
<1>1. pc[c] = "filling" /\ Return(c) /\ now' = now
  BY DEF Fill, Fail
<1>2. BeingFilled' = BeingFilled \ {k}
  <2>1. /\ \A d \in Callers \ {c} : pc'[d] = pc[d] /\ wants'[d] = wants[d]
        /\ pc'[c] = "idle"
    BY <1>1 DEF Return, Continue, TypeOK
  <2>2. \A d \in Callers \ {c} : pc[d] = "filling" => wants[d] # k
    BY <1>1 DEF FlightInv, SingleFlight, Filling
  <2>3. QED
    BY <1>1, <2>1, <2>2 DEF BeingFilled
<1>3. k \in BeingFilled
  BY <1>1 DEF BeingFilled
<1>4. Abstract!Write(k) \/ Held' = Held
  <2>1. CASE Fill(c)
    BY <1>1, <2>1, AbstractWrite DEF Fill, Keys
  <2>2. CASE Fail(c)
    BY <2>2 DEF Fail, Held, Visible, Fresh
  <2>3. QED
    BY <2>1, <2>2
<1>5. QED
  BY <1>1, <1>2, <1>3, <1>4 DEF Abstract!EndFill, Held, BeingFilled

\* The clock of the cache is that of the abstract cache.
LEMMA AbstractTick ==
  ASSUME TypeOK, Tick
  PROVE  Abstract!Tick
<1>1. now' = now + 1 /\ store' = store /\ BeingFilled' = BeingFilled
  BY DEF Tick, BeingFilled
<1>2. Visible' = {j \in Visible : store[j].expires > now'}
  <2>1. \A j \in DOMAIN store : store[j].expires \in Int
    BY DEF TypeOK, Entry
  <2>2. now \in Int
    BY DEF TypeOK
  <2>3. QED
    BY <1>1, <2>1, <2>2 DEF Visible, Fresh
<1>3. Held' = [j \in {i \in DOMAIN Held : Held[i].expires > now'} |-> Held[j]]
  <2>1. Held' = [j \in Visible' |-> store[j]]
    BY <1>1 DEF Held, Restrict
  <2>2. QED
    BY <1>2, <2>1, SlotTable
<1>4. QED
  BY <1>1, <1>3 DEF Abstract!Tick, Held, BeingFilled

\* delete is the abstract removal.
LEMMA AbstractDrop ==
  ASSUME TypeOK, NEW k, Delete(k)
  PROVE  Abstract!Drop(k)
<1>1. /\ DOMAIN store' = DOMAIN store \ {k} /\ now' = now
      /\ \A j \in DOMAIN store' : store'[j] = store[j]
  BY DEF Delete, Restrict
<1>2. Visible' = Visible \ {k}
  BY <1>1 DEF Visible, Fresh
<1>3. Held' = [j \in DOMAIN Held \ {k} |-> Held[j]]
  <2>1. Held' = [j \in Visible' |-> store'[j]]
    BY DEF Held, Restrict
  <2>2. \A j \in Visible' : store'[j] = Held[j]
    BY <1>1, <1>2, SlotTable
  <2>3. QED
    BY <1>2, <2>1, <2>2, SlotTable
<1>4. QED
  BY <1>1, <1>3 DEF Abstract!Drop, Abstract!Without, Delete, Held

\* Every step of the cache is an abstract step or none.
LEMMA AbstractStep == TypeOK /\ StoreBounded /\ FlightInv /\ [Next]_vars => [Abstract!Next]_(Abstract!vars)
<1> SUFFICES ASSUME TypeOK, StoreBounded, FlightInv, [Next]_vars
             PROVE  [Abstract!Next]_(Abstract!vars)
  OBVIOUS
<1>1. ASSUME Held' = Held, BeingFilled' = BeingFilled, now' = now
      PROVE  [Abstract!Next]_(Abstract!vars)
  BY <1>1 DEF Abstract!vars, Held, BeingFilled
<1>2. ASSUME NEW c \in Callers, NEW k \in FillKeys, StartFill(c, k)
      PROVE  Abstract!Next
  BY <1>2, AbstractBegin DEF StartFill, FreeLock, Abstract!Next
<1>3. ASSUME NEW c \in Callers, NEW k \in FillKeys, Queue(c, k)
      PROVE  [Abstract!Next]_(Abstract!vars)
  <2>1. Held' = Held /\ now' = now
    BY <1>3, ProbedSlots DEF Queue
  <2>2. BeingFilled' = BeingFilled
    BY <1>3 DEF Queue, Continue, BeingFilled, TypeOK
  <2>3. QED
    BY <1>1, <2>1, <2>2
<1>4. ASSUME NEW c \in Callers, Share(c)
      PROVE  [Abstract!Next]_(Abstract!vars)
  <2>1. Held' = Held /\ now' = now
    BY <1>4 DEF Share, Held, Visible, Fresh
  <2>2. BeingFilled' = BeingFilled
    BY <1>4 DEF Share, Return, Continue, BeingFilled, TypeOK
  <2>3. QED
    BY <1>1, <2>1, <2>2
<1>5. ASSUME NEW c \in Callers, Refill(c)
      PROVE  Abstract!Next
  <2>1. PICK k \in FillKeys : k = wants[c]
    BY <1>5 DEF Refill, FlightInv, LockHeld
  <2>2. Abstract!BeginFill(k)
    BY <1>5, <2>1, AbstractBegin DEF Refill, MyTurn
  <2>3. QED
    BY <2>1, <2>2 DEF Abstract!Next
<1>6. ASSUME NEW c \in Callers, Fill(c) \/ Fail(c)
      PROVE  Abstract!Next
  <2>1. PICK k \in FillKeys : k = wants[c]
    BY <1>6 DEF Fill, Fail, FlightInv, LockHeld
  <2>2. QED
    BY <1>6, <2>1, AbstractEnd DEF Abstract!Next
<1>7. ASSUME NEW k \in PlainKeys, Get(k)
      PROVE  [Abstract!Next]_(Abstract!vars)
  <2>1. Held' = Held /\ now' = now /\ BeingFilled' = BeingFilled
    BY <1>7, ProbedSlots DEF Get, BeingFilled
  <2>2. QED
    BY <1>1, <2>1
<1>8. ASSUME NEW k \in PlainKeys, Put(k)
      PROVE  Abstract!Next
  <2>1. Abstract!Write(k)
    BY <1>8, AbstractWrite DEF Put, Keys
  <2>2. Abstract!Put(k)
    BY <1>8, <2>1 DEF Put, Abstract!Put
  <2>3. QED
    BY <2>2 DEF Abstract!Next
<1>9. ASSUME NEW k \in PlainKeys, Delete(k)
      PROVE  Abstract!Next
  BY <1>9, AbstractDrop DEF Abstract!Next
<1>10. CASE Tick
  BY <1>10, AbstractTick DEF Abstract!Next
<1>11. ASSUME UNCHANGED vars
       PROVE  [Abstract!Next]_(Abstract!vars)
  BY <1>1, <1>11 DEF vars, Held, Visible, Fresh, BeingFilled
<1>12. QED
  BY <1>2, <1>3, <1>4, <1>5, <1>6, <1>7, <1>8, <1>9, <1>10, <1>11 DEF Next, Hit

\* The cache starts as the abstract one.
LEMMA AbstractInit == Init => Abstract!Init
BY DEF Init, Abstract!Init, Visible, Restrict

\* The cache implements the read-through cache: no computation starts while a
\* value is visible or being computed, and nothing but its expiry, a delete or
\* an eviction among fresh entries takes a value away.
THEOREM Refinement == Spec => ImplementsReadThrough
<1>1. QED
  BY AbstractInit, AbstractStep, TypeInit, TypeStep, FlightInit, FlightStep, BoundInit, BoundStep, PTL
     DEF Spec, ImplementsReadThrough, Abstract!Spec
=============================================================================
