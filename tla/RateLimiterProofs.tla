------------------------- MODULE RateLimiterProofs -------------------------
(***************************************************************************)
(* For every set of policies and clients, every limit, window and table    *)
(* bound: the types, the bound on the table, and that the limiter with     *)
(* lazy cleanup and eviction implements the ideal limiter of WindowQuota.  *)
(***************************************************************************)
EXTENDS RateLimiterClients, FiniteSetTheorems, WellFoundedInduction, TLAPS

(***************************************************************************)
(* What the steps have in common: the table a call works on is the current *)
(* one less some entries, and none of the running windows is among those   *)
(* the cleanup removes.                                                    *)
(***************************************************************************)
LEMMA CleanedEntries ==
  ASSUME TypeOK
  PROVE  /\ DOMAIN Cleaned \in SUBSET DOMAIN counts
         /\ Cleaned = Restrict(counts, DOMAIN Cleaned)
         /\ Cleaned \in [DOMAIN Cleaned -> Entry]
         /\ LiveKeys \in SUBSET DOMAIN Cleaned
<1> USE LimitAssumption, ClockAssumption, TableAssumption
<1> USE DEF TypeOK, Restrict, Entry, Span, Expired, LiveKeys
<1>1. CASE CleanupDue
  BY <1>1 DEF Cleaned
<1>2. CASE ~CleanupDue
  BY <1>2 DEF Cleaned
<1>3. QED
  BY <1>1, <1>2

\* Making room for a key only takes windows away.
LEMMA BoundedEntries ==
  ASSUME TypeOK, NEW k \in Keys, NEW table \in Bounded(Cleaned, k)
  PROVE  /\ DOMAIN table \in SUBSET DOMAIN counts
         /\ table = Restrict(counts, DOMAIN table)
         /\ table \in [DOMAIN table -> Entry]
<1>1. CASE MustEvict(Cleaned, k)
  <2>1. PICK v \in OldestIn(Cleaned) : table = Restrict(Cleaned, DOMAIN Cleaned \ {v})
    BY <1>1 DEF Bounded
  <2>2. QED
    BY <2>1, CleanedEntries DEF Restrict
<1>2. CASE ~MustEvict(Cleaned, k)
  BY <1>2, CleanedEntries DEF Bounded
<1>3. QED
  BY <1>1, <1>2

\* The bound on the table is inductive: one entry is added only after one is
\* evicted if the table is full.
LEMMA RoomForOne ==
  ASSUME TypeOK, StateBounded, NEW k \in Keys, NEW table \in Bounded(Cleaned, k)
  PROVE  /\ IsFiniteSet(DOMAIN table)
         /\ Cardinality(DOMAIN table) <= MaxKeys
         /\ k \notin DOMAIN table => Cardinality(DOMAIN table) < MaxKeys
<1> USE TableAssumption
<1>1. /\ IsFiniteSet(DOMAIN Cleaned)
      /\ Cardinality(DOMAIN Cleaned) \in Nat
      /\ Cardinality(DOMAIN Cleaned) <= MaxKeys
  <2>1. Cardinality(DOMAIN counts) \in Nat /\ Cardinality(DOMAIN Cleaned) <= Cardinality(DOMAIN counts)
    BY CleanedEntries, FS_Subset, FS_CardinalityType DEF StateBounded
  <2>2. IsFiniteSet(DOMAIN Cleaned)
    BY CleanedEntries, FS_Subset DEF StateBounded
  <2>3. QED
    BY <2>1, <2>2, FS_CardinalityType DEF StateBounded
<1>2. CASE MustEvict(Cleaned, k)
  <2>1. PICK v \in OldestIn(Cleaned) : table = Restrict(Cleaned, DOMAIN Cleaned \ {v})
    BY <1>2 DEF Bounded
  <2>2. v \in DOMAIN Cleaned /\ DOMAIN table = DOMAIN Cleaned \ {v}
    BY <2>1 DEF OldestIn, Restrict
  <2>3. IsFiniteSet(DOMAIN table) /\ Cardinality(DOMAIN table) = Cardinality(DOMAIN Cleaned) - 1
    BY <1>1, <2>2, FS_RemoveElement
  <2>4. QED
    BY <1>1, <2>3
<1>3. CASE ~MustEvict(Cleaned, k)
  <2>1. table = Cleaned
    BY <1>3 DEF Bounded
  <2>2. QED
    BY <1>1, <1>3, <2>1 DEF MustEvict
<1>4. QED
  BY <1>2, <1>3

\* The window that a call finds or begins has the type of an entry.
LEMMA WindowOfType ==
  ASSUME TypeOK, NEW k \in Keys, NEW table \in Bounded(Cleaned, k)
  PROVE  WindowOf(table, k) \in Entry
BY BoundedEntries, ClockAssumption DEF WindowOf, Entry, TypeOK

\* The time until a window ends is a natural number.
LEMMA ResetAfterType ==
  ASSUME now \in Nat, NEW w \in Entry
  PROVE  ResetAfter(w) \in Nat
<1>1. \A x, y \in Int : y > 0 => x \div y \in Int
  OBVIOUS
<1>2. /\ 1000 * (w.start + Span - now) + 999 * TicksPerSecond \in Int
      /\ 1000 * TicksPerSecond \in Int
      /\ 1000 * TicksPerSecond > 0
  BY ClockAssumption DEF Entry, Span
<1>3. (1000 * (w.start + Span - now) + 999 * TicksPerSecond) \div (1000 * TicksPerSecond) \in Int
  BY <1>1, <1>2
<1>4. QED
  BY <1>3 DEF ResetAfter

\* The limit of a key is an integer.
LEMMA LimitType == ASSUME NEW k \in Keys PROVE Limit(k) \in Int
BY LimitAssumption DEF Keys, Limit

\* The count of calls since the last cleanup stays below its period.
LEMMA CountCallType ==
  ASSUME operations \in 0..(CleanupPeriod - 1), CountCall
  PROVE  operations' \in 0..(CleanupPeriod - 1)
<1>1. \A x \in Nat, y \in Nat \ {0} : x % y \in 0..(y - 1)
  OBVIOUS
<1>2. operations + 1 \in Nat
  BY TableAssumption
<1>3. QED
  BY <1>1, <1>2, TableAssumption DEF CountCall

(***************************************************************************)
(* Type correctness: Spec => []TypeOK.                                     *)
(***************************************************************************)
LEMMA TypeInit == Init => TypeOK
BY ClockAssumption, TableAssumption DEF Init, TypeOK, Entry, NoReply

\* Every step keeps the types.
LEMMA TypeStep == TypeOK /\ [Next]_vars => TypeOK'
<1> SUFFICES ASSUME TypeOK, [Next]_vars
             PROVE  TypeOK'
  OBVIOUS
<1>1. CASE Tick
  BY <1>1, ClockAssumption DEF Tick, TypeOK
<1>2. ASSUME NEW k \in Keys, Refuse(k)
      PROVE  TypeOK'
  BY <1>2 DEF Refuse, TypeOK
<1>3. ASSUME NEW k \in Keys, Admit(k)
      PROVE  TypeOK'
  <2>1. PICK table \in Bounded(Cleaned, k) :
          /\ WindowOf(table, k).n < Limit(k)
          /\ counts' = Put(table, k, [start |-> WindowOf(table, k).start,
                                      n |-> WindowOf(table, k).n + 1])
          /\ reply' = [key |-> k, allowed |-> TRUE,
                       remaining |-> Limit(k) - (WindowOf(table, k).n + 1),
                       reset |-> ResetAfter(WindowOf(table, k))]
    BY <1>3 DEF Admit
  <2>2. WindowOf(table, k) \in Entry /\ ResetAfter(WindowOf(table, k)) \in Nat
    BY WindowOfType, ResetAfterType, ClockAssumption DEF TypeOK
  <2>3. DOMAIN counts' \in SUBSET Keys /\ counts' \in [DOMAIN counts' -> Entry]
    BY <2>1, <2>2, BoundedEntries DEF Put, Entry, TypeOK
  <2>4. reply' \in [key : Keys, allowed : BOOLEAN, remaining : Nat, reset : Nat]
    BY <2>1, <2>2, LimitType DEF Entry
  <2>5. QED
    BY <1>3, <2>3, <2>4, CountCallType DEF Admit, TypeOK
<1>4. ASSUME NEW k \in Keys, Deny(k)
      PROVE  TypeOK'
  <2>1. PICK table \in Bounded(Cleaned, k) :
          /\ counts' = Put(table, k, WindowOf(table, k))
          /\ reply' = [key |-> k, allowed |-> FALSE, remaining |-> 0,
                       reset |-> ResetAfter(WindowOf(table, k))]
    BY <1>4 DEF Deny
  <2>2. WindowOf(table, k) \in Entry /\ ResetAfter(WindowOf(table, k)) \in Nat
    BY WindowOfType, ResetAfterType, ClockAssumption DEF TypeOK
  <2>3. DOMAIN counts' \in SUBSET Keys /\ counts' \in [DOMAIN counts' -> Entry]
    BY <2>1, <2>2, BoundedEntries DEF Put, TypeOK
  <2>4. QED
    BY <1>4, <2>1, <2>2, <2>3, CountCallType DEF Deny, TypeOK
<1>5. CASE UNCHANGED vars
  BY <1>5 DEF vars, TypeOK
<1>6. QED
  BY <1>1, <1>2, <1>3, <1>4, <1>5 DEF Next

\* The variables have the types the code gives them, for every instance.
THEOREM TypeCorrect == Spec => []TypeOK
<1>1. QED
  BY TypeInit, TypeStep, PTL DEF Spec

(***************************************************************************)
(* The hard bound on the table: Spec => []StateBounded.                    *)
(***************************************************************************)
LEMMA BoundInit == Init => StateBounded
BY FS_EmptySet, TableAssumption DEF Init, StateBounded

\* A window that is put where room was made keeps the table within its limit.
LEMMA PutBounded ==
  ASSUME TypeOK, StateBounded, NEW k \in Keys, NEW table \in Bounded(Cleaned, k), NEW e,
         counts' = Put(table, k, e)
  PROVE  StateBounded'
<1>1. DOMAIN counts' = DOMAIN table \cup {k}
  BY DEF Put
<1>2. /\ IsFiniteSet(DOMAIN counts')
      /\ Cardinality(DOMAIN counts') =
           IF k \in DOMAIN table THEN Cardinality(DOMAIN table) ELSE Cardinality(DOMAIN table) + 1
  BY <1>1, RoomForOne, FS_AddElement
<1>3. Cardinality(DOMAIN table) \in Nat
  BY RoomForOne, FS_CardinalityType
<1>4. QED
  BY <1>2, <1>3, RoomForOne, TableAssumption DEF StateBounded

\* Every step keeps the table within its limit.
LEMMA BoundStep == TypeOK /\ StateBounded /\ [Next]_vars => StateBounded'
<1> SUFFICES ASSUME TypeOK, StateBounded, [Next]_vars
             PROVE  StateBounded'
  OBVIOUS
<1>1. ASSUME counts' = counts
      PROVE  StateBounded'
  BY <1>1 DEF StateBounded
<1>2. ASSUME NEW k \in Keys, Admit(k) \/ Deny(k)
      PROVE  StateBounded'
  <2>1. PICK table \in Bounded(Cleaned, k) : \E e : counts' = Put(table, k, e)
    BY <1>2 DEF Admit, Deny
  <2>2. QED
    BY <2>1, PutBounded
<1>3. QED
  BY <1>1, <1>2 DEF Next, Tick, Refuse, vars

\* However the calls arrive, the table holds at most MaxKeys entries.
THEOREM BoundedTable == Spec => []StateBounded
<1>1. QED
  BY TypeInit, TypeStep, BoundInit, BoundStep, PTL DEF Spec

(***************************************************************************)
(* The refinement.  The abstract table holds the running windows of the    *)
(* concrete one; three lemmas say what a call does to it.                  *)
(***************************************************************************)
Running == Restrict(counts, LiveKeys)

\* The open windows of the quota are the entries of live keys.
LEMMA OpenTable ==
  ASSUME TypeOK
  PROVE  /\ DOMAIN Running = LiveKeys
         /\ LiveKeys \in SUBSET DOMAIN counts
         /\ \A j \in LiveKeys : Running[j] = counts[j] /\ counts[j] \in Entry /\ now - counts[j].start < Span
BY ClockAssumption DEF Running, Restrict, LiveKeys, Expired, TypeOK, Entry, Span

\* A key with a running window keeps it, and nobody else loses one.
LEMMA RunningKey ==
  ASSUME TypeOK, NEW k \in LiveKeys, NEW table \in Bounded(Cleaned, k)
  PROVE  /\ LiveKeys \in SUBSET DOMAIN table
         /\ WindowOf(table, k) = counts[k]
<1>1. k \in DOMAIN Cleaned /\ table = Cleaned
  BY CleanedEntries DEF Bounded, MustEvict
<1>2. table[k] = counts[k] /\ ~Expired(counts[k])
  BY <1>1, CleanedEntries DEF Restrict, LiveKeys
<1>3. QED
  BY <1>1, <1>2, CleanedEntries DEF WindowOf

\* What is left of a table without one entry leaves room for another.
LEMMA FewerRunning ==
  ASSUME NEW S, NEW T, NEW x \in T, S \in SUBSET (T \ {x}), IsFiniteSet(T), Cardinality(T) <= MaxKeys
  PROVE  Cardinality(S) < MaxKeys
<1>1. IsFiniteSet(T \ {x}) /\ Cardinality(T \ {x}) = Cardinality(T) - 1
  BY FS_RemoveElement
<1>2. IsFiniteSet(S) /\ Cardinality(S) <= Cardinality(T \ {x})
  BY <1>1, FS_Subset
<1>3. Cardinality(S) \in Nat /\ Cardinality(T) \in Nat
  BY <1>2, FS_CardinalityType
<1>4. QED
  BY <1>1, <1>2, <1>3, TableAssumption

\* A key without one starts afresh.  If nothing is evicted, or what is evicted
\* has expired, fewer than MaxKeys windows are running; otherwise all slots
\* hold running windows and the oldest of them goes.
LEMMA NewKey ==
  ASSUME TypeOK, StateBounded, NEW k \in Keys, k \notin LiveKeys,
         NEW table \in Bounded(Cleaned, k)
  PROVE  /\ WindowOf(table, k) = [start |-> now, n |-> 0]
         /\ \/ /\ LiveKeys \in SUBSET DOMAIN table
               /\ Cardinality(LiveKeys) < MaxKeys
            \/ /\ Cardinality(LiveKeys) >= MaxKeys
               /\ \E v \in LiveKeys :
                    /\ \A j \in LiveKeys : counts[v].start <= counts[j].start
                    /\ LiveKeys \cap DOMAIN table = LiveKeys \ {v}
<1>1. WindowOf(table, k) = [start |-> now, n |-> 0]
  <2>1. CASE k \in DOMAIN table
    BY <2>1, BoundedEntries DEF WindowOf, LiveKeys, Restrict
  <2>2. CASE k \notin DOMAIN table
    BY <2>2 DEF WindowOf
  <2>3. QED
    BY <2>1, <2>2
<1>2. IsFiniteSet(DOMAIN Cleaned) /\ Cardinality(DOMAIN Cleaned) <= MaxKeys
  <2>1. IsFiniteSet(DOMAIN Cleaned) /\ Cardinality(DOMAIN Cleaned) <= Cardinality(DOMAIN counts)
    BY CleanedEntries, FS_Subset DEF StateBounded
  <2>2. Cardinality(DOMAIN Cleaned) \in Nat /\ Cardinality(DOMAIN counts) \in Nat
    BY <2>1, FS_CardinalityType DEF StateBounded
  <2>3. QED
    BY <2>1, <2>2, TableAssumption DEF StateBounded
<1>3. CASE ~MustEvict(Cleaned, k)
  <2>1. table = Cleaned /\ LiveKeys \in SUBSET DOMAIN table
    BY <1>3, CleanedEntries DEF Bounded
  <2>2. CASE k \in DOMAIN Cleaned
    BY <1>1, <1>2, <2>1, <2>2, FewerRunning
  <2>3. CASE k \notin DOMAIN Cleaned
    <3>1. IsFiniteSet(LiveKeys) /\ Cardinality(LiveKeys) <= Cardinality(DOMAIN Cleaned)
      BY <1>2, CleanedEntries, FS_Subset
    <3>2. Cardinality(LiveKeys) \in Nat /\ Cardinality(DOMAIN Cleaned) \in Nat
      BY <1>2, <3>1, FS_CardinalityType
    <3>3. Cardinality(DOMAIN Cleaned) < MaxKeys
      BY <1>3, <2>3, <3>2, TableAssumption DEF MustEvict
    <3>4. QED
      BY <1>1, <2>1, <3>1, <3>2, <3>3, TableAssumption
  <2>4. QED
    BY <2>2, <2>3
<1>4. CASE MustEvict(Cleaned, k)
  <2>1. PICK v \in OldestIn(Cleaned) : table = Restrict(Cleaned, DOMAIN Cleaned \ {v})
    BY <1>4 DEF Bounded
  <2>2. v \in DOMAIN Cleaned /\ DOMAIN table = DOMAIN Cleaned \ {v}
    BY <2>1 DEF OldestIn, Restrict
  <2>3. \A j \in DOMAIN Cleaned : /\ Cleaned[j] = counts[j]
                                  /\ counts[j] \in Entry
                                  /\ counts[v].start <= counts[j].start
    <3>1. \A j \in DOMAIN Cleaned : Cleaned[j] = counts[j] /\ counts[j] \in Entry
      BY CleanedEntries DEF Restrict
    <3>2. \A j \in DOMAIN Cleaned : Cleaned[v].start <= Cleaned[j].start
      BY <2>1 DEF OldestIn
    <3>3. QED
      BY <2>2, <3>1, <3>2
  <2>4. CASE v \notin LiveKeys
    <3>1. LiveKeys \in SUBSET (DOMAIN Cleaned \ {v})
      BY <2>4, CleanedEntries
    <3>2. QED
      BY <1>1, <1>2, <2>2, <3>1, FewerRunning
  <2>5. CASE v \in LiveKeys
    <3>1. \A j \in DOMAIN Cleaned : j \in LiveKeys
      <4>1. now - counts[v].start < Span
        BY <2>5, OpenTable
      <4>2. SUFFICES ASSUME NEW j \in DOMAIN Cleaned
                     PROVE  ~(now - counts[j].start >= Span)
        BY CleanedEntries DEF LiveKeys, Expired
      <4>3. now \in Int /\ Span \in Int /\ counts[v].start \in Int /\ counts[j].start \in Int
        BY <2>2, <2>3, ClockAssumption DEF TypeOK, Span, Entry
      <4>4. QED
        BY <2>3, <4>1, <4>3
    <3>2. LiveKeys = DOMAIN Cleaned
      BY <3>1, CleanedEntries
    <3>3. Cardinality(LiveKeys) >= MaxKeys
      BY <1>4, <3>2 DEF MustEvict
    <3>4. QED
      BY <1>1, <2>2, <2>3, <2>5, <3>2, <3>3
  <2>6. QED
    BY <2>4, <2>5
<1>5. QED
  BY <1>3, <1>4

\* What storing a running window does to the abstract table.
LEMMA StoredWindow ==
  ASSUME TypeOK, NEW k \in Keys, NEW table \in Bounded(Cleaned, k), NEW e \in Entry,
         now - e.start < Span, counts' = Put(table, k, e), now' = now
  PROVE  Running' = [j \in (LiveKeys \cap DOMAIN table) \cup {k} |-> IF j = k THEN e ELSE counts[j]]
<1>1. /\ DOMAIN counts' = DOMAIN table \cup {k}
      /\ counts'[k] = e
      /\ \A j \in DOMAIN table : j # k => counts'[j] = counts[j]
  BY BoundedEntries DEF Put, Restrict
<1>2. e.start \in Int /\ now \in Int /\ Span \in Int
  BY ClockAssumption DEF Entry, TypeOK, Span
<1>3. LiveKeys' = {j \in DOMAIN counts' : ~(now - counts'[j].start >= Span)}
  BY DEF LiveKeys, Expired, Span
<1>4. LiveKeys' = (LiveKeys \cap DOMAIN table) \cup {k}
  BY <1>1, <1>2, <1>3, BoundedEntries DEF LiveKeys, Expired
<1>5. \A j \in LiveKeys' : counts'[j] = IF j = k THEN e ELSE counts[j]
  BY <1>1, <1>4
<1>6. QED
  BY <1>4, <1>5 DEF Running, Restrict

\* The quota of a key is its limit, and none where there is no limit.
LEMMA QuotaOf ==
  ASSUME NEW k \in Keys
  PROVE  /\ Limited(k) => Limit(k) > 0
         /\ [j \in Keys |-> IF Limited(j) THEN Limit(j) ELSE 0][k] = IF Limited(k) THEN Limit(k) ELSE 0
BY DEF Limited

\* WindowQuota counts its windows with the same Cardinality.
LEMMA SameCardinality == \A S : Ideal!Cardinality(S) = Cardinality(S)
BY DEF Cardinality, Ideal!Cardinality, IsFiniteSet, Ideal!IsFiniteSet

\* The limiter starts as the quota does.
LEMMA IdealInit == Init => Ideal!Init
BY DEF Init, Ideal!Init, LiveKeys, Restrict, NoReply, Ideal!NoVerdict

\* The clock of the limiter is that of the quota.
LEMMA IdealTick ==
  ASSUME TypeOK, Tick
  PROVE  Ideal!Tick
<1>1. counts' = counts /\ now' = now + 1 /\ reply' = reply
  BY DEF Tick
<1>2. LiveKeys' = {j \in LiveKeys : now' - counts[j].start < Span}
  <2>1. \A j \in DOMAIN counts : counts[j].start \in Int
    BY DEF TypeOK, Entry
  <2>2. now \in Int /\ Span \in Int
    BY ClockAssumption DEF TypeOK, Span
  <2>3. QED
    BY <1>1, <2>1, <2>2 DEF LiveKeys, Expired, Span
<1>3. Running' = [j \in LiveKeys' |-> counts[j]]
  BY <1>1 DEF Running, Restrict
<1>4. Running' = [j \in {i \in DOMAIN Running : now' - Running[i].start < Span} |-> Running[j]]
  BY <1>2, <1>3, OpenTable
<1>5. QED
  BY <1>1, <1>4 DEF Ideal!Tick, Running

\* A call whose limit or window is not positive is denied by the quota.
LEMMA IdealRefuse ==
  ASSUME TypeOK, NEW k \in Keys, Refuse(k)
  PROVE  Ideal!Deny(k)
<1>1. Running' = Running
  BY DEF Refuse, Running, LiveKeys, Expired, Span
<1>2. Ideal!Used(k) >= 0
  BY OpenTable DEF Ideal!Used, Running, Entry
<1>3. QED
  BY <1>1, <1>2, QuotaOf DEF Refuse, Ideal!Deny, Running

\* A call over the limit is denied by the quota.
LEMMA IdealDeny ==
  ASSUME TypeOK, StateBounded, NEW k \in Keys, Deny(k)
  PROVE  Ideal!Deny(k)
<1>1. PICK table \in Bounded(Cleaned, k) :
        /\ WindowOf(table, k).n >= Limit(k)
        /\ counts' = Put(table, k, WindowOf(table, k))
  BY DEF Deny
<1>2. Limited(k) /\ Limit(k) \in Int /\ Limit(k) > 0
  BY QuotaOf, LimitType DEF Deny
<1>3. k \in LiveKeys
  BY <1>1, <1>2, NewKey
<1>4. LiveKeys \in SUBSET DOMAIN table /\ WindowOf(table, k) = counts[k]
  BY <1>3, RunningKey
<1>5. Running' = [j \in (LiveKeys \cap DOMAIN table) \cup {k} |-> IF j = k THEN counts[k] ELSE counts[j]]
  BY <1>1, <1>3, <1>4, OpenTable, StoredWindow DEF Deny
<1>6. Running' = Running
  BY <1>3, <1>4, <1>5 DEF Running, Restrict
<1>7. Ideal!Used(k) = counts[k].n
  BY <1>3, OpenTable DEF Ideal!Used, Running
<1>8. QED
  BY <1>1, <1>2, <1>4, <1>6, <1>7, QuotaOf DEF Deny, Ideal!Deny, Running

\* A call that is admitted is counted, opens a window or displaces one.
LEMMA IdealAdmit ==
  ASSUME TypeOK, StateBounded, NEW k \in Keys, Admit(k)
  PROVE  Ideal!Spend(k) \/ Ideal!Open(k) \/ Ideal!Displace(k)
<1> DEFINE Next1(w) == [start |-> w.start, n |-> w.n + 1]
           NewOpen(S) == [j \in S |-> IF j = k THEN [start |-> now, n |-> 1] ELSE counts[j]]
<1>1. PICK table \in Bounded(Cleaned, k) :
        /\ WindowOf(table, k).n < Limit(k)
        /\ counts' = Put(table, k, Next1(WindowOf(table, k)))
        /\ reply' = [key |-> k, allowed |-> TRUE,
                     remaining |-> Limit(k) - (WindowOf(table, k).n + 1),
                     reset |-> ResetAfter(WindowOf(table, k))]
  BY DEF Admit
<1>2. /\ Limited(k) /\ Limit(k) \in Int /\ Limit(k) > 0 /\ now' = now
      /\ now \in Nat /\ Span \in Int /\ Span > 0
  BY QuotaOf, LimitType, ClockAssumption DEF Admit, TypeOK, Span, Limited
<1>3. CASE k \in LiveKeys
  <2>1. LiveKeys \in SUBSET DOMAIN table /\ WindowOf(table, k) = counts[k]
    BY <1>3, RunningKey
  <2>2. counts[k] \in Entry /\ Next1(counts[k]) \in Entry /\ now - Next1(counts[k]).start < Span
    BY <1>3, OpenTable DEF Entry
  <2>3. Running' = [j \in (LiveKeys \cap DOMAIN table) \cup {k} |->
                      IF j = k THEN Next1(counts[k]) ELSE counts[j]]
    BY <1>1, <1>2, <2>1, <2>2, StoredWindow, ZenonT(40)
  <2>4. Running' = Ideal!With(Running, k, Next1(Running[k]))
    BY <1>3, <2>1, <2>3, OpenTable DEF Ideal!With
  <2>5. Ideal!Spend(k)
    BY <1>1, <1>2, <1>3, <2>1, <2>4, OpenTable, QuotaOf DEF Ideal!Spend, Ideal!Admitted, Running
  <2>6. QED
    BY <2>5
<1>4. CASE k \notin LiveKeys
  <2>1. WindowOf(table, k) = [start |-> now, n |-> 0]
    BY <1>4, NewKey
  <2>2. Running' = NewOpen((LiveKeys \cap DOMAIN table) \cup {k})
    <3>1. Next1(WindowOf(table, k)) = [start |-> now, n |-> 1]
      BY <2>1
    <3>2. [start |-> now, n |-> 1] \in Entry /\ now - [start |-> now, n |-> 1].start < Span
      BY <1>2 DEF Entry
    <3>3. counts' = Put(table, k, [start |-> now, n |-> 1]) /\ now' = now
      BY <1>1, <1>2, <3>1
    <3>4. Running' = [j \in (LiveKeys \cap DOMAIN table) \cup {k} |->
                        IF j = k THEN [start |-> now, n |-> 1] ELSE counts[j]]
      BY <3>2, <3>3, StoredWindow
    <3>5. QED
      BY <3>4
  <2>3. Ideal!Admitted(k, 1)
    BY <1>1, <1>2, <2>1, QuotaOf DEF Ideal!Admitted
  <2>4. CASE LiveKeys \in SUBSET DOMAIN table /\ Cardinality(LiveKeys) < MaxKeys
    <3>1. Running' = Ideal!With(Running, k, [start |-> now, n |-> 1])
      BY <1>4, <2>2, <2>4, OpenTable DEF Ideal!With
    <3>2. QED
      BY <1>2, <1>4, <2>3, <2>4, <3>1, OpenTable, QuotaOf, SameCardinality DEF Ideal!Open, Running
  <2>5. ASSUME Cardinality(LiveKeys) >= MaxKeys, NEW v \in LiveKeys,
               \A j \in LiveKeys : counts[v].start <= counts[j].start,
               LiveKeys \cap DOMAIN table = LiveKeys \ {v}
        PROVE  Ideal!Displace(k)
    <3>1. Ideal!Oldest(v)
      BY <2>5, OpenTable DEF Ideal!Oldest, Running
    <3>2. Running' = Ideal!With(Ideal!Without(Running, v), k, [start |-> now, n |-> 1])
      BY <1>4, <2>2, <2>5, OpenTable DEF Ideal!With, Ideal!Without
    <3>3. v \in DOMAIN Running
      BY OpenTable
    <3>4. QED
      BY <1>2, <1>4, <2>3, <2>5, <3>1, <3>2, <3>3, OpenTable, QuotaOf, SameCardinality DEF Ideal!Displace, Running
  <2>6. QED
    BY <1>4, <2>4, <2>5, NewKey
<1>5. QED
  BY <1>3, <1>4

\* Every step of the limiter is a step of the quota or none.
LEMMA IdealStep == TypeOK /\ StateBounded /\ [Next]_vars => [Ideal!Next]_(Ideal!vars)
<1> SUFFICES ASSUME TypeOK, StateBounded, [Next]_vars
             PROVE  [Ideal!Next]_(Ideal!vars)
  OBVIOUS
<1>1. CASE Tick
  BY <1>1, IdealTick DEF Ideal!Next
<1>2. ASSUME NEW k \in Keys, Refuse(k) \/ Admit(k) \/ Deny(k)
      PROVE  Ideal!Next
  BY <1>2, IdealRefuse, IdealAdmit, IdealDeny DEF Ideal!Next
<1>3. CASE UNCHANGED vars
  BY <1>3 DEF vars, Ideal!vars, LiveKeys, Expired, Span, Restrict
<1>4. QED
  BY <1>1, <1>2, <1>3 DEF Next

\* The limiter with lazy cleanup and eviction implements the ideal limiter:
\* no cleanup, expiry or eviction is visible except as WindowQuota allows it.
THEOREM Refinement == Spec => ImplementsQuota
<1>1. QED
  BY IdealInit, IdealStep, TypeInit, TypeStep, BoundInit, BoundStep, PTL DEF Spec, ImplementsQuota, Ideal!Spec

(***************************************************************************)
(* What clients see (SpecH).  A call of k leaves the running windows of    *)
(* the other keys alone, but for the one that gives way.                   *)
(***************************************************************************)
LEMMA OtherKeys ==
  ASSUME TypeOK, NEW k \in Keys, NEW table \in Bounded(Cleaned, k), NEW e,
         counts' = Put(table, k, e), now' = now
  PROVE  /\ k \notin GivenWay(k)
         /\ \A j \in Keys \ {k} :
              /\ j \in LiveKeys' => j \in LiveKeys /\ counts'[j] = counts[j] /\ j \notin GivenWay(k)
              /\ j \in LiveKeys /\ j \notin GivenWay(k) => j \in LiveKeys'
<1>1. /\ DOMAIN counts' = DOMAIN table \cup {k}
      /\ \A j \in DOMAIN table : j # k => counts'[j] = counts[j]
      /\ DOMAIN table \in SUBSET DOMAIN counts
  BY BoundedEntries DEF Put, Restrict
<1>2. k \notin GivenWay(k)
  BY <1>1 DEF GivenWay
<1> DEFINE Runs(window) == ~(now - window.start >= Span)
<1> HIDE DEF Runs
<1>3. /\ LiveKeys = {j \in DOMAIN counts : Runs(counts[j])}
      /\ LiveKeys' = {j \in DOMAIN counts' : Runs(counts'[j])}
  BY DEF LiveKeys, Expired, Span, Runs
<1>4. ASSUME NEW j \in Keys \ {k}, j \in LiveKeys'
      PROVE  j \in LiveKeys /\ counts'[j] = counts[j] /\ j \notin GivenWay(k)
  <2>1. j \in DOMAIN table /\ counts'[j] = counts[j] /\ j \in DOMAIN counts'
    BY <1>1, <1>4, <1>3
  <2>2. QED
    BY <1>1, <1>4, <1>3, <2>1 DEF GivenWay
<1>5. ASSUME NEW j \in Keys \ {k}, j \in LiveKeys, j \notin GivenWay(k)
      PROVE  j \in LiveKeys'
  <2>1. j \in DOMAIN Cleaned
    BY <1>5, CleanedEntries
  <2>2. j \in DOMAIN table
    <3>1. CASE MustEvict(Cleaned, k)
      BY <1>1, <1>5, <2>1, <3>1 DEF GivenWay
    <3>2. CASE ~MustEvict(Cleaned, k)
      BY <2>1, <3>2 DEF Bounded
    <3>3. QED
      BY <3>1, <3>2
  <2>3. counts'[j] = counts[j] /\ j \in DOMAIN counts'
    BY <1>1, <1>5, <2>2
  <2>4. QED
    BY <1>5, <1>3, <2>3
<1>6. QED
  BY <1>2, <1>4, <1>5

\* The window a call counts against, and what is stored of it.
LEMMA CallWindow ==
  ASSUME TypeOK, StateBounded, NEW k \in Keys, NEW table \in Bounded(Cleaned, k)
  PROVE  WindowOf(table, k) = IF k \in LiveKeys THEN counts[k] ELSE [start |-> now, n |-> 0]
BY RunningKey, NewKey

\* An admitted call adds one to the live window of its key, or to a new one.
LEMMA AdmitWindow ==
  ASSUME TypeOK, StateBounded, NEW k \in Keys, Admit(k)
  PROVE  /\ Limited(k) /\ now' = now
         /\ \E table \in Bounded(Cleaned, k), w \in Entry :
              /\ w = IF k \in LiveKeys THEN counts[k] ELSE [start |-> now, n |-> 0]
              /\ w.n < Limit(k)
              /\ counts' = Put(table, k, [start |-> w.start, n |-> w.n + 1])
<1>1. PICK table \in Bounded(Cleaned, k) :
        /\ WindowOf(table, k).n < Limit(k)
        /\ counts' = Put(table, k, [start |-> WindowOf(table, k).start, n |-> WindowOf(table, k).n + 1])
  BY DEF Admit
<1>2. WindowOf(table, k) = (IF k \in LiveKeys THEN counts[k] ELSE [start |-> now, n |-> 0])
  BY CallWindow
<1>3. WindowOf(table, k) \in Entry
  BY WindowOfType
<1>4. QED
  BY <1>1, <1>2, <1>3 DEF Admit

\* A denial is of a key whose window is running and full.
LEMMA DenyWindow ==
  ASSUME TypeOK, StateBounded, NEW k \in Keys, Deny(k)
  PROVE  /\ Limited(k) /\ now' = now /\ k \in LiveKeys
         /\ reply'.reset = ResetAfter(counts[k])
         /\ \E table \in Bounded(Cleaned, k) : counts' = Put(table, k, counts[k])
<1>1. PICK table \in Bounded(Cleaned, k) :
        /\ WindowOf(table, k).n >= Limit(k)
        /\ counts' = Put(table, k, WindowOf(table, k))
        /\ reply' = [key |-> k, allowed |-> FALSE, remaining |-> 0, reset |-> ResetAfter(WindowOf(table, k))]
  BY DEF Deny
<1>2. WindowOf(table, k) = (IF k \in LiveKeys THEN counts[k] ELSE [start |-> now, n |-> 0])
  BY CallWindow
<1>3. Limited(k) /\ Limit(k) \in Int /\ Limit(k) > 0
  BY QuotaOf, LimitType DEF Deny
<1>4. k \in LiveKeys
  BY <1>1, <1>2, <1>3
<1>5. QED
  BY <1>1, <1>2, <1>3, <1>4 DEF Deny

\* A step of time runs windows out and opens none.
LEMMA TickWindows ==
  ASSUME TypeOK, Tick
  PROVE  /\ now' = now + 1 /\ counts' = counts
         /\ \A j \in LiveKeys' : j \in LiveKeys /\ now' - counts[j].start < Span
         /\ \A j \in LiveKeys \ LiveKeys' : now' - counts[j].start >= Span
<1>1. now' = now + 1 /\ counts' = counts
  BY DEF Tick
<1>2. \A j \in DOMAIN counts : counts[j].start \in Int
  BY DEF TypeOK, Entry
<1>3. now \in Int /\ Span \in Int
  BY ClockAssumption DEF TypeOK, Span
<1>4. QED
  BY <1>1, <1>2, <1>3 DEF LiveKeys, Expired, Span

-----------------------------------------------------------------------------
\* What an integer division leaves is less than the divisor.
LEMMA DivBound == ASSUME NEW x \in Int, NEW y \in Nat \ {0} PROVE y * (x \div y) + y > x
OBVIOUS

\* Retry-After, in whole seconds, reaches the end of the window: rounding
\* up by 0.999 is enough if the clock has no finer resolution than 1 ms.
LEMMA ResetReaches ==
  ASSUME now \in Nat, NEW w \in Entry, TicksPerSecond <= 1000
  PROVE  /\ ResetAfter(w) \in Nat
         /\ ResetAfter(w) * TicksPerSecond \in Nat \ {0}
         /\ w.start + Span <= now + ResetAfter(w) * TicksPerSecond
<1>1. PICK T \in Nat \ {0} : T = TicksPerSecond /\ T <= 1000
  BY ClockAssumption
<1>2. PICK left \in Int : left = w.start + Span - now
  BY ClockAssumption DEF Entry, Span
<1>3. PICK q \in Int : q = (1000 * left + 999 * T) \div (1000 * T)
  <2>1. \A x \in Int, y \in Nat \ {0} : x \div y \in Int
    OBVIOUS
  <2>2. 1000 * left + 999 * T \in Int /\ 1000 * T \in Nat \ {0}
    OBVIOUS
  <2>3. QED
    BY <2>1, <2>2
<1>4. PICK r \in Nat \ {0} : r = IF q > 1 THEN q ELSE 1
  OBVIOUS
<1>5. ResetAfter(w) = r
  BY <1>1, <1>2, <1>3, <1>4 DEF ResetAfter
<1>6. 1000 * T * q + 1000 * T > 1000 * left + 999 * T
  <2>1. PICK x \in Int, y \in Nat \ {0} : x = 1000 * left + 999 * T /\ y = 1000 * T
    OBVIOUS
  <2>2. q = x \div y
    BY <1>3, <2>1
  <2>3. y * (x \div y) + y > x
    BY DivBound, Zenon
  <2>4. y * q + y > x
    BY <2>2, <2>3, Zenon
  <2>5. QED
    BY <2>1, <2>4
<1>7. PICK p \in Int : p = T * q
  OBVIOUS
<1>8. p >= left
  <2>1. 1000 * T * q = 1000 * p
    BY <1>7
  <2>2. 1000 * p + T > 1000 * left
    BY <1>6, <2>1
  <2>3. QED
    BY <1>1, <2>2
<1>9. r * T \in Nat \ {0} /\ r * T >= p
  <2>1. \A x, y \in Int : x >= y => x * T >= y * T
    OBVIOUS
  <2>2. r >= q
    BY <1>4
  <2>3. r * T >= q * T /\ r * T >= 1 * T
    BY <1>4, <2>1, <2>2
  <2>4. QED
    BY <1>7, <2>3
<1>10. QED
  BY <1>1, <1>2, <1>5, <1>8, <1>9, ClockAssumption DEF Entry, Span

\* A denied key is told a time at which its window has run out.
RetryFits(k) ==
  /\ retryAt[k] \in Int /\ retryAt[k] >= Unasked
  /\ retryAt[k] = Due => k \notin LiveKeys
  /\ retryAt[k] > Due =>
       /\ retryAt[k] > now
       /\ k \in LiveKeys => counts[k].start + Span <= retryAt[k]

RetryInv ==
  /\ TypeOK
  /\ StateBounded
  /\ DOMAIN retryAt = Keys
  /\ \A k \in Keys : RetryFits(k)

\* Nobody has been told to wait yet.
LEMMA RetryInit == InitH => RetryInv
BY TypeInit, BoundInit DEF InitH, RetryInv, RetryFits, Unasked, Due

\* A step with its history is a step of the limiter.
LEMMA HistoryStep == [NextH]_<<vars, historyVars>> => [Next]_vars
BY DEF NextH, Next, TickH, RefuseH, AdmitH, DenyH, vars

\* Every step keeps what clients were told in time with their windows.
LEMMA RetryStep ==
  ASSUME TicksPerSecond <= 1000, RetryInv, [NextH]_<<vars, historyVars>>
  PROVE  RetryInv'
<1>1. TypeOK' /\ StateBounded'
  BY HistoryStep, TypeStep, BoundStep DEF RetryInv
<1>2. TypeOK /\ StateBounded /\ DOMAIN retryAt = Keys /\ now \in Nat /\ Span \in Int
  BY ClockAssumption DEF RetryInv, TypeOK, Span
<1>3. CASE TickH
  <2>1. /\ now' = now + 1 /\ counts' = counts
        /\ \A j \in LiveKeys' : j \in LiveKeys /\ now' - counts[j].start < Span
    BY <1>2, <1>3, TickWindows DEF TickH
  <2>2. retryAt' = [k \in Keys |-> IF retryAt[k] = now' THEN Due ELSE retryAt[k]]
    BY <1>3 DEF TickH
  <2>3. ASSUME NEW k \in Keys
        PROVE  RetryFits(k)'
    <3>1. RetryFits(k)
      BY DEF RetryInv
    <3>2. k \in LiveKeys' => counts[k].start \in Int
      BY <1>2, <2>1 DEF LiveKeys, TypeOK, Entry
    <3>3. Span' = Span
      BY DEF Span
    <3>4. CASE retryAt[k] = now'
      <4>1. retryAt'[k] = Due
        BY <2>2, <3>4
      <4>2. k \notin LiveKeys'
        BY <1>2, <2>1, <3>1, <3>2, <3>4 DEF RetryFits, Due
      <4>3. QED
        BY <4>1, <4>2 DEF RetryFits, Due, Unasked
    <3>5. CASE retryAt[k] # now'
      <4>1. retryAt'[k] = retryAt[k]
        BY <2>2, <3>5
      <4>2. QED
        BY <1>2, <2>1, <3>1, <3>2, <3>3, <3>5, <4>1 DEF RetryFits, Due, Unasked
    <3>6. QED
      BY <3>4, <3>5
  <2>4. QED
    BY <1>1, <2>2, <2>3 DEF RetryInv
<1>4. ASSUME NEW k \in Keys, NEW table \in Bounded(Cleaned, k), NEW e, counts' = Put(table, k, e),
             now' = now, RetryFits(k)', DOMAIN retryAt' = Keys,
             \A j \in Keys \ {k} : retryAt'[j] = retryAt[j]
      PROVE  RetryInv'
  <2>1. ASSUME NEW j \in Keys \ {k}
        PROVE  RetryFits(j)'
    <3>1. j \in LiveKeys' => j \in LiveKeys /\ counts'[j] = counts[j]
      BY <1>2, <1>4, OtherKeys
    <3>2. RetryFits(j) /\ retryAt'[j] = retryAt[j] /\ Span' = Span
      BY <1>4 DEF RetryInv, Span
    <3>3. QED
      BY <1>4, <3>1, <3>2 DEF RetryFits, Due, Unasked
  <2>2. QED
    BY <1>1, <1>4, <2>1 DEF RetryInv
<1>5. ASSUME NEW k \in Keys, AdmitH(k)
      PROVE  RetryInv'
  <2>1. PICK table \in Bounded(Cleaned, k) : now' = now /\ \E e : counts' = Put(table, k, e)
    BY <1>2, <1>5, AdmitWindow DEF AdmitH
  <2>2. /\ retryAt'[k] = Unasked /\ DOMAIN retryAt' = Keys
        /\ \A j \in Keys \ {k} : retryAt'[j] = retryAt[j]
    BY <1>2, <1>5 DEF AdmitH
  <2>3. RetryFits(k)'
    BY <2>2 DEF RetryFits, Unasked, Due
  <2>4. QED
    BY <1>4, <2>1, <2>2, <2>3
<1>6. ASSUME NEW k \in Keys, DenyH(k)
      PROVE  RetryInv'
  <2>1. now' = now /\ k \in LiveKeys /\ reply'.reset = ResetAfter(counts[k])
    BY <1>2, <1>6, DenyWindow DEF DenyH
  <2>2. PICK table \in Bounded(Cleaned, k) : counts' = Put(table, k, counts[k])
    BY <1>2, <1>6, DenyWindow DEF DenyH
  <2>3. counts[k] \in Entry /\ counts'[k] = counts[k]
    BY <1>2, <2>1, <2>2, OpenTable DEF Put
  <2>4. PICK wait \in Nat \ {0} : wait = ResetAfter(counts[k]) * TicksPerSecond
    BY <1>2, <2>3, ResetReaches
  <2>5. /\ retryAt'[k] = now + wait /\ DOMAIN retryAt' = Keys
        /\ \A j \in Keys \ {k} : retryAt'[j] = retryAt[j]
    BY <1>2, <1>6, <2>1, <2>4 DEF DenyH
  <2>6. counts[k].start + Span <= now + wait
    BY <1>2, <2>3, <2>4, ResetReaches
  <2>7. RetryFits(k)'
    BY <1>2, <2>1, <2>3, <2>5, <2>6 DEF RetryFits, Unasked, Due, Span
  <2>8. QED
    BY <1>4, <2>1, <2>2, <2>5, <2>7
<1>7. ASSUME now' = now, counts' = counts, retryAt' = retryAt
      PROVE  RetryInv'
  <2>1. ASSUME NEW k \in Keys
        PROVE  RetryFits(k)'
    <3>1. RetryFits(k)
      BY DEF RetryInv
    <3>2. QED
      BY <1>7, <3>1 DEF RetryFits, LiveKeys, Expired, Span
  <2>2. QED
    BY <1>1, <1>2, <1>7, <2>1 DEF RetryInv
<1>8. QED
  BY <1>3, <1>5, <1>6, <1>7 DEF NextH, RefuseH, Refuse, vars, historyVars

\* A client that stays away as long as its denial said is not denied when it
\* comes back, whatever the other clients did meanwhile, if the clock that the
\* limiter reads has at most 1000 ticks in a second.
THEOREM RetryKept == ASSUME TicksPerSecond <= 1000 PROVE SpecH => RetryHonoured
<1>1. ASSUME RetryInv
      PROVE  \A k \in Keys : DenyH(k) => retryAt[k] # Due
  <2>1. ASSUME NEW k \in Keys, DenyH(k)
        PROVE  k \in LiveKeys
    BY <1>1, <2>1, DenyWindow DEF RetryInv, DenyH
  <2>2. QED
    BY <1>1, <2>1 DEF RetryInv, RetryFits
<1>2. RetryInv /\ [NextH]_<<vars, historyVars>> => RetryInv'
  BY RetryStep
<1>3. QED
  BY <1>1, <1>2, RetryInit, PTL DEF SpecH, RetryHonoured

-----------------------------------------------------------------------------
\* The least number of a set.
LEMMA LeastMember ==
  ASSUME NEW T \in SUBSET Nat, T # {}
  PROVE  \E m \in T : \A n \in T : m <= n
<1>1. PICK Less : Less = OpToRel(<, Nat)
  OBVIOUS
<1>2. IsWellFoundedOn(Less, Nat)
  BY <1>1, NatLessThanWellFounded, Zenon
<1>3. T \subseteq Nat
  OBVIOUS
<1>4. PICK m \in T : \A n \in T : <<n, m>> \notin Less
  BY <1>2, <1>3, WFMin, Zenon
<1>5. ASSUME NEW n \in T
      PROVE  m <= n
  <2>1. SUFFICES ASSUME n < m PROVE FALSE
    BY <1>3
  <2>2. PICK p : p = <<n, m>>
    OBVIOUS
  <2>3. p \in Nat \X Nat /\ p[1] < p[2]
    BY <1>3, <2>1, <2>2
  <2>4. p \in {ss \in Nat \X Nat : ss[1] < ss[2]}
    BY <2>3
  <2>5. p \in Less
    BY <1>1, <2>4, Zenon DEF OpToRel
  <2>6. QED
    BY <1>4, <2>2, <2>5
<1>6. QED
  BY <1>5

\* Forgetting what is Span ago drops the first d admissions and no others.
LEMMA RecentIsSuffix ==
  ASSUME NEW times \in Seq(Nat), now' \in Int, Span \in Int,
         \A i, j \in 1..Len(times) : i <= j => times[i] <= times[j]
  PROVE  \E d \in 0..Len(times) :
           /\ \A i \in 1..d : now' - times[i] >= Span
           /\ \A i \in d + 1..Len(times) : now' - times[i] < Span
           /\ Recent(times) \in Seq(Nat)
           /\ Len(Recent(times)) = Len(times) - d
           /\ \A i \in 1..Len(times) - d : Recent(times)[i] = times[i + d]
<1>1. PICK n \in Nat : n = Len(times)
  OBVIOUS
<1> DEFINE Rest == {i \in 1..n + 1 : i = n + 1 \/ now' - times[i] < Span}
<1>2. PICK m \in Rest : \A i \in Rest : m <= i
  <2>1. Rest \in SUBSET Nat /\ n + 1 \in Rest
    OBVIOUS
  <2>2. QED
    BY <2>1, LeastMember
<1>3. PICK d \in 0..n : d = m - 1
  OBVIOUS
<1>4. \A i \in 1..d : now' - times[i] >= Span
  <2>1. ASSUME NEW i \in 1..d
        PROVE  now' - times[i] >= Span
    <3>1. i \in 1..n + 1 /\ i # n + 1 /\ i \notin Rest
      BY <1>2, <1>3
    <3>2. times[i] \in Nat
      BY <1>1, <3>1
    <3>3. QED
      BY <3>1, <3>2
  <2>2. QED
    BY <2>1
<1>5. \A i \in d + 1..n : now' - times[i] < Span
  <2>1. ASSUME NEW i \in d + 1..n
        PROVE  now' - times[i] < Span
    <3>1. m \in 1..n /\ m <= i /\ i \in 1..n
      BY <1>2, <1>3
    <3>2. now' - times[m] < Span /\ times[m] <= times[i] /\ times[m] \in Nat /\ times[i] \in Nat
      BY <1>1, <1>2, <3>1
    <3>3. QED
      BY <3>2
  <2>2. QED
    BY <2>1
<1>6. Past(times) = 1..d
  <2>1. \A i \in 1..n : times[i] \in Nat
    BY <1>1
  <2>2. \A i \in 1..n : now' - times[i] >= Span <=> i \in 1..d
    BY <1>4, <1>5, <2>1
  <2>3. QED
    BY <1>1, <2>2 DEF Past
<1>7. Cardinality(Past(times)) = d
  <2>1. Cardinality(1..d) = IF 1 > d THEN 0 ELSE d - 1 + 1
    BY FS_Interval
  <2>2. QED
    BY <1>6, <2>1
<1>8. Recent(times) = SubSeq(times, d + 1, n)
  BY <1>1, <1>7 DEF Recent
<1>9. /\ SubSeq(times, d + 1, n) \in Seq(Nat)
      /\ Len(SubSeq(times, d + 1, n)) = n - d
      /\ \A i \in 1..n - d : SubSeq(times, d + 1, n)[i] = times[i + d]
  BY <1>1
<1>10. QED
  BY <1>1, <1>4, <1>5, <1>8, <1>9

\* The admissions of a key in the last Span ticks are those of its running
\* window, the last of them, and fewer than Limit of the window before.  When
\* a window runs out, its first admission is Span ago.
BurstFits(k) ==
  LET times == grants[k] IN
    /\ times \in Seq(Nat)
    /\ \A i \in 1..Len(times) : times[i] <= now
    /\ \A i, j \in 1..Len(times) : i <= j => times[i] <= times[j]
    /\ Limited(k) /\ k \notin LiveKeys => Len(times) < Limit(k)
    /\ k \in LiveKeys =>
         /\ Limited(k) /\ counts[k].n \in 1..Limit(k) /\ counts[k].start <= now
         /\ Len(times) < Limit(k) + counts[k].n
         /\ \A i \in 1..Len(times) : i + counts[k].n <= Len(times) + 1 => times[i] <= counts[k].start

BurstInv ==
  /\ TypeOK
  /\ StateBounded
  /\ DOMAIN grants = Keys
  /\ \A k \in Keys : BurstFits(k)

\* Nobody has been admitted yet.
LEMMA BurstInit == InitH => BurstInv
<1> SUFFICES ASSUME InitH PROVE BurstInv
  OBVIOUS
<1>1. TypeOK /\ StateBounded /\ DOMAIN grants = Keys /\ LiveKeys = {}
  BY TypeInit, BoundInit DEF InitH, Init, LiveKeys
<1>2. ASSUME NEW k \in Keys
      PROVE  BurstFits(k)
  BY <1>1, QuotaOf, LimitType DEF InitH, BurstFits
<1>3. QED
  BY <1>1, <1>2 DEF BurstInv

\* The clock keeps the admissions of a key in step with its window.
LEMMA BurstTick ==
  ASSUME BurstInv, TickH, NEW k \in Keys
  PROVE  BurstFits(k)'
<1>1. TypeOK /\ now \in Nat /\ Span \in Int /\ BurstFits(k)
  BY ClockAssumption DEF BurstInv, TypeOK, Span
<1>2. /\ now' = now + 1 /\ counts' = counts
      /\ k \in LiveKeys' => k \in LiveKeys
      /\ k \in LiveKeys \ LiveKeys' => now' - counts[k].start >= Span
  BY <1>1, TickWindows DEF TickH
<1>3. PICK times \in Seq(Nat) : times = grants[k]
  BY <1>1 DEF BurstFits
<1>4. PICK n \in Nat : n = Len(times)
  OBVIOUS
<1>5. /\ \A i \in 1..n : times[i] <= now /\ times[i] \in Nat
      /\ \A i, j \in 1..n : i <= j => times[i] <= times[j]
  BY <1>1, <1>3, <1>4 DEF BurstFits
<1>6. PICK d \in 0..n, later \in Seq(Nat) :
        /\ \A i \in d + 1..n : now' - times[i] < Span
        /\ later = Recent(times)
        /\ Len(later) = n - d
        /\ \A i \in 1..n - d : later[i] = times[i + d]
  <2>1. now' \in Int /\ \A i, j \in 1..Len(times) : i <= j => times[i] <= times[j]
    BY <1>1, <1>2, <1>4, <1>5
  <2>2. PICK d \in 0..Len(times) :
          /\ \A i \in d + 1..Len(times) : now' - times[i] < Span
          /\ Recent(times) \in Seq(Nat)
          /\ Len(Recent(times)) = Len(times) - d
          /\ \A i \in 1..Len(times) - d : Recent(times)[i] = times[i + d]
    BY <1>1, <2>1, RecentIsSuffix, Zenon
  <2>3. QED
    BY <1>4, <2>2
<1>7. grants'[k] = later
  BY <1>3, <1>6 DEF TickH
<1>8. \A i \in 1..n - d : i + d \in 1..n
  OBVIOUS
<1>9. Len(later) = n - d /\ \A i \in 1..n - d : later[i] = times[i + d] /\ i + d \in 1..n
  BY <1>6, <1>8
<1>10. /\ \A i \in 1..Len(later) : later[i] <= now'
       /\ \A i, j \in 1..Len(later) : i <= j => later[i] <= later[j]
  <2>1. ASSUME NEW i \in 1..n - d
        PROVE  later[i] <= now'
    <3>1. times[i + d] <= now /\ times[i + d] \in Nat /\ later[i] = times[i + d]
      BY <1>5, <1>9
    <3>2. QED
      BY <1>1, <1>2, <3>1
  <2>2. ASSUME NEW i \in 1..n - d, NEW j \in 1..n - d, i <= j
        PROVE  later[i] <= later[j]
    <3>1. i + d \in 1..n /\ j + d \in 1..n /\ i + d <= j + d
      BY <1>9, <2>2
    <3>2. times[i + d] <= times[j + d]
      BY <1>5, <3>1
    <3>3. QED
      BY <1>9, <3>2
  <2>3. QED
    BY <1>9, <2>1, <2>2
<1>11. Limited(k)' = Limited(k) /\ Limit(k)' = Limit(k) /\ Limit(k) \in Int
  BY LimitType DEF Limited, Limit
<1>12. ASSUME k \in LiveKeys
       PROVE  /\ Limited(k) /\ counts[k].n \in 1..Limit(k) /\ counts[k].start <= now
              /\ n < Limit(k) + counts[k].n
              /\ \A i \in 1..n : i + counts[k].n <= n + 1 => times[i] <= counts[k].start
              /\ counts[k].start \in Int
  BY <1>1, <1>3, <1>4, <1>12, OpenTable DEF BurstFits, Entry
<1>13. Limited(k) /\ k \notin LiveKeys' => Len(later) < Limit(k)
  <2>1. CASE k \notin LiveKeys
    BY <1>1, <1>3, <1>4, <1>9, <1>11, <2>1 DEF BurstFits
  <2>2. CASE k \in LiveKeys \ LiveKeys'
    <3>1. PICK e \in Nat : e = counts[k].n /\ e \in 1..Limit(k)
      BY <1>11, <1>12, <2>2
    <3>2. CASE n + 1 - e > d
      <4>1. PICK i \in 1..n : i = n + 1 - e /\ i \in d + 1..n /\ i + e <= n + 1
        BY <1>11, <3>1, <3>2, SMTT(30)
      <4>2. times[i] <= counts[k].start /\ now' - times[i] < Span
        BY <1>6, <1>12, <2>2, <3>1, <4>1
      <4>3. times[i] \in Int /\ counts[k].start \in Int /\ now' \in Int
        BY <1>1, <1>2, <1>5, <1>12, <2>2
      <4>4. QED
        BY <1>1, <1>2, <2>2, <4>2, <4>3
    <3>3. CASE n + 1 - e <= d
      <4>1. PICK l \in Int : l = Limit(k)
        BY <1>11
      <4>2. Len(later) = n - d /\ e <= l
        BY <1>9, <3>1, <4>1
      <4>3. n - d < l
        BY <3>1, <3>3, <4>1, <4>2, SMTT(30)
      <4>4. QED
        BY <4>1, <4>2, <4>3
    <3>4. QED
      BY <1>11, <3>1, <3>2, <3>3
  <2>3. QED
    BY <2>1, <2>2
<1>14. k \in LiveKeys' =>
         /\ Limited(k) /\ counts[k].n \in 1..Limit(k) /\ counts[k].start <= now'
         /\ Len(later) < Limit(k) + counts[k].n
         /\ \A i \in 1..Len(later) :
              i + counts[k].n <= Len(later) + 1 => later[i] <= counts[k].start
  <2>1. SUFFICES ASSUME k \in LiveKeys, k \in LiveKeys'
                 PROVE  /\ counts[k].start <= now'
                        /\ Len(later) < Limit(k) + counts[k].n
                        /\ \A i \in 1..Len(later) :
                             i + counts[k].n <= Len(later) + 1 => later[i] <= counts[k].start
    BY <1>2, <1>12
  <2>2. PICK e \in Nat : e = counts[k].n
    BY <1>11, <1>12, <2>1
  <2>3. counts[k].start <= now' /\ Len(later) < Limit(k) + e
    BY <1>1, <1>2, <1>9, <1>11, <1>12, <2>1, <2>2, SMTT(30)
  <2>4. ASSUME NEW i \in 1..n - d, i + e <= n - d + 1
        PROVE  later[i] <= counts[k].start
    <3>1. i + d \in 1..n /\ (i + d) + e <= n + 1
      BY <1>9, <2>4
    <3>2. times[i + d] <= counts[k].start
      BY <1>12, <2>1, <2>2, <3>1
    <3>3. QED
      BY <1>9, <3>2
  <2>5. QED
    BY <1>9, <2>2, <2>3, <2>4
<1>15. QED
  BY <1>2, <1>7, <1>10, <1>11, <1>13, <1>14 DEF BurstFits

\* A call leaves what is known of the other keys as it is, or forgets it.
LEMMA BurstOthers ==
  ASSUME BurstInv, NEW k \in Keys, NEW table \in Bounded(Cleaned, k), NEW e,
         counts' = Put(table, k, e), now' = now, NEW j \in Keys \ {k},
         grants'[j] = Forgotten(k)[j]
  PROVE  BurstFits(j)'
<1>1. TypeOK /\ BurstFits(j)
  BY DEF BurstInv
<1>2. /\ j \in LiveKeys' => j \in LiveKeys /\ counts'[j] = counts[j] /\ j \notin GivenWay(k)
      /\ j \in LiveKeys /\ j \notin GivenWay(k) => j \in LiveKeys'
  BY <1>1, OtherKeys
<1>3. Limited(j)' = Limited(j) /\ Limit(j)' = Limit(j) /\ Limit(j) \in Int
  BY LimitType DEF Limited, Limit
<1>4. CASE j \in GivenWay(k)
  <2>1. grants'[j] = << >> /\ j \notin LiveKeys'
    BY <1>2, <1>4 DEF Forgotten
  <2>2. Limited(j) => 0 < Limit(j)
    BY QuotaOf, <1>3
  <2>3. QED
    BY <1>3, <2>1, <2>2 DEF BurstFits
<1>5. CASE j \notin GivenWay(k)
  <2>1. grants'[j] = grants[j]
    BY <1>5 DEF Forgotten
  <2>2. QED
    BY <1>1, <1>2, <1>3, <1>5, <2>1 DEF BurstFits
<1>6. QED
  BY <1>4, <1>5

\* An admission keeps the admissions of every key in step with its window.
LEMMA BurstAdmit ==
  ASSUME BurstInv, NEW k \in Keys, AdmitH(k)
  PROVE  BurstInv'
<1>1. /\ TypeOK /\ StateBounded /\ DOMAIN grants = Keys /\ BurstFits(k)
      /\ now \in Nat /\ Span \in Int /\ Span > 0
  BY ClockAssumption DEF BurstInv, TypeOK, Span, AdmitH, Admit, Limited
<1>2. PICK table \in Bounded(Cleaned, k), w \in Entry :
        /\ Limited(k) /\ now' = now
        /\ w = IF k \in LiveKeys THEN counts[k] ELSE [start |-> now, n |-> 0]
        /\ w.n < Limit(k)
        /\ counts' = Put(table, k, [start |-> w.start, n |-> w.n + 1])
  BY <1>1, AdmitWindow DEF AdmitH
<1>3. k \notin GivenWay(k)
  BY <1>1, <1>2, OtherKeys
<1>4. /\ grants' = [Forgotten(k) EXCEPT ![k] = Append(@, now)]
      /\ DOMAIN grants' = Keys
      /\ grants'[k] = Append(grants[k], now)
      /\ \A j \in Keys \ {k} : grants'[j] = Forgotten(k)[j]
  BY <1>3 DEF AdmitH, Forgotten
<1>5. \A j \in Keys \ {k} : BurstFits(j)'
  BY <1>2, <1>4, BurstOthers
<1>6. PICK times \in Seq(Nat) : times = grants[k]
  BY <1>1 DEF BurstFits
<1>7. PICK n \in Nat : n = Len(times)
  OBVIOUS
<1>8. PICK m \in Nat, t \in Nat : m = w.n /\ t = w.start
  BY DEF Entry
<1>9. counts'[k] = [start |-> t, n |-> m + 1] /\ k \in DOMAIN counts'
  BY <1>2, <1>8 DEF Put
<1>10. PICK later \in Seq(Nat) : later = Append(times, now)
  <2>1. Append(times, now) \in Seq(Nat)
    BY <1>1
  <2>2. QED
    BY <2>1
<1>11. Len(later) = n + 1 /\ later[n + 1] = now /\ \A i \in 1..n : later[i] = times[i]
  BY <1>1, <1>7, <1>10
<1>12. /\ \A i \in 1..n : times[i] <= now
       /\ \A i, j \in 1..n : i <= j => times[i] <= times[j]
  BY <1>1, <1>6, <1>7 DEF BurstFits
<1>13. \A i \in 1..n + 1 : i \in 1..n \/ i = n + 1
  OBVIOUS
<1>14. /\ \A i \in 1..n + 1 : later[i] <= now
       /\ \A i, j \in 1..n + 1 : i <= j => later[i] <= later[j]
  <2>1. \A i \in 1..n + 1 : later[i] <= now
    BY <1>1, <1>11, <1>12, <1>13
  <2>2. ASSUME NEW i \in 1..n + 1, NEW j \in 1..n + 1, i <= j
        PROVE  later[i] <= later[j]
    <3>1. CASE j = n + 1
      BY <1>11, <2>1, <3>1
    <3>2. CASE j # n + 1
      BY <1>11, <1>12, <2>2, <3>2, SMTT(30)
    <3>3. QED
      BY <3>1, <3>2
  <2>3. QED
    BY <2>1, <2>2
<1>15. Limited(k)' = Limited(k) /\ Limit(k)' = Limit(k) /\ Limit(k) \in Int
  BY LimitType DEF Limited, Limit
<1>16. /\ t <= now /\ m + 1 \in 1..Limit(k) /\ n + 1 < Limit(k) + (m + 1)
       /\ \A i \in 1..n + 1 : i + (m + 1) <= (n + 1) + 1 => later[i] <= t
  <2>1. CASE k \in LiveKeys
    <3>1. /\ t <= now /\ m \in 1..Limit(k) /\ n < Limit(k) + m
          /\ \A i \in 1..n : i + m <= n + 1 => times[i] <= t
      BY <1>1, <1>2, <1>6, <1>7, <1>8, <2>1 DEF BurstFits
    <3>2. ASSUME NEW i \in 1..n + 1, i + (m + 1) <= (n + 1) + 1
          PROVE  later[i] <= t
      <4>1. i \in 1..n /\ i + m <= n + 1
        BY <1>15, <3>1, <3>2
      <4>2. QED
        BY <1>11, <3>1, <4>1
    <3>3. m < Limit(k)
      BY <1>2, <1>8
    <3>4. m + 1 \in 1..Limit(k) /\ n + 1 < Limit(k) + (m + 1)
      BY <1>15, <3>1, <3>3
    <3>5. QED
      BY <3>1, <3>2, <3>4
  <2>2. CASE k \notin LiveKeys
    <3>1. t = now /\ m = 0 /\ n < Limit(k)
      BY <1>1, <1>2, <1>6, <1>7, <1>8, <2>2 DEF BurstFits
    <3>2. QED
      BY <1>14, <1>15, <3>1
  <2>3. QED
    BY <2>1, <2>2
<1>17. k \in LiveKeys'
  <2>1. now - t < Span
    <3>1. CASE k \in LiveKeys
      BY <1>1, <1>2, <1>8, <3>1, OpenTable
    <3>2. CASE k \notin LiveKeys
      BY <1>1, <1>2, <1>8, <3>2
    <3>3. QED
      BY <3>1, <3>2
  <2>2. LiveKeys' = {j \in DOMAIN counts' : ~(now' - counts'[j].start >= Span)}
    BY DEF LiveKeys, Expired, Span
  <2>3. QED
    BY <1>1, <1>2, <1>9, <2>1, <2>2
<1>18. BurstFits(k)'
  <2>1. grants'[k] = later
    BY <1>4, <1>6, <1>10
  <2>2. counts'[k].start = t /\ counts'[k].n = m + 1
    BY <1>9
  <2>3. QED
    BY <1>2, <1>11, <1>14, <1>15, <1>16, <1>17, <2>1, <2>2 DEF BurstFits
<1>19. TypeOK' /\ StateBounded'
  BY <1>1, HistoryStep, TypeStep, BoundStep DEF NextH
<1>20. QED
  BY <1>4, <1>5, <1>18, <1>19 DEF BurstInv

\* A denial keeps the admissions of every key in step with its window.
LEMMA BurstDeny ==
  ASSUME BurstInv, NEW k \in Keys, DenyH(k)
  PROVE  BurstInv'
<1>1. TypeOK /\ StateBounded /\ DOMAIN grants = Keys /\ BurstFits(k)
  BY DEF BurstInv
<1>2. PICK table \in Bounded(Cleaned, k) :
        Limited(k) /\ now' = now /\ k \in LiveKeys /\ counts' = Put(table, k, counts[k])
  BY <1>1, DenyWindow DEF DenyH
<1>3. k \notin GivenWay(k)
  BY <1>1, <1>2, OtherKeys
<1>4. DOMAIN grants' = Keys /\ grants'[k] = grants[k] /\ \A j \in Keys \ {k} : grants'[j] = Forgotten(k)[j]
  BY <1>3 DEF DenyH, Forgotten
<1>5. \A j \in Keys \ {k} : BurstFits(j)'
  BY <1>2, <1>4, BurstOthers
<1>6. Limited(k)' = Limited(k) /\ Limit(k)' = Limit(k)
  BY DEF Limited, Limit
<1>7. counts'[k] = counts[k]
  BY <1>2 DEF Put
<1>8. BurstFits(k)'
  <2>1. k \in LiveKeys'
    <3>1. k \in DOMAIN counts' /\ ~(now - counts'[k].start >= Span)
      BY <1>2, <1>7 DEF Put, LiveKeys, Expired
    <3>2. QED
      BY <1>2, <3>1 DEF LiveKeys, Expired, Span
  <2>2. QED
    BY <1>1, <1>2, <1>4, <1>6, <1>7, <2>1 DEF BurstFits
<1>9. TypeOK' /\ StateBounded'
  BY <1>1, HistoryStep, TypeStep, BoundStep DEF NextH
<1>10. QED
  BY <1>4, <1>5, <1>8, <1>9 DEF BurstInv

\* Every step keeps the admissions of every key in step with its window.
LEMMA BurstStep == BurstInv /\ [NextH]_<<vars, historyVars>> => BurstInv'
<1> SUFFICES ASSUME BurstInv, [NextH]_<<vars, historyVars>>
             PROVE  BurstInv'
  OBVIOUS
<1>1. TypeOK' /\ StateBounded'
  BY HistoryStep, TypeStep, BoundStep DEF BurstInv
<1>2. CASE TickH
  BY <1>1, <1>2, BurstTick DEF BurstInv, TickH
<1>3. ASSUME now' = now, counts' = counts, grants' = grants
      PROVE  BurstInv'
  <2>1. ASSUME NEW k \in Keys
        PROVE  BurstFits(k)'
    <3>1. BurstFits(k)
      BY DEF BurstInv
    <3>2. QED
      BY <1>3, <3>1 DEF BurstFits, LiveKeys, Expired, Span, Limited, Limit
  <2>2. QED
    BY <1>1, <1>3, <2>1 DEF BurstInv
<1>4. QED
  BY <1>2, <1>3, BurstAdmit, BurstDeny DEF NextH, RefuseH, Refuse, vars, historyVars

\* Wherever the windows lie, no Span ticks ever see twice the limit admitted.
THEOREM BurstsBounded == SpecH => []BurstBound
<1>1. BurstInv => BurstBound
  <2>1. ASSUME BurstInv, NEW k \in Keys, Limited(k)
        PROVE  Len(grants[k]) < 2 * Limit(k)
    <3>1. BurstFits(k) /\ Limit(k) \in Int /\ Limit(k) > 0
      BY <2>1, LimitType, QuotaOf DEF BurstInv
    <3>2. Len(grants[k]) \in Nat
      BY <3>1 DEF BurstFits
    <3>3. CASE k \in LiveKeys
      BY <3>1, <3>2, <3>3 DEF BurstFits
    <3>4. CASE k \notin LiveKeys
      BY <2>1, <3>1, <3>2, <3>4 DEF BurstFits
    <3>5. QED
      BY <3>3, <3>4
  <2>2. QED
    BY <2>1 DEF BurstBound
<1>2. QED
  BY <1>1, BurstInit, BurstStep, PTL DEF SpecH
=============================================================================
