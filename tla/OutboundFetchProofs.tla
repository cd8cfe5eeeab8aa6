------------------------ MODULE OutboundFetchProofs ------------------------
(***************************************************************************)
(* For any web, any answers of DNS, any number of fetches and any size of  *)
(* the connection pool: requests go only to peers that the guard checked   *)
(* (unless an internationalised name hides the pin), the connections stay  *)
(* within the pool's size, and the answer of a fetch is the one that the   *)
(* web defines.                                                            *)
(***************************************************************************)
EXTENDS OutboundFetch, NetProbes, FiniteSetTheorems, WellFoundedInduction, TLAPS

Before == {"idle", "resolve", "send"}

After == {"headers", "verify", "respond", "read"}

Fields == {"pc", "tool", "start", "url", "pin", "conn", "path", "answer"}

\* PeerChecked says nothing of a fetch that is about to dial or to hand its
\* connection to the pool.  By induction a hop that is about to be sent has a
\* checked pin of the host it is for, and one that was sent has a connection.
Fit(r) ==
  /\ DOMAIN r = Fields
  /\ r.pc \in Before \cup After
  /\ r.pc \in Before => r.conn = None
  /\ r.pc = "send" => Checked(<<Host(r.url), r.pin>>)
  /\ r.pc \in After => r.conn[1] = Host(r.url) /\ Checked(r.conn)

Invariant ==
  /\ DOMAIN fetch = Fetches
  /\ \A f \in Fetches : Fit(fetch[f])
  /\ \A c \in idle : Checked(c)

\* A fetch that begins has no pin and no connection to be wrong.
LEMMA FreshFit == ASSUME NEW t, NEW u PROVE Fit(Fresh(t, u))
BY DEF Fit, Fresh, Fields, Before, After

\* The idle fetches and the empty pool fit.
LEMMA Initially == Init => Invariant
<1> SUFFICES ASSUME Init PROVE Invariant
  OBVIOUS
<1>1. PICK u : u = (CHOOSE v \in Starts : TRUE)
  OBVIOUS
<1>2. Fit([Fresh("once", u) EXCEPT !.pc = "idle"])
  BY DEF Fit, Fresh, Fields, Before, After
<1>3. QED
  BY <1>1, <1>2 DEF Init, Invariant

\* A step of one fetch keeps the invariant if it leaves that fetch fit and
\* puts only checked connections into the pool.
LEMMA Keep ==
  ASSUME Invariant, NEW f \in Fetches, DOMAIN fetch' = Fetches,
         \A g \in Fetches \ {f} : fetch'[g] = fetch[g], Fit(fetch'[f]),
         \A c \in idle' : Checked(c)
  PROVE  Invariant'
BY DEF Invariant

\* A fetch that ends leaves only checked connections behind.
LEMMA EndFit ==
  ASSUME Invariant, NEW f \in Fetches, NEW answer, End(f, answer),
         \A c \in idle' : Checked(c)
  PROVE  Invariant'
<1>1. DOMAIN fetch' = Fetches /\ \A g \in Fetches \ {f} : fetch'[g] = fetch[g]
  BY DEF End, Invariant
<1>2. Fit(fetch'[f])
  BY DEF End, Invariant, Fit, Fields, Before, After
<1>3. QED
  BY <1>1, <1>2, Keep

\* A fetch that goes on to another URL gives up its pin and connection.
LEMMA GoOnFit ==
  ASSUME Invariant, NEW f \in Fetches, NEW u, GoOn(f, u), UNCHANGED idle
  PROVE  Invariant'
<1>1. DOMAIN fetch' = Fetches /\ \A g \in Fetches \ {f} : fetch'[g] = fetch[g]
  BY DEF GoOn, Invariant
<1>2. Fit(fetch'[f])
  BY DEF GoOn, Invariant, Fit, Fields, Before, After
<1>3. QED
  BY <1>1, <1>2, Keep DEF Invariant

\* A fetch keeps its pin and connection on its way through a response.
LEMMA GotoFit ==
  ASSUME Invariant, NEW f \in Fetches, fetch[f].pc \in After, NEW l \in After,
         Goto(f, l), UNCHANGED idle
  PROVE  Invariant'
<1>1. DOMAIN fetch' = Fetches /\ \A g \in Fetches \ {f} : fetch'[g] = fetch[g]
  BY DEF Goto, Invariant
<1>2. Fit(fetch'[f])
  BY DEF Goto, Invariant, Fit, Fields, Before, After
<1>3. QED
  BY <1>1, <1>2, Keep DEF Invariant

(***************************************************************************)
(* The steps that choose, use and give back a connection.                  *)
(***************************************************************************)
LEMMA ResolveStep ==
  ASSUME Invariant, NEW f \in Fetches, Resolve(f) PROVE Invariant'
<1>1. PICK a \in Addresses[Host(fetch[f].url)] \cap Public :
        fetch' = [fetch EXCEPT ![f].pc = "send", ![f].pin = a]
  BY DEF Resolve
<1>2. DOMAIN fetch' = Fetches /\ \A g \in Fetches \ {f} : fetch'[g] = fetch[g]
  BY <1>1 DEF Invariant
<1>3. Fit(fetch'[f])
  BY <1>1 DEF Resolve, Invariant, Fit, Fields, Before, After, Checked
<1>4. QED
  BY <1>2, <1>3, Keep DEF Resolve, Invariant

\* What is sent goes to a checked address.
LEMMA SendStep ==
  ASSUME Invariant, NEW f \in Fetches, Send(f) PROVE Invariant'
<1>1. PICK c : /\ fetch' = [fetch EXCEPT ![f].pc = "headers", ![f].conn = c]
               /\ c[1] = Host(fetch[f].url) /\ Checked(c)
  <2>1. CASE Reuse(f)
    <3>1. PICK c \in idle :
            /\ c[1] = Host(fetch[f].url)
            /\ fetch' = [fetch EXCEPT ![f].pc = "headers", ![f].conn = c]
      BY <2>1 DEF Reuse
    <3>2. Checked(c)
      BY DEF Invariant
    <3>3. QED
      BY <3>1, <3>2
  <2>2. CASE Dial(f)
    <3>1. PICK c \in Dialled(f) : fetch' = [fetch EXCEPT ![f].pc = "headers", ![f].conn = c]
      BY <2>2 DEF Dial
    <3>2. PICK h : h = Host(fetch[f].url)
      OBVIOUS
    <3>3. Checked(<<h, fetch[f].pin>>)
      BY <2>2, <3>2 DEF Dial, Invariant, Fit
    <3>4. CASE h \in International
      <4>1. c[1] = h /\ c[2] \in Addresses[h]
        BY <3>1, <3>2, <3>4 DEF Dialled
      <4>2. QED
        BY <3>1, <3>2, <3>4, <4>1 DEF Checked
    <3>5. CASE h \notin International
      <4>1. c = <<h, fetch[f].pin>>
        BY <3>1, <3>2, <3>5 DEF Dialled
      <4>2. QED
        BY <3>1, <3>2, <3>3, <4>1
    <3>6. QED
      BY <3>4, <3>5
  <2>3. QED
    BY <2>1, <2>2 DEF Send
<1>2. idle' \in SUBSET idle
  BY DEF Send, Reuse, Dial
<1>3. DOMAIN fetch' = Fetches /\ \A g \in Fetches \ {f} : fetch'[g] = fetch[g]
  BY <1>1 DEF Invariant
<1>4. Fit(fetch'[f])
  BY <1>1 DEF Invariant, Fit, Fields, Before, After
<1>5. QED
  BY <1>2, <1>3, <1>4, Keep DEF Invariant

\* Headers leave pins and connections as they are.
LEMMA HeadersStep ==
  ASSUME Invariant, NEW f \in Fetches, Headers(f) PROVE Invariant'
<1>1. DOMAIN fetch' = Fetches /\ \A g \in Fetches \ {f} : fetch'[g] = fetch[g]
  BY DEF Headers, Invariant
<1>2. Fit(fetch'[f])
  BY DEF Headers, Invariant, Fit, Fields, Before, After
<1>3. QED
  BY <1>1, <1>2, Keep DEF Headers, Invariant

\* A connection that goes back to the pool is still one of its own host.
LEMMA ReadAllStep ==
  ASSUME Invariant, NEW f \in Fetches, ReadAll(f) PROVE Invariant'
<1>1. Checked(fetch[f].conn)
  BY DEF ReadAll, Invariant, Fit, After
<1>2. \A c \in idle' : Checked(c)
  BY <1>1 DEF ReadAll, Invariant
<1>3. QED
  BY <1>2, EndFit DEF ReadAll

\* A redirect keeps the invariant.
LEMMA RedirectStep ==
  ASSUME Invariant, NEW f \in Fetches, Follow(f) \/ Trace(f) PROVE Invariant'
<1>1. PICK u : u = Given(f).to
  OBVIOUS
<1>2. UNCHANGED idle /\ ((\E answer : End(f, answer)) \/ GoOn(f, u))
  BY <1>1 DEF Follow, Trace
<1>3. QED
  BY <1>2, EndFit, GoOnFit DEF Invariant

\* Whatever else a fetch does keeps the invariant.
LEMMA OtherStep ==
  ASSUME Invariant, NEW f \in Fetches, Other(f) PROVE Invariant'
<1>1. CASE \/ Refuse(f) \/ SendFails(f) \/ NoTarget(f) \/ AsItIs(f) \/ TooLarge(f) \/ ReadFails(f)
  <2>1. UNCHANGED idle /\ \E answer : End(f, answer)
    BY <1>1 DEF Refuse, SendFails, NoTarget, AsItIs, TooLarge, ReadFails
  <2>2. QED
    BY <2>1, EndFit DEF Invariant
<1>2. CASE VerifyPeer(f) \/ Read(f)
  BY <1>2, GotoFit DEF VerifyPeer, Read, After
<1>3. QED
  BY <1>1, <1>2, ResolveStep, HeadersStep, RedirectStep, ReadAllStep DEF Other

\* A fetch that begins keeps the invariant.
LEMMA ArriveStep ==
  ASSUME Invariant, NEW f \in Fetches, Arrive(f) PROVE Invariant'
<1>1. PICK t \in Tools, u \in Starts : fetch' = [fetch EXCEPT ![f] = Fresh(t, u)]
  BY DEF Arrive
<1>2. DOMAIN fetch' = Fetches /\ \A g \in Fetches \ {f} : fetch'[g] = fetch[g]
  BY <1>1 DEF Invariant
<1>3. Fit(fetch'[f])
  BY <1>1, FreshFit DEF Invariant
<1>4. QED
  BY <1>2, <1>3, Keep DEF Arrive, Invariant

\* Every step keeps the invariant.
LEMMA InvariantKept == ASSUME Invariant, [Next]_vars PROVE Invariant'
<1>1. CASE Expire
  BY <1>1 DEF Expire, Invariant
<1>2. ASSUME NEW f \in Fetches, Arrive(f) \/ Send(f) \/ Other(f) PROVE Invariant'
  BY <1>2, ArriveStep, SendStep, OtherStep
<1>3. CASE UNCHANGED vars
  BY <1>3 DEF vars, Invariant
<1>4. QED
  BY <1>1, <1>2, <1>3 DEF Next

\* A request is only ever sent to an address of its own host, and to a public
\* one unless an internationalised name hides the pin, whatever DNS answers
\* between the check and the connection and wherever redirects lead.
THEOREM PeersAreChecked == Spec => []PeerChecked
<1>1. Invariant => PeerChecked
  BY DEF Invariant, PeerChecked, InUse, Fit, Checked
<1>2. QED
  BY Initially, InvariantKept, <1>1, PTL DEF Spec

-----------------------------------------------------------------------------
\* Induction over the natural numbers, for a set instead of a predicate.
LEMMA LeastMember ==
  ASSUME NEW T \in SUBSET Nat, T # {}
  PROVE  \E m \in T : \A n \in T : m <= n
<1>1. PICK Less : Less = OpToRel(<, Nat)
  OBVIOUS
<1>2. IsWellFoundedOn(Less, Nat)
  BY <1>1, NatLessThanWellFounded, Zenon
<1>3. T \subseteq Nat
  OBVIOUS
<1>4. PICK m \in T : \A n \in T : <<n, m>> \notin Less
  BY <1>2, <1>3, WFMin, Zenon
<1>5. ASSUME NEW n \in T
      PROVE  m <= n
  <2>1. SUFFICES ASSUME n < m PROVE FALSE
    BY <1>3
  <2>2. PICK p : p = <<n, m>>
    OBVIOUS
  <2>3. p \in Nat \X Nat /\ p[1] < p[2]
    BY <1>3, <2>1, <2>2
  <2>4. p \in {ss \in Nat \X Nat : ss[1] < ss[2]}
    BY <2>3
  <2>5. p \in Less
    BY <1>1, <2>4, Zenon DEF OpToRel
  <2>6. QED
    BY <1>4, <2>2, <2>5
<1>6. QED
  BY <1>5

\* Induction over the natural numbers, for a set instead of a predicate.
LEMMA SetInduction ==
  ASSUME NEW S \in SUBSET Nat, 0 \in S, \A n \in S : n + 1 \in S
  PROVE  S = Nat
<1>1. SUFFICES ASSUME Nat \ S # {} PROVE FALSE
  OBVIOUS
<1>2. PICK m \in Nat \ S : \A n \in Nat \ S : m <= n
  BY <1>1, LeastMember
<1>3. m # 0 /\ m - 1 \in Nat
  BY <1>2
<1>4. m - 1 \in S
  BY <1>2, <1>3
<1>5. QED
  BY <1>2, <1>4

-----------------------------------------------------------------------------
\* The chain of redirects is the sequence that its definition describes.
Links(at, tool, start, m) ==
  at = [n \in 0..m |->
          IF n = 0 THEN start
          ELSE LET u == at[n - 1] IN
               IF u \in Urls /\ Follows(tool, site[u]) THEN site[u].to ELSE None]

\* The chain of redirects of a URL exists up to every length.
LEMMA LinksExist ==
  ASSUME NEW tool, NEW start
  PROVE  \A m \in Nat : \E at : Links(at, tool, start, m)
<1> DEFINE S == {m \in Nat : \E at : Links(at, tool, start, m)}
<1>1. 0 \in S
  <2>1. PICK at : at = [n \in 0..0 |-> start]
    OBVIOUS
  <2>2. at = [n \in 0..0 |->
                IF n = 0 THEN start
                ELSE LET u == at[n - 1] IN
                     IF u \in Urls /\ Follows(tool, site[u]) THEN site[u].to ELSE None]
    BY <2>1
  <2>3. QED
    BY <2>2 DEF Links
<1>2. ASSUME NEW m \in S
      PROVE  m + 1 \in S
  <2>1. PICK at : Links(at, tool, start, m)
    OBVIOUS
  <2>2. PICK next : next = IF at[m] \in Urls /\ Follows(tool, site[at[m]]) THEN site[at[m]].to ELSE None
    OBVIOUS
  <2>3. PICK on : on = [n \in 0..m + 1 |-> IF n = m + 1 THEN next ELSE at[n]]
    OBVIOUS
  <2>4. ASSUME NEW n \in 0..m + 1
        PROVE  on[n] = IF n = 0 THEN start
                       ELSE LET u == on[n - 1] IN
                            IF u \in Urls /\ Follows(tool, site[u]) THEN site[u].to ELSE None
    <3>1. CASE n = m + 1
      BY <2>2, <2>3, <3>1
    <3>2. CASE n # m + 1
      <4>1. n \in 0..m /\ (n # 0 => n - 1 \in 0..m + 1 /\ n - 1 # m + 1)
        BY <3>2
      <4>2. on[n] = at[n] /\ (n # 0 => on[n - 1] = at[n - 1])
        BY <2>3, <3>2, <4>1
      <4>3. at[n] = IF n = 0 THEN start
                    ELSE LET u == at[n - 1] IN
                         IF u \in Urls /\ Follows(tool, site[u]) THEN site[u].to ELSE None
        BY <2>1, <4>1 DEF Links
      <4>4. QED
        BY <4>1, <4>2, <4>3
    <3>3. QED
      BY <3>1, <3>2
  <2>5. Links(on, tool, start, m + 1)
    BY <2>3, <2>4 DEF Links
  <2>6. QED
    BY <2>5
<1>3. S = Nat
  <2> HIDE DEF S
  <2>1. S \in SUBSET Nat
    BY DEF S
  <2>2. QED
    BY <1>1, <1>2, <2>1, SetInduction
<1>4. QED
  BY <1>3

\* The chain of redirects goes from each URL to where it leads.
LEMMA ChainLinks ==
  ASSUME NEW tool, NEW start
  PROVE  LET at == Chain(tool, start)
         IN  /\ at[0] = start
             /\ \A n \in 0..MaxRedirects :
                  at[n + 1] = IF at[n] \in Urls /\ Follows(tool, site[at[n]]) THEN site[at[n]].to ELSE None
<1>1. PICK c : c = Chain(tool, start)
  OBVIOUS
<1>2. Links(c, tool, start, MaxRedirects + 1)
  <2>1. \E at : Links(at, tool, start, MaxRedirects + 1)
    BY LinksExist, LimitAssumption
  <2>2. QED
    BY <1>1, <2>1, Zenon DEF Chain, Links
<1>3. c[0] = start
  BY <1>2, LimitAssumption DEF Links
<1>4. ASSUME NEW n \in 0..MaxRedirects
      PROVE  c[n + 1] = IF c[n] \in Urls /\ Follows(tool, site[c[n]]) THEN site[c[n]].to ELSE None
  <2>1. PICK k : k = n + 1
    OBVIOUS
  <2>2. k \in 0..MaxRedirects + 1 /\ k # 0 /\ k - 1 = n
    BY <2>1, LimitAssumption
  <2>3. c[k] = LET u == c[k - 1] IN IF u \in Urls /\ Follows(tool, site[u]) THEN site[u].to ELSE None
    BY <1>2, <2>2 DEF Links
  <2>4. QED
    BY <2>1, <2>2, <2>3
<1>5. QED
  BY <1>1, <1>3, <1>4

-----------------------------------------------------------------------------
\* The pool: connections in use and idle ones together keep to its size.
Pool ==
  /\ idle \in SUBSET Connections
  /\ IsFiniteSet(idle) /\ IsFiniteSet(InUse)
  /\ Cardinality(InUse) + Cardinality(idle) <= MaxConnections

\* The pool holds no more than its limit, whatever one fetch does to it.
LEMMA PoolKept ==
  ASSUME Pool, NEW f \in Fetches, \A g \in Fetches \ {f} : fetch'[g] = fetch[g],
         \/ /\ fetch'[f].conn = fetch[f].conn \/ fetch'[f].conn = None
            /\ idle' \in SUBSET idle
         \/ /\ fetch[f].conn \in Connections /\ fetch'[f].conn = None
            /\ idle' = idle \cup {fetch[f].conn}
         \/ /\ fetch[f].conn = None /\ fetch'[f].conn # None
            /\ Cardinality(InUse) + Cardinality(idle) < MaxConnections /\ idle' = idle
         \/ /\ fetch[f].conn = None /\ fetch'[f].conn # None
            /\ \E c \in idle : idle' = idle \ {c}
  PROVE  Pool'
<1>1. PICK m \in Nat, n \in Nat : m = Cardinality(InUse) /\ n = Cardinality(idle)
  BY FS_CardinalityType DEF Pool
<1>2. m + n <= MaxConnections /\ MaxConnections \in Nat
  BY <1>1, LimitAssumption DEF Pool
<1>3. CASE /\ fetch'[f].conn = fetch[f].conn \/ fetch'[f].conn = None
           /\ idle' \in SUBSET idle
  <2>1. InUse' \subseteq InUse
    BY <1>3 DEF InUse
  <2>2. IsFiniteSet(InUse') /\ Cardinality(InUse') <= m /\ IsFiniteSet(idle') /\ Cardinality(idle') <= n
    BY <1>1, <1>3, <2>1, FS_Subset DEF Pool
  <2>3. Cardinality(InUse') \in Nat /\ Cardinality(idle') \in Nat
    BY <2>2, FS_CardinalityType
  <2>4. QED
    BY <1>2, <1>3, <2>2, <2>3 DEF Pool
<1>4. CASE /\ fetch[f].conn \in Connections /\ fetch'[f].conn = None
           /\ idle' = idle \cup {fetch[f].conn}
  <2>1. InUse' = InUse \ {f} /\ f \in InUse
    BY <1>4, NothingAssumption DEF InUse
  <2>2. IsFiniteSet(InUse \ {f}) /\ Cardinality(InUse \ {f}) = m - 1
    BY <1>1, <2>1, FS_RemoveElement, Zenon DEF Pool
  <2>3. PICK c : c = fetch[f].conn
    OBVIOUS
  <2>4. /\ IsFiniteSet(idle \cup {c})
        /\ Cardinality(idle \cup {c}) = IF c \in idle THEN n ELSE n + 1
    BY <1>1, FS_AddElement, Zenon DEF Pool
  <2>5. Cardinality(InUse') + Cardinality(idle') <= MaxConnections
    BY <1>1, <1>2, <1>4, <2>1, <2>2, <2>3, <2>4
  <2>6. QED
    BY <1>4, <2>1, <2>2, <2>3, <2>4, <2>5 DEF Pool
<1>5. ASSUME fetch[f].conn = None, fetch'[f].conn # None
      PROVE  IsFiniteSet(InUse') /\ Cardinality(InUse') = m + 1
  <2>1. InUse' = InUse \cup {f} /\ f \notin InUse
    BY <1>5 DEF InUse
  <2>2. IsFiniteSet(InUse \cup {f}) /\ Cardinality(InUse \cup {f}) = m + 1
    BY <1>1, <2>1, FS_AddElement, Zenon DEF Pool
  <2>3. QED
    BY <2>1, <2>2
<1>6. CASE /\ fetch[f].conn = None /\ fetch'[f].conn # None
           /\ Cardinality(InUse) + Cardinality(idle) < MaxConnections /\ idle' = idle
  BY <1>1, <1>2, <1>5, <1>6 DEF Pool
<1>7. CASE /\ fetch[f].conn = None /\ fetch'[f].conn # None
           /\ \E c \in idle : idle' = idle \ {c}
  <2>1. PICK c \in idle : idle' = idle \ {c}
    BY <1>7
  <2>2. IsFiniteSet(idle \ {c}) /\ Cardinality(idle \ {c}) = n - 1
    BY <1>1, FS_RemoveElement, Zenon DEF Pool
  <2>3. Cardinality(InUse') + Cardinality(idle') <= MaxConnections
    <3>1. Cardinality(InUse') = m + 1 /\ Cardinality(idle') = n - 1
      BY <1>5, <1>7, <2>1, <2>2
    <3>2. QED
      BY <1>2, <3>1
  <2>4. QED
    BY <1>5, <1>7, <2>1, <2>2, <2>3 DEF Pool
<1>8. QED
  BY <1>3, <1>4, <1>6, <1>7

-----------------------------------------------------------------------------
\* Where a fetch is on its chain.
Records ==
  [pc : {"idle", "resolve", "send", "headers", "verify", "respond", "read"},
   tool : Tools, start : Urls, url : Urls \cup {Invalid},
   pin : Public \cup {None}, conn : Connections \cup {None},
   path : Seq(Urls), answer : Outcomes]

\* The place on the chain of the hop under way.
Hop(r) == IF r.pc \in {"resolve", "send", "headers"} THEN Len(r.path) ELSE Len(r.path) - 1

\* A fetch under way has followed the chain, without a repetition if it traces.
Underway(r) ==
  LET at == Chain(r.tool, r.start) IN
    /\ Hop(r) \in 0..MaxRedirects
    /\ \A i \in 1..Len(r.path) : r.path[i] = at[i - 1]
    /\ r.url = at[Hop(r)]
    /\ r.tool = "trace" => \A i, j \in 0..Hop(r) : i < j => at[i] # at[j]
    /\ r.pc # "resolve" => r.url \in Urls
    /\ r.pc \in After => r.conn # None
    /\ r.pc = "read" => site[r.url].kind = "page"

\* What AnswerExact says of a fetch.
Disturbed == {"none", "blocked", "timeout", "failed", "too_large"}

Exact(r) ==
  LET at == Chain(r.tool, r.start)
      hops == Len(r.path)
      given == site[Last(r.path)]
      repeats == \E i, j \in 0..hops : i < j /\ at[i] = at[j]
  IN  /\ hops \in 1..MaxRedirects + 1
      /\ \A i \in 1..hops : r.path[i] = at[i - 1]
      /\ at[hops] = CASE r.answer = "page" -> None
                      [] r.answer = "no_location" -> IF Follows(r.tool, given) THEN NoLocation ELSE None
                      [] r.answer = "invalid_target" -> Invalid
                      [] OTHER -> given.to
      /\ r.answer \in {"too_many", "unfinished"} => hops = MaxRedirects + 1 /\ at[hops] # None
      /\ r.tool = "trace" => (r.answer = "loop" <=> repeats)

OnChain(r) ==
  /\ Len(r.path) \in 0..MaxRedirects + 1
  /\ r.pc # "idle" => Underway(r)
  /\ r.pc = "idle" /\ r.answer \notin Disturbed => Exact(r)

\* The end of a fetch that has read the answer of its last hop: the place
\* after it on the chain decides.
Ends(r, answer) ==
  LET given == site[r.url] IN
    \/ answer \in Disturbed
    \/ answer = "page" /\ ~Follows(r.tool, given)
    \/ answer = "no_location" /\ given.to = NoLocation
    \/ /\ Follows(r.tool, given) /\ given.to # NoLocation
       /\ \/ answer = "invalid_target" /\ r.tool # "trace" /\ given.to = Invalid
          \/ /\ answer = "too_many" /\ r.tool # "trace" /\ given.to # Invalid
             /\ Len(r.path) = MaxRedirects + 1
          \/ answer = "loop" /\ r.tool = "trace" /\ given.to \in ToSet(r.path)
          \/ /\ answer = "unfinished" /\ r.tool = "trace" /\ given.to \notin ToSet(r.path)
             /\ Len(r.path) = MaxRedirects + 1

\* The place after the last hop that answered.
LEMMA NextOnChain ==
  ASSUME site \in Sites, NEW r \in Records, Underway(r), r.pc \in {"verify", "respond", "read"}
  PROVE  LET at == Chain(r.tool, r.start)
             h == Len(r.path)
         IN  /\ h \in 1..MaxRedirects + 1 /\ Last(r.path) = r.url /\ r.url \in Urls
             /\ at[h] = IF Follows(r.tool, site[r.url]) THEN site[r.url].to ELSE None
             /\ \A i \in 0..h - 1 : at[i] \in Urls /\ at[i] \in ToSet(r.path)
             /\ \A u \in ToSet(r.path) : \E i \in 0..h - 1 : at[i] = u
<1>1. PICK at : at = Chain(r.tool, r.start)
  OBVIOUS
<1>2. PICK h : h = Len(r.path)
  OBVIOUS
<1>3. r.path \in Seq(Urls) /\ h \in Nat /\ MaxRedirects \in Nat
  BY <1>2, LimitAssumption DEF Records
<1>4. h - 1 \in 0..MaxRedirects /\ r.url = at[h - 1] /\ r.url \in Urls
  BY <1>1, <1>2, <1>3 DEF Underway, Hop
<1>5. h \in 1..MaxRedirects + 1
  BY <1>3, <1>4
<1>6. \A i \in 1..h : r.path[i] = at[i - 1] /\ r.path[i] \in Urls
  BY <1>1, <1>2, <1>3 DEF Underway
<1>7. Last(r.path) = r.url
  BY <1>2, <1>4, <1>5, <1>6 DEF Last
<1>8. at[h] = IF Follows(r.tool, site[r.url]) THEN site[r.url].to ELSE None
  <2>1. PICK n : n = h - 1
    OBVIOUS
  <2>2. n \in 0..MaxRedirects /\ n + 1 = h
    BY <1>4, <1>5, <2>1
  <2>3. at[n + 1] = IF at[n] \in Urls /\ Follows(r.tool, site[at[n]]) THEN site[at[n]].to ELSE None
    BY <1>1, <2>2, ChainLinks
  <2>4. QED
    BY <1>4, <2>1, <2>2, <2>3
<1>9. \A i \in 0..h - 1 : at[i] \in Urls /\ at[i] \in ToSet(r.path)
  <2>1. ASSUME NEW i \in 0..h - 1
        PROVE  at[i] \in Urls /\ at[i] \in ToSet(r.path)
    <3>1. PICK k : k = i + 1
      OBVIOUS
    <3>2. k \in 1..h /\ k - 1 = i
      BY <1>5, <3>1
    <3>3. r.path[k] = at[i] /\ r.path[k] \in Urls /\ k \in DOMAIN r.path
      BY <1>2, <1>3, <1>6, <3>2
    <3>4. QED
      BY <3>3 DEF ToSet
  <2>2. QED
    BY <2>1
<1>10. ASSUME NEW u \in ToSet(r.path)
       PROVE  \E i \in 0..h - 1 : at[i] = u
  <2>1. PICK k \in 1..h : u = r.path[k]
    BY <1>2, <1>3 DEF ToSet
  <2>2. k - 1 \in 0..h - 1 /\ at[k - 1] = u
    BY <1>5, <1>6, <2>1
  <2>3. QED
    BY <2>2
<1>11. QED
  BY <1>1, <1>2, <1>5, <1>4, <1>7, <1>8, <1>9, <1>10

\* Whatever ends a fetch, its answer is the one the web defines.
LEMMA EndExact ==
  ASSUME site \in Sites, NEW r \in Records, Underway(r), r.pc \in {"verify", "respond", "read"},
         NEW e, e.pc = "idle", e.tool = r.tool, e.start = r.start, e.path = r.path,
         e.answer \in Outcomes, Ends(r, e.answer)
  PROVE  OnChain(e)
<1>1. PICK at : at = Chain(r.tool, r.start)
  OBVIOUS
<1>2. PICK h : h = Len(r.path)
  OBVIOUS
<1>3. PICK given : given = site[r.url]
  OBVIOUS
<1>4. /\ h \in 1..MaxRedirects + 1 /\ Last(r.path) = r.url /\ r.url \in Urls
      /\ at[h] = IF Follows(r.tool, given) THEN given.to ELSE None
      /\ \A i \in 0..h - 1 : at[i] \in Urls /\ at[i] \in ToSet(r.path)
      /\ \A u \in ToSet(r.path) : \E i \in 0..h - 1 : at[i] = u
  BY <1>1, <1>2, <1>3, NextOnChain
<1>5. \A i \in 1..h : r.path[i] = at[i - 1]
  BY <1>1, <1>2 DEF Underway
<1>6. given.to \in Urls \cup {Invalid, NoLocation}
  BY <1>3, <1>4, WebAssumption DEF Answers
<1>7. SUFFICES ASSUME e.answer \notin Disturbed PROVE Exact(e)
  BY <1>2, <1>4, LimitAssumption DEF OnChain
<1>8. h \in Nat /\ MaxRedirects \in Nat
  BY <1>4, LimitAssumption
<1>9. at[h] = CASE e.answer = "page" -> None
               [] e.answer = "no_location" -> IF Follows(e.tool, given) THEN NoLocation ELSE None
               [] e.answer = "invalid_target" -> Invalid
               [] OTHER -> given.to
  BY <1>3, <1>4, <1>7 DEF Ends
<1>10. e.answer \in {"too_many", "unfinished"} => h = MaxRedirects + 1 /\ at[h] # None
  BY <1>2, <1>3, <1>4, <1>6, <1>7, NothingAssumption DEF Ends
<1>11. ASSUME e.tool = "trace"
       PROVE  e.answer = "loop" <=> \E i, j \in 0..h : i < j /\ at[i] = at[j]
  <2>1. \A i, j \in 0..h - 1 : i < j => at[i] # at[j]
    BY <1>1, <1>2, <1>11 DEF Underway, Hop
  <2>2. CASE e.answer = "loop"
    <3>1. at[h] \in ToSet(r.path)
      BY <1>3, <1>4, <1>7, <2>2 DEF Ends, Disturbed
    <3>2. PICK i \in 0..h - 1 : at[i] = at[h]
      BY <1>4, <3>1
    <3>3. i \in 0..h /\ h \in 0..h /\ i < h
      BY <1>8
    <3>4. QED
      BY <2>2, <3>2, <3>3
  <2>3. CASE e.answer # "loop"
    <3>1. at[h] \notin ToSet(r.path) \/ at[h] \notin Urls
      BY <1>3, <1>4, <1>7, <1>11, <2>3, NothingAssumption DEF Ends
    <3>2. \A i \in 0..h - 1 : at[i] # at[h]
      BY <1>4, <3>1
    <3>3. ASSUME NEW i \in 0..h, NEW j \in 0..h, i < j
          PROVE  at[i] # at[j]
      <4>1. CASE j = h
        BY <1>8, <3>2, <3>3, <4>1
      <4>2. CASE j # h
        BY <1>8, <2>1, <3>3, <4>2
      <4>3. QED
        BY <4>1, <4>2
    <3>4. QED
      BY <2>3, <3>3
  <2>4. QED
    BY <2>2, <2>3
<1>12. QED
  BY <1>1, <1>2, <1>3, <1>4, <1>5, <1>9, <1>10, <1>11 DEF Exact

-----------------------------------------------------------------------------
\* The chain does not change: the web does not.
LEMMA SameChain ==
  ASSUME site' = site, NEW r
  PROVE  OnChain(r)' <=> OnChain(r)
BY DEF OnChain, Underway, Exact, Chain

Sound ==
  /\ Invariant
  /\ site \in Sites
  /\ fetch \in [Fetches -> Records]
  /\ \A f \in Fetches : OnChain(fetch[f])
  /\ Pool

\* What a step of one fetch has to show, beside what Invariant asks.
Moves(f) ==
  /\ site' = site
  /\ fetch' \in [Fetches -> Records]
  /\ \A g \in Fetches \ {f} : fetch'[g] = fetch[g]
  /\ OnChain(fetch'[f])

\* One fetch that moves keeps the others on their chains.
LEMMA MovesSound ==
  ASSUME Sound, Invariant', NEW f \in Fetches, Moves(f), Pool'
  PROVE  Sound'
<1>1. ASSUME NEW g \in Fetches
      PROVE  OnChain(fetch[g])'
  <2>1. PICK r : r = fetch'[g]
    OBVIOUS
  <2>2. OnChain(r)
    BY <2>1 DEF Moves, Sound
  <2>3. OnChain(r)'
    BY <2>2, SameChain DEF Moves
  <2>4. QED
    BY <2>1, <2>3
<1>2. QED
  BY <1>1 DEF Sound, Moves

\* The connection of a fetch that is ended or goes on, or stays as it is.
LEMMA PoolLeft ==
  ASSUME Sound, NEW f \in Fetches, \A g \in Fetches \ {f} : fetch'[g] = fetch[g],
         fetch'[f].conn = fetch[f].conn \/ fetch'[f].conn = None, idle' = idle
  PROVE  Pool'
BY PoolKept DEF Sound

\* A fetch that ends as its chain says, or is disturbed, moves alone.
LEMMA EndMoves ==
  ASSUME Sound, NEW f \in Fetches, fetch[f].pc # "idle", NEW answer \in Outcomes, End(f, answer), site' = site,
         \/ answer \in Disturbed
         \/ fetch[f].pc \in {"verify", "respond", "read"} /\ Ends(fetch[f], answer)
  PROVE  Moves(f) /\ fetch'[f].conn = None
<1>1. PICK r \in Records : r = fetch[f]
  BY DEF Sound
<1>2. PICK e : e = [r EXCEPT !.pc = "idle", !.conn = None, !.pin = None, !.answer = answer]
  OBVIOUS
<1>3. fetch' = [fetch EXCEPT ![f] = e]
  BY <1>1, <1>2 DEF End, Sound
<1>4. e \in Records /\ e.conn = None
  BY <1>1, <1>2 DEF Records
<1>5. e.pc = "idle" /\ e.tool = r.tool /\ e.start = r.start /\ e.path = r.path /\ e.answer = answer
  BY <1>1, <1>2 DEF Records
<1>6. OnChain(e)
  <2>1. CASE answer \in Disturbed
    BY <1>1, <1>5, <2>1 DEF Sound, OnChain
  <2>2. CASE r.pc \in {"verify", "respond", "read"} /\ Ends(r, answer)
    <3>1. Underway(r) /\ site \in Sites
      BY <1>1, <2>2 DEF Sound, OnChain
    <3>2. QED
      BY <1>1, <1>5, <2>2, <3>1, EndExact
  <2>3. QED
    BY <1>1, <2>1, <2>2
<1>7. fetch'[f] = e /\ fetch' \in [Fetches -> Records] /\ \A g \in Fetches \ {f} : fetch'[g] = fetch[g]
  BY <1>3, <1>4 DEF Sound
<1>8. QED
  BY <1>4, <1>6, <1>7 DEF Moves

\* A fetch that ends keeps every answer on its chain.
LEMMA EndSound ==
  ASSUME Sound, Invariant', NEW f \in Fetches, fetch[f].pc # "idle", NEW answer \in Outcomes, End(f, answer),
         UNCHANGED <<site, idle>>,
         \/ answer \in Disturbed
         \/ fetch[f].pc \in {"verify", "respond", "read"} /\ Ends(fetch[f], answer)
  PROVE  Sound'
<1>1. Moves(f) /\ fetch'[f].conn = None
  BY EndMoves
<1>2. Pool'
  BY <1>1, PoolLeft DEF Moves
<1>3. QED
  BY <1>1, <1>2, MovesSound

\* The next hop is the next place on the chain.
LEMMA GoOnSound ==
  ASSUME Sound, Invariant', NEW f \in Fetches, fetch[f].pc \in {"verify", "respond", "read"},
         Follows(fetch[f].tool, site[fetch[f].url]), site[fetch[f].url].to # NoLocation,
         Len(fetch[f].path) # MaxRedirects + 1,
         fetch[f].tool = "trace" => site[fetch[f].url].to \notin ToSet(fetch[f].path),
         GoOn(f, site[fetch[f].url].to), UNCHANGED <<site, idle>>
  PROVE  Sound'
<1>1. PICK r \in Records : r = fetch[f]
  BY DEF Sound
<1>2. PICK to : to = site[r.url].to
  OBVIOUS
<1>3. PICK e : e = [r EXCEPT !.pc = "resolve", !.conn = None, !.pin = None, !.url = to]
  OBVIOUS
<1>4. PICK at : at = Chain(r.tool, r.start)
  OBVIOUS
<1>5. PICK h : h = Len(r.path)
  OBVIOUS
<1>6. Underway(r) /\ site \in Sites
  BY <1>1 DEF Sound, OnChain
<1>7. /\ h \in 1..MaxRedirects + 1 /\ r.url \in Urls /\ at[h] = to
      /\ \A i \in 0..h - 1 : at[i] \in ToSet(r.path)
  BY <1>1, <1>2, <1>4, <1>5, <1>6, NextOnChain
<1>8. to \in Urls \cup {Invalid}
  BY <1>1, <1>2, <1>6, <1>7, WebAssumption DEF Answers
<1>9. fetch' = [fetch EXCEPT ![f] = e]
  BY <1>1, <1>2, <1>3 DEF GoOn, Sound
<1>10. e \in Records
  BY <1>1, <1>3, <1>8 DEF Records
<1>11. /\ e.pc = "resolve" /\ e.conn = None /\ e.url = to
       /\ e.tool = r.tool /\ e.start = r.start /\ e.path = r.path
  BY <1>1, <1>3 DEF Records
<1>12. Hop(e) = h /\ h \in 0..MaxRedirects
  BY <1>1, <1>5, <1>7, <1>11, LimitAssumption DEF Hop
<1>13. e.tool = "trace" => \A i, j \in 0..h : i < j => at[i] # at[j]
  <2>1. SUFFICES ASSUME r.tool = "trace", NEW i \in 0..h, NEW j \in 0..h, i < j
                 PROVE  at[i] # at[j]
    BY <1>11
  <2>2. \A k \in 0..h - 1 : at[k] # at[h]
    BY <1>1, <1>2, <1>7, <2>1
  <2>3. \A k, l \in 0..h - 1 : k < l => at[k] # at[l]
    BY <1>1, <1>4, <1>5, <1>6, <2>1, ZenonT(40) DEF Underway, Hop
  <2>4. CASE j = h
    BY <1>7, <2>1, <2>2, <2>4
  <2>5. CASE j # h
    BY <1>7, <2>1, <2>3, <2>5
  <2>6. QED
    BY <2>4, <2>5
<1>14. OnChain(e)
  BY <1>4, <1>5, <1>6, <1>7, <1>11, <1>12, <1>13, LimitAssumption DEF OnChain, Underway, After
<1>15. fetch'[f] = e /\ fetch' \in [Fetches -> Records] /\ \A g \in Fetches \ {f} : fetch'[g] = fetch[g]
  BY <1>9, <1>10 DEF Sound
<1>16. Moves(f)
  BY <1>14, <1>15 DEF Moves
<1>17. Pool'
  BY <1>11, <1>15, PoolLeft
<1>18. QED
  BY <1>16, <1>17, MovesSound

\* A fetch that stays at its place on the chain.
LEMMA StayMoves ==
  ASSUME Sound, NEW f \in Fetches, site' = site, NEW e \in Records, fetch' = [fetch EXCEPT ![f] = e],
         fetch[f].pc # "idle", e.pc # "idle",
         e.tool = fetch[f].tool, e.start = fetch[f].start, e.url = fetch[f].url,
         e.path = fetch[f].path, Hop(e) = Hop(fetch[f]),
         e.pc # "resolve" => e.url \in Urls,
         e.pc \in After => e.conn # None,
         e.pc = "read" => site[e.url].kind = "page"
  PROVE  Moves(f) /\ fetch'[f] = e
<1>1. Underway(fetch[f]) /\ Len(fetch[f].path) \in 0..MaxRedirects + 1
  BY DEF Sound, OnChain
<1>2. OnChain(e)
  BY <1>1 DEF OnChain, Underway
<1>3. QED
  BY <1>2 DEF Moves, Sound

\* What the response of a hop is.
LEMMA GivenHere ==
  ASSUME Sound, NEW f \in Fetches, fetch[f].pc \in {"verify", "respond", "read"}
  PROVE  Given(f) = site[fetch[f].url] /\ fetch[f].url \in Urls
<1>1. PICK r \in Records : r = fetch[f]
  BY DEF Sound
<1>2. Underway(r) /\ site \in Sites
  BY <1>1 DEF Sound, OnChain
<1>3. Last(r.path) = r.url /\ r.url \in Urls
  BY <1>1, <1>2, NextOnChain
<1>4. QED
  BY <1>1, <1>3 DEF Given

\* A fetch that begins is at the start of its chain.
LEMMA ArriveSound ==
  ASSUME Sound, Invariant', NEW f \in Fetches, Arrive(f)
  PROVE  Sound'
<1>1. PICK t \in Tools, u \in Starts : fetch' = [fetch EXCEPT ![f] = Fresh(t, u)]
  BY DEF Arrive
<1>2. PICK e : e = Fresh(t, u)
  OBVIOUS
<1>3. /\ e.pc = "resolve" /\ e.tool = t /\ e.start = u /\ e.url = u /\ e.conn = None
      /\ e.path = << >> /\ e.pin = None /\ e.answer = "none"
  BY <1>2 DEF Fresh
<1>4. e \in Records
  <2>1. u \in Urls
    BY WebAssumption
  <2>2. QED
    BY <1>2, <2>1 DEF Fresh, Records, Outcomes
<1>5. OnChain(e)
  <2>1. Hop(e) = 0 /\ 0 \in 0..MaxRedirects /\ Len(e.path) = 0
    BY <1>3, LimitAssumption DEF Hop
  <2>2. e.url = Chain(e.tool, e.start)[0]
    BY <1>3, ChainLinks
  <2>3. Underway(e)
    BY <1>3, <2>1, <2>2 DEF Underway, After
  <2>4. QED
    BY <1>3, <2>1, <2>3, LimitAssumption DEF OnChain
<1>6. fetch'[f] = e /\ fetch' \in [Fetches -> Records] /\ \A g \in Fetches \ {f} : fetch'[g] = fetch[g]
  BY <1>1, <1>2, <1>4 DEF Sound
<1>7. Moves(f)
  BY <1>5, <1>6 DEF Moves, Arrive
<1>8. Pool'
  BY <1>3, <1>6, PoolLeft DEF Arrive
<1>9. QED
  BY <1>7, <1>8, MovesSound

\* Resolving a name keeps the fetches on their chains.
LEMMA ResolveSound ==
  ASSUME Sound, Invariant', NEW f \in Fetches, Resolve(f)
  PROVE  Sound'
<1>1. PICK r \in Records : r = fetch[f]
  BY DEF Sound
<1>2. PICK a \in Addresses[Host(r.url)] \cap Public :
        fetch' = [fetch EXCEPT ![f].pc = "send", ![f].pin = a]
  BY <1>1 DEF Resolve
<1>3. PICK e : e = [r EXCEPT !.pc = "send", !.pin = a]
  OBVIOUS
<1>4. fetch' = [fetch EXCEPT ![f] = e]
  BY <1>1, <1>2, <1>3 DEF Sound
<1>5. r.pc = "resolve" /\ r.url \in Urls
  BY <1>1 DEF Resolve, Records
<1>6. /\ e \in Records /\ e.pc = "send" /\ e.conn = r.conn /\ e.url = r.url
      /\ e.tool = r.tool /\ e.start = r.start /\ e.path = r.path /\ Hop(e) = Hop(r)
  BY <1>1, <1>3, <1>5 DEF Records, Hop
<1>7. Moves(f) /\ fetch'[f] = e
  BY <1>1, <1>4, <1>5, <1>6, StayMoves DEF Resolve, After
<1>8. Pool'
  BY <1>1, <1>6, <1>7, PoolLeft DEF Moves, Resolve
<1>9. QED
  BY <1>7, <1>8, MovesSound

\* Sending keeps the fetches on their chains.
LEMMA SendSound ==
  ASSUME Sound, Invariant', NEW f \in Fetches, Send(f)
  PROVE  Sound'
<1>1. PICK r \in Records : r = fetch[f]
  BY DEF Sound
<1>2. /\ r.pc = "send" /\ r.conn = None /\ Checked(<<Host(r.url), r.pin>>)
      /\ r.url \in Urls /\ site' = site
  BY <1>1 DEF Send, Reuse, Dial, Sound, Invariant, Fit, Before, OnChain, Underway
<1>3. PICK c \in Connections : fetch' = [fetch EXCEPT ![f].pc = "headers", ![f].conn = c]
  <2>1. CASE Reuse(f)
    BY <2>1 DEF Reuse, Sound, Pool
  <2>2. CASE Dial(f)
    <3>1. PICK h : h = Host(r.url)
      OBVIOUS
    <3>2. PICK c \in Dialled(f) : fetch' = [fetch EXCEPT ![f].pc = "headers", ![f].conn = c]
      BY <2>2 DEF Dial
    <3>3. r.pin \in Addresses[h]
      BY <1>2, <3>1 DEF Checked
    <3>4. PICK a \in Addresses[h] : c = <<h, a>>
      BY <1>1, <3>1, <3>2, <3>3 DEF Dialled
    <3>5. <<h, a>> \in Connections
      BY <1>2, <3>1, <3>4 DEF Connections
    <3>6. QED
      BY <3>2, <3>4, <3>5
  <2>3. QED
    BY <2>1, <2>2 DEF Send
<1>4. PICK e : e = [r EXCEPT !.pc = "headers", !.conn = c]
  OBVIOUS
<1>5. fetch' = [fetch EXCEPT ![f] = e]
  BY <1>1, <1>3, <1>4 DEF Sound
<1>6. /\ e \in Records /\ e.pc = "headers" /\ e.conn = c /\ e.url = r.url
      /\ e.tool = r.tool /\ e.start = r.start /\ e.path = r.path /\ Hop(e) = Hop(r)
  BY <1>1, <1>2, <1>4 DEF Records, Hop
<1>7. Moves(f) /\ fetch'[f] = e
  BY <1>1, <1>2, <1>5, <1>6, StayMoves, NothingAssumption
<1>8. fetch[f].conn = None /\ fetch'[f].conn # None
  BY <1>1, <1>2, <1>6, <1>7, NothingAssumption
<1>9. \/ Cardinality(InUse) + Cardinality(idle) < MaxConnections /\ idle' = idle
      \/ \E d \in idle : idle' = idle \ {d}
  BY DEF Send, Reuse, Dial
<1>10. Pool'
  BY <1>7, <1>8, <1>9, PoolKept DEF Moves, Sound
<1>11. QED
  BY <1>7, <1>10, MovesSound

\* Headers keep the fetches on their chains.
LEMMA HeadersSound ==
  ASSUME Sound, Invariant', NEW f \in Fetches, Headers(f)
  PROVE  Sound'
<1>1. PICK r \in Records : r = fetch[f]
  BY DEF Sound
<1>2. PICK place \in {"verify", "respond"} :
        fetch' = [fetch EXCEPT ![f].pc = place, ![f].path = Append(r.path, r.url)]
  BY <1>1 DEF Headers
<1>3. PICK e : e = [r EXCEPT !.pc = place, !.path = Append(r.path, r.url)]
  OBVIOUS
<1>4. fetch' = [fetch EXCEPT ![f] = e]
  BY <1>1, <1>2, <1>3 DEF Sound
<1>5. r.pc = "headers" /\ Underway(r) /\ r.url \in Urls /\ r.path \in Seq(Urls)
  BY <1>1 DEF Headers, Sound, OnChain, Underway, Records
<1>6. Append(r.path, r.url) \in Seq(Urls)
  BY <1>5
<1>7. /\ e \in Records /\ e.pc = place /\ e.conn = r.conn /\ e.url = r.url
      /\ e.tool = r.tool /\ e.start = r.start /\ e.path = Append(r.path, r.url)
  BY <1>1, <1>3, <1>6 DEF Records
<1>8. PICK at : at = Chain(r.tool, r.start)
  OBVIOUS
<1>9. PICK h : h = Len(r.path)
  OBVIOUS
<1>10. h \in 0..MaxRedirects /\ Hop(r) = h /\ r.url = at[h] /\ \A i \in 1..h : r.path[i] = at[i - 1]
  BY <1>5, <1>8, <1>9 DEF Underway, Hop
<1>11. Len(e.path) = h + 1 /\ Hop(e) = h /\ e.conn # None
  BY <1>5, <1>7, <1>9, <1>10 DEF Hop, Underway, After
<1>12. ASSUME NEW i \in 1..Len(e.path)
       PROVE  e.path[i] = at[i - 1]
  <2>1. CASE i = h + 1
    BY <1>5, <1>7, <1>9, <1>10, <2>1
  <2>2. CASE i # h + 1
    BY <1>5, <1>7, <1>9, <1>10, <1>11, <2>2
  <2>3. QED
    BY <2>1, <2>2
<1>13. OnChain(e)
  BY <1>5, <1>7, <1>8, <1>10, <1>11, <1>12, LimitAssumption DEF OnChain, Underway
<1>14. fetch'[f] = e /\ fetch' \in [Fetches -> Records] /\ \A g \in Fetches \ {f} : fetch'[g] = fetch[g]
  BY <1>4, <1>7 DEF Sound
<1>15. Moves(f)
  BY <1>13, <1>14 DEF Moves, Headers
<1>16. Pool'
  BY <1>1, <1>7, <1>14, PoolLeft DEF Headers
<1>17. QED
  BY <1>15, <1>16, MovesSound

\* Checking the peer and reading keep the fetches on their chains.
LEMMA GotoSound ==
  ASSUME Sound, Invariant', NEW f \in Fetches, VerifyPeer(f) \/ Read(f)
  PROVE  Sound'
<1>1. PICK r \in Records : r = fetch[f]
  BY DEF Sound
<1>2. PICK place \in {"respond", "read"} :
        /\ fetch' = [fetch EXCEPT ![f].pc = place]
        /\ place = "read" => Given(f).kind = "page"
  BY DEF VerifyPeer, Read, Goto
<1>3. PICK e : e = [r EXCEPT !.pc = place]
  OBVIOUS
<1>4. fetch' = [fetch EXCEPT ![f] = e]
  BY <1>1, <1>2, <1>3 DEF Sound
<1>5. r.pc \in {"verify", "respond"} /\ UNCHANGED <<site, idle>>
  BY <1>1 DEF VerifyPeer, Read
<1>6. Given(f) = site[r.url] /\ r.url \in Urls
  BY <1>1, <1>5, GivenHere
<1>7. /\ e \in Records /\ e.pc = place /\ e.conn = r.conn /\ e.url = r.url
      /\ e.tool = r.tool /\ e.start = r.start /\ e.path = r.path /\ Hop(e) = Hop(r)
  BY <1>1, <1>3, <1>5 DEF Records, Hop
<1>8. r.conn # None
  BY <1>1, <1>5 DEF Sound, OnChain, Underway, After
<1>9. e.pc = "read" => site[e.url].kind = "page"
  BY <1>2, <1>6, <1>7
<1>10. Moves(f) /\ fetch'[f] = e
  BY <1>1, <1>4, <1>5, <1>6, <1>7, <1>8, <1>9, StayMoves
<1>11. Pool'
  BY <1>1, <1>5, <1>7, <1>10, PoolLeft DEF Moves
<1>12. QED
  BY <1>10, <1>11, MovesSound

\* A body that was read is the answer of the end of the chain.
LEMMA ReadAllSound ==
  ASSUME Sound, Invariant', NEW f \in Fetches, ReadAll(f)
  PROVE  Sound'
<1>1. PICK r \in Records : r = fetch[f]
  BY DEF Sound
<1>2. r.pc = "read" /\ Underway(r) /\ site[r.url].kind = "page"
  BY <1>1 DEF ReadAll, Sound, OnChain, Underway
<1>3. Ends(r, "page")
  BY <1>2 DEF Ends, Follows
<1>4. Moves(f) /\ fetch'[f].conn = None
  BY <1>1, <1>2, <1>3, EndMoves DEF ReadAll, Outcomes
<1>5. r.conn \in Connections
  BY <1>1, <1>2 DEF Underway, Records, After
<1>6. Pool'
  <2>1. CASE idle' = idle
    BY <1>4, <2>1, PoolLeft DEF Moves
  <2>2. CASE idle' = idle \cup {fetch[f].conn}
    BY <1>1, <1>4, <1>5, <2>2, PoolKept DEF Moves, Sound
  <2>3. QED
    BY <2>1, <2>2 DEF ReadAll
<1>7. QED
  BY <1>4, <1>6, MovesSound

\* A response that leads nowhere is the end of the chain.
LEMMA NoTargetSound ==
  ASSUME Sound, Invariant', NEW f \in Fetches, NoTarget(f) \/ AsItIs(f)
  PROVE  Sound'
<1>1. fetch[f].pc = "respond" /\ UNCHANGED <<site, idle>>
  BY DEF NoTarget, AsItIs
<1>2. Given(f) = site[fetch[f].url]
  BY <1>1, GivenHere
<1>3. CASE NoTarget(f)
  <2>1. Ends(fetch[f], "no_location") /\ End(f, "no_location")
    BY <1>2, <1>3 DEF NoTarget, Ends
  <2>2. QED
    BY <1>1, <2>1, EndSound DEF Outcomes
<1>4. CASE AsItIs(f)
  <2>1. Ends(fetch[f], "page") /\ End(f, "page")
    BY <1>2, <1>4 DEF AsItIs, Ends
  <2>2. QED
    BY <1>1, <2>1, EndSound DEF Outcomes
<1>5. QED
  BY <1>3, <1>4

\* A redirect is the next link of the chain.
LEMMA RedirectSound ==
  ASSUME Sound, Invariant', NEW f \in Fetches, Follow(f) \/ Trace(f)
  PROVE  Sound'
<1>1. PICK to : to = site[fetch[f].url].to
  OBVIOUS
<1>2. fetch[f].pc = "respond" /\ UNCHANGED <<site, idle>>
  BY DEF Follow, Trace, Redirects
<1>3. Given(f) = site[fetch[f].url] /\ Given(f).to = to
  BY <1>1, <1>2, GivenHere
<1>4. Follows(fetch[f].tool, site[fetch[f].url]) /\ to # NoLocation
  BY <1>3 DEF Follow, Trace, Redirects
<1>5. ASSUME NEW answer \in Outcomes, End(f, answer), Ends(fetch[f], answer)
      PROVE  Sound'
  BY <1>2, <1>5, EndSound
<1>6. CASE Follow(f)
  <2>1. fetch[f].tool # "trace"
    BY <1>6 DEF Follow
  <2>2. \/ to = Invalid /\ End(f, "invalid_target")
        \/ to # Invalid /\ LastTry(f) /\ End(f, "too_many")
        \/ ~LastTry(f) /\ GoOn(f, to)
    BY <1>3, <1>6 DEF Follow
  <2>3. CASE to = Invalid /\ End(f, "invalid_target")
    BY <1>1, <1>4, <1>5, <2>1, <2>3 DEF Ends, Outcomes
  <2>4. CASE to # Invalid /\ LastTry(f) /\ End(f, "too_many")
    BY <1>1, <1>4, <1>5, <2>1, <2>4 DEF Ends, Outcomes, LastTry
  <2>5. CASE ~LastTry(f) /\ GoOn(f, to)
    BY <1>1, <1>2, <1>4, <2>1, <2>5, GoOnSound DEF LastTry
  <2>6. QED
    BY <2>2, <2>3, <2>4, <2>5
<1>7. CASE Trace(f)
  <2>1. fetch[f].tool = "trace"
    BY <1>7 DEF Trace
  <2>2. \/ to \in ToSet(fetch[f].path) /\ End(f, "loop")
        \/ to \notin ToSet(fetch[f].path) /\ LastTry(f) /\ End(f, "unfinished")
        \/ to \notin ToSet(fetch[f].path) /\ ~LastTry(f) /\ GoOn(f, to)
    BY <1>3, <1>7 DEF Trace
  <2>3. CASE to \in ToSet(fetch[f].path) /\ End(f, "loop")
    BY <1>1, <1>4, <1>5, <2>1, <2>3 DEF Ends, Outcomes
  <2>4. CASE to \notin ToSet(fetch[f].path) /\ LastTry(f) /\ End(f, "unfinished")
    BY <1>1, <1>4, <1>5, <2>1, <2>4 DEF Ends, Outcomes, LastTry
  <2>5. CASE to \notin ToSet(fetch[f].path) /\ ~LastTry(f) /\ GoOn(f, to)
    BY <1>1, <1>2, <1>4, <2>5, GoOnSound DEF LastTry
  <2>6. QED
    BY <2>2, <2>3, <2>4, <2>5
<1>8. QED
  BY <1>6, <1>7

\* Refusals, failures and timeouts end a fetch wherever it is.
LEMMA DisturbedSound ==
  ASSUME Sound, Invariant', NEW f \in Fetches,
         Refuse(f) \/ SendFails(f) \/ TooLarge(f) \/ ReadFails(f)
  PROVE  Sound'
<1>1. PICK answer \in Disturbed : End(f, answer)
  BY DEF Refuse, SendFails, TooLarge, ReadFails, Disturbed
<1>2. answer \in Outcomes /\ fetch[f].pc # "idle" /\ UNCHANGED <<site, idle>>
  BY DEF Refuse, SendFails, TooLarge, ReadFails, Disturbed, Outcomes
<1>3. QED
  BY <1>1, <1>2, EndSound

\* Idle connections that expire are no part of a chain.
LEMMA ExpireSound ==
  ASSUME Sound, Invariant', Expire
  PROVE  Sound'
<1>1. site' = site /\ fetch' = fetch
  BY DEF Expire
<1>2. Pool'
  <2>1. PICK c \in idle : idle' = idle \ {c}
    BY DEF Expire
  <2>2. InUse' = InUse
    BY <1>1 DEF InUse
  <2>3. IsFiniteSet(idle') /\ Cardinality(idle') <= Cardinality(idle)
    BY <2>1, FS_Subset DEF Sound, Pool
  <2>4. /\ Cardinality(idle') \in Nat /\ Cardinality(idle) \in Nat /\ Cardinality(InUse) \in Nat
        /\ MaxConnections \in Nat
    BY <2>3, FS_CardinalityType, LimitAssumption DEF Sound, Pool
  <2>5. QED
    BY <2>1, <2>2, <2>3, <2>4 DEF Sound, Pool
<1>3. ASSUME NEW g \in Fetches
      PROVE  OnChain(fetch[g])'
  <2>1. PICK r : r = fetch'[g]
    OBVIOUS
  <2>2. OnChain(r)'
    BY <1>1, <2>1, SameChain DEF Sound
  <2>3. QED
    BY <2>1, <2>2
<1>4. QED
  BY <1>1, <1>2, <1>3 DEF Sound

\* Nothing happens.
LEMMA StaySound ==
  ASSUME Sound, Invariant', UNCHANGED vars
  PROVE  Sound'
<1>1. site' = site /\ fetch' = fetch /\ idle' = idle
  BY DEF vars
<1>2. ASSUME NEW g \in Fetches
      PROVE  OnChain(fetch[g])'
  <2>1. PICK r : r = fetch'[g]
    OBVIOUS
  <2>2. OnChain(r)'
    BY <1>1, <2>1, SameChain DEF Sound
  <2>3. QED
    BY <2>1, <2>2
<1>3. Pool'
  BY <1>1 DEF Sound, Pool, InUse
<1>4. QED
  BY <1>1, <1>2, <1>3 DEF Sound

\* Every step keeps the fetches on their chains.
LEMMA SoundKept == ASSUME Sound, [Next]_vars PROVE Sound'
<1>1. Invariant'
  BY InvariantKept DEF Sound
<1>2. ASSUME NEW f \in Fetches, Arrive(f) \/ Send(f) \/ Other(f)
      PROVE  Sound'
  BY <1>1, <1>2, ArriveSound, SendSound, ResolveSound, HeadersSound, GotoSound, NoTargetSound,
     RedirectSound, DisturbedSound, ReadAllSound DEF Other
<1>3. QED
  BY <1>1, <1>2, ExpireSound, StaySound DEF Next

\* Nothing is under way yet.
LEMMA SoundInitially == Init => Sound
<1> SUFFICES ASSUME Init PROVE Sound
  OBVIOUS
<1>1. PICK u \in Urls : u = (CHOOSE v \in Starts : TRUE)
  BY WebAssumption
<1>2. PICK e : e = [Fresh("once", u) EXCEPT !.pc = "idle"]
  OBVIOUS
<1>3. e \in Records /\ e.pc = "idle" /\ e.answer = "none" /\ e.conn = None /\ e.path = << >>
  <2>1. PICK r : r = Fresh("once", u)
    OBVIOUS
  <2>2. r \in Records /\ r.answer = "none" /\ r.conn = None /\ r.path = << >>
    BY <1>1, <2>1 DEF Fresh, Records, Outcomes, Tools
  <2>3. e = [r EXCEPT !.pc = "idle"]
    BY <1>2, <2>1
  <2>4. QED
    BY <2>2, <2>3 DEF Records
<1>4. OnChain(e)
  BY <1>3, LimitAssumption DEF OnChain, Disturbed
<1>5. fetch = [f \in Fetches |-> e] /\ site \in Sites /\ idle = {}
  BY <1>1, <1>2 DEF Init
<1>6. InUse = {}
  BY <1>3, <1>5 DEF InUse
<1>7. Pool
  BY <1>5, <1>6, FS_EmptySet, LimitAssumption DEF Pool
<1>8. QED
  BY <1>3, <1>4, <1>5, <1>7, Initially DEF Sound

-----------------------------------------------------------------------------
\* An answer on its chain is the exact one.
LEMMA SoundExact == Sound => AnswerExact
<1> SUFFICES ASSUME Sound PROVE AnswerExact
  OBVIOUS
<1>1. TypeOK
  <2>1. ASSUME NEW f \in Fetches
        PROVE  fetch[f] \in
                 [pc : {"idle", "resolve", "send", "headers", "verify", "respond", "read"},
                  tool : Tools, start : Urls, url : Urls \cup {Invalid},
                  pin : Public \cup {None}, conn : Connections \cup {None},
                  path : BoundedSeq(Urls, MaxRedirects + 1), answer : Outcomes]
    <3>1. PICK r \in Records : r = fetch[f]
      BY DEF Sound
    <3>2. r.path \in Seq(Urls) /\ Len(r.path) \in 0..MaxRedirects + 1
      BY <3>1 DEF Sound, OnChain, Records
    <3>3. r.path \in BoundedSeq(Urls, MaxRedirects + 1)
      BY <3>2 DEF BoundedSeq, SeqOf
    <3>4. QED
      BY <3>1, <3>3 DEF Records
  <2>2. QED
    BY <2>1 DEF TypeOK, Sound, Pool
<1>2. ASSUME NEW f \in Fetches, fetch[f].pc = "idle", fetch[f].answer \notin Disturbed
      PROVE  Exact(fetch[f])
  BY <1>2 DEF Sound, OnChain
<1>3. QED
  BY <1>1, <1>2 DEF AnswerExact, Exact, Given, Disturbed

\* Unless the network or the guard interferes, the answer of a fetch is the one
\* that the web defines for its tool: the page at the end of the chain of
\* redirects, or the error of the hop where the chain breaks or the budget ends.
THEOREM AnswersAreExact == Spec => []AnswerExact
<1>1. QED
  BY SoundInitially, SoundKept, SoundExact, PTL DEF Spec

(***************************************************************************)
(* Port checks (NetProbes).  How late a check may be is the timeouts of    *)
(* the addresses tried so far and what certificate checks took meanwhile.  *)
(***************************************************************************)
ProbeParameters ==
  /\ IsFiniteSet(TlsChecks)
  /\ \A h \in Hosts : h \in Seq([kind : {"accepts", "refuses", "resets", "silent"}, delay : Nat]) /\ h # << >>
  /\ MaxTries \in Nat \ {0} /\ Timeout \in Nat /\ TlsTimeout \in Nat

Ended == {t \in TlsChecks : tls[t] = "ended"}

Slack == 2 * TlsTimeout * Cardinality(Ended)

InTime(a) == a.kind = "accepts" /\ a.delay < Timeout

PortRecords == [try : Nat \ {0}, since : Nat, verdict : {"none", "open", "closed"}, hidden : BOOLEAN]

\* An answer that has been there for a while is still unread only if the loop
\* is blocked.
Probed(p) ==
  LET q == port[p]
      a == host[p][q.try]
  IN  /\ q \in PortRecords
      /\ q.try <= Tried(p)
      /\ q.verdict = "none" =>
           /\ q.since <= now
           /\ q.since + Timeout <= q.try * Timeout + Slack
           /\ now <= q.try * Timeout + Slack
           /\ blocked <= q.try * Timeout + Slack
           /\ a.kind # "silent" /\ q.since + a.delay < now => now <= blocked
      /\ q.verdict = "open" => InTime(a)
      /\ ~q.hidden => \A k \in 1..Tried(p) :
                        k < q.try \/ q.verdict = "closed" => ~InTime(host[p][k])
      /\ q.hidden => blocked >= Timeout

ProbeInv ==
  /\ host \in [Ports -> Hosts]
  /\ now \in Nat /\ blocked \in Nat
  /\ DOMAIN port = Ports
  /\ DOMAIN tls = TlsChecks
  /\ \A p \in Ports : Probed(p)

\* What the assumptions say of the addresses that are tried.
LEMMA HostFacts ==
  ASSUME ProbeParameters, host \in [Ports -> Hosts], NEW p \in Ports
  PROVE  /\ Tried(p) \in Nat \ {0} /\ Len(host[p]) \in Nat /\ Tried(p) <= Len(host[p])
         /\ \A k \in 1..Tried(p) : host[p][k].delay \in Nat
         /\ DOMAIN host[p] = 1..Len(host[p])
         /\ \A k \in DOMAIN host[p] : k <= MaxTries => k \in 1..Tried(p)
<1>1. PICK h \in Hosts : h = host[p]
  OBVIOUS
<1>2. h \in Seq([kind : {"accepts", "refuses", "resets", "silent"}, delay : Nat]) /\ h # << >> /\ MaxTries \in Nat \ {0}
  BY DEF ProbeParameters
<1>3. Len(h) \in Nat \ {0} /\ DOMAIN h = 1..Len(h) /\ \A k \in 1..Len(h) : h[k].delay \in Nat
  <2>1. PICK R : R = [kind : {"accepts", "refuses", "resets", "silent"}, delay : Nat]
    OBVIOUS
  <2>2. Len(h) \in Nat /\ DOMAIN h = 1..Len(h) /\ \A k \in 1..Len(h) : h[k] \in R
    <3>1. h \in Seq(R)
      BY <1>2, <2>1
    <3>2. QED
      BY <3>1
  <2>3. Len(h) # 0
    BY <1>2, <2>1
  <2>4. QED
    BY <2>1, <2>2, <2>3
<1>4. QED
  BY <1>1, <1>2, <1>3 DEF Tried

\* The checks that have blocked the loop can be counted.
LEMMA SlackType ==
  ASSUME ProbeParameters
  PROVE  IsFiniteSet(Ended) /\ Cardinality(Ended) \in Nat /\ Slack \in Nat
<1>1. IsFiniteSet(Ended) /\ Cardinality(Ended) \in Nat
  BY FS_Subset, FS_CardinalityType DEF ProbeParameters, Ended
<1>2. \A x, y \in Nat : 2 * x * y \in Nat
  OBVIOUS
<1>3. QED
  BY <1>1, <1>2 DEF Slack, ProbeParameters

\* Multiples of the timeout.
LEMMA TimesType ==
  ASSUME ProbeParameters, NEW n \in Nat
  PROVE  n * Timeout \in Nat /\ (n + 1) * Timeout = n * Timeout + Timeout /\ 1 * Timeout = Timeout
BY DEF ProbeParameters

\* No address was tried yet.
LEMMA ProbeInit == ProbeParameters /\ ProbesInit => ProbeInv
<1> SUFFICES ASSUME ProbeParameters, ProbesInit PROVE ProbeInv
  OBVIOUS
<1>1. /\ host \in [Ports -> Hosts] /\ now = 0 /\ blocked = 0
      /\ DOMAIN port = Ports /\ DOMAIN tls = TlsChecks
      /\ \A p \in Ports : port[p] = [try |-> 1, since |-> 0, verdict |-> "none", hidden |-> FALSE]
  BY DEF ProbesInit
<1>2. ASSUME NEW p \in Ports
      PROVE  Probed(p)
  <2>1. PICK q \in PortRecords : q = port[p] /\ q.try = 1 /\ q.since = 0 /\ q.verdict = "none" /\ q.hidden = FALSE
    <3>1. PICK q : q = [try |-> 1, since |-> 0, verdict |-> "none", hidden |-> FALSE]
      OBVIOUS
    <3>2. q \in PortRecords /\ q.try = 1 /\ q.since = 0 /\ q.verdict = "none" /\ q.hidden = FALSE
      BY <3>1 DEF PortRecords
    <3>3. QED
      BY <1>1, <3>1, <3>2
  <2>2. Tried(p) >= 1 /\ host[p][1].delay \in Nat
    BY <1>1, HostFacts
  <2>3. Slack \in Nat /\ 1 * Timeout = Timeout /\ Timeout \in Nat
    BY SlackType DEF ProbeParameters
  <2>4. QED
    BY <1>1, <2>1, <2>2, <2>3 DEF Probed
<1>3. QED
  BY <1>1, <1>2 DEF ProbeInv

\* The next address, or the end of the check, after an answer that is not one
\* in time or has been lost.
LEMMA NextProbed ==
  ASSUME ProbeParameters, ProbeInv, NEW p \in Ports, Trying(p), Free, NEW lost \in BOOLEAN,
         NextAddress(p, lost), UNCHANGED <<host, now, blocked, tls>>,
         lost => blocked >= Timeout, ~lost => ~InTime(Answer(p))
  PROVE  ProbeInv'
<1>1. PICK q \in PortRecords : q = port[p]
  BY DEF ProbeInv, Probed
<1>2. PICK n \in Nat \ {0} : n = Tried(p)
  BY HostFacts DEF ProbeInv
<1>3. /\ q.try \in 1..n /\ q.verdict = "none" /\ now <= q.try * Timeout + Slack
      /\ ~q.hidden => \A k \in 1..n : k < q.try => ~InTime(host[p][k])
      /\ q.hidden => blocked >= Timeout
      /\ ~lost => ~InTime(host[p][q.try])
  BY <1>1, <1>2 DEF ProbeInv, Probed, Trying, Answer, PortRecords
<1>4. PICK known \in BOOLEAN : known = (q.hidden \/ lost)
  OBVIOUS
<1>5. PICK r : /\ r = IF q.try < n
                      THEN [q EXCEPT !.try = q.try + 1, !.since = now, !.hidden = known]
                      ELSE [q EXCEPT !.verdict = "closed", !.hidden = known]
               /\ port' = [port EXCEPT ![p] = r]
  <2>1. CASE q.try < n
    BY <1>1, <1>2, <1>4, <2>1 DEF NextAddress, ProbeInv
  <2>2. CASE ~(q.try < n)
    BY <1>1, <1>2, <1>4, <2>2 DEF NextAddress, ProbeInv
  <2>3. QED
    BY <2>1, <2>2
<1>6. /\ now \in Nat /\ blocked \in Nat /\ blocked <= now /\ Slack \in Nat /\ Slack' = Slack
      /\ Tried(p)' = Tried(p)
  BY SlackType DEF ProbeInv, Free, Slack, Ended, Tried
<1>7. /\ r \in PortRecords
      /\ r.hidden = known
      /\ IF q.try < n THEN r.try = q.try + 1 /\ r.since = now /\ r.verdict = "none"
                      ELSE r.try = q.try /\ r.verdict = "closed"
  <2>1. CASE q.try < n
    <3>1. r = [q EXCEPT !.try = q.try + 1, !.since = now, !.hidden = known]
      BY <1>5, <2>1
    <3>2. q.try + 1 \in Nat \ {0}
      BY <1>3
    <3>3. QED
      BY <1>3, <1>6, <2>1, <3>1, <3>2 DEF PortRecords
  <2>2. CASE ~(q.try < n)
    <3>1. r = [q EXCEPT !.verdict = "closed", !.hidden = known]
      BY <1>5, <2>2
    <3>2. QED
      BY <2>2, <3>1 DEF PortRecords
  <2>3. QED
    BY <2>1, <2>2
<1>8. r.hidden => blocked >= Timeout
  BY <1>3, <1>4, <1>7
<1>9. ~r.hidden => \A k \in 1..n : k < r.try \/ r.verdict = "closed" => ~InTime(host[p][k])
  <2>1. SUFFICES ASSUME ~r.hidden, NEW k \in 1..n, k < r.try \/ r.verdict = "closed"
                 PROVE  ~InTime(host[p][k])
    OBVIOUS
  <2>2. k < q.try \/ k = q.try
    BY <1>3, <1>7, <2>1
  <2>3. QED
    BY <1>3, <1>4, <1>7, <2>1, <2>2
<1>10. r.verdict = "none" =>
         /\ r.since <= now
         /\ r.since + Timeout <= r.try * Timeout + Slack
         /\ now <= r.try * Timeout + Slack
         /\ blocked <= r.try * Timeout + Slack
         /\ r.since + host[p][r.try].delay < now => now <= blocked
  <2>1. SUFFICES ASSUME r.verdict = "none"
                 PROVE  /\ now + Timeout <= r.try * Timeout + Slack
                        /\ r.since = now /\ host[p][r.try].delay \in Nat
    <3>1. Timeout \in Nat /\ r.try * Timeout \in Nat
      BY TimesType, <1>7 DEF ProbeParameters, PortRecords
    <3>2. QED
      BY <1>6, <2>1, <3>1
  <2>2. r.try = q.try + 1 /\ r.since = now /\ r.try \in 1..n
    BY <1>3, <1>7, <2>1
  <2>3. r.try * Timeout = q.try * Timeout + Timeout /\ q.try * Timeout \in Nat /\ Timeout \in Nat
    BY <1>3, <2>2, TimesType DEF ProbeParameters
  <2>4. host[p][r.try].delay \in Nat
    BY <1>2, <2>2, HostFacts DEF ProbeInv
  <2>5. QED
    BY <1>3, <1>6, <2>2, <2>3, <2>4
<1>11. Probed(p)'
  <2>1. port'[p] = r
    BY <1>5 DEF ProbeInv
  <2>2. r.try <= n /\ r.verdict # "open"
    BY <1>3, <1>7
  <2>3. QED
    BY <1>2, <1>6, <1>7, <1>8, <1>9, <1>10, <2>1, <2>2 DEF Probed, InTime
<1>12. ASSUME NEW g \in Ports \ {p}
       PROVE  Probed(g)'
  <2>1. port'[g] = port[g] /\ Tried(g)' = Tried(g) /\ Probed(g)
    BY <1>5 DEF ProbeInv, Tried
  <2>2. QED
    BY <1>6, <2>1 DEF Probed, InTime
<1>13. QED
  BY <1>5, <1>11, <1>12 DEF ProbeInv

\* A timeout keeps what is known of every port.
LEMMA TimesOutProbed ==
  ASSUME ProbeParameters, ProbeInv, NEW p \in Ports, TimesOut(p)
  PROVE  ProbeInv'
<1>1. PICK lost \in BOOLEAN : /\ NextAddress(p, lost)
                              /\ lost <=> InTime(Answer(p))
  BY DEF TimesOut, InTime
<1>2. PICK q \in PortRecords : q = port[p]
  BY DEF ProbeInv, Probed
<1>3. PICK a : a = host[p][q.try]
  OBVIOUS
<1>4. /\ Free /\ q.verdict = "none" /\ q.since + Timeout <= now /\ Probed(p)
      /\ Answer(p) = a
  BY <1>2, <1>3 DEF TimesOut, Trying, Expired, Deadline, Answer, ProbeInv
<1>5. a.delay \in Nat
  BY <1>2, <1>3, <1>4, HostFacts DEF ProbeInv, Probed, PortRecords
<1>6. InTime(a) => blocked >= Timeout
  <2>1. SUFFICES ASSUME InTime(a) PROVE blocked >= Timeout
    OBVIOUS
  <2>2. a.kind # "silent" /\ q.since + a.delay < now
    BY <1>2, <1>4, <1>5, <2>1 DEF InTime, PortRecords, ProbeParameters, ProbeInv
  <2>3. now <= blocked
    BY <1>2, <1>3, <1>4, <2>2 DEF Probed
  <2>4. QED
    BY <1>2, <1>4, <2>3 DEF PortRecords, ProbeParameters, ProbeInv
<1>7. QED
  BY <1>1, <1>4, <1>6, NextProbed DEF TimesOut

\* A connection keeps what is known of every port.
LEMMA ConnectsProbed ==
  ASSUME ProbeParameters, ProbeInv, NEW p \in Ports, Connects(p)
  PROVE  ProbeInv'
<1>1. PICK q \in PortRecords : q = port[p]
  BY DEF ProbeInv, Probed
<1>2. PICK a : a = host[p][q.try]
  OBVIOUS
<1>3. /\ Free /\ q.verdict = "none" /\ q.since + a.delay <= now /\ ~(q.since + Timeout <= now)
      /\ Probed(p) /\ Answer(p) = a
  BY <1>1, <1>2 DEF Connects, Trying, Expired, Deadline, Arrived,
     Answer, ProbeInv
<1>4. a.delay \in Nat
  BY <1>1, <1>2, <1>3, HostFacts DEF ProbeInv, Probed, PortRecords
<1>5. CASE a.kind # "accepts"
  <2>1. NextAddress(p, FALSE) /\ ~InTime(Answer(p))
    BY <1>3, <1>5 DEF Connects, InTime
  <2>2. QED
    BY <1>3, <2>1, NextProbed DEF Connects
<1>6. CASE a.kind = "accepts"
  <2>1. PICK r : r = [q EXCEPT !.verdict = "open"]
    OBVIOUS
  <2>2. port' = [port EXCEPT ![p] = r]
    BY <1>1, <1>3, <1>6, <2>1 DEF Connects
  <2>3. r \in PortRecords /\ r.try = q.try /\ r.verdict = "open" /\ r.hidden = q.hidden
    BY <1>1, <2>1 DEF PortRecords
  <2>4. InTime(a)
    BY <1>1, <1>3, <1>4, <1>6 DEF InTime, PortRecords, ProbeParameters, ProbeInv
  <2>5. UNCHANGED <<host, now, blocked, tls>> /\ Slack' = Slack
    BY DEF Connects, Slack, Ended
  <2>6. Probed(p)'
    <3>1. port'[p] = r /\ Tried(p)' = Tried(p)
      BY <2>2, <2>5 DEF ProbeInv, Tried
    <3>2. QED
      BY <1>1, <1>2, <1>3, <2>3, <2>4, <2>5, <3>1 DEF Probed, InTime
  <2>7. ASSUME NEW g \in Ports \ {p}
        PROVE  Probed(g)'
    <3>1. port'[g] = port[g] /\ Tried(g)' = Tried(g) /\ Probed(g)
      BY <2>2, <2>5 DEF ProbeInv, Tried
    <3>2. QED
      BY <2>5, <3>1 DEF Probed, InTime
  <2>8. QED
    BY <2>2, <2>5, <2>6, <2>7 DEF ProbeInv
<1>7. QED
  BY <1>5, <1>6

\* While a check of a certificate holds the loop, the slack of every port grows
\* by as much.
LEMMA TlsProbed ==
  ASSUME ProbeParameters, ProbeInv, NEW t \in TlsChecks, TlsAsked(t) \/ TlsLookup(t)
  PROVE  ProbeInv'
<1>1. UNCHANGED <<host, now, port>> /\ now \in Nat /\ blocked \in Nat /\ DOMAIN tls' = TlsChecks
  BY DEF TlsAsked, TlsLookup, ProbeInv
<1>2. PICK n \in Nat : n = Cardinality(Ended) /\ IsFiniteSet(Ended) /\ Slack = 2 * TlsTimeout * n
  BY SlackType DEF Slack
<1>3. CASE TlsAsked(t)
  <2>1. blocked' = blocked /\ Ended' = Ended
    BY <1>3 DEF TlsAsked, Ended, ProbeInv
  <2>2. Slack' = Slack
    BY <2>1 DEF Slack
  <2>3. ASSUME NEW p \in Ports
        PROVE  Probed(p)'
    <3>1. Probed(p) /\ Tried(p)' = Tried(p)
      BY <1>1 DEF ProbeInv, Tried
    <3>2. QED
      BY <1>1, <2>1, <2>2, <3>1 DEF Probed, InTime
  <2>4. QED
    BY <1>1, <2>1, <2>3 DEF ProbeInv
<1>4. CASE TlsLookup(t)
  <2>1. PICK d \in 0..(2 * TlsTimeout) : blocked' = now + d
    BY <1>4 DEF TlsLookup
  <2>2. blocked <= now /\ t \notin Ended /\ Ended' = Ended \cup {t}
    BY <1>4 DEF TlsLookup, Free, Ended, ProbeInv
  <2>3. Cardinality(Ended \cup {t}) = n + 1
    BY <1>2, <2>2, FS_AddElement, Zenon
  <2>4. PICK m \in Nat : m = 2 * TlsTimeout
    BY DEF ProbeParameters
  <2>5. Slack' = Slack + m /\ Slack \in Nat
    <3>1. Slack' = m * (n + 1) /\ Slack = m * n
      BY <1>2, <2>2, <2>3, <2>4 DEF Slack
    <3>2. m * (n + 1) = m * n + m /\ m * n \in Nat
      OBVIOUS
    <3>3. QED
      BY <3>1, <3>2
  <2>6. blocked' \in Nat /\ blocked <= blocked' /\ now <= blocked' /\ blocked' <= now + m
    BY <1>1, <2>1, <2>2, <2>4
  <2>7. ASSUME NEW p \in Ports
        PROVE  Probed(p)'
    <3>1. Probed(p) /\ Tried(p)' = Tried(p)
      BY <1>1 DEF ProbeInv, Tried
    <3>2. PICK q \in PortRecords : q = port[p] /\ q = port'[p]
      BY <1>1, <3>1 DEF Probed
    <3>3. q.try * Timeout \in Nat /\ Timeout \in Nat /\ q.since \in Nat
      BY TimesType DEF ProbeParameters, PortRecords
    <3>4. q.verdict = "none" =>
            /\ q.since + Timeout <= q.try * Timeout + Slack'
            /\ now <= q.try * Timeout + Slack'
            /\ blocked' <= q.try * Timeout + Slack'
      BY <1>1, <2>4, <2>5, <2>6, <3>1, <3>2, <3>3 DEF Probed
    <3>5. q.hidden => blocked' >= Timeout
      BY <1>1, <2>6, <3>1, <3>2, <3>3 DEF Probed
    <3>6. QED
      BY <1>1, <2>6, <3>1, <3>2, <3>4, <3>5 DEF Probed, InTime
  <2>8. QED
    BY <1>1, <2>6, <2>7 DEF ProbeInv
<1>5. QED
  BY <1>3, <1>4

\* Time only passes an answer or a deadline while the loop is blocked.
LEMMA TickProbed ==
  ASSUME ProbeParameters, ProbeInv, Tick
  PROVE  ProbeInv'
<1>1. now \in Nat /\ now' = now + 1 /\ UNCHANGED <<host, blocked, port, tls>> /\ blocked \in Nat
  BY DEF Tick, ProbeInv
<1>2. Slack' = Slack /\ Slack \in Nat
  BY <1>1, SlackType DEF Slack, Ended
<1>3. ASSUME NEW p \in Ports
      PROVE  Probed(p)'
  <2>1. PICK q \in PortRecords : q = port[p]
    BY DEF ProbeInv, Probed
  <2>2. PICK a : a = host[p][q.try]
    OBVIOUS
  <2>3. Probed(p) /\ Tried(p)' = Tried(p)
    BY <1>1 DEF ProbeInv, Tried
  <2>4. q.since \in Nat /\ q.try * Timeout \in Nat /\ Timeout \in Nat
    BY TimesType DEF ProbeParameters, PortRecords
  <2>5. a.delay \in Nat
    BY <2>1, <2>2, <2>3, HostFacts DEF ProbeInv, Probed, PortRecords
  <2>6. SUFFICES ASSUME q.verdict = "none"
                 PROVE  /\ q.since <= now'
                        /\ now' <= q.try * Timeout + Slack
                        /\ a.kind # "silent" /\ q.since + a.delay < now' => now' <= blocked
    BY <1>1, <1>2, <2>1, <2>2, <2>3 DEF Probed, InTime
  <2>7. q.since <= now /\ q.since + Timeout <= q.try * Timeout + Slack /\ blocked <= q.try * Timeout + Slack
    BY <2>1, <2>3, <2>6 DEF Probed
  <2>8. CASE blocked > now
    BY <1>1, <1>2, <2>4, <2>7, <2>8
  <2>9. CASE ~(blocked > now)
    <3>1. /\ ~(a.kind # "silent" /\ q.since + a.delay <= now)
          /\ ~(q.since + Timeout <= now)
      BY <1>1, <2>1, <2>2, <2>6, <2>9 DEF Tick, Free, Trying, Arrived, Expired,
         Deadline, Answer
    <3>2. QED
      BY <1>1, <1>2, <2>4, <2>5, <2>7, <3>1
  <2>10. QED
    BY <2>8, <2>9
<1>4. QED
  BY <1>1, <1>3 DEF ProbeInv

\* Every step keeps what is known of every port.
LEMMA ProbeStep ==
  ASSUME ProbeParameters, ProbeInv, [ProbesNext]_(probeVars)
  PROVE  ProbeInv'
<1>1. CASE UNCHANGED probeVars
  <2>1. UNCHANGED <<host, now, blocked, port, tls>>
    BY <1>1 DEF probeVars
  <2>2. Slack' = Slack
    BY <2>1 DEF Slack, Ended
  <2>3. ASSUME NEW p \in Ports
        PROVE  Probed(p)'
    <3>1. Probed(p) /\ Tried(p)' = Tried(p)
      BY <2>1 DEF ProbeInv, Tried
    <3>2. QED
      BY <2>1, <2>2, <3>1 DEF Probed, InTime
  <2>4. QED
    BY <2>1, <2>3 DEF ProbeInv
<1>2. QED
  BY <1>1, TimesOutProbed, ConnectsProbed, TlsProbed, TickProbed DEF ProbesNext

\* NetProbes counts with the same Cardinality.
\* Whatever the addresses do and however often a certificate check holds the
\* loop, a port is only called what its addresses show, unless the loop has lost
\* an answer, and no check takes longer than its timeouts and the loop's pauses.
THEOREM VerdictsTruthful ==
  ASSUME ProbeParameters PROVE ProbesSpec => []PortsTruthful
<1>1. ProbeInv => PortsTruthful
  <2>1. ASSUME ProbeInv, NEW p \in Ports
        PROVE  /\ port[p].verdict = "open" => InTime(Answer(p))
               /\ port[p].verdict = "closed" /\ ~port[p].hidden =>
                    \A k \in DOMAIN host[p] : k <= MaxTries => ~InTime(host[p][k])
               /\ port[p].hidden => blocked >= Timeout
               /\ Trying(p) => now <= Tried(p) * Timeout + Slack
    <3>1. PICK q \in PortRecords : q = port[p]
      BY <2>1 DEF ProbeInv, Probed
    <3>2. Probed(p)
      BY <2>1 DEF ProbeInv
    <3>3. PICK n \in Nat \ {0} : n = Tried(p) /\ \A k \in DOMAIN host[p] : k <= MaxTries => k \in 1..n
      BY <2>1, HostFacts DEF ProbeInv
    <3>4. q.verdict = "none" => now <= n * Timeout + Slack
      <4>1. q.try \in 1..n /\ Timeout \in Nat
        BY <3>1, <3>2, <3>3 DEF Probed, PortRecords, ProbeParameters
      <4>2. \A x, y \in Nat : x <= y => x * Timeout <= y * Timeout
        BY <4>1
      <4>3. q.try * Timeout <= n * Timeout /\ q.try * Timeout \in Nat /\ n * Timeout \in Nat
        BY <4>1, <4>2
      <4>4. now \in Nat /\ Slack \in Nat
        BY <2>1, SlackType DEF ProbeInv
      <4>5. QED
        BY <3>1, <3>2, <4>3, <4>4 DEF Probed
    <3>5. QED
      BY <3>1, <3>2, <3>3, <3>4 DEF Probed, Answer, Trying
  <2>2. ASSUME ProbeInv, NEW p \in Ports, NEW k \in DOMAIN host[p], k <= MaxTries, ~InTime(host[p][k])
        PROVE  host[p][k].kind # "accepts" \/ host[p][k].delay >= Timeout
    <3>1. host[p][k].delay \in Nat
      BY <2>2, HostFacts DEF ProbeInv
    <3>2. QED
      BY <2>2, <3>1 DEF InTime, ProbeParameters
  <2>3. Slack = 2 * TlsTimeout * Cardinality({t \in TlsChecks : tls[t] = "ended"})
    BY DEF Slack, Ended
  <2>4. ASSUME ProbeInv, NEW p \in Ports
        PROVE  /\ port[p].verdict = "open" =>
                    Answer(p).kind = "accepts" /\ Answer(p).delay < Timeout
               /\ port[p].verdict = "closed" /\ ~port[p].hidden =>
                    \A k \in DOMAIN host[p] :
                      k <= MaxTries => host[p][k].kind # "accepts" \/ host[p][k].delay >= Timeout
               /\ port[p].hidden => blocked >= Timeout
               /\ Trying(p) => now <= Tried(p) * Timeout + Slack
    BY <2>1, <2>2, <2>4 DEF InTime
  <2>5. QED
    BY <2>3, <2>4 DEF PortsTruthful
<1>2. QED
  BY <1>1, ProbeInit, ProbeStep, PTL DEF ProbesSpec
=============================================================================
