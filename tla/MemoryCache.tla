---------------------------- MODULE MemoryCache ----------------------------
(***************************************************************************)
(* MemoryCache of app/repositories/cache.py and its callers.  Concurrent   *)
(* requests call get_or_set() for the keys of FillKeys (MX, WHOIS, IP and  *)
(* URL enrichment); DNSService and the browser services use get(), set()   *)
(* and delete() on keys of their own (PlainKeys), which share the store.   *)
(*                                                                         *)
(* The event loop switches coroutines only at an await that suspends: the  *)
(* acquisition of a busy lock and the factory.  What lies between two of   *)
(* them is one step.  The factory either returns a value or raises; none   *)
(* of the code's factories returns None.  No caller is cancelled (nothing  *)
(* wraps a lookup in a timeout).                                           *)
(***************************************************************************)
EXTENDS Integers, FiniteSets, Sequences, Functions

CONSTANTS
  Callers,     \* concurrent requests
  FillKeys,    \* keys read with get_or_set()
  PlainKeys,   \* keys read and written with get(), set() and delete()
  Ttl,         \* the configured time to live of each key, in ticks
  MaxEntries,  \* cache_max_entries, at least 1
  MaxTime      \* bound of the clock in the model

Keys == FillKeys \cup PlainKeys

\* DNSService rejects a non-positive TTL and the browser services do not cache
\* with one; the TTLs of the get_or_set() callers are not validated.
ASSUME TtlAssumption == Ttl \in [Keys -> Int] /\ \A k \in PlainKeys : Ttl[k] > 0
ASSUME SizeAssumption == MaxEntries \in Nat \ {0} /\ MaxTime \in Nat
ASSUME KeyAssumption == FillKeys \cap PlainKeys = {}

VARIABLES
  now,     \* time.monotonic()
  store,   \* self._store: key -> [expires, born]; born stands for the value
  locks,   \* self._async_locks: key -> [held, waiters]
  pc,      \* what a request is doing: "idle", "waiting", "filling"
  wants    \* the key of its call, NoKey when there is none

vars == <<now, store, locks, pc, wants>>

NoKey == "none"

Entry == [expires : Nat, born : Nat]

Init ==
  /\ now = 0
  /\ store = [k \in {} |-> 0]
  /\ locks = [k \in FillKeys |-> [held |-> FALSE, waiters |-> << >>]]
  /\ pc = [c \in Callers |-> "idle"]
  /\ wants = [c \in Callers |-> NoKey]

-----------------------------------------------------------------------------
\* _get_raw: an entry is visible until its expiry; an expired one is dropped.
Fresh(k) == k \in DOMAIN store /\ store[k].expires > now

Probed(k) ==
  IF k \in DOMAIN store /\ ~Fresh(k) THEN Restrict(store, DOMAIN store \ {k}) ELSE store

\* set: a new key in a full store takes the place of an entry with the
\* smallest expiry (dict order breaks ties in the code).
MustEvict(k) == Cardinality(DOMAIN store) >= MaxEntries /\ k \notin DOMAIN store

SoonestToExpire ==
  {v \in DOMAIN store : \A j \in DOMAIN store : store[v].expires <= store[j].expires}

\* Mutant: nothing is evicted.
RoomAlways(k) == {store}

RoomFor(k) ==
  IF MustEvict(k)
  THEN {Restrict(store, DOMAIN store \ {v}) : v \in SoonestToExpire}
  ELSE {store}

WithEntry(table, k) ==
  [j \in DOMAIN table \cup {k} |->
     IF j = k THEN [expires |-> now + Ttl[k], born |-> now] ELSE table[j]]

Set(k) ==
  /\ Ttl[k] > 0
  /\ \E table \in RoomFor(k) : store' = WithEntry(table, k)

\* Mutant: every caller gets a lock of its own.
LockPerCaller(k) == TRUE

\* asyncio.Lock: whoever finds it free with nobody queued takes it at once;
\* the others queue, and a release wakes the first of them.
FreeLock(k) == ~locks[k].held /\ locks[k].waiters = << >>

MyTurn(c) ==
  LET lock == locks[wants[c]] IN
  ~lock.held /\ lock.waiters # << >> /\ Head(lock.waiters) = c

Release(k) == locks' = [locks EXCEPT ![k].held = FALSE]

\* What request c does next, and for which key.
Continue(c, state, k) ==
  /\ pc' = [pc EXCEPT ![c] = state]
  /\ wants' = [wants EXCEPT ![c] = k]

Return(c) == Continue(c, "idle", NoKey)

-----------------------------------------------------------------------------
\* get_or_set() on a key whose value is cached.
Hit(c, k) ==
  /\ pc[c] = "idle"
  /\ Fresh(k)
  /\ UNCHANGED vars

\* get_or_set() on a missing key with a free lock: the factory starts.
StartFill(c, k) ==
  /\ pc[c] = "idle"
  /\ ~Fresh(k)
  /\ FreeLock(k)
  /\ store' = Probed(k)
  /\ locks' = [locks EXCEPT ![k].held = TRUE]
  /\ Continue(c, "filling", k)
  /\ UNCHANGED now

\* get_or_set() on a missing key that another request is filling.
Queue(c, k) ==
  /\ pc[c] = "idle"
  /\ ~Fresh(k)
  /\ ~FreeLock(k)
  /\ store' = Probed(k)
  /\ locks' = [locks EXCEPT ![k].waiters = Append(@, c)]
  /\ Continue(c, "waiting", k)
  /\ UNCHANGED now

\* The lock is granted and the double check finds a value: it is released.
Share(c) ==
  /\ pc[c] = "waiting"
  /\ MyTurn(c)
  /\ Fresh(wants[c])
  /\ locks' = [locks EXCEPT ![wants[c]].waiters = Tail(@)]
  /\ Return(c)
  /\ UNCHANGED <<now, store>>

\* Mutant: no second look at the cache once the lock is granted.
RefillUnchecked(c) ==
  /\ pc[c] = "waiting"
  /\ MyTurn(c)
  /\ locks' = [locks EXCEPT ![wants[c]] = [held |-> TRUE, waiters |-> Tail(@.waiters)]]
  /\ Continue(c, "filling", wants[c])
  /\ UNCHANGED <<now, store>>

\* The lock is granted and there is still no value: this request's factory
\* starts.
Refill(c) ==
  /\ pc[c] = "waiting"
  /\ MyTurn(c)
  /\ ~Fresh(wants[c])
  /\ store' = Probed(wants[c])
  /\ locks' = [locks EXCEPT ![wants[c]] = [held |-> TRUE, waiters |-> Tail(@.waiters)]]
  /\ Continue(c, "filling", wants[c])
  /\ UNCHANGED now

\* The factory returns: its value is stored, the lock released, the value
\* returned.
Fill(c) ==
  /\ pc[c] = "filling"
  /\ Set(wants[c])
  /\ Release(wants[c])
  /\ Return(c)
  /\ UNCHANGED now

\* Mutant: a factory that raises leaves the lock held.
FailHoldingLock(c) ==
  /\ pc[c] = "filling"
  /\ Return(c)
  /\ UNCHANGED <<now, store, locks>>

\* The factory raises, or its value is refused because of its TTL.
Fail(c) ==
  /\ pc[c] = "filling"
  /\ Release(wants[c])
  /\ Return(c)
  /\ UNCHANGED <<now, store>>

\* get(), set() and delete() of the services that do not coalesce.
Get(k) ==
  /\ store' = Probed(k)
  /\ UNCHANGED <<now, locks, pc, wants>>

Put(k) ==
  /\ Set(k)
  /\ UNCHANGED <<now, locks, pc, wants>>

Delete(k) ==
  /\ store' = Restrict(store, DOMAIN store \ {k})
  /\ UNCHANGED <<now, locks, pc, wants>>

Tick ==
  /\ now < MaxTime
  /\ now' = now + 1
  /\ UNCHANGED <<store, locks, pc, wants>>

Next ==
  \/ \E c \in Callers, k \in FillKeys : Hit(c, k) \/ StartFill(c, k) \/ Queue(c, k)
  \/ \E c \in Callers : Share(c) \/ Refill(c) \/ Fill(c) \/ Fail(c)
  \/ \E k \in PlainKeys : Get(k) \/ Put(k) \/ Delete(k)
  \/ Tick

Spec == Init /\ [][Next]_vars

\* The event loop runs a coroutine whose lock was granted, and every factory
\* ends: DNS, RDAP and GeoIP requests have timeouts, and the sockets of the
\* WHOIS library are assumed to have one.
CallersProgress ==
  \A c \in Callers : WF_vars(Share(c) \/ Refill(c)) /\ WF_vars(Fill(c) \/ Fail(c))

FairSpec == Spec /\ CallersProgress

-----------------------------------------------------------------------------
\* The variables have the types the code gives them.
TypeOK ==
  /\ now \in 0..MaxTime
  /\ DOMAIN store \in SUBSET Keys
  /\ store \in [DOMAIN store -> Entry]
  /\ locks \in [FillKeys -> [held : BOOLEAN, waiters : Seq(Callers)]]
  /\ pc \in [Callers -> {"idle", "waiting", "filling"}]
  /\ wants \in [Callers -> FillKeys \cup {NoKey}]

\* The store never outgrows its bound, whichever services write to it.
StoreBounded == IsFiniteSet(DOMAIN store) /\ Cardinality(DOMAIN store) <= MaxEntries

Filling(c, k) == pc[c] = "filling" /\ wants[c] = k

\* "Per-key asyncio locks prevent multiple concurrent callers from executing
\* the same expensive factory operation": however calls, failures and
\* wake-ups interleave, one factory per key runs at a time.
SingleFlight ==
  \A c, d \in Callers, k \in FillKeys : Filling(c, k) /\ Filling(d, k) => c = d

\* Every request that queues for a key is answered, whatever fails before it.
EveryCallReturns == \A c \in Callers : pc[c] = "waiting" ~> pc[c] = "idle"

\* The cache implements the read-through cache of the abstract specification:
\* in particular a factory never starts while a fresh value is stored, a
\* delayed or failed fill never hides one, and an eviction takes a fresh entry
\* only when all entries are fresh, and then the first to expire.
Visible == {k \in DOMAIN store : Fresh(k)}

Abstract == INSTANCE ReadThrough WITH
  Capacity <- MaxEntries,
  slots    <- Restrict(store, Visible),
  filling  <- {wants[c] : c \in {d \in Callers : pc[d] = "filling"}}

ImplementsReadThrough == Abstract!Spec
=============================================================================
