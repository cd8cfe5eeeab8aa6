---------------------------- MODULE RateLimiter ----------------------------
(***************************************************************************)
(* MemoryRateLimiter of app/core/ratelimit.py as RateLimitMiddleware drives *)
(* it: one fixed window per (policy, client) key, a cleanup every          *)
(* CleanupPeriod calls, and a hard bound on the number of tracked keys     *)
(* kept by evicting the key with the oldest window.  check() runs under    *)
(* the limiter's lock without awaiting, so one call is one step.           *)
(*                                                                         *)
(* Time is counted in ticks of 1/TicksPerSecond second; the call counter   *)
(* is kept modulo CleanupPeriod, the only thing the code asks of it.       *)
(***************************************************************************)
EXTENDS Integers, FiniteSets, Functions

CONSTANTS
  Policies,        \* "security", "network", "expensive", "general"
  Clients,         \* client addresses
  PolicyLimit,     \* requests per window of each policy
  Window,          \* rate_limit_window_seconds
  TicksPerSecond,  \* resolution of the monotonic clock in the model
  MaxKeys,         \* rate_limit_max_keys, at least 1
  CleanupPeriod,   \* 256 in the code
  MaxTime          \* bound of the clock in the model

ASSUME LimitAssumption == PolicyLimit \in [Policies -> Int]
ASSUME ClockAssumption ==
  /\ Window \in Int
  /\ TicksPerSecond \in Nat \ {0}
  /\ MaxTime \in Nat
ASSUME TableAssumption ==
  /\ MaxKeys \in Nat \ {0}
  /\ CleanupPeriod \in Nat \ {0}

VARIABLES
  now,         \* time.monotonic()
  counts,      \* self._counts: tracked key -> [start, n]
  operations,  \* self._operations, modulo CleanupPeriod
  reply        \* the last RateLimitDecision and the key it was for

vars == <<now, counts, operations, reply>>

Keys == Policies \X Clients

Limit(k) == PolicyLimit[k[1]]

Span == Window * TicksPerSecond

Entry == [start : Nat, n : Nat]

NoReply ==
  [key |-> <<"none", "none">>, allowed |-> FALSE, remaining |-> 0, reset |-> 0]

Put(f, k, e) == [j \in DOMAIN f \cup {k} |-> IF j = k THEN e ELSE f[j]]

Expired(e) == now - e.start >= Span

Init ==
  /\ now = 0
  /\ counts = [k \in {} |-> 0]
  /\ operations = 0
  /\ reply = NoReply

-----------------------------------------------------------------------------
\* The cleanup: on every CleanupPeriod-th call, or when the table is over its
\* bound, only the entries whose window began after now - Span are kept.
CleanupDue ==
  (operations + 1) % CleanupPeriod = 0 \/ Cardinality(DOMAIN counts) > MaxKeys

\* Mutant: the cleanup starts the table afresh.
Emptied == IF CleanupDue THEN Restrict(counts, {}) ELSE counts

Cleaned ==
  IF CleanupDue
  THEN Restrict(counts, {k \in DOMAIN counts : counts[k].start > now - Span})
  ELSE counts

\* The hard bound: a key that is not tracked yet takes the slot of one with
\* the oldest window once the table is full (dict order breaks ties in the
\* code; here any oldest entry may go).
MustEvict(table, k) == k \notin DOMAIN table /\ Cardinality(DOMAIN table) >= MaxKeys

\* Mutant: the newest window is evicted.
NewestIn(table) ==
  {v \in DOMAIN table : \A j \in DOMAIN table : table[v].start >= table[j].start}

OldestIn(table) ==
  {v \in DOMAIN table : \A j \in DOMAIN table : table[v].start <= table[j].start}

\* Mutant: only the periodic cleanup bounds the table.
Unbounded(table, k) == {table}

Bounded(table, k) ==
  IF MustEvict(table, k)
  THEN {Restrict(table, DOMAIN table \ {v}) : v \in OldestIn(table)}
  ELSE {table}

\* The window a call counts against: the tracked one, or a fresh one.
WindowOf(table, k) ==
  IF k \in DOMAIN table /\ ~Expired(table[k])
  THEN table[k]
  ELSE [start |-> now, n |-> 0]

\* Mutant: the time to the reset is rounded down.
ResetRoundedDown(w) ==
  LET secs == (w.start + Span - now) \div TicksPerSecond IN IF secs > 1 THEN secs ELSE 1

\* max(1, int(window - (now - window_start) + 0.999)), in whole seconds.
ResetAfter(w) ==
  LET left == w.start + Span - now
      secs == (1000 * left + 999 * TicksPerSecond) \div (1000 * TicksPerSecond)
  IN  IF secs > 1 THEN secs ELSE 1

Limited(k) == Limit(k) > 0 /\ Window > 0

-----------------------------------------------------------------------------
\* check() with a non-positive limit or window: denied, nothing is recorded.
Refuse(k) ==
  /\ ~Limited(k)
  /\ reply' = [key |-> k, allowed |-> FALSE, remaining |-> 0, reset |-> 0]
  /\ UNCHANGED <<now, counts, operations>>

CountCall == operations' = (operations + 1) % CleanupPeriod

\* check() of a key whose window has room.
Admit(k) ==
  /\ Limited(k)
  /\ CountCall
  /\ \E table \in Bounded(Cleaned, k) :
       LET w == WindowOf(table, k) IN
         /\ w.n < Limit(k)
         /\ counts' = Put(table, k, [start |-> w.start, n |-> w.n + 1])
         /\ reply' = [key |-> k, allowed |-> TRUE,
                      remaining |-> Limit(k) - (w.n + 1), reset |-> ResetAfter(w)]
  /\ UNCHANGED now

\* check() of a key that has used up its window.
Deny(k) ==
  /\ Limited(k)
  /\ CountCall
  /\ \E table \in Bounded(Cleaned, k) :
       LET w == WindowOf(table, k) IN
         /\ w.n >= Limit(k)
         /\ counts' = Put(table, k, w)
         /\ reply' = [key |-> k, allowed |-> FALSE, remaining |-> 0, reset |-> ResetAfter(w)]
  /\ UNCHANGED now

Tick ==
  /\ now < MaxTime
  /\ now' = now + 1
  /\ UNCHANGED <<counts, operations, reply>>

Next ==
  \/ Tick
  \/ \E k \in Keys : Refuse(k) \/ Admit(k) \/ Deny(k)

Spec == Init /\ [][Next]_vars

-----------------------------------------------------------------------------
\* The variables have the types the code gives them.
TypeOK ==
  /\ now \in 0..MaxTime
  /\ DOMAIN counts \in SUBSET Keys
  /\ counts \in [DOMAIN counts -> Entry]
  /\ operations \in 0..(CleanupPeriod - 1)
  /\ reply \in {NoReply} \cup
       [key : Keys, allowed : BOOLEAN, remaining : Nat, reset : Nat]

\* "Enforce the hard state bound even when the cleanup interval has not
\* fired": whatever mix of new, expired and busy keys arrives, the table
\* never holds more than MaxKeys entries.
StateBounded == IsFiniteSet(DOMAIN counts) /\ Cardinality(DOMAIN counts) <= MaxKeys

\* The entries whose window is still running; expired entries linger in the
\* table until a cleanup, an eviction or the key's next call.
LiveKeys == {k \in DOMAIN counts : ~Expired(counts[k])}

\* The table with lazy cleanup and eviction implements the ideal limiter:
\* cleanup never forgets a running window, an expired entry never counts, and
\* a running window is displaced only when MaxKeys windows are all running,
\* in which case the oldest one goes.
Ideal == INSTANCE WindowQuota WITH
  Quota    <- [k \in Keys |-> IF Limited(k) THEN Limit(k) ELSE 0],
  Capacity <- MaxKeys,
  open     <- Restrict(counts, LiveKeys),
  verdict  <- [key |-> reply.key, allowed |-> reply.allowed, remaining |-> reply.remaining]

ImplementsQuota == Ideal!Spec
=============================================================================
