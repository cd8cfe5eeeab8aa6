---------------------------- MODULE WindowQuota ----------------------------
(***************************************************************************)
(* What the rate limiter promises its callers, without the table cleanup   *)
(* and the bookkeeping of app/core/ratelimit.py: every key has at most one *)
(* open window, a window that is Span ticks old is gone, a key is admitted *)
(* while its open window has quota left and denied otherwise.  At most     *)
(* Capacity windows are open; only when all of them are may a newcomer     *)
(* displace the oldest one, and nothing else ever forgets an open window.  *)
(***************************************************************************)
EXTENDS Integers, FiniteSets

CONSTANTS
  Keys,       \* the keys that are rate limited
  Quota,      \* Quota[k]: requests admitted per window of key k
  Span,       \* ticks a window stays open
  Capacity    \* how many windows may be open at once

VARIABLES
  now,        \* the clock
  open,       \* function from the keys with an open window to [start, n]
  verdict     \* the last decision handed out: [key, allowed, remaining]

vars == <<now, open, verdict>>

NoVerdict == [key |-> <<"none", "none">>, allowed |-> FALSE, remaining |-> 0]

Used(k) == IF k \in DOMAIN open THEN open[k].n ELSE 0

With(f, k, w) == [j \in DOMAIN f \cup {k} |-> IF j = k THEN w ELSE f[j]]

Without(f, k) == [j \in DOMAIN f \ {k} |-> f[j]]

Oldest(v) == v \in DOMAIN open /\ \A j \in DOMAIN open : open[v].start <= open[j].start

Init ==
  /\ now = 0
  /\ open = [k \in {} |-> 0]
  /\ verdict = NoVerdict

Admitted(k, n) ==
  verdict' = [key |-> k, allowed |-> TRUE, remaining |-> Quota[k] - n]

\* A key with an open window uses one more unit of its quota.
Spend(k) ==
  /\ k \in DOMAIN open
  /\ open[k].n < Quota[k]
  /\ open' = With(open, k, [start |-> open[k].start, n |-> open[k].n + 1])
  /\ Admitted(k, open[k].n + 1)
  /\ UNCHANGED now

\* A key without one opens a window, if there is room for it.
Open(k) ==
  /\ k \notin DOMAIN open
  /\ Quota[k] > 0
  /\ Cardinality(DOMAIN open) < Capacity
  /\ open' = With(open, k, [start |-> now, n |-> 1])
  /\ Admitted(k, 1)
  /\ UNCHANGED now

\* With every slot open, the newcomer takes the place of the oldest window.
Displace(k) ==
  /\ k \notin DOMAIN open
  /\ Quota[k] > 0
  /\ Cardinality(DOMAIN open) >= Capacity
  /\ \E v \in DOMAIN open :
        /\ Oldest(v)
        /\ open' = With(Without(open, v), k, [start |-> now, n |-> 1])
  /\ Admitted(k, 1)
  /\ UNCHANGED now

Deny(k) ==
  /\ Used(k) >= Quota[k]
  /\ verdict' = [key |-> k, allowed |-> FALSE, remaining |-> 0]
  /\ UNCHANGED <<now, open>>

\* Time passes, and the windows it closes are gone.
Tick ==
  /\ now' = now + 1
  /\ open' = [k \in {j \in DOMAIN open : now' - open[j].start < Span} |-> open[k]]
  /\ UNCHANGED verdict

Next ==
  \/ Tick
  \/ \E k \in Keys : Spend(k) \/ Open(k) \/ Displace(k) \/ Deny(k)

Spec == Init /\ [][Next]_vars
=============================================================================
