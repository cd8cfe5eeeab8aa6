---------------------------- MODULE ReadThrough ----------------------------
(***************************************************************************)
(* What the in-process cache promises the services behind it, without      *)
(* locks, waiters and lazily dropped entries: a value is visible for       *)
(* exactly Ttl ticks, no value is computed while one is visible, at most   *)
(* one computation per key is under way, at most Capacity values are       *)
(* visible, and only a write that finds them all taken removes one early:  *)
(* the one that would have expired first.                                  *)
(***************************************************************************)
EXTENDS Integers, FiniteSets

CONSTANTS
  FillKeys,   \* keys that are computed on a miss
  PlainKeys,  \* keys that are only written, read and dropped
  Ttl,        \* Ttl[k]: ticks a value of k stays visible
  Capacity    \* how many values may be visible

VARIABLES
  now,        \* the clock
  slots,      \* visible values: key -> [expires, born]
  filling     \* the keys whose value is being computed

vars == <<now, slots, filling>>

EarliestToGo(v) == v \in DOMAIN slots /\ \A j \in DOMAIN slots : slots[v].expires <= slots[j].expires

With(f, k, e) == [j \in DOMAIN f \cup {k} |-> IF j = k THEN e ELSE f[j]]

Without(f, k) == [j \in DOMAIN f \ {k} |-> f[j]]

Init ==
  /\ now = 0
  /\ slots = [k \in {} |-> 0]
  /\ filling = {}

Write(k) ==
  LET e == [expires |-> now + Ttl[k], born |-> now] IN
  /\ Ttl[k] > 0
  /\ IF k \in DOMAIN slots \/ Cardinality(DOMAIN slots) < Capacity
     THEN slots' = With(slots, k, e)
     ELSE \E v \in DOMAIN slots : EarliestToGo(v) /\ slots' = With(Without(slots, v), k, e)

BeginFill(k) ==
  /\ k \notin DOMAIN slots \cup filling
  /\ filling' = filling \cup {k}
  /\ UNCHANGED <<now, slots>>

EndFill(k) ==
  /\ k \in filling
  /\ filling' = filling \ {k}
  /\ Write(k) \/ UNCHANGED slots
  /\ UNCHANGED now

Put(k) == Write(k) /\ UNCHANGED <<now, filling>>

Drop(k) == slots' = Without(slots, k) /\ UNCHANGED <<now, filling>>

Tick ==
  /\ now' = now + 1
  /\ slots' = [k \in {j \in DOMAIN slots : slots[j].expires > now'} |-> slots[k]]
  /\ UNCHANGED filling

Next ==
  \/ Tick
  \/ \E k \in FillKeys : BeginFill(k) \/ EndFill(k)
  \/ \E k \in PlainKeys : Put(k) \/ Drop(k)

Spec == Init /\ [][Next]_vars
=============================================================================
