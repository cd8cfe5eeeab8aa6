------------------------ MODULE RateLimiterClients ------------------------
(***************************************************************************)
(* RateLimiter seen from its clients: the module remembers, per key, when  *)
(* the last requests were admitted and what the last denial promised with  *)
(* Retry-After (app/core/middleware.py sends reset_after in that header).  *)
(* The history does not influence the limiter.                             *)
(***************************************************************************)
EXTENDS RateLimiter, Sequences, SequencesExt

VARIABLES
  retryAt,   \* retryAt[k]: when the last denial told k to come back, Due when that
             \* time has come, Unasked if there was no denial since an admission
  grants     \* grants[k]: times of the admissions of k in the last Span ticks,
             \* forgotten when the table is full and k gives way to another key

Due == 0

Unasked == -1

historyVars == <<retryAt, grants>>

InitH ==
  /\ Init
  /\ retryAt = [k \in Keys |-> Unasked]
  /\ grants = [k \in Keys |-> << >>]

\* The oldest admissions come first: those that are Span ago are dropped.
Past(times) == {i \in DOMAIN times : now' - times[i] >= Span}

Recent(times) == SubSeq(times, Cardinality(Past(times)) + 1, Len(times))

\* The key that gives way to k, if any.
GivenWay(k) == IF MustEvict(Cleaned, k) THEN DOMAIN Cleaned \ DOMAIN counts' ELSE {}

Forgotten(k) == [j \in Keys |-> IF j \in GivenWay(k) THEN << >> ELSE grants[j]]

TickH ==
  /\ Tick
  /\ grants' = [k \in Keys |-> Recent(grants[k])]
  /\ retryAt' = [k \in Keys |-> IF retryAt[k] = now' THEN Due ELSE retryAt[k]]

AdmitH(k) ==
  /\ Admit(k)
  /\ grants' = [Forgotten(k) EXCEPT ![k] = Append(@, now)]
  /\ retryAt' = [retryAt EXCEPT ![k] = Unasked]

DenyH(k) ==
  /\ Deny(k)
  /\ retryAt' = [retryAt EXCEPT ![k] = now + reply'.reset * TicksPerSecond]
  /\ grants' = Forgotten(k)

RefuseH(k) ==
  /\ Refuse(k)
  /\ UNCHANGED historyVars

NextH ==
  \/ TickH
  \/ \E k \in Keys : RefuseH(k) \/ AdmitH(k) \/ DenyH(k)

SpecH == InitH /\ [][NextH]_<<vars, historyVars>>

-----------------------------------------------------------------------------
\* A denied client that stays away for the Retry-After the middleware sent it
\* is not denied when it comes back, whatever the other keys did meanwhile.
RetryHonoured == [][\A k \in Keys : DenyH(k) => retryAt[k] # Due]_<<vars, historyVars>>

\* A window is anchored at its first request, so two windows that touch can
\* let through more than the limit in Span ticks, but never twice the limit,
\* unless a full table had to forget the key in between.
BurstBound == \A k \in Keys : Limited(k) => Len(grants[k]) < 2 * Limit(k)
=============================================================================
