---------------------------- MODULE BrowserProofs ----------------------------
(***************************************************************************)
(* The browser of the service, in its two parts.                           *)
(*                                                                         *)
(* The pool (BrowserPool), for any number of requests, permits and         *)
(* processes, and whatever fails or crashes: permits are neither lost (but *)
(* for the screenshot slot of a browser that is gone) nor given back       *)
(* twice, a manager that says it has started has a browser or is being     *)
(* repaired, and the start lock has an owner who will let go of it.        *)
(*                                                                         *)
(* A page (PagePolicy), whatever the values of the budgets and however the *)
(* handlers interleave: the budgets hold, the counters stay within their   *)
(* types, and a report that is not partial is about a complete page.       *)
(***************************************************************************)
EXTENDS BrowserPool, PagePolicy, FiniteSetTheorems, SequenceTheorems, TLAPS

Parameters ==
  /\ IsFiniteSet(Requests) /\ Shots \subseteq Requests
  /\ None \notin Ids /\ None \notin Requests
  /\ MaxPages \in Nat /\ MaxShots \in Nat

OwnerPlaces == {"context", "open", "work"}
SlotPlaces == Places \ {"idle", "slot"}

\* PoolSound rests on one more fact: only screenshots wait for a slot.
Inv == PoolSound /\ \A r \in Requests : at[r] = "slot" => r \in Shots

\* What a step of request r does, to itself and to what is shared: it moves no
\* other request, takes or gives back a page permit exactly when it begins or
\* ceases to own a context, never gives back a slot that it does not hold, and
\* leaves a flag without a browser or a lock only to itself.
Local(r) ==
  /\ started' \in BOOLEAN
  /\ {browser', playwright'} \subseteq Ids \cup {None}
  /\ alive' \subseteq drivers' /\ drivers' \subseteq Ids
  /\ at' \in [Requests -> Places] /\ on' \in [Requests -> Ids \cup {None}]
  /\ \A q \in Requests \ {r} : at'[q] = at[q]
  /\ pages' \in Nat /\ slots' \in Nat
  /\ IF at[r] \in OwnerPlaces
     THEN pages' = IF at'[r] \in OwnerPlaces THEN pages ELSE pages + 1
     ELSE pages' = IF at'[r] \in OwnerPlaces THEN pages - 1 ELSE pages
  /\ r \in Shots =>
       IF at[r] \in {"idle", "slot"}
       THEN slots' = IF at'[r] \in {"idle", "slot"} THEN slots ELSE slots - 1
       ELSE slots' <= IF at'[r] \in {"idle", "slot"} THEN slots + 1 ELSE slots
  /\ r \notin Shots => slots' = slots
  /\ started' /\ browser' = None =>
       at'[r] = "stopping" \/ (started /\ browser = None /\ at[r] # "stopping")
  /\ lock' \in {lock, None, r}
  /\ lock' = None /\ lock # None => lock = r
  /\ lock' = r /\ lock # r => lock = None
  /\ lock' = r => at'[r] \in {"driver", "launch", "closing", "stopping"}
  /\ at'[r] \in {"driver", "launch"} => lock' = r
  /\ at'[r] = "slot" => r \in Shots

\* The steps that enter a context.
LEMMA EnterContextLocal ==
  ASSUME Parameters, Inv, NEW r \in Requests,
         Arrive(r) \/ ArriveShot(r) \/ TakeSlot(r) \/ RefuseSlot(r) \/ GetLock(r)
  PROVE  Local(r)
<1> USE DEF Parameters, Inv, PoolSound, PoolTypeOK, LockOwned, Local, OwnerPlaces, Places, Move, End, manager, procs
<1>1. CASE Arrive(r)
  BY <1>1 DEF Arrive, EnterContext, BeginStart
<1>2. CASE ArriveShot(r)
  BY <1>2 DEF ArriveShot
<1>3. CASE TakeSlot(r)
  <2>1. /\ at[r] = "slot" /\ r \in Shots
        /\ slots' = slots - 1 /\ slots' \in Nat /\ pages' = pages
        /\ drivers' = drivers /\ alive' = alive
    BY <1>3 DEF TakeSlot
  <2>2. CASE UNCHANGED manager /\ \E place \in {"queue", "lock"} : Move(r, place, None)
    BY <2>1, <2>2
  <2>3. CASE Move(r, "driver", None) /\ lock = None /\ lock' = r /\ UNCHANGED <<started, browser, playwright>>
    BY <2>1, <2>3
  <2>4. QED
    BY <1>3, <2>2, <2>3 DEF TakeSlot, EnterContext, BeginStart
<1>4. CASE RefuseSlot(r)
  BY <1>4 DEF RefuseSlot
<1>5. CASE GetLock(r)
  BY <1>5 DEF GetLock, BeginStart
<1>6. QED
  BY <1>1, <1>2, <1>3, <1>4, <1>5

\* The steps that start the browser, and those with a page.
LEMMA WorkLocal ==
  ASSUME Parameters, Inv, NEW r \in Requests,
         \/ \E i \in Ids : DriverUp(r, i)
         \/ LaunchOk(r) \/ TakePage(r) \/ RefusePage(r) \/ ContextOk(r) \/ PageOk(r)
         \/ PageFails(r) \/ FinishWork(r) \/ FinishBadly(r)
  PROVE  Local(r)
<1> USE DEF Parameters, Inv, PoolSound, PoolTypeOK, LockOwned, Local, OwnerPlaces, Places, Move, End, manager, procs
<1>1. CASE \E i \in Ids : DriverUp(r, i)
  BY <1>1 DEF DriverUp
<1>2. CASE LaunchOk(r)
  BY <1>2 DEF LaunchOk
<1>3. CASE TakePage(r)
  BY <1>3 DEF TakePage
<1>4. CASE RefusePage(r)
  BY <1>4 DEF RefusePage, SlotBack
<1>5. CASE ContextOk(r)
  BY <1>5 DEF ContextOk
<1>6. CASE PageOk(r)
  BY <1>6 DEF PageOk
<1>7. CASE PageFails(r)
  BY <1>7 DEF PageFails, SlotBack
<1>8. CASE FinishWork(r)
  BY <1>8 DEF FinishWork, SlotBack
<1>9. CASE FinishBadly(r)
  BY <1>9 DEF FinishBadly
<1>10. QED
  BY <1>1, <1>2, <1>3, <1>4, <1>5, <1>6, <1>7, <1>8, <1>9

\* A close() suspends while the browser or the driver goes down, or ends.
Suspends(r) ==
  \/ browser # None /\ Move(r, "closing", browser) /\ UNCHANGED <<manager, slots>>
  \/ browser' = None /\ Move(r, "stopping", playwright) /\ UNCHANGED <<started, playwright, lock, slots>>

CloseEnds(r) == browser' \in {browser, None} /\ CloseDone(r)

\* A request that waits or closes its context leaves the others as they are.
LEMMA ClosingLocal ==
  ASSUME Parameters, Inv, NEW r \in Requests, Suspends(r) \/ CloseEnds(r),
         at[r] \notin {"idle", "slot"}, alive' \subseteq drivers', drivers' \subseteq Ids,
         at[r] = "stopping" => CloseEnds(r),
         pages' = IF at[r] \in OwnerPlaces THEN pages + 1 ELSE pages
  PROVE  Local(r)
<1> USE DEF Parameters, Inv, PoolSound, PoolTypeOK, LockOwned, Local, OwnerPlaces, Places, Move, End, manager
<1>1. CASE browser # None /\ Move(r, "closing", browser) /\ UNCHANGED <<manager, slots>>
  BY <1>1 DEF CloseEnds, CloseDone
<1>2. CASE browser' = None /\ Move(r, "stopping", playwright) /\ UNCHANGED <<started, playwright, lock, slots>>
  BY <1>2 DEF CloseEnds, CloseDone
<1>3. CASE CloseEnds(r)
  <2>1. /\ started' = FALSE /\ playwright' = None /\ browser' \in {browser, None}
        /\ lock' = (IF lock = r THEN None ELSE lock)
        /\ at' = [at EXCEPT ![r] = "idle"] /\ on' = [on EXCEPT ![r] = None]
        /\ slots' = (IF r \in Shots THEN slots + 1 ELSE slots)
    BY <1>3 DEF CloseEnds, CloseDone, SlotBack
  <2>2. /\ at' \in [Requests -> Places] /\ on' \in [Requests -> Ids \cup {None}]
        /\ at'[r] = "idle" /\ \A q \in Requests \ {r} : at'[q] = at[q]
    BY <2>1
  <2>3. slots' \in Nat /\ pages' \in Nat
    BY <2>1
  <2>4. {browser', playwright'} \subseteq Ids \cup {None}
    BY <2>1
  <2>5. r \in Shots => slots' = slots + 1 /\ slots \in Nat
    BY <2>1
  <2>6. IF at[r] \in OwnerPlaces
        THEN pages' = IF at'[r] \in OwnerPlaces THEN pages ELSE pages + 1
        ELSE pages' = IF at'[r] \in OwnerPlaces THEN pages - 1 ELSE pages
    BY <2>2
  <2>7. /\ lock' \in {lock, None, r}
        /\ lock' = None /\ lock # None => lock = r
        /\ lock' # r
    BY <2>1
  <2>8. r \in Shots => IF at[r] \in {"idle", "slot"}
                      THEN slots' = IF at'[r] \in {"idle", "slot"} THEN slots ELSE slots - 1
                      ELSE slots' <= IF at'[r] \in {"idle", "slot"} THEN slots + 1 ELSE slots
    BY <2>2, <2>5
  <2>9. r \notin Shots => slots' = slots
    BY <2>1
  <2>10. started' \in BOOLEAN /\ ~started'
    BY <2>1
  <2>11. at'[r] \notin {"driver", "launch", "slot"}
    BY <2>2
  <2>12. QED
    BY <2>2, <2>3, <2>4, <2>6, <2>7, <2>8, <2>9, <2>10, <2>11
<1>4. QED
  BY <1>1, <1>2, <1>3 DEF Suspends

\* The steps that close the browser.
LEMMA CloseLocal ==
  ASSUME Parameters, Inv, NEW r \in Requests,
         StartFails(r) \/ BrowserGone(r) \/ ContextFails(r) \/ BrowserClosed(r) \/ DriverStopped(r)
  PROVE  Local(r)
<1>1. EnterClose(r) \/ DropBrowser(r) => Suspends(r) \/ CloseEnds(r)
  BY DEF EnterClose, DropBrowser, Suspends, CloseEnds
<1>2. alive \subseteq drivers /\ drivers \subseteq Ids
  BY DEF Inv, PoolSound, PoolTypeOK
<1>3. CASE StartFails(r) \/ BrowserGone(r)
  BY <1>1, <1>2, <1>3, ClosingLocal DEF StartFails, BrowserGone, OwnerPlaces, procs
<1>4. CASE ContextFails(r)
  BY <1>1, <1>2, <1>4, ClosingLocal DEF ContextFails, OwnerPlaces, procs
<1>5. CASE BrowserClosed(r)
  BY <1>1, <1>2, <1>5, ClosingLocal DEF BrowserClosed, OwnerPlaces
<1>6. CASE DriverStopped(r)
  <2>1. CloseEnds(r)
    BY <1>6 DEF DriverStopped, CloseEnds
  <2>2. alive' \subseteq drivers' /\ drivers' \subseteq Ids
    BY <1>2, <1>6 DEF DriverStopped
  <2>3. QED
    BY <1>6, <2>1, <2>2, ClosingLocal DEF DriverStopped, OwnerPlaces
<1>7. QED
  BY <1>3, <1>4, <1>5, <1>6

\* What a step of a request does to the count of the requests in some places.
LEMMA Counted ==
  ASSUME Parameters, NEW r \in Requests, NEW S \in SUBSET Requests, NEW P,
         at \in [Requests -> Places], at' \in [Requests -> Places],
         \A q \in Requests \ {r} : at'[q] = at[q],
         NEW Those, Those = {q \in S : at[q] \in P},
         NEW After, After = {q \in S : at'[q] \in P}
  PROVE  /\ Cardinality(Those) \in Nat
         /\ Cardinality(After) =
              IF r \notin S \/ (at[r] \in P <=> at'[r] \in P) THEN Cardinality(Those)
              ELSE IF at'[r] \in P THEN Cardinality(Those) + 1 ELSE Cardinality(Those) - 1
<1>1. IsFiniteSet(Those) /\ IsFiniteSet(After)
  BY FS_Subset DEF Parameters
<1>2. Cardinality(Those) \in Nat /\ Cardinality(After) \in Nat
  BY <1>1, FS_CardinalityType
<1>3. CASE r \notin S \/ (at[r] \in P <=> at'[r] \in P)
  <2>1. After = Those
    BY <1>3
  <2>2. QED
    BY <1>2, <1>3, <2>1
<1>4. CASE r \in S /\ at[r] \notin P /\ at'[r] \in P
  <2>1. After = Those \cup {r} /\ r \notin Those
    BY <1>4
  <2>2. Cardinality(After) = Cardinality(Those) + 1
    BY <1>1, <2>1, FS_AddElement
  <2>3. QED
    BY <1>2, <1>4, <2>2
<1>5. CASE r \in S /\ at[r] \in P /\ at'[r] \notin P
  <2>1. After = Those \ {r} /\ r \in Those
    BY <1>5
  <2>2. Cardinality(Those \ {r}) = Cardinality(Those) - 1
    BY <1>1, <2>1, FS_RemoveElement, Zenon
  <2>3. QED
    BY <1>2, <1>5, <2>1, <2>2
<1>6. QED
  BY <1>3, <1>4, <1>5

\* A local step keeps the invariant.
LEMMA LocalKeeps ==
  ASSUME Parameters, Inv, NEW r \in Requests, Local(r)
  PROVE  Inv'
<1>1. /\ at \in [Requests -> Places] /\ at' \in [Requests -> Places]
      /\ \A q \in Requests \ {r} : at'[q] = at[q]
  BY DEF Inv, PoolSound, PoolTypeOK, Local
<1>2. pages' + Cardinality(Owners') = MaxPages
  <2>1. PICK c \in Nat : /\ c = Cardinality(Owners)
                        /\ Cardinality(Owners') =
                             IF at[r] \in OwnerPlaces <=> at'[r] \in OwnerPlaces THEN c
                             ELSE IF at'[r] \in OwnerPlaces THEN c + 1 ELSE c - 1
    <3>1. Requests \in SUBSET Requests /\ Owners = {q \in Requests : at[q] \in OwnerPlaces}
          /\ Owners' = {q \in Requests : at'[q] \in OwnerPlaces}
      BY DEF Owners, OwnerPlaces
    <3>2. /\ Cardinality(Owners) \in Nat
          /\ Cardinality(Owners') =
               IF r \notin Requests \/ (at[r] \in OwnerPlaces <=> at'[r] \in OwnerPlaces) THEN Cardinality(Owners)
               ELSE IF at'[r] \in OwnerPlaces THEN Cardinality(Owners) + 1 ELSE Cardinality(Owners) - 1
      BY <1>1, <3>1, Counted
    <3>3. QED
      BY <3>2
  <2>2. pages \in Nat /\ pages + c = MaxPages /\ MaxPages \in Nat
    BY <2>1 DEF Inv, PoolSound, PermitsConserved, PoolTypeOK, Parameters
  <2>3. IF at[r] \in OwnerPlaces
        THEN pages' = IF at'[r] \in OwnerPlaces THEN pages ELSE pages + 1
        ELSE pages' = IF at'[r] \in OwnerPlaces THEN pages - 1 ELSE pages
    BY DEF Local
  <2>4. QED
    BY <2>1, <2>2, <2>3
<1>3. slots' + Cardinality(ShotsUnderWay') <= MaxShots
  <2>1. /\ ShotsUnderWay = {q \in Shots : at[q] \in SlotPlaces}
        /\ ShotsUnderWay' = {q \in Shots : at'[q] \in SlotPlaces}
    BY <1>1 DEF ShotsUnderWay, Parameters, SlotPlaces
  <2>2. PICK c \in Nat : /\ c = Cardinality(ShotsUnderWay)
                        /\ Cardinality(ShotsUnderWay') =
                             IF r \notin Shots \/ (at[r] \in SlotPlaces <=> at'[r] \in SlotPlaces) THEN c
                             ELSE IF at'[r] \in SlotPlaces THEN c + 1 ELSE c - 1
    <3>1. Shots \in SUBSET Requests
      BY DEF Parameters
    <3>2. /\ Cardinality(ShotsUnderWay) \in Nat
          /\ Cardinality(ShotsUnderWay') =
               IF r \notin Shots \/ (at[r] \in SlotPlaces <=> at'[r] \in SlotPlaces) THEN Cardinality(ShotsUnderWay)
               ELSE IF at'[r] \in SlotPlaces THEN Cardinality(ShotsUnderWay) + 1
                    ELSE Cardinality(ShotsUnderWay) - 1
      BY <1>1, <2>1, <3>1, Counted
    <3>3. QED
      BY <3>2
  <2>3. slots \in Nat /\ slots' \in Nat /\ slots + c <= MaxShots /\ MaxShots \in Nat
    BY <2>2 DEF Inv, PoolSound, PermitsConserved, PoolTypeOK, Parameters, Local
  <2>4. (at[r] \in SlotPlaces <=> at[r] \notin {"idle", "slot"}) /\ (at'[r] \in SlotPlaces <=> at'[r] \notin {"idle", "slot"})
    BY <1>1 DEF SlotPlaces
  <2>5. CASE r \notin Shots
    BY <2>2, <2>3, <2>5 DEF Local
  <2>6. CASE r \in Shots
    <3>1. IF at[r] \notin SlotPlaces
          THEN slots' = IF at'[r] \notin SlotPlaces THEN slots ELSE slots - 1
          ELSE slots' <= IF at'[r] \notin SlotPlaces THEN slots + 1 ELSE slots
      BY <2>4, <2>6 DEF Local
    <3>2. QED
      BY <2>2, <2>3, <2>6, <3>1
  <2>7. QED
    BY <2>5, <2>6
<1>4. PoolTypeOK'
  <2>1. PICK c \in Nat, d \in Nat : c = Cardinality(Owners') /\ d = Cardinality(ShotsUnderWay')
    <3>1. IsFiniteSet(Owners') /\ IsFiniteSet(ShotsUnderWay')
      BY FS_Subset DEF Owners, ShotsUnderWay, Parameters
    <3>2. QED
      BY <3>1, FS_CardinalityType
  <2>2. pages' \in 0..MaxPages /\ slots' \in 0..MaxShots
    BY <1>2, <1>3, <2>1 DEF Local, Parameters
  <2>3. lock' \in Requests \cup {None}
    BY DEF Local, Inv, PoolSound, PoolTypeOK
  <2>4. QED
    BY <2>2, <2>3 DEF Local, PoolTypeOK
<1>5. StaleFlagRepaired'
  <2>1. SUFFICES ASSUME started', browser' = None
                 PROVE  \E q \in Requests : at'[q] = "stopping"
    BY DEF StaleFlagRepaired
  <2>2. CASE at'[r] = "stopping"
    BY <2>2
  <2>3. CASE started /\ browser = None /\ at[r] # "stopping"
    BY <1>1, <2>3 DEF Inv, PoolSound, StaleFlagRepaired
  <2>4. QED
    BY <2>1, <2>2, <2>3 DEF Local
<1>6. LockOwned'
  <2>1. lock \in Requests \cup {None} /\ None \notin Requests
    BY DEF Inv, PoolSound, PoolTypeOK, Parameters
  <2>2. ASSUME NEW q \in Requests, at'[q] \in {"driver", "launch"}
        PROVE  lock' = q
    <3>1. CASE q = r
      BY <2>2, <3>1 DEF Local
    <3>2. CASE q # r
      <4>1. lock = q
        BY <1>1, <2>2, <3>2 DEF Inv, PoolSound, LockOwned
      <4>2. QED
        BY <2>1, <3>2, <4>1 DEF Local
    <3>3. QED
      BY <3>1, <3>2
  <2>3. ASSUME lock' # None
        PROVE  at'[lock'] \in {"driver", "launch", "closing", "stopping"}
    <3>1. CASE lock' = r
      BY <3>1 DEF Local
    <3>2. CASE lock' # r
      <4>1. lock' = lock /\ lock \in Requests
        BY <2>1, <2>3, <3>2 DEF Local
      <4>2. at[lock] \in {"driver", "launch", "closing", "stopping"}
        BY <2>3, <4>1 DEF Inv, PoolSound, LockOwned
      <4>3. at'[lock] = at[lock]
        BY <1>1, <3>2, <4>1
      <4>4. QED
        BY <4>1, <4>2, <4>3
    <3>3. QED
      BY <3>1, <3>2
  <2>4. QED
    BY <2>2, <2>3 DEF LockOwned
<1>7. \A q \in Requests : at'[q] = "slot" => q \in Shots
  BY <1>1 DEF Local, Inv
<1>8. QED
  BY <1>2, <1>3, <1>4, <1>5, <1>6, <1>7 DEF Inv, PoolSound, PermitsConserved

\* "Bounds concurrent contexts" and "owns one reusable Chromium process"
\* (BrowserManager): at every moment the free page permits and the contexts
\* make up the limit, no screenshot slot is given back twice, a manager that
\* claims a browser it no longer has is being repaired, and the start lock is
\* held by exactly one request, which is on its way to letting it go.
THEOREM PoolKept == ASSUME Parameters PROVE PoolSpec => []PoolSound
<1>1. PoolInit => Inv
  <2> SUFFICES ASSUME PoolInit PROVE Inv
    OBVIOUS
  <2>1. /\ lock = None /\ pages = MaxPages /\ slots = MaxShots
        /\ at = [r \in Requests |-> "idle"] /\ on = [r \in Requests |-> None]
    BY DEF PoolInit
  <2>2. started \in BOOLEAN /\ {browser, playwright} \subseteq Ids \cup {None}
    BY Zenon DEF PoolInit
  <2>3. alive \subseteq drivers /\ drivers \subseteq Ids
    BY DEF PoolInit
  <2>4. ~(started /\ browser = None)
    BY DEF PoolInit, Parameters
  <2>5. Owners = {} /\ ShotsUnderWay = {}
    BY <2>1 DEF Owners, ShotsUnderWay, Parameters
  <2>6. PermitsConserved
    BY <2>1, <2>5, FS_EmptySet DEF PermitsConserved, Parameters
  <2>7. PoolTypeOK
    BY <2>1, <2>2, <2>3 DEF PoolTypeOK, Places, Parameters
  <2>8. LockOwned /\ StaleFlagRepaired
    BY <2>1, <2>4 DEF LockOwned, StaleFlagRepaired
  <2>9. QED
    BY <2>1, <2>6, <2>7, <2>8 DEF Inv, PoolSound
<1>2. Inv /\ [PoolNext]_poolVars => Inv'
  <2> SUFFICES ASSUME Inv, [PoolNext]_poolVars PROVE Inv'
    OBVIOUS
  <2>1. CASE \E r \in Requests : Arrive(r) \/ ArriveShot(r) \/ Step(r)
    <3>1. PICK r \in Requests : Arrive(r) \/ ArriveShot(r) \/ Step(r)
      BY <2>1
    <3>2. Local(r)
      BY <3>1, EnterContextLocal, WorkLocal, CloseLocal DEF Step
    <3>3. QED
      BY <3>2, LocalKeeps
  <2>2. CASE \E i \in Ids : Crash(i)
    BY <2>2 DEF Crash, manager, Inv, PoolSound, PoolTypeOK, PermitsConserved, Owners, ShotsUnderWay,
                StaleFlagRepaired, LockOwned
  <2>3. CASE UNCHANGED poolVars
    BY <2>3 DEF poolVars, Inv, PoolSound, PoolTypeOK, PermitsConserved, Owners, ShotsUnderWay,
                StaleFlagRepaired, LockOwned
  <2>4. QED
    BY <2>1, <2>2, <2>3 DEF PoolNext
<1>3. Inv => PoolSound
  BY DEF Inv
<1>4. QED
  BY <1>1, <1>2, <1>3, PTL DEF PoolSpec

-----------------------------------------------------------------------------
(***************************************************************************)
(* The page.                                                               *)
(***************************************************************************)
Counters ==
  /\ requests \in Nat /\ images \in Nat /\ bytes \in Nat
  /\ sent \in Nat /\ sentImages \in Nat /\ passed \in Nat
  /\ size \in [All -> Nat] /\ hops \in [All -> Nat]
  /\ DOMAIN pc = All /\ view \in 1..Viewports

\* BudgetsHeld is not inductive by itself: a handler compares a counter of the
\* context with the budget, so the counters must be ahead of what they stand
\* for, also when they count what is refused later.
Ahead == sent <= requests /\ sentImages <= images /\ passed <= bytes

\* A request that has no handler yet has not been redirected.
Untouched == \A r \in All : pc[r] = "unseen" => hops[r] = 0

Invariant == Counters /\ Ahead /\ Untouched /\ BudgetsHeld

\* What the assumptions say of the limits.
LEMMA Budgets ==
  /\ Viewports \in Nat \ {0} /\ MaxRequests \in Nat /\ MaxImages \in Nat
  /\ MaxBytes \in Nat /\ MaxTotal \in Nat /\ MaxRedirects \in Nat
BY BudgetAssumption

\* The page starts in the invariant.
LEMMA Initially == Init => Invariant
BY Budgets DEF Init, Invariant, Counters, Ahead, Untouched, BudgetsHeld, All

\* What the handlers count, and nothing else, keeps a step within the budgets.
LEMMA HandlerStep == ASSUME Invariant, NEW r \in All, Handle(r) PROVE Invariant'
<1> USE Budgets DEF Invariant, Counters, Ahead, Untouched, BudgetsHeld, analysis, handlers, budgets, history
<1>1. CASE Request(r)
  <2>1. /\ pc[r] = "unseen"
        /\ pc' \in {[pc EXCEPT ![r] = "done"], [pc EXCEPT ![r] = "guard"], [pc EXCEPT ![r] = "abort"]}
        /\ UNCHANGED <<view, size, hops, budgets, history>>
    BY <1>1 DEF Request, Goto, Finish
  <2>2. hops[r] = 0
    BY <2>1
  <2>3. QED
    BY <2>1, <2>2
<1>11. CASE CountAborted(r)
  BY <1>11 DEF CountAborted, Finish
<1>2. CASE Guard(r)
  BY <1>2 DEF Guard, Goto, Finish
<1>3. CASE RefuseImage(r)
  BY <1>3 DEF RefuseImage, Count, Finish
<1>4. CASE RefuseRequest(r)
  BY <1>4 DEF RefuseRequest, Count, Finish
<1>5. CASE Admit(r)
  BY <1>5 DEF Admit, OverImages, OverRequests, Count, Goto
<1>6. CASE Fetch(r)
  <2>1. PICK n \in 1..MaxBytes + 1 : size' = [size EXCEPT ![r] = n]
    BY <1>6 DEF Fetch
  <2>2. /\ pc[r] = "fetch" /\ pc' \in {[pc EXCEPT ![r] = "done"], [pc EXCEPT ![r] = "deliver"]}
        /\ UNCHANGED <<view, hops, budgets, history>>
    BY <1>6 DEF Fetch, Goto, Finish
  <2>3. QED
    BY <2>1, <2>2
<1>7. CASE FetchFails(r)
  BY <1>7 DEF FetchFails, Finish
<1>8. CASE RefuseBytes(r)
  BY <1>8 DEF RefuseBytes, Finish
<1>9. CASE Deliver(r)
  <2>1. /\ bytes' = bytes + size[r] /\ bytes' <= MaxTotal /\ size' = size
        /\ UNCHANGED <<view, requests, images, sent, sentImages>>
    BY <1>9 DEF Deliver, OverTotal
  <2>2. CASE Finish(r, "delivered") /\ passed' = passed + size[r] /\ UNCHANGED hops
    BY <2>1, <2>2 DEF Finish
  <2>3. CASE hops' = [hops EXCEPT ![r] = @ + 1] /\ passed' = passed + size[r]
              /\ IF OverRedirects(r) THEN Finish(r, "refused") ELSE Goto(r, "guard")
    <3>1. CASE OverRedirects(r)
      BY <2>1, <2>3, <3>1 DEF Finish
    <3>2. CASE ~OverRedirects(r)
      BY <2>1, <2>3, <3>2 DEF Goto, OverRedirects
    <3>3. QED
      BY <3>1, <3>2
  <2>4. CASE Finish(r, "failed") /\ UNCHANGED <<hops, passed>>
    BY <2>1, <2>4 DEF Finish
  <2>5. QED
    BY <1>9, <2>2, <2>3, <2>4 DEF Deliver
<1>10. QED
  BY <1>1, <1>2, <1>3, <1>4, <1>5, <1>6, <1>7, <1>8, <1>9, <1>11 DEF Handle

\* The loop over the viewports only ever adds bytes.
LEMMA AnalysisStep ==
  ASSUME Invariant, Navigated \/ NavigationFails \/ Analysed \/ AnalysisFails
  PROVE Invariant'
<1> USE Budgets DEF Invariant, Counters, Ahead, Untouched, BudgetsHeld, analysis, handlers, budgets, history
<1>1. CASE Navigated
  <2>1. Document \in All
    BY DEF Document, Documents, All
  <2>2. size[Document] \in Nat /\ bytes' \in {bytes, bytes + size[Document]}
    BY <1>1, <2>1 DEF Navigated
  <2>3. QED
    BY <1>1, <2>2 DEF Navigated
<1>2. CASE NavigationFails
  BY <1>2 DEF NavigationFails, Abandon, NextView
<1>3. CASE Analysed
  BY <1>3 DEF Analysed, NextView
<1>4. CASE AnalysisFails
  BY <1>4 DEF AnalysisFails, Abandon, NextView
<1>5. QED
  BY <1>1, <1>2, <1>3, <1>4

\* No order of the handlers of a page fetches more requests or images, passes
\* on more bytes or follows more redirects than the context's budgets allow.
THEOREM BudgetsKept == Spec => []BudgetsHeld
<1>1. ASSUME Invariant, [Next]_vars PROVE Invariant'
  <2>1. CASE \E r \in All : Handle(r)
    BY <1>1, <2>1, HandlerStep
  <2>2. CASE Navigated \/ NavigationFails \/ Analysed \/ AnalysisFails
    BY <1>1, <2>2, AnalysisStep
  <2>3. CASE UNCHANGED vars
    BY <1>1, <2>3 DEF vars, analysis, handlers, budgets, history, Invariant, Counters, Ahead, Untouched, BudgetsHeld
  <2>4. QED
    BY <1>1, <2>1, <2>2, <2>3 DEF Next
<1>2. Invariant => BudgetsHeld
  BY DEF Invariant
<1>3. QED
  BY Initially, <1>1, <1>2, PTL DEF Spec

(***************************************************************************)
(* What a report says.                                                     *)
(***************************************************************************)
\* The variables that hold no count.
Typed ==
  /\ service \in {"design", "audit"}
  /\ phase \in {"navigating", "rendering", "reported", "failed"}
  /\ pc \in [All -> {"unseen", "abort", "guard", "budget", "fetch", "deliver", "done"}]
  /\ outcome \in [All -> {"none", "refused", "failed", "delivered"}]
  /\ \A r \in All : pc[r] = "done" <=> outcome[r] # "none"
  /\ \A r \in All : pc[r] = "abort" => r \in Unlisted
  /\ size \in [All -> 0..MaxBytes + 1] /\ hops \in [All -> 0..MaxRedirects + 1]
  /\ \A r \in All : pc[r] # "done" => hops[r] <= MaxRedirects
  /\ blocked \in BOOLEAN /\ warned \in BOOLEAN
  /\ report \in [made : BOOLEAN, partial : BOOLEAN, lost : SUBSET All, aborting : SUBSET All]

\* What a counter has counted beyond its budget it has refused, each request
\* once; what the counter of the images has counted are passages of an image
\* through the budget, at most one for each of its redirects.
Done == {r \in All : pc[r] = "done"}

Passages ==
  {p \in Images \X (0..MaxRedirects) :
     \/ p[2] < hops[p[1]]
     \/ p[2] = hops[p[1]] /\ pc[p[1]] \notin {"unseen", "guard", "budget"}}

Overrun ==
  /\ requests <= MaxRequests + Cardinality(Done)
  /\ images <= Cardinality(Passages)

\* Whatever is lost and not just being aborted leaves a mark that the report
\* looks at, but for what an audit does not look at; and nothing is lost or sent
\* after the report.
Excused(r) ==
  \/ warned
  \/ IF service = "design" THEN blocked ELSE r \in Images \cup Unwanted

Truthful ==
  report.made /\ ~report.partial =>
    IF service = "design" THEN report.lost \subseteq report.aborting /\ sent < MaxRequests
    ELSE report.lost \subseteq Images \cup Unwanted

Explained ==
  /\ \A r \in Lost \ Aborting : Excused(r)
  /\ report.made => phase = "reported"
  /\ Truthful

\* There are finitely many requests, images and redirects.
LEMMA FiniteAll == IsFiniteSet(All) /\ IsFiniteSet(Images) /\ IsFiniteSet(0..MaxRedirects)
<1>1. IsFiniteSet(1..Viewports) /\ IsFiniteSet(0..MaxRedirects)
  BY Budgets, FS_Interval
<1>2. IsFiniteSet(Documents)
  <2> DEFINE f == [v \in 1..Viewports |-> <<"document", v>>]
  <2>1. f \in Surjection(1..Viewports, Documents)
    BY DEF Surjection, Documents
  <2>2. QED
    BY <1>1, <2>1, FS_Surjection
<1>3. IsFiniteSet(All)
  BY <1>2, KindAssumption, FS_Union DEF All
<1>4. IsFiniteSet(Images)
  BY KindAssumption, FS_Subset
<1>5. QED
  BY <1>1, <1>3, <1>4

\* What was fetched and passed on can be counted, and is bounded.
LEMMA Counts ==
  /\ IsFiniteSet(Done) /\ Cardinality(Done) \in Nat /\ Cardinality(Done) <= Cardinality(All)
  /\ Cardinality(All) \in Nat
  /\ IsFiniteSet(Passages) /\ Cardinality(Passages) \in Nat
  /\ Cardinality(Passages) <= Cardinality(Images) * (MaxRedirects + 1)
<1>1. Done \in SUBSET All
  BY DEF Done
<1>2. Passages \in SUBSET (Images \X (0..MaxRedirects))
  BY DEF Passages
<1>3. /\ IsFiniteSet(Images \X (0..MaxRedirects))
      /\ Cardinality(Images \X (0..MaxRedirects)) = Cardinality(Images) * Cardinality(0..MaxRedirects)
  BY FiniteAll, FS_Product
<1>4. Cardinality(0..MaxRedirects) = MaxRedirects + 1
  BY Budgets, FS_Interval
<1>5. QED
  BY <1>1, <1>2, <1>3, <1>4, FiniteAll, FS_Subset, FS_CardinalityType

\* How a handler moves its request, and that it moves no other.
Moves(r) ==
  /\ pc[r] # "done" /\ Running
  /\ UNCHANGED analysis
  /\ \A q \in All \ {r} : /\ pc'[q] = pc[q] /\ outcome'[q] = outcome[q]
                           /\ hops'[q] = hops[q]
  /\ pc'[r] = "done" <=> outcome'[r] # "none"
  /\ hops'[r] \in {hops[r], hops[r] + 1}
  /\ pc[r] \notin {"unseen", "guard", "budget"} =>
       hops'[r] > hops[r] \/ pc'[r] \notin {"unseen", "guard", "budget"}
  /\ warned => warned'
  /\ blocked => blocked'
  /\ outcome'[r] \in {"refused", "failed"} => Excused(r)'
  /\ pc'[r] = "abort" => outcome'[r] = "none"

\* A handler moves one request on.
LEMMA HandlerTyped ==
  ASSUME Invariant, Typed, NEW r \in All, Handle(r)
  PROVE  Typed' /\ Moves(r)
<1> USE Budgets DEF Invariant, Counters, BudgetsHeld, Untouched, Typed, Moves, Excused, analysis, handlers,
        budgets, history, Goto, Finish, Note
<1>1. CASE Request(r)
  BY <1>1, ZenonT(40) DEF Request
<1>11. CASE CountAborted(r)
  <2>1. r \in Unwanted
    BY <1>11, KindAssumption DEF CountAborted
  <2>2. QED
    BY <1>11, <2>1 DEF CountAborted
<1>2. CASE Guard(r)
  BY <1>2, ZenonT(40) DEF Guard
<1>3. CASE RefuseImage(r)
  BY <1>3 DEF RefuseImage, OverImages
<1>4. CASE RefuseRequest(r)
  BY <1>4 DEF RefuseRequest
<1>5. CASE Admit(r)
  BY <1>5 DEF Admit
<1>6. CASE Fetch(r)
  <2>1. PICK n \in 1..MaxBytes + 1 :
          /\ size' = [size EXCEPT ![r] = n]
          /\ IF n > MaxBytes THEN Finish(r, "refused") /\ Note(TRUE, TRUE)
                             ELSE Goto(r, "deliver") /\ Note(FALSE, FALSE)
    BY <1>6 DEF Fetch
  <2>2. Running /\ pc[r] = "fetch" /\ UNCHANGED <<analysis, hops>>
    BY <1>6 DEF Fetch
  <2>3. CASE n > MaxBytes
    <3>1. size' \in [All -> 0..MaxBytes + 1] /\ Finish(r, "refused") /\ Note(TRUE, TRUE)
      BY <2>1, <2>3
    <3>2. Typed'
      BY <2>2, <3>1
    <3>3. Moves(r)
      BY <2>2, <3>1
    <3>4. QED
      BY <3>2, <3>3
  <2>4. CASE ~(n > MaxBytes)
    BY <2>1, <2>2, <2>4
  <2>5. QED
    BY <2>3, <2>4
<1>7. CASE FetchFails(r)
  BY <1>7 DEF FetchFails
<1>8. CASE RefuseBytes(r)
  BY <1>8 DEF RefuseBytes
<1>9. CASE Deliver(r)
  <2>1. Running /\ pc[r] = "deliver" /\ UNCHANGED <<analysis, size>>
    BY <1>9 DEF Deliver
  <2>2. CASE Finish(r, "delivered") /\ Note(FALSE, FALSE) /\ UNCHANGED hops
    BY <2>1, <2>2
  <2>3. CASE /\ hops' = [hops EXCEPT ![r] = @ + 1] /\ OverRedirects(r)
             /\ Finish(r, "refused") /\ Note(TRUE, TRUE)
    <3>1. Typed'
      BY <2>1, <2>3
    <3>2. Moves(r)
      BY <2>1, <2>3
    <3>3. QED
      BY <3>1, <3>2
  <2>4. CASE /\ hops' = [hops EXCEPT ![r] = @ + 1] /\ ~OverRedirects(r)
             /\ Goto(r, "guard") /\ Note(FALSE, FALSE)
    BY <2>1, <2>4 DEF OverRedirects
  <2>5. CASE Finish(r, "failed") /\ Note(TRUE, TRUE) /\ UNCHANGED hops
    BY <2>1, <2>5
  <2>6. QED
    BY <1>9, <2>2, <2>3, <2>4, <2>5 DEF Deliver
<1>10. QED
  BY <1>1, <1>2, <1>3, <1>4, <1>5, <1>6, <1>7, <1>8, <1>9, <1>11 DEF Handle

\* A request that is refused when the budget is spent is refused for good; a
\* passage that was counted stays counted.
LEMMA HandlerOverrun ==
  ASSUME Invariant, Typed, Overrun, NEW r \in All, Handle(r), Typed', Moves(r)
  PROVE  Overrun'
<1> USE Budgets DEF Invariant, Counters
<1>1. Done \subseteq Done' /\ r \notin Done
  BY DEF Done, Moves, Typed
<1>2. IsFiniteSet(Done') /\ Cardinality(Done') \in Nat /\ Cardinality(Done) <= Cardinality(Done')
  <2>1. IsFiniteSet(Done')
    BY FiniteAll, FS_Subset DEF Done
  <2>2. QED
    BY <1>1, <2>1, FS_Subset, FS_CardinalityType
<1>3. Passages \subseteq Passages'
  BY KindAssumption DEF Passages, Moves, Typed, All
<1>4. IsFiniteSet(Passages') /\ Cardinality(Passages') \in Nat /\ Cardinality(Passages) <= Cardinality(Passages')
  <2>1. IsFiniteSet(Passages')
    <3>1. Passages' \in SUBSET (Images \X (0..MaxRedirects))
      BY DEF Passages
    <3>2. QED
      BY <3>1, FiniteAll, FS_Product, FS_Subset
  <2>2. QED
    BY <1>3, <2>1, FS_Subset, FS_CardinalityType
<1>5. requests' <= MaxRequests + Cardinality(Done')
  <2>1. CASE RefuseRequest(r)
    <3>1. requests' = requests + 1 /\ pc' = [pc EXCEPT ![r] = "done"]
      BY <2>1 DEF RefuseRequest, Finish
    <3>2. Done' = Done \cup {r}
      BY <3>1 DEF Done, Typed
    <3>3. Cardinality(Done') = Cardinality(Done) + 1
      BY <1>1, <3>2, Counts, FS_AddElement
    <3>4. QED
      BY <3>1, <3>3, Counts DEF Overrun
  <2>2. CASE Admit(r)
    BY <1>2, <2>2 DEF Admit, OverRequests
  <2>3. CASE ~RefuseRequest(r) /\ ~Admit(r)
    <3>1. requests' = requests
      BY <2>3 DEF Handle, Request, CountAborted, Guard, RefuseImage, Fetch, FetchFails, RefuseBytes, Deliver, budgets
    <3>2. QED
      BY <1>2, <3>1, Counts DEF Overrun
  <2>4. QED
    BY <2>1, <2>2, <2>3
<1>6. images' <= Cardinality(Passages')
  <2>1. CASE r \in Images /\ pc[r] = "budget"
    <3> DEFINE p == <<r, hops[r]>>
    <3>1. UNCHANGED hops /\ images' = images + 1 /\ pc'[r] \in {"fetch", "done"}
      <4>1. RefuseImage(r) \/ RefuseRequest(r) \/ Admit(r)
        BY <2>1 DEF Handle, Request, CountAborted, Guard, Fetch, FetchFails, RefuseBytes, Deliver
      <4>2. QED
        BY <2>1, <4>1 DEF RefuseImage, RefuseRequest, Admit, Count, Finish, Goto, Typed
    <3>2. p \in Images \X (0..MaxRedirects) /\ p \notin Passages /\ p \in Passages'
      BY <2>1, <3>1 DEF Passages, Typed
    <3>3. Cardinality(Passages \cup {p}) = Cardinality(Passages) + 1
      BY <3>2, Counts, FS_AddElement
    <3>4. Cardinality(Passages \cup {p}) <= Cardinality(Passages')
      BY <1>3, <1>4, <3>2, FS_Subset
    <3>5. QED
      BY <1>4, <3>1, <3>3, <3>4, Counts DEF Overrun
  <2>2. CASE ~(r \in Images /\ pc[r] = "budget")
    <3>1. images' = images
      BY <2>2 DEF Handle, Request, CountAborted, Guard, RefuseImage, RefuseRequest, Admit, Count, Fetch, FetchFails,
                  RefuseBytes, Deliver, budgets
    <3>2. QED
      BY <1>4, <3>1, Counts DEF Overrun
  <2>3. QED
    BY <2>1, <2>2
<1>7. QED
  BY <1>5, <1>6 DEF Overrun

\* A handler leaves a mark of what is lost.
LEMMA HandlerExplained ==
  ASSUME Typed, Explained, NEW r \in All, Moves(r)
  PROVE  Explained'
<1>1. ASSUME NEW q \in (Lost \ Aborting)' PROVE Excused(q)'
  <2>1. CASE q = r
    BY <1>1, <2>1 DEF Moves, Lost, Aborting
  <2>2. CASE q # r
    <3>1. q \in Lost \ Aborting
      BY <1>1, <2>2 DEF Moves, Lost, Aborting
    <3>2. QED
      BY <3>1 DEF Explained, Excused, Moves, analysis
  <2>3. QED
    BY <2>1, <2>2
<1>2. ~report.made /\ ~report'.made
  BY DEF Explained, Moves, Running, analysis
<1>3. QED
  BY <1>1, <1>2 DEF Explained, Truthful

\* The analysis ends in a report that says of the marks what they are.
LEMMA AnalysisExplained ==
  ASSUME Invariant, Typed, Overrun, Explained,
         Navigated \/ NavigationFails \/ Analysed \/ AnalysisFails
  PROVE  Typed' /\ Overrun' /\ Explained'
<1>1. /\ UNCHANGED <<service, handlers, requests, images, blocked, history>>
      /\ phase \in {"navigating", "rendering"}
      /\ warned => warned'
      /\ warned' \in BOOLEAN
  <2>1. CASE Navigated
    BY <2>1 DEF Navigated, Typed
  <2>2. CASE NavigationFails
    BY <2>2 DEF NavigationFails, Abandon, NextView, Typed, budgets
  <2>3. CASE Analysed
    BY <2>3 DEF Analysed, NextView, Typed
  <2>4. CASE AnalysisFails
    BY <2>4 DEF AnalysisFails, Abandon, NextView, Typed, budgets
  <2>5. QED
    BY <2>1, <2>2, <2>3, <2>4
<1>2. Overrun'
  BY <1>1 DEF Overrun, Done, Passages, handlers
<1>3. Lost' = Lost /\ Aborting' = Aborting /\ \A r \in Lost \ Aborting : Excused(r)'
  BY <1>1 DEF Lost, Aborting, handlers, Explained, Excused
<1>4. \/ UNCHANGED report /\ phase' \in {"navigating", "rendering", "failed"}
      \/ /\ phase' = "reported"
         /\ report' = [made |-> TRUE, partial |-> Partial(warned'), lost |-> Lost, aborting |-> Aborting]
  BY DEF Navigated, NavigationFails, Analysed, AnalysisFails, Abandon, NextView
<1>5. ~report.made
  BY <1>1 DEF Explained
<1>6. CASE UNCHANGED report /\ phase' \in {"navigating", "rendering", "failed"}
  BY <1>1, <1>2, <1>3, <1>5, <1>6 DEF Typed, Explained, Truthful, handlers
<1>7. CASE /\ phase' = "reported"
           /\ report' = [made |-> TRUE, partial |-> Partial(warned'), lost |-> Lost, aborting |-> Aborting]
  <2>1. Partial(warned') \in BOOLEAN /\ Lost \in SUBSET All /\ Aborting \in SUBSET All
    BY <1>1 DEF Partial, Lost, Aborting
  <2>2. Typed'
    BY <1>1, <1>7, <2>1 DEF Typed, handlers
  <2>3. Truthful'
    <3>1. SUFFICES ASSUME ~Partial(warned')
                   PROVE  IF service = "design" THEN Lost \subseteq Aborting /\ sent < MaxRequests
                          ELSE Lost \subseteq Images \cup Unwanted
      BY <1>1, <1>7 DEF Truthful, history
    <3>2. ~warned' /\ (service = "design" => ~blocked /\ ~(requests >= MaxRequests))
      BY <3>1 DEF Partial
    <3>3. service = "design" => sent < MaxRequests
      BY <3>2, Budgets DEF Invariant, Counters, Ahead
    <3>4. \A r \in Lost \ Aborting : service # "design" /\ r \in Images \cup Unwanted
      BY <1>1, <1>3, <3>2 DEF Excused
    <3>5. Aborting \subseteq Images \cup Unwanted
      BY KindAssumption DEF Aborting, Typed
    <3>6. QED
      BY <3>3, <3>4, <3>5
  <2>4. QED
    BY <1>2, <1>3, <1>7, <2>2, <2>3 DEF Explained
<1>8. QED
  BY <1>4, <1>6, <1>7

\* A report that does not say it is partial says the truth, whatever the page
\* requests, the budgets refuse and the network fails to bring.
THEOREM ReportsTruthful == Spec => []PartialTruthful
<1> DEFINE PageInv == Invariant /\ Typed /\ Overrun /\ Explained
<1>1. Init => PageInv
  <2>1. Init => Typed
    <3> SUFFICES ASSUME Init PROVE Typed
      OBVIOUS
    <3>1. size \in [All -> 0..MaxBytes + 1] /\ hops \in [All -> 0..MaxRedirects + 1]
      BY Budgets DEF Init
    <3>2. report \in [made : BOOLEAN, partial : BOOLEAN, lost : SUBSET All, aborting : SUBSET All]
      BY DEF Init, NoReport
    <3>3. /\ service \in {"design", "audit"}
          /\ phase \in {"navigating", "rendering", "reported", "failed"}
          /\ blocked \in BOOLEAN /\ warned \in BOOLEAN
      BY DEF Init
    <3>4. /\ pc \in [All -> {"unseen", "abort", "guard", "budget", "fetch", "deliver", "done"}]
          /\ outcome \in [All -> {"none", "refused", "failed", "delivered"}]
          /\ \A r \in All : pc[r] = "done" <=> outcome[r] # "none"
          /\ \A r \in All : pc[r] # "abort"
      BY DEF Init
    <3>5. \A r \in All : pc[r] # "done" => hops[r] <= MaxRedirects
      BY Budgets DEF Init
    <3>6. QED
      BY <3>1, <3>2, <3>3, <3>4, <3>5 DEF Typed
  <2>2. Init => Overrun
    BY Budgets, Counts DEF Init, Overrun
  <2>3. Init => Explained
    BY DEF Init, Explained, Lost, Aborting, Truthful, NoReport
  <2>4. QED
    BY <2>1, <2>2, <2>3, Initially
<1>2. PageInv /\ [Next]_vars => PageInv'
  <2> SUFFICES ASSUME PageInv, [Next]_vars PROVE PageInv'
    OBVIOUS
  <2>1. CASE \E r \in All : Handle(r)
    BY <2>1, HandlerStep, HandlerTyped, HandlerOverrun, HandlerExplained
  <2>2. CASE Navigated \/ NavigationFails \/ Analysed \/ AnalysisFails
    BY <2>2, AnalysisStep, AnalysisExplained
  <2>3. CASE UNCHANGED vars
    BY <2>3 DEF vars, analysis, handlers, budgets, history, Invariant, Counters, Ahead, Untouched,
                BudgetsHeld, Typed, Overrun, Done, Passages, Explained, Lost, Aborting, Excused, Truthful
  <2>4. QED
    BY <2>1, <2>2, <2>3 DEF Next
<1>3. PageInv => PartialTruthful
  <2> SUFFICES ASSUME PageInv PROVE PartialTruthful
    OBVIOUS
  <2>1. requests \in 0..MaxRequests + Cardinality(All)
    BY Budgets, Counts DEF Invariant, Counters, Overrun
  <2>2. images \in 0..Cardinality(Images) * (MaxRedirects + 1)
    <3>1. Cardinality(Images) * (MaxRedirects + 1) \in Nat
      BY Budgets, FiniteAll, FS_CardinalityType
    <3>2. QED
      BY <3>1, Counts DEF Invariant, Counters, Overrun
  <2>3. TypeOK
    BY <2>1, <2>2 DEF Invariant, Counters, Typed, Aborting, TypeOK
  <2>4. QED
    BY <2>3 DEF Explained, Truthful, PartialTruthful
<1>4. QED
  BY <1>1, <1>2, <1>3, PTL DEF Spec
=============================================================================
