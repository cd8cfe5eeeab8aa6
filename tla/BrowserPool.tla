---------------------------- MODULE BrowserPool ----------------------------
(***************************************************************************)
(* BrowserManager, _ManagedContext and the services that open pages:       *)
(* requests share one Chromium that is started on demand under a lock, a   *)
(* semaphore of MaxPages contexts, and screenshots also one of MaxShots.   *)
(* Every await on Playwright may suspend, fail, or find the browser gone.  *)
(*                                                                         *)
(* A driver and the Chromium launched through it share an id of Ids; when  *)
(* all ids are in use no further driver starts.  No request is cancelled.  *)
(***************************************************************************)
EXTENDS Integers, FiniteSets

CONSTANTS
  Requests,  \* concurrent requests that need a page
  Shots,     \* those of them that take a screenshot
  Ids,       \* driver processes the machine can run at once
  MaxPages,  \* design_system_max_concurrent_pages
  MaxShots,  \* screenshot_max_concurrent
  None       \* not an id and not a request

VARIABLES
  started,    \* self._started
  browser,    \* self._browser: an id or None
  playwright, \* self._playwright: an id or None
  lock,       \* the request that holds self._start_lock, or None
  pages,      \* free permits of BrowserManager's semaphore
  slots,      \* free permits of ScreenshotService's semaphore
  drivers,    \* the driver processes that run
  alive,      \* the Chromium processes that run
  at,         \* where each request is
  on          \* the process its pending call goes to

poolVars == <<started, browser, playwright, lock, pages, slots, drivers, alive, at, on>>

procs == <<drivers, alive>>
manager == <<started, browser, playwright, lock>>

PoolInit ==
  /\ \/ /\ started = FALSE /\ browser = None /\ playwright = None
        /\ drivers = {} /\ alive = {}
     \/ \E i \in Ids : /\ started = TRUE /\ browser = i /\ playwright = i
                       /\ drivers = {i} /\ alive = {i}
  /\ lock = None
  /\ pages = MaxPages
  /\ slots = MaxShots
  /\ at = [r \in Requests |-> "idle"]
  /\ on = [r \in Requests |-> None]

-----------------------------------------------------------------------------
Move(r, place, id) ==
  /\ at' = [at EXCEPT ![r] = place]
  /\ on' = [on EXCEPT ![r] = id]

\* The end of a request, with or without its screenshot slot given back.
SlotBack(r) == slots' = IF r \in Shots THEN slots + 1 ELSE slots

End(r) == Move(r, "idle", None)

\* start(), once its lock is there: someone else may have started meanwhile.
BeginStart(r) ==
  IF started
  THEN Move(r, "queue", None) /\ UNCHANGED manager
  ELSE Move(r, "driver", None) /\ lock' = r /\ UNCHANGED <<started, browser, playwright>>

\* context(): start() unless a browser is there, then the semaphore.
EnterContext(r) ==
  IF started /\ browser # None
  THEN Move(r, "queue", None) /\ UNCHANGED manager
  ELSE IF lock = None
       THEN BeginStart(r)
       ELSE Move(r, "lock", None) /\ UNCHANGED manager

\* close() has run to its end: the flag is reset, a start() that called it
\* lets go of its lock, and the failure reaches the client.
CloseDone(r) ==
  /\ playwright' = None
  /\ started' = FALSE
  /\ lock' = IF lock = r THEN None ELSE lock
  /\ SlotBack(r)
  /\ End(r)

\* close() after the browser: the reference is dropped and the driver that is
\* current now is stopped.
DropBrowser(r) ==
  /\ browser' = None
  /\ IF playwright # None
     THEN Move(r, "stopping", playwright) /\ UNCHANGED <<started, playwright, lock, slots>>
     ELSE CloseDone(r)

\* close() takes no lock; it suspends while the browser closes.
EnterClose(r) ==
  IF browser # None
  THEN Move(r, "closing", browser) /\ UNCHANGED <<manager, slots>>
  ELSE DropBrowser(r)

-----------------------------------------------------------------------------
\* An accessibility audit, web vitals, API discovery or extraction.
Arrive(r) ==
  /\ at[r] = "idle" /\ r \notin Shots
  /\ EnterContext(r)
  /\ UNCHANGED <<pages, slots, procs>>

\* A screenshot waits for a slot first, and gives up after the queue timeout.
ArriveShot(r) ==
  /\ at[r] = "idle" /\ r \in Shots
  /\ Move(r, "slot", None)
  /\ UNCHANGED <<manager, pages, slots, procs>>

TakeSlot(r) ==
  /\ at[r] = "slot"
  /\ slots > 0
  /\ slots' = slots - 1
  /\ EnterContext(r)
  /\ UNCHANGED <<pages, procs>>

RefuseSlot(r) ==
  /\ at[r] = "slot"
  /\ slots = 0
  /\ End(r)
  /\ UNCHANGED <<manager, pages, slots, procs>>

\* start().
GetLock(r) ==
  /\ at[r] = "lock"
  /\ lock = None
  /\ BeginStart(r)
  /\ UNCHANGED <<pages, slots, procs>>

DriverUp(r, i) ==
  /\ at[r] = "driver"
  /\ i \notin drivers
  /\ drivers' = drivers \cup {i}
  /\ playwright' = i
  /\ Move(r, "launch", i)
  /\ UNCHANGED <<started, browser, lock, pages, slots, alive>>

\* Mutant: a start() that succeeds keeps its lock.
LaunchKeepingLock(r) ==
  /\ at[r] = "launch"
  /\ on[r] \in drivers
  /\ alive' = alive \cup {on[r]}
  /\ browser' = on[r]
  /\ started' = TRUE
  /\ Move(r, "queue", None)
  /\ UNCHANGED <<lock, playwright, pages, slots, drivers>>

LaunchOk(r) ==
  /\ at[r] = "launch"
  /\ on[r] \in drivers
  /\ alive' = alive \cup {on[r]}
  /\ browser' = on[r]
  /\ started' = TRUE
  /\ lock' = None
  /\ Move(r, "queue", None)
  /\ UNCHANGED <<playwright, pages, slots, drivers>>

StartFails(r) ==
  /\ at[r] \in {"driver", "launch"}
  /\ EnterClose(r)
  /\ UNCHANGED <<pages, procs>>

\* context(): the semaphore, with the queue timeout, then new_context().
TakePage(r) ==
  /\ at[r] = "queue"
  /\ pages > 0
  /\ browser # None
  /\ pages' = pages - 1
  /\ Move(r, "context", browser)
  /\ UNCHANGED <<manager, slots, procs>>

\* self._browser has become None while the request queued: the permit is
\* taken, the attribute access fails and the permit is released again.
BrowserGone(r) ==
  /\ at[r] = "queue"
  /\ pages > 0
  /\ browser = None
  /\ EnterClose(r)
  /\ UNCHANGED <<pages, procs>>

RefusePage(r) ==
  /\ at[r] = "queue"
  /\ pages = 0
  /\ SlotBack(r)
  /\ End(r)
  /\ UNCHANGED <<manager, pages, procs>>

ContextOk(r) ==
  /\ at[r] = "context"
  /\ on[r] \in alive
  /\ Move(r, "open", on[r])
  /\ UNCHANGED <<manager, pages, slots, procs>>

\* Mutant: the permit of a context that could not be opened is lost.
ContextFailsKeepingPermit(r) ==
  /\ at[r] = "context"
  /\ EnterClose(r)
  /\ UNCHANGED <<pages, procs>>

\* new_context() fails: the permit goes back and the shared browser is closed.
ContextFails(r) ==
  /\ at[r] = "context"
  /\ pages' = pages + 1
  /\ EnterClose(r)
  /\ UNCHANGED procs

\* _open_page: the page and its network policy; on failure the context is
\* closed, errors of that are suppressed, and the error is raised.
PageOk(r) ==
  /\ at[r] = "open"
  /\ on[r] \in alive
  /\ Move(r, "work", on[r])
  /\ UNCHANGED <<manager, pages, slots, procs>>

PageFails(r) ==
  /\ at[r] = "open"
  /\ pages' = pages + 1
  /\ SlotBack(r)
  /\ End(r)
  /\ UNCHANGED <<manager, procs>>

\* The analysis is over, well or badly, and the context closes.
FinishWork(r) ==
  /\ at[r] = "work"
  /\ pages' = pages + 1
  /\ SlotBack(r)
  /\ End(r)
  /\ UNCHANGED <<manager, procs>>

\* Closing the context of a browser that is gone raises: _ManagedContext.close
\* still releases its permit, but what follows it in the caller's finally
\* block, the release of the screenshot slot, is not reached.
FinishBadly(r) ==
  /\ at[r] = "work"
  /\ on[r] \notin alive
  /\ pages' = pages + 1
  /\ End(r)
  /\ UNCHANGED <<manager, slots, procs>>

\* close(): the browser has closed, then the driver has stopped.
BrowserClosed(r) ==
  /\ at[r] = "closing"
  /\ alive' = alive \ {on[r]}
  /\ DropBrowser(r)
  /\ UNCHANGED <<pages, drivers>>

DriverStopped(r) ==
  /\ at[r] = "stopping"
  /\ drivers' = drivers \ {on[r]}
  /\ alive' = alive \ {on[r]}
  /\ CloseDone(r)
  /\ UNCHANGED <<browser, pages>>

\* Chromium dies by itself.
Crash(i) ==
  /\ i \in alive
  /\ alive' = alive \ {i}
  /\ UNCHANGED <<manager, pages, slots, drivers, at, on>>

Step(r) ==
  \/ TakeSlot(r) \/ RefuseSlot(r) \/ GetLock(r)
  \/ (\E i \in Ids : DriverUp(r, i)) \/ LaunchOk(r) \/ StartFails(r)
  \/ TakePage(r) \/ BrowserGone(r) \/ RefusePage(r)
  \/ ContextOk(r) \/ ContextFails(r) \/ PageOk(r) \/ PageFails(r)
  \/ FinishWork(r) \/ FinishBadly(r) \/ BrowserClosed(r) \/ DriverStopped(r)

PoolNext ==
  \/ \E r \in Requests : Arrive(r) \/ ArriveShot(r) \/ Step(r)
  \/ \E i \in Ids : Crash(i)

PoolSpec == PoolInit /\ [][PoolNext]_poolVars

\* Every Playwright call ends (navigation, launch and default timeouts), a
\* queueing request is served or times out, and asyncio.Lock is handed over in
\* the order of arrival, so that nobody waits for it forever.
Fairness == \A r \in Requests : WF_poolVars(Step(r)) /\ SF_poolVars(GetLock(r))

-----------------------------------------------------------------------------
\* The variables have the types the code gives them.
Places == {"idle", "slot", "lock", "driver", "launch", "queue", "context", "open", "work",
           "closing", "stopping"}

PoolTypeOK ==
  /\ started \in BOOLEAN
  /\ {browser, playwright} \subseteq Ids \cup {None}
  /\ lock \in Requests \cup {None}
  /\ pages \in 0..MaxPages
  /\ slots \in 0..MaxShots
  /\ alive \subseteq drivers /\ drivers \subseteq Ids
  /\ at \in [Requests -> Places]
  /\ on \in [Requests -> Ids \cup {None}]

\* "Bounds concurrent contexts": whatever fails, and wherever, a permit is
\* held by exactly the requests that own or are opening a context, and no
\* error path releases a page or screenshot permit twice.
Owners == {r \in Requests : at[r] \in {"context", "open", "work"}}

ShotsUnderWay == {r \in Shots : at[r] \notin {"idle", "slot"}}

PermitsConserved ==
  /\ pages + Cardinality(Owners) = MaxPages
  /\ slots + Cardinality(ShotsUnderWay) <= MaxShots

\* start() does nothing while _started is set, so a manager that says so
\* without a browser could never recover: a close() under way is the only time
\* that it does, and its end repairs it.
StaleFlagRepaired ==
  started /\ browser = None => \E r \in Requests : at[r] = "stopping"

\* The start lock: whoever starts the browser has it, and it is never left
\* behind, not even by a start that fails while other requests close.
LockOwned ==
  /\ \A r \in Requests : at[r] \in {"driver", "launch"} => lock = r
  /\ lock # None => at[lock] \in {"driver", "launch", "closing", "stopping"}

\* The types, the permits, the flag and the lock, which rest on one another.
PoolSound == PoolTypeOK /\ PermitsConserved /\ StaleFlagRepaired /\ LockOwned

\* Every request that has begun ends.
RequestsEnd == \A r \in Requests : at[r] # "idle" ~> at[r] = "idle"

\* "Owns one reusable Chromium process" (the class docstring).
OneBrowser == Cardinality(alive) <= 1
=============================================================================
