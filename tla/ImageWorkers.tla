--------------------------- MODULE ImageWorkers ---------------------------
(***************************************************************************)
(* ImageService._run and the default thread pool it shares with the WHOIS  *)
(* and MaxMind providers: a semaphore of MaxConcurrent operations, a job   *)
(* per operation on one of Threads worker threads, and a timeout after     *)
(* which the operation fails.  asyncio cannot stop a running thread: a job *)
(* that has not started is cancelled, one that runs goes on without its    *)
(* operation.                                                              *)
(***************************************************************************)
EXTENDS Integers, FiniteSets, SequencesExt

CONSTANTS
  Operations,     \* concurrent image requests
  Lookups,        \* concurrent WHOIS lookups
  MaxConcurrent,  \* image_max_concurrent, positive
  Threads         \* workers of the default executor, positive

VARIABLES
  permits,   \* free permits of self._semaphore
  waiters,   \* operations that wait for one, in order of arrival
  job,        \* "idle", "waiting", "submitted" (its job queued or running)
  queue,     \* jobs the executor has not started, in order
  running,   \* jobs whose result somebody awaits
  orphans    \* number of image jobs that run without their operation

workerVars == <<permits, waiters, job, queue, running, orphans>>

Jobs == Operations \cup Lookups

WorkersInit ==
  /\ permits = MaxConcurrent
  /\ waiters = << >>
  /\ job = [j \in Jobs |-> "idle"]
  /\ queue = << >>
  /\ running = {}
  /\ orphans = 0

Busy == Cardinality(running) + orphans

Submit(j) ==
  /\ job' = [job EXCEPT ![j] = "submitted"]
  /\ queue' = Append(queue, j)

-----------------------------------------------------------------------------
\* async with self._semaphore: at once if a permit is free and nobody waits.
Enter(o) ==
  /\ job[o] = "idle"
  /\ IF permits > 0 /\ waiters = << >>
     THEN permits' = permits - 1 /\ Submit(o) /\ UNCHANGED waiters
     ELSE /\ waiters' = Append(waiters, o)
          /\ job' = [job EXCEPT ![o] = "waiting"]
          /\ UNCHANGED <<permits, queue>>
  /\ UNCHANGED <<running, orphans>>

\* The first waiter gets a released permit.
Admit ==
  /\ permits > 0 /\ waiters # << >>
  /\ permits' = permits - 1
  /\ waiters' = Tail(waiters)
  /\ Submit(Head(waiters))
  /\ UNCHANGED <<running, orphans>>

\* A WHOIS lookup uses the same executor, without a semaphore or a timeout.
Lookup(l) ==
  /\ job[l] = "idle"
  /\ Submit(l)
  /\ UNCHANGED <<permits, waiters, running, orphans>>

\* A worker thread takes the next job.
Start ==
  /\ queue # << >> /\ Busy < Threads
  /\ queue' = Tail(queue)
  /\ running' = running \cup {Head(queue)}
  /\ UNCHANGED <<permits, waiters, job, orphans>>

\* Mutant: the permit is not released.
LeaveHoldingPermit(j) ==
  /\ job' = [job EXCEPT ![j] = "idle"]
  /\ UNCHANGED permits

Leave(j) ==
  /\ job' = [job EXCEPT ![j] = "idle"]
  /\ permits' = IF j \in Operations THEN permits + 1 ELSE permits

\* The job returns or raises before the timeout.
Complete(j) ==
  /\ j \in running
  /\ running' = running \ {j}
  /\ Leave(j)
  /\ UNCHANGED <<waiters, queue, orphans>>

\* Mutant: a job that has not started stays queued.
TimeoutKeepingJob(o) ==
  /\ job[o] = "submitted"
  /\ running' = running \ {o}
  /\ orphans' = IF o \in running THEN orphans + 1 ELSE orphans
  /\ Leave(o)
  /\ UNCHANGED <<waiters, queue>>

\* wait_for gives up: a queued job is cancelled, a running one is orphaned,
\* and the semaphore is released either way.
Timeout(o) ==
  /\ job[o] = "submitted"
  /\ queue' = RemoveFirst(queue, o)
  /\ running' = running \ {o}
  /\ orphans' = IF o \in running THEN orphans + 1 ELSE orphans
  /\ Leave(o)
  /\ UNCHANGED waiters

OrphanEnds ==
  /\ orphans > 0
  /\ orphans' = orphans - 1
  /\ UNCHANGED <<permits, waiters, job, queue, running>>

WorkersNext ==
  \/ \E o \in Operations : Enter(o) \/ Timeout(o)
  \/ \E l \in Lookups : Lookup(l)
  \/ \E j \in Jobs : Complete(j)
  \/ Admit \/ Start \/ OrphanEnds

WorkersSpec == WorkersInit /\ [][WorkersNext]_workerVars

\* The event loop serves the semaphore, the executor its queue, every timeout
\* fires, and every thread ends (decoding is bounded, WHOIS is assumed to be).
WorkersFairness ==
  /\ WF_workerVars(Admit) /\ WF_workerVars(Start) /\ WF_workerVars(OrphanEnds)
  /\ \A o \in Operations : WF_workerVars(Timeout(o) \/ Complete(o))
  /\ \A l \in Lookups : WF_workerVars(Complete(l))

-----------------------------------------------------------------------------
\* The variables have the types the code gives them.
WorkersTypeOK ==
  /\ permits \in 0..MaxConcurrent
  /\ waiters \in Seq(Operations)
  /\ job \in [Jobs -> {"idle", "waiting", "submitted"}]
  /\ queue \in Seq(Jobs)
  /\ running \in SUBSET Jobs
  /\ orphans \in 0..Threads

\* A permit is held by exactly the operations that have a job of their own,
\* and a job is queued or running, never both and never without its operation.
PermitsMatchJobs ==
  /\ WorkersTypeOK
  /\ permits + Cardinality({o \in Operations : job[o] = "submitted"}) = MaxConcurrent
  /\ \A j \in Jobs :
       job[j] = "submitted" <=> (j \in running) # (\E i \in DOMAIN queue : queue[i] = j)

\* Every operation ends in the time its timeout allows, and every WHOIS lookup
\* gets its thread, whatever threads the operations left behind.
WorkersEnd == \A j \in Jobs : job[j] # "idle" ~> job[j] = "idle"
=============================================================================
