---------------------------- MODULE RedisBackend ----------------------------
(***************************************************************************)
(* Several API processes that share one Redis server: the start and the    *)
(* shutdown of a process (app/main.py), RedisRateLimiter, RedisCache, the  *)
(* in-process fallbacks and the readiness probe.  The server crashes and   *)
(* comes back with its data or without, answers get lost, processes are    *)
(* killed, and another program may leave a value that is not JSON.         *)
(*                                                                         *)
(* One client key and one cache key stand for all: Redis treats keys one   *)
(* by one.  A request first asks the limiter, then reads through the       *)
(* cache.  redis-py retries nothing and waits without a timeout, so a      *)
(* command ends when the server answers or the connection breaks.          *)
(***************************************************************************)
EXTENDS Integers, FiniteSets, Sequences

CONSTANTS
  Processes,  \* the API processes
  Requests,   \* the requests that may be under way at a time
  Home,       \* Home[r]: the process that serves request r
  Limit,      \* requests per window, any integer
  Window,     \* rate_limit_window_seconds, in ticks
  Ttl,        \* the cache time to live, in ticks
  Settings,   \* combinations of what the settings turn on
  MaxTime,    \* bound of the clock in the model
  MaxCount,   \* bound of a counter for requests that begin, in the model
  MaxFaults   \* bound of crashes, kills and corruptions in the model

VARIABLES
  enabled,  \* what the settings turn on: "cache", "limiter"
  now,      \* the clock
  faults,   \* faults so far
  server,   \* "up" or "down"
  counter,  \* the client's key: << >>, or its count, expiry and life
  entry,    \* the cache key: << >>, or its value and expiry
  lives,    \* how many counters the client's key has had
  phase,    \* each process: "down", "redis", "memory" or "closing"
  left,     \* what each process still has to close
  table,    \* the in-process window of each process on "memory"
  at,       \* where each request is
  reply,    \* an answer of Redis or a value on its way to it, or << >>
  granted   \* requests that answers of the current counter have admitted

shared == <<server, counter, entry, lives>>
processes == <<phase, left, table>>
vars == <<enabled, now, faults, shared, processes, at, reply, granted>>

CloseOrder == <<"http_client", "browser_manager", "cache", "limiter">>

Corrupted == -1  \* stands for what json.loads rejects; a value is the time it was made

RedisInit ==
  /\ enabled \in Settings
  /\ granted = 0
  /\ now = 0
  /\ faults = 0
  /\ server \in {"up", "down"}
  /\ counter = << >>
  /\ entry = << >>
  /\ lives = 0
  /\ phase = [p \in Processes |-> "down"]
  /\ left = [p \in Processes |-> << >>]
  /\ table = [p \in Processes |-> << >>]
  /\ at = [r \in Requests |-> "idle"]
  /\ reply = [r \in Requests |-> << >>]

-----------------------------------------------------------------------------
\* The life of a process.

\* build_providers and the first half of lifespan: one probe decides, for the
\* whole life of the process, where its counters and its values are kept.
Start(p) ==
  /\ phase[p] = "down"
  /\ phase' = [phase EXCEPT ![p] = IF server = "up" THEN "redis" ELSE "memory"]
  /\ table' = [table EXCEPT ![p] = << >>]
  /\ UNCHANGED <<enabled, granted, now, faults, shared, left, at, reply>>

\* The second half of lifespan, once the server has ended its requests: what
\* the process has of CloseOrder is closed, one after the other.
Stop(p) ==
  /\ phase[p] \in {"redis", "memory"}
  /\ \A r \in Requests : Home[r] = p => at[r] = "idle"
  /\ phase' = [phase EXCEPT ![p] = "closing"]
  /\ left' = [left EXCEPT ![p] =
                SelectSeq(CloseOrder, LAMBDA c : c \in {"cache", "limiter"} => phase[p] = "redis" /\ c \in enabled)]
  /\ UNCHANGED <<enabled, granted, now, faults, shared, table, at, reply>>

\* One resource closes, or raises: then the process ends with the rest open.
Close(p) ==
  /\ phase[p] = "closing"
  /\ \/ left[p] # << >> /\ left' = [left EXCEPT ![p] = Tail(@)] /\ UNCHANGED phase
     \/ left' = [left EXCEPT ![p] = << >>] /\ phase' = [phase EXCEPT ![p] = "down"]
  /\ UNCHANGED <<enabled, granted, now, faults, shared, table, at, reply>>

Fault == faults < MaxFaults /\ faults' = faults + 1

\* A killed process takes its requests with it; a command of theirs that the
\* server has not run yet is lost.
Kill(p) ==
  /\ Fault
  /\ phase[p] # "down"
  /\ phase' = [phase EXCEPT ![p] = "down"]
  /\ left' = [left EXCEPT ![p] = << >>]
  /\ at' = [r \in Requests |-> IF Home[r] = p THEN "idle" ELSE at[r]]
  /\ reply' = [r \in Requests |-> IF Home[r] = p THEN << >> ELSE reply[r]]
  /\ UNCHANGED <<enabled, granted, now, shared, table>>

-----------------------------------------------------------------------------
\* The server and the clock.

Crash ==
  /\ Fault
  /\ server = "up"
  /\ server' = "down"
  /\ \/ UNCHANGED <<counter, entry>>
     \/ counter' = << >> /\ entry' = << >>
  /\ UNCHANGED <<enabled, granted, now, lives, processes, at, reply>>

Recover ==
  /\ server = "down"
  /\ server' = "up"
  /\ UNCHANGED <<enabled, granted, now, faults, counter, entry, lives, processes, at, reply>>

Corrupt ==
  /\ Fault
  /\ server = "up"
  /\ entry' = <<[value |-> Corrupted, expires |-> now + Ttl]>>
  /\ UNCHANGED <<enabled, granted, now, server, counter, lives, processes, at, reply>>

Live(key) == IF key # << >> /\ key[1].expires > now' THEN key ELSE << >>

\* Redis drops what expires; the tables of the processes age in the same way.
Tick ==
  /\ now < MaxTime
  /\ now' = now + 1
  /\ counter' = Live(counter)
  /\ entry' = Live(entry)
  /\ table' = [p \in Processes |-> Live(table[p])]
  /\ UNCHANGED <<enabled, granted, faults, server, lives, phase, left, at, reply>>

-----------------------------------------------------------------------------
\* The steps of a request.  "x_sent" is a command on its way, "x_run" one
\* whose answer is.

Goto(r, place, holds) ==
  /\ at' = [at EXCEPT ![r] = place]
  /\ reply' = [reply EXCEPT ![r] = holds]

End(r) == Goto(r, "idle", << >>)

At(r, place) == at[r] = place /\ phase[Home[r]] # "down"

Arrives(r, kind) == at[r] = "idle" /\ phase[Home[r]] = kind

NoServer == UNCHANGED <<enabled, granted, now, faults, shared, processes>>

\* The middleware asks the limiter; a limit or a window that is not positive
\* refuses everything before Redis is asked.  What the answer says of the time
\* left only goes into a header.
AskRedis(r) ==
  /\ Arrives(r, "redis") /\ "limiter" \in enabled
  /\ counter # << >> => counter[1].n < MaxCount
  /\ IF Limit <= 0 \/ Window <= 0 THEN End(r) ELSE Goto(r, "limit_sent", << >>)
  /\ NoServer

\* Without a limiter every request is admitted.
Unlimited(r) ==
  /\ "limiter" \notin enabled
  /\ \/ Arrives(r, "redis") /\ Goto(r, "admitted", << >>)
     \/ Arrives(r, "memory") /\ End(r)
  /\ NoServer

\* In a process on its own, the table of that process decides and no command
\* leaves it.  (RateLimiter and MemoryCache have the details.)
AskMemory(r) ==
  LET p == Home[r]
      n == IF table[p] = << >> THEN 1 ELSE table[p][1].n + 1 IN
  /\ Arrives(r, "memory") /\ "limiter" \in enabled
  /\ IF Limit <= 0 \/ Window <= 0 \/ n > Limit
     THEN End(r) /\ UNCHANGED table
     ELSE /\ End(r)
          /\ table' = [table EXCEPT ![p] =
                         <<[n |-> n, expires |-> IF @ = << >> THEN now + Window ELSE @[1].expires]>>]
  /\ UNCHANGED <<enabled, granted, now, faults, shared, phase, left>>

\* Mutant: every use of the counter sets its expiry again.
CountedAgain(c) ==
  IF c = << >> THEN [n |-> 1, expires |-> now + Window, life |-> lives + 1]
               ELSE [c[1] EXCEPT !.n = @ + 1, !.expires = now + Window]

\* The script: the first use of a key sets its expiry, in the same step.
Counted(c) ==
  IF c = << >> THEN [n |-> 1, expires |-> now + Window, life |-> lives + 1]
               ELSE [c[1] EXCEPT !.n = @ + 1]

RunScript(r) ==
  /\ At(r, "limit_sent") /\ server = "up"
  /\ counter' = <<Counted(counter)>>
  /\ lives' = counter'[1].life
  /\ granted' = IF lives' = lives THEN granted ELSE 0
  /\ Goto(r, "limit_run", <<counter'[1].n, lives'>>)
  /\ UNCHANGED <<enabled, now, faults, server, entry, processes>>

\* Mutant: one more request than the limit.
WithinByOne(n) == n <= Limit + 1

Within(n) == n <= Limit

Verdict(r) ==
  /\ At(r, "limit_run")
  /\ IF Within(reply[r][1])
     THEN /\ Goto(r, "admitted", << >>)
          /\ granted' = IF reply[r][2] = lives THEN granted + 1 ELSE granted
     ELSE End(r) /\ UNCHANGED granted
  /\ UNCHANGED <<enabled, now, faults, shared, processes>>

\* Mutant: only a command without an answer is given up.
LimiterFailsUnanswered(r) ==
  /\ At(r, "limit_run")
  /\ server = "down"
  /\ Goto(r, "admitted", << >>)
  /\ NoServer

\* Availability wins: a limiter that cannot ask admits.
LimiterFails(r) ==
  /\ At(r, "limit_sent") \/ At(r, "limit_run")
  /\ server = "down"
  /\ Goto(r, "admitted", << >>)
  /\ NoServer

-----------------------------------------------------------------------------
\* get_or_set: no lock and no lease, every request that misses computes.

\* The cache of the settings, or NullCache, which never holds anything.
Admitted(r) ==
  /\ At(r, "admitted")
  /\ Goto(r, IF "cache" \in enabled THEN "get_sent" ELSE "filling", << >>)
  /\ NoServer

RunGet(r) ==
  /\ At(r, "get_sent") /\ server = "up"
  /\ Goto(r, "get_run", IF entry = << >> THEN << >> ELSE <<entry[1].value>>)
  /\ NoServer

\* Mutant: whatever the key holds is served.
ReadableAlways(raw) == raw # << >>

\* json.loads accepts it, so it is a value some process stored.
Readable(raw) == raw # << >> /\ raw # <<Corrupted>>

\* A hit is served, a miss computes, and what cannot be read is deleted first.
Hit(r) ==
  /\ At(r, "get_run")
  /\ IF Readable(reply[r]) THEN End(r)
     ELSE Goto(r, IF reply[r] = << >> THEN "filling" ELSE "delete_sent", << >>)
  /\ NoServer

\* The delete is by key: it removes what is there when it runs, which may be
\* the fresh value of another request.
RunDelete(r) ==
  /\ At(r, "delete_sent") /\ server = "up"
  /\ entry' = << >>
  /\ Goto(r, "filling", << >>)
  /\ UNCHANGED <<enabled, granted, now, faults, server, counter, lives, processes>>

\* The factory returns a value of this moment, or raises and the request ends
\* without one.
Fill(r) ==
  /\ At(r, "filling")
  /\ \/ "cache" \in enabled /\ Goto(r, "set_sent", <<now>>)
     \/ "cache" \notin enabled /\ End(r)
     \/ End(r)
  /\ NoServer

Stored(value) == [value |-> value, expires |-> now + Ttl]

RunSet(r) ==
  /\ At(r, "set_sent") /\ server = "up"
  /\ entry' = <<Stored(reply[r][1])>>
  /\ End(r)
  /\ UNCHANGED <<enabled, granted, now, faults, server, counter, lives, processes>>

\* A command that cannot reach Redis is a miss, or is skipped.
CacheFails(r) ==
  /\ server = "down"
  /\ \/ /\ At(r, "get_sent") \/ At(r, "get_run") \/ At(r, "delete_sent")
        /\ Goto(r, "filling", << >>)
     \/ At(r, "set_sent") /\ End(r)
  /\ NoServer

-----------------------------------------------------------------------------
Request(r) ==
  \/ AskRedis(r) \/ AskMemory(r) \/ Unlimited(r) \/ RunScript(r) \/ Verdict(r) \/ LimiterFails(r)
  \/ Admitted(r) \/ RunGet(r) \/ Hit(r) \/ RunDelete(r) \/ Fill(r) \/ RunSet(r) \/ CacheFails(r)

RedisNext ==
  \/ Crash \/ Recover \/ Corrupt \/ Tick
  \/ \E p \in Processes : Start(p) \/ Stop(p) \/ Close(p) \/ Kill(p)
  \/ \E r \in Requests : Request(r)

\* The event loop runs every request and every shutdown that can go on: while
\* the server is down commands fail, while it is up they are answered.
Fairness ==
  /\ \A r \in Requests : WF_vars(at[r] # "idle" /\ Request(r))
  /\ \A p \in Processes : WF_vars(Close(p))

RedisSpec == RedisInit /\ [][RedisNext]_vars /\ Fairness

-----------------------------------------------------------------------------
\* However the requests of several processes interleave, answers lost and
\* processes killed included, the answers of one counter admit no more than
\* the limit: what exceeds it was admitted without an answer.
SharedQuota == granted <= (IF Limit > 0 THEN Limit ELSE 0)

\* A window ends when it was due at its first request, however often the
\* client asks again: no client is locked out by asking.
WindowNeverMoves ==
  [][counter # << >> /\ counter' # << >> /\ counter'[1].life = counter[1].life
       => counter'[1].expires = counter[1].expires]_vars

\* A request is served out of Redis only with a value that some process made,
\* and a value stays no longer than the cache time after it was stored,
\* whatever other requests write, delete or leave behind.
ServedFresh ==
  [][/\ \A r \in Requests : at[r] = "get_run" /\ at'[r] = "idle" /\ phase'[Home[r]] # "down" => reply[r][1] \in 0..now
     /\ entry # << >> => entry[1].expires - now \in 1..Ttl]_vars

\* Redis never keeps a request or a shutdown from ending.
RedisHoldsNobody ==
  /\ \A r \in Requests : at[r] # "idle" ~> at[r] = "idle"
  /\ \A p \in Processes : phase[p] = "closing" ~> phase[p] = "down"
=============================================================================
