# Awesome_API in TLA+

Awesome_API is a FastAPI application: one process, one event loop, some sixty
HTTP endpoints. What is hard about it is what requests share: a rate limiter, a
cache, one browser, a thread pool, a mapping of registries, and the stack of
middleware that every request crosses; with Redis, several processes share the
limiter and the cache. Most endpoints are pure conversions, each with its own
rules. These modules model both, check them with TLC and prove with TLAPS the
most important facts about the shared core and about several of the tools.

Paths below are relative to `src/`.

## 1. Inventory

| Component | State | Operations | Interacts with |
|---|---|---|---|
| Rate limiter, `app/core/ratelimit.py` | `_counts`, `_operations` | `check` | called by `RateLimitMiddleware` for every request under `/api/` |
| Memory cache, `app/repositories/cache.py` | `_store`, `_async_locks` | `get`, `set`, `delete`, `get_or_set` | MX, WHOIS, IP and URL services coalesce through it; DNS and browser services read and write |
| Browser pool, `app/services/design_system_service.py`, `browser_intelligence_service.py` | `_started`, `_browser`, `_playwright`, `_start_lock`, two semaphores | `start`, `close`, `context`, `_ManagedContext.close`, `_open_page`, `capture` | Playwright's driver and Chromium, which fail and die on their own |
| Image workers, `app/services/image_service.py` | `_semaphore` | `_run` | the default thread pool, shared with the WHOIS provider |
| Registration data, `app/providers/whois/`, `whois_service.py`, `domain_service.py` | `_bootstrap`, `_bootstrap_fetched_at` | `lookup` of RDAP and WHOIS, `_detect` | IANA, registries, WHOIS servers |
| Request pipeline, `app/core/middleware.py`, `app/main.py` | the request and its context id | four middleware layers, exception handlers | limiter, routes |
| Body guard, `app/core/middleware.py` | the scanner of `limited_receive` | one step per chunk | pipeline |
| Redis cache and limiter, start and shutdown, `app/core/ratelimit.py`, `app/repositories/cache.py`, `app/main.py` | a counter and an entry per key on a server; which backend a process uses | as above, with outages; `build_providers`, `lifespan` | other processes, a server that crashes and forgets |
| DNS, MX, e-mail, domain, URL and IP services | none of their own | chains of queries with fallbacks | cache, DNS, GeoIP provider |
| Names, addresses, host lists, mail policies, `app/utils/`, `dns_tools_service.py`, `app/providers/email/` | lists, read once | normalisation, records, DNSSEC, SPF, DMARC, classes of addresses | DNS |
| IP sources, `app/providers/geoip/free.py` | none | `lookup`: three sources at once, put together | `ip_service.py` |
| Outbound HTTP, `app/providers/web/ssrf.py`, `webpage_service.py`, `http_tools_service.py`, `web_tools_service.py` | one `httpx` client with its connection pool | fetch with redirects, address checks and limits; ports and certificates | the network, the event loop |
| Network policy of a page, `_ManagedContext` | `requests`, `image_requests`, `downloaded_bytes`, `blocked`, `warnings` | `_route`, one handler per request of the page; the viewport loop; the report | Chromium |
| Design tokens, `DesignSystemService._normalize` | none | counts what snapshots of a page show and names it | page analysis |
| Cron and JSON tools, `cron_service.py`, `data_tools_service.py` | none | pure functions | - |
| Developer, HTTP, web, colour, mock-data, toolbox and image tools | none | pure functions, some of them of random choices | fetches, image workers |
| Phone, user-agent, password-generation tools, file metadata | none | libraries, tables and random choice | - |

The interaction is by calls on one event loop. A coroutine runs until an
`await` that suspends; that is where requests interleave, and the models have
one action per stretch between two such points. Threads appear only in the
image and WHOIS providers. Nothing is persisted, so there is no recovery after
a crash of the process; Chromium's crash is part of the browser model. No
handler is cancelled when its client disconnects.

The behaviours that are hard to test, and what catches them, are listed in
`PROJECT.json` under `hazards`. What makes each component correct:

* limiter: a quota per window, exactly; a bounded table; an honest Retry-After;
* cache: one factory per key at a time, never while a fresh value is stored;
  a bounded store; every waiting caller is answered;
* browser: a permit belongs to exactly one context; the start lock is never
  stranded; a dead browser is replaced; every request ends; one process;
* page policy: the budgets hold whatever order the handlers run in, and a report
  that leaves something out says so, unless the refusal is still under way;
* images: a permit belongs to exactly one job, every operation ends;
* registry: an outage is never reported as an answer, a mapping is not used
  past its TTL;
* outbound HTTP: no connection to an address that was not checked, but for hosts
  with an internationalised name; the answer is that of the chain of redirects;
  no fetch waits for ever;
* lookups: an outage never becomes a verdict about mail, an address or a record,
  and no reply or cached value mixes two questions;
* pipeline: nothing runs unguarded, and every response carries one id and what
  the layers add that lie outside of the one that made it;
* body guard: the verdict does not depend on how the body is cut into chunks;
* Redis: the answers of one counter admit no more than the limit, a window ends
  when it was due, nothing that no process made is served, and a server that
  fails holds nobody up;
* tools: an answer means what it says. A patch turns one document into the
  other, the next times of a schedule are exactly those it means, a colour
  survives its notations, a range of versions admits what it reads as, a mock
  value conforms to its schema, every row of a picture is on a page, a rule of
  robots.txt is listed below its agent, a source that fails takes nothing away
  from what another one says.

## 2. Modules

| Module | Models | State and actions |
|---|---|---|
| `WindowQuota` | abstract: what a fixed-window limiter with a bounded memory promises | `open` windows; `Spend`, `Open`, `Displace`, `Deny` |
| `RateLimiter` | `MemoryRateLimiter.check` | `counts`, `operations`, `reply`; `Refuse`, `Admit`, `Deny`, `Tick`; the cleanup and the eviction are part of `Admit` and `Deny` |
| `RateLimiterClients` | the limiter with the history its clients see | adds `retryAt`, `grants` |
| `ReadThrough` | abstract: a read-through cache with bounded room | `slots`, `filling` |
| `MemoryCache` | `MemoryCache` and its callers | `store`, `locks`, `pc`, `wants`; `Hit`, `StartFill`, `Queue`, `Share`, `Refill`, `Fill`, `Fail`, `Get`, `Put`, `Delete` |
| `BrowserPool` | `BrowserManager`, a context's life, screenshot slots | one action per await of Playwright, succeeding or failing, and `Crash` |
| `ImageWorkers` | `ImageService._run`, the thread pool, WHOIS threads | `Enter`, `Admit`, `Lookup`, `Start`, `Complete`, `Timeout`, `OrphanEnds` |
| `Registry` | RDAP bootstrap, RDAP, WHOIS, availability | `Mapped`, `Fetch`, `Loaded`, `FetchFails`, `FetchRaises`, `RegistryAnswers`, `WhoisAnswers` |
| `RequestPipeline` | the middleware stack and the exception handlers | one action per layer and direction; a response says who made it (`by`), and an error of the application has the status of its class (`AppStatuses`) |
| `JsonGuard` | the streaming scanner | `Receive(n)`, `Complete` |
| `PagePolicy` | `_ManagedContext._route`, its budgets, the viewport loop and the report of design and audit analyses | `pc`, `outcome`, `size`, `hops` of each request of the page; `requests`, `images`, `bytes`, `blocked`, `warned`; one action per await of a handler, the abort of an unlisted type included, which is counted only afterwards |
| `OutboundFetch` | the three redirect loops of `webpage_service.py`, `web_tools_service.py` and `http_tools_service.py` over one pool of connections | `fetch`, `idle`; resolve, dial or reuse, send, read, follow, with failures and timeouts; the pin of an internationalised host is not found (`Dialled`) |
| `Lookups` | DNS, MX, e-mail, domain, URL and IP lookups over the cache that `ReadThrough` promises | `zone`, `cache`, `call`; one action per query that succeeds or fails |
| `JsonPatch` | JSON diff, JSON patch and the reader that verifies a patch | `Diff`, `Patch` on two documents |
| `CronSchedule` | phrase to expression, expression to fields, fields to next times | `Answer` |
| `RedisBackend` | `RedisRateLimiter`, `RedisCache`, the fallbacks, the start and the shutdown of several processes | `server`, `counter`, `entry`, `phase`, `pc`; one action per command that is sent, run or answered, `Start`, `Stop`, `Close`, `Kill`, `Crash`, `Recover`, `Corrupt`, `Tick` |
| `NetProbes` | port checks and certificate checks over one event loop | `now`, `blocked`, `port`, `tls`; connecting, timing out, blocking the loop, time |
| `ToolCall` | a request to a service without state | `call`, `result`; the modules below extend it, each with one `Reply` per tool |
| `DomainNames` | `utils/domain.py`, `utils/email.py`, `host_lists.py`, what the idna library refuses | normal forms of names and addresses, registrable domains, lists of hosts |
| `MailTools` | records of a domain, DNSSEC, SPF and DMARC, classes of addresses | what is read out of DNS answers |
| `IpSources` | `FreeIPIntelligenceProvider`, the fields of `IPService` | three sources put together, with empty, irrelevant and malformed answers; the network of a range |
| `WebTools` | redirects, robots.txt, technologies, content types, canonical links | what is read out of pages |
| `WebSources` | a request to one of `WebTools` and `IpSources` | `WebExact` |
| `HttpBuilder` | request builder, curl command, response report, headers, URLs of `http_tools_service.py` | |
| `DesignTokens` | `DesignSystemService._normalize` | colours, custom properties, spacing, typography, components |
| `DevTools` | semantic versions and ranges, changelogs, checks of SQL | |
| `ColorTools` | notations, contrast and names of colours | exact fractions in place of floating-point numbers |
| `MockData` | values for schemas and fields, responses of OpenAPI documents | a reply is any value the generator can come to |
| `Toolbox` | tokens, identifiers, digests, JSON limits, regular expressions, passwords | |
| `ImageTools` | sizes, canvases, pages, the search for a target size | |
| `Lists` | what several services do with lists: sorting numbers, filtering | operators without recursion |
| `RateLimiterProofs`, `RegistryProofs`, `BrowserProofs`, `OutboundFetchProofs`, `RequestProofs`, `ToolsProofs`, `LookupProofs`, `NamesProofs` | theorems | |

`MC*` modules give the constants values; each `.cfg` is one run.

How the data are abstracted. A cached value is the time at which it was made.
Time is a counter of ticks with the bound `MaxTime`; the limiter's clock has
`TicksPerSecond` ticks so that Retry-After is really rounded. The limiter's
call counter is kept modulo `CleanupPeriod` (256 in the code), which is all the
code asks of it. Ties in an eviction are broken by dict order in the code and
by choice in the models. A driver process and the Chromium it launched share an
id. A request is the record of facts that the layers ask about it. A byte of a
JSON body is one of five symbols, the five that the scanner tells apart.
A host, an address, a URL, a record of DNS is a model value or a pair of them;
a resource of a page has a size of 1 or 2. The calendar of `CronSchedule` is a
constant, so that its year, its months and its hours can be short.
Each definition's lines are in `PROJECT.json` under `map`. Definitions whose
comment begins with "Mutant:" are not part of the model: each is a plausible
bug, put in place of a definition to see that the named property notices.

## 3. Runs

A run with two parts extends both modules and has a variable `part` (in
`MCTools` `service`) that says which of them a behaviour belongs to; the state
of the other one does not move.

| Run | Question | Instance |
|---|---|---|
| `MCRateLimiter` | bounded table, at most twice the limit in one window's length, Retry-After honoured, refinement of `WindowQuota` | a policy with limit 2 and one that is off (-1), 3 symmetric clients, 2 slots, cleanup every 2nd call, 6 ticks with windows of 4 |
| `MCRegistry` | registration: truthful answers, trusted mapping is fresh; lookups: truthful MX verdicts, complete replies, locations of the right address | 2 domains of 2 top-level domains, 5 ticks with a TTL of 2; zones of a domain and an alias that shares its first address, 2 symmetric callers, a cache of 2 entries |
| `MCRequestPipeline` | one request: ids kept, work guarded, responses decorated, the scanner's verdict exact and balanced; Redis: one quota for all processes, windows that end, fresh values, nobody held up | every kind of request with bodies of the JSON grammar, cut into chunks in every way, up to 12 bytes, depth 2, 3 nodes; 2 processes with a request each, a limit of 1, 1 fault |
| `MCOutboundFetch` | fetches: every peer was checked (that of an internationalised host belongs to it), answers are those of the chain, every fetch ends; probes: an open port accepts, a closed one does not | 2 fetches, 4 URLs on 3 hosts whose names resolve to a public or a private address, one of them internationalised, 1 connection, 2 redirects; 2 ports of 1 or 3 addresses, of which 2 are tried, 1 certificate |
| `MCPagePolicy` | page: budgets hold, a partial report says so but for refusals under way; pool: permits, start lock, started flag, every request ends | 2 images, 1 unwanted frame, 1 resource of an unlisted type, 2 viewports, 3 requests, 1 image, 2 bytes each, 4 in total, 1 redirect; 3 requests (1 screenshot), 2 browsers, 2 contexts, 1 screenshot slot |
| `MCTools` | the cache: bounded store, single flight, refinement of `ReadThrough`, every caller is answered; the image workers: permits match jobs, everything ends; every other tool: its answer means what it says | 3 callers, 3 coalesced keys (one with a negative TTL), 1 plain key, 2 slots, 4 ticks; 3 operations, 1 WHOIS lookup, 2 permits, 3 threads; all pairs of 77 documents of depth two with an empty key; 124 expressions and 11 phrases over a year of 2 months, up to the last date; names of up to 8 characters with labels of at most 5; for each stateless tool the requests that its section of `MCTools` enumerates |

Six further runs state what a docstring or the documentation says and are
violated by what the code does:

| Run | What is violated |
|---|---|
| `MCBrowserOneProcess` | "Owns one reusable Chromium process": two `close()` that overlap reset the flags after a new `start()`; the next request starts a second Chromium |
| `MCLookupsPrivate` | "private/internal addresses are never sent to external GeoIP/intelligence providers": the domain lookup hands its first A record to the provider without the check of the IP and URL lookups |
| `MCSpfRecord` | `docs/api.md:111` shows the SPF record of a domain: the analysis looks for a text that starts with "SPF", and records start with "v=spf1" |
| `MCSemverOrder` | "SemVer parsing follows the 2.0.0 spec": a prerelease is ordered after its release |
| `MCNullMx` | a null MX "must never make has_mx=True": the analysis of a mail domain keeps it |
| `MCPatchReproduces` | "`transformable` indicates whether applying the patch to `document_a` reproduces `document_b`": a 1 that should become `true` is left as it is, and the patch is called transformable |

Modelling showed more disagreements; these have no run of their own:

* `whois_service.py:98` turns the explicit "not registered" of a WHOIS server
  into an outage, so `available` is null where `whois_provider.py:127` wants the
  domain to be available.
* `main.py:465` makes the security headers the innermost layer: the limiter's
  429, the 413 of the limits and two kinds of 500 bypass it, against the
  docstring at `middleware.py:121` ("all responses"). `RepliesExact` asks for
  them on what the application answers, a 413 of its own included.
* `design_system_service.py:293-296`: a request of a type in neither list is
  counted after its abort was awaited, and not at all if the abort raises. A
  report that is made meanwhile is not marked partial; `PartialTruthful` leaves
  out exactly these.
* `ssrf.py:53` dials the host itself where no pin is found. The pin is filed under
  the name in the URL and looked up under the IDNA name, so for an
  internationalised host the system's resolver decides, and its answer was not
  checked (`PeerChecked` asks only that the address belongs to the host). The
  client's own IDNA is stricter and may refuse a name that the guard maps.
* `utils/domain.py:189`: the idna library refuses labels with hyphens in the third
  and fourth place and prefixes before nothing that IDNA allows, although such
  names are published (`r3---sn` and a number).
* A streamed body over a cap is answered with 400, not with the 413 of
  `docs/api.md:42`: the exception passes FastAPI's body reader, which was
  observed with the FastAPI version that the project requires.
* The id in a 413 (`middleware.py:247`) is in no log line
  (`docs/security.md:38`).
* `browser_intelligence_service.py:400`: when `managed.close()` raises, the
  screenshot slot is lost; later requests hear that capacity is exhausted.
* `rdap_provider.py:77`: without any mapping, the stamp of a failed fetch
  ("avoid retry-spam") is not looked at and every lookup fetches again.
* `image_service.py:262`: a timed-out thread goes on decoding without a permit,
  so the semaphore does not cap concurrent decoding (`image_service.py:9-10`).
* `webpage_service.py:190-198`: the second look at the peer cannot reject with
  its own error, since the guard has raised before.
* `url_service.py:106`: a location found for a later address is cached under the
  first public one.
* `domain_service.py:94`: during an MX outage the name servers alone make a
  domain "parked".
* `design_system_service.py:474`: the bytes of the document are counted twice.
* `data_tools_service.py:65`: the pointer of the whole document is written "/"
  and that of a member of a root array "//0", against RFC 6901
  (`docs/api.md:629`). The service's own reader skips empty parts and so accepts
  both, and cannot address an empty key; a standards-compliant library
  (`docs/api.md:647`) reads them otherwise. `WalkExact` has such a reader
  (`ReadByStandard`) for patches of two objects, and does not count a change at
  the root as one that is named.
* `data_tools_service.py:59`: `true` equals 1, also in a diff, where a change of
  one into the other is no change; `WalkExact` is about the other documents.
* `docs/api.md:1268` promises `L`, `W` and `#`, which `_expand_field` refuses;
  "on january 1 at 09:00" is refused for want of a year, which is then ignored.
* `api/v1/dns.py:22-24` says that NXDOMAIN is a gap and no error; it is an error.
  `RecordsExact` says nothing of a name that does not exist.
* `utils/url.py:22` accepts a URL without a scheme, but not one whose query
  holds "://".
* `http_tools_service.py:275`: a pretty command breaks its line at every space,
  also inside quotes, and is then another command.
* A public mail domain whose MX lookup has failed is said to have had no MX
  check ("mx_check_disabled"); `api/v1/email.py:21` derives the class "from local
  host lists only", yet "business" comes from the MX records.
* `web_tools_service.py:44-62`: of several "User-agent" lines in a row only the
  last gets the rules of the group. `analyze_redirects` can report one hop more
  than it was allowed, and says "likely a loop" of a chain that is only too
  long for it.
  A canonical link refers to the page itself whatever its query is. The type of
  a page is replaced by what was sniffed while `is_html` stays as declared.
* `web_tools_service.py`: a certificate check blocks the event loop for up to two
  timeouts; a port that has accepted meanwhile is reported closed. "closed" also
  lists ports with addresses that were never tried.
* `dns_tools_service.py:103-112` calls a chain of trust valid if two key tags are
  equal.
* `mock_data_service.py:46` takes `max_depth` and never reads it; bounds that
  contradict each other give values outside of both.
* `image_tools.py:200` gives the size of the picture before its EXIF rotation.
* `design_system_service.py:683`: of two colours with the same first role the
  rarer one takes the token and the other is gone.
  `design_system_service.py:863-876`: the base unit of whole lengths is always
  1, which leaves no error. `design_system_service.py:831`: a class "table" is
  reported as a "tab".
* `free.py:201`: as soon as ipapi.is answers, were it with no field that is read,
  what ipwho.is says about Tor and VPN does not count. `free.py:74` and
  `free.py:182-189`: a length of a network that is no number, or a block of
  ipwho.is that is no object, raises out of `lookup`, and the other sources' data
  are gone with it, against `free.py:10`. `SourcesExact` names these two cases and
  excludes every other. `free.py:86-87`: the route of a range that is no
  network is the first network of it, which need not hold the address.
* `host_lists.py:22`: a line that is not ASCII never matches, since hosts are
  looked up in their ASCII form.
* `ratelimit.py:101`, `main.py:122-140`: an API process that starts while Redis
  is down stays with its own memory until it ends. Redis commands have neither
  retries nor a timeout, so a server that hangs, which is more than the models
  have, would hold its requests.
* `cron_service.py:317`: near the end of the year 9999 the search for the next
  times steps past the last date and raises.

Why the bounds are enough. The hazards need two or three actors: one that fills
and two that wait (so that a failure is followed by a second and a third owner),
one browser request that closes while another starts and a third closes late,
two operations over the semaphore, two overlapping fetches. Tables have fewer
slots than keys, so that eviction happens; clocks run past two windows or TTLs,
so that expiry, cleanup and a second period happen. Every budget of a page is
smaller than what the page asks for, redirect chains are longer than the limit,
and one connection is contended for by two fetches. Arrays differ by up to three
members, so that indices shift; days restrict the day of the month, the weekday,
both or none. Runs that may not stop are checked for deadlock; the pipeline, the
fetches, the page policy and the tools, which follow one request to its end,
stop. In `RedisBackend` one fault is enough to lose an answer, a counter or a
process between any two steps; two requests of two processes meet on one key in
every order. The tools are pure, so their instances are enumerations: parameters
of the modules take the place of the widths and limits of the code (colours of
four bits, identifiers of three digits, pictures of ten pixels, kilobytes of two
bytes), and each enumeration has values on both sides of every limit.

Fairness. `MemoryCache`: the event loop runs a coroutine whose lock was granted
(asyncio's locks are first in, first out, and the queue is in the model), and
factories end, since DNS, RDAP and GeoIP calls have timeouts. `BrowserPool`:
every Playwright call ends, since it has a timeout or finds the browser gone;
a queueing request is served or times out; strong fairness for the start lock
stands for asyncio's order of arrival, which that model does not keep.
`ImageWorkers`: the loop serves the semaphore, the executor its queue, timeouts
fire, threads end. For the WHOIS library this is an assumption: the code gives
it no timeout. `OutboundFetch`: resolving, connecting and reading have
timeouts; strong fairness of `Send` stands for the first-in, first-out queue of
the connection pool. `RedisBackend`: a request goes on if it can, since while
the server is up commands are answered and while it is down they fail; closing
ends. Nothing is assumed of the clock, of crashes or of recoveries. In `MCTools`
fairness is stated of the actions of the cache and of the workers and asks nothing
when the behaviour belongs to another service, which never enables them.

`PagePolicy` rests on what a comment in the code (`design_system_service.py:333`)
says of Playwright: a redirect of an intercepted request comes back to the
handler.

## 4. Proofs

Every safety property that is checked by a run and is about the state of a
component is a theorem, and so are those about eight groups of tools: they hold
for every value of the constants that satisfies the named assumptions. Where a
theorem needs more of the constants than its module assumes, a definition says
so, and is the hypothesis of the theorem. For the tools these are `HttpIsTyped`,
`DevIsTyped`, `MailIsTyped`, `WebIsTyped`, `IpIsTyped`, `ImageIsTyped` and
`NamesIsTyped` of their modules, which only say what a request is made of, that
ten probes tell 86 qualities of a picture apart (`Reach`) and that a public
suffix has two labels, as all of `_PUBLIC_SUFFIXES` do; `MCTools` assumes them
of its instances (`ToolsAreTyped`), so that TLC evaluates them.

`RateLimiterProofs`:

* `TypeCorrect` ([]TypeOK) and `BoundedTable` ([]StateBounded). The bound is not
  inductive without the finiteness of the table's domain and the type of its
  entries.
* `Refinement` (Spec => ImplementsQuota). The step is mapped by cases: a cleanup
  removes only expired windows, so it is invisible in `open`; a call of a tracked
  live key is `Spend`; a call of another key is `Open` when no live window is
  evicted and `Displace` when one is, which needs that an evicted oldest entry
  is live only if every entry is.
* `RetryKept` (RetryHonoured). `RetryFits`: while a client waits for the time
  that it was told, a window of its key that lives ends by that time, and once
  the time has passed its key has no live window. The hypothesis is at most 1000
  ticks in a second: `int(x + 0.999)` rounds down when less than a millisecond
  remains, so with a finer clock Retry-After can be early by less than that.
* `BurstsBounded` ([]BurstBound). `BurstFits`: a key without a live window has
  fewer than `Limit` admissions in the last `Span` ticks; with one that counts
  n, it has fewer than `Limit` + n, and all but the last n - 1 of them are no
  later than the start of the window. So when the window runs out, they leave
  with it.

`RegistryProofs`:

* `TypeCorrect`, `Truthful` ([]TruthfulAnswer) and `Fresh` (Spec =>
  TrustedMappingFresh). The freshness needs the order of two stamps: what a
  successful fetch stores is stamped no later than IANA served it, since the
  clock is read before the request, and this survives fetches that overlap.
* `LookupsTrue` ([]LookupsTruthful). `LookupsInv` says of every call that it was
  told what DNS says (`Told`), that it has asked or has left to ask for all its
  types, that its addresses are those of its own name (`Placed`), and of every
  entry of the cache that it is true of what it is filed under (`Entry`); a key
  has one filler. The place of a URL is the weakest part: an entry holds the
  place of some address of some host that shares the key's address. The lemmas
  before it number the members that a filter of a sequence keeps.

`BrowserProofs`:

* `PoolKept` ([]PoolSound). `Parameters`: finitely many requests, screenshots are
  requests, limits are natural numbers, the mark for "none" is no request and no
  browser. The lemma `Local` says once what a step of one request leaves to the
  others, so that permits, slots and contexts are counted in one place.
* `BudgetsKept` ([]BudgetsHeld). A handler compares a counter of the context with
  the budget, so the invariant says that the counters are ahead of what was
  really fetched and passed on.
* `ReportsTruthful` ([]PartialTruthful). `Explained`: a request that is lost
  leaves a mark that the report looks at (a warning, or for a design report a
  blocked request), unless it is one that an audit does not count or that is
  being aborted and not counted yet, which the report remembers (`aborting`), and
  nothing is lost or sent after the report. `Overrun` bounds the counters by what
  handlers have done, since a design report also asks that fewer requests were
  sent than allowed.

`OutboundFetchProofs`:

* `PeersAreChecked` ([]PeerChecked), for any hosts and any of them
  internationalised. The invariant adds what a fetch holds before it has a
  connection (a pin that was checked for the host of this hop) and that every
  fetch past that point has one; what is dialled is that pin, or, of an
  internationalised host, any address the host has (`Checked`).
* `AnswersAreExact` ([]AnswerExact). `OnChain`: while a fetch is under way, its
  path is a prefix of the chain of redirects from where it started, within the
  limit of hops; an answer that no timeout or failure brought about is the one
  the chain determines. `WebAssumption` and `NothingAssumption`: there is a URL
  to start at, and the marks for "no connection", "no location" and "no URL" are
  none of the URLs and connections.
* `VerdictsTruthful` (of `NetProbes`, []PortsTruthful). `ProbeParameters`: names
  have addresses, some are tried, timeouts are natural numbers. `ProbeInv` bounds
  how late a check can be by two TLS timeouts for every certificate check that
  has blocked the loop (`Slack`).

`RequestProofs`, of the processes that share Redis (`RedisBackend`). The first two
need finitely many requests and integers for the limit and the window, which may
be negative or zero; the third a positive time to live:

* `QuotaShared` ([]SharedQuota). `Quota`: the requests that were let through and
  the answers on their way that will let one through are within the limit
  together, and no more than the counter says while it lives.
* `WindowKept` (WindowNeverMoves), an action property.
* `Served` ([]ServedFresh): what a process is about to store it has made.

`RequestProofs`, of the layers that a request passes (`RequestPipeline`):

* `EveryReplyExact` ([]RepliesExact) and `EveryRouteGuarded` ([]WorkGuarded).
  `PipelineInv` says for each layer, on the way in and on the way out, what has
  been decided, who may have made the response and what it carries so far;
  `GuardInv` adds what the body guard has read.
* `EveryBodyJudged` ([]BodiesJudged). What the scanner knows after n bytes is
  proved of every n, with the meaning of a text (`JsonGuard`) in place of its
  state; `BodyAssumption` ties the facts of a body to its text.

`ToolsProofs`. A tool has one step, so its invariant says that the reply is that
of the request (`HttpInv` and the like), and the work is in what the definitions
compute for requests of any length:

* `PermitsKept` (of `ImageWorkers`, []PermitsMatchJobs). `WorkersInv`: the queue
  of the executor and that of the semaphore hold every job once, the submitted
  jobs are those that run and those in the queue, and the permits that are left
  and the operations that were submitted make up the limit.
* `CronAnswersExact` ([]UpcomingExact, for every calendar and all ranges of the
  fields that the assumptions of `CronSchedule` admit). A listing is a list of a
  set of times in their order; those of an hour, of a day and of all days that
  were searched are joined, and a prefix of them is the answer. What is listed
  is what the expression means, and what is generated for a phrase means what
  the phrase says (`PhraseSaid`).
* `HttpBuiltExact` ([]HttpExact): the order of the checks decides the reason of a
  refusal, and each reason is given only for what it names.
* `DevToolsExact` ([]DevExact). Two prereleases part at one place (`ForkIs`),
  which makes comparing a strict total order (`CompareMeans`, `LessTransitive`);
  the bounds of a caret and of a tilde keep exactly the versions with the same
  leading parts (`BoundsKeep`).
* `ImagesMadeExact` ([]ImagesExact). Divisions and roundings are stated as
  products (`TruncatedBetween`, `RoundedNear`), so that two sides are compared
  by multiplying them out. The smaller of two ratios makes a picture fit and the
  larger makes it fill (`RatioScales`). A probe halves the qualities that are
  left (`ProbeNarrows`), so none is left when the probes end (`SearchEnds`); what
  was taken is within the budget, so it keeps the target, and what lies above is
  not. The rows where
  pages end rise from none to all, and the pages that are empty are those where
  they do not rise, so the others follow each other without a gap (`Rises`).

`LookupProofs`, of the cache that lookups keep their answers in (`MemoryCache`):
`TypeCorrect`, `OneFlight` ([]SingleFlight), `BoundedStore` ([]StoreBounded),
`Refinement` (Spec => ImplementsReadThrough). `SingleFlight` alone is not
inductive: the invariant ties each lock to its filler (a request that fills holds
its key's lock, and two that fill the same key are the same).

`LookupProofs`, of tools that look things up, with the lemmas of `ToolsProofs`.
They have one step as well (`MailInv`, `WebInv`), and what they compute depends on
what the web and DNS answer:

* `MailReadsExact` ([]MailExact) and `MailClassesExact` ([]ClassesExact). The
  parts of a reply are joined one after the other, and each has its place in the
  whole (`PartsJoined`); records in order are each there once (`InOrderSorts`).
* `WebReadsExact` ([]WebExact). While redirects are followed, the hops are the
  beginning of the orbit, and no two of them before the last are the same
  (`WalkFits`, `EndedFits`). A client that has come nowhere stays there
  (`OrbitStays`), so a URL that the orbit comes to twice is among the hops twice.
  The rules that a reader of robots.txt has after n lines are those that the
  first n lines say (`HeardTells`). What is put together is shown field by field
  to be said (`NothingMadeUp`), kept when another source answers too
  (`NothingTaken`) and not held back (`NothingKeptBack`), the last two but for
  Tor and VPN and unless an answer is malformed. The network of a range
  is the longest that begins with it, so it is the range if that is a network
  (`RouteIsMeant`).

`NamesProofs`, which uses the lemmas of `ToolsProofs`. `CharactersAssumption`: a
name can be written in the characters there are.

* `NamesMadeExact` ([]NamesExact), for texts of any length over any characters and
  for any limits and public suffixes. `Pieces` and `Joined` undo each other
  (`PiecesAre`, `JoinedBack`): the cuts of a text in their order are strictly
  increasing places, and between two of them there is no other. So a text passes
  the checks of its labels exactly if it is a name character by character
  (`FormMeans`, `FittingForms`, `FormedFits`); a name is its own ASCII form and
  passes every check but those of IDNA, with the dot of the root or without it
  (`FormedBare`, `FormedKept`). Of a name without foreign letters IDNA refuses
  exactly the labels that are barred (`AllowedMeans`), so the name is normalised
  exactly if it has none (`FormsMeant`), and whatever is normalised is a name
  (`NormalizedForms`), whose labels are allowed again (`EncodedUnbarred`). An
  address has one @, so it is split again where it was put together
  (`AddressSplit`), and neither a blank that is stripped nor an @ is a letter, so
  no letter of the local part is lost (`CaseCounted`). A host is listed exactly if
  a name of the list is it or follows one of its dots (`CutAbove`, `AboveCut`).

Induction is by the least member of a set of numbers, since the library's
induction theorems take an operator, which the provers cannot instantiate. The
same holds of folds and of recursive functions, whose steps are proved from
their definition.

Only model-checked:

* liveness (`EveryCallReturns`, `RedisHoldsNobody`, `EveryAnswerComes`,
  `EveryRequestEnds`, `WorkersEnd`), since neither fairness nor ENABLED is in
  the prover's reach;
* the tools whose definitions recurse over trees (`WalkExact`, `MockExact`, the
  limits of JSON in `ToolboxExact`), since what they compute for every input
  needs an induction over the data;
* the tools that compute with fractions (`DesignExact`), whose bounds hold of the
  numbers of the instance and not of all;
* the six violations, which are counterexamples.

Type invariants that are proved are not run as properties of their own; the
others are part of an invariant that relates more.

## 5. Not modelled

`PROJECT.json` lists every component and what of it is left out. Left out for
good: the settings (ranges of the constants come from their validators), metrics
and logs, schemas and the wording of replies; pixels, fonts and documents, which
are work of Pillow and PyMuPDF; the scripts that run in pages and the parsing of
HTML and CSS; phone numbers and user agents, which are read by a library and by
tables; the generation of passwords, a choice of the operating system; the
cipher and hash functions themselves.

## 6. Plan

What is left, in this order:

1. an abstract pool that `BrowserPool` and `ImageWorkers` implement, and theorems
   about the tools that are left;
2. the pure algorithms that are left: XML and YAML conversion, Unicode
   inspection, time zones, the metadata of files, SQL formatting;
3. what lookups read out of their answers: RDAP and WHOIS records, certificates.
