--------------------------- MODULE OutboundFetch ---------------------------
(***************************************************************************)
(* Guarded outbound HTTP: WebpageService._fetch_with_redirects ("page"),   *)
(* WebToolsService.analyze_redirects ("trace") and HTTPToolsService._fetch *)
(* with and without redirects ("http", "once").  All go through one httpx  *)
(* client: each hop resolves and checks its host (SSRFGuard), pins the     *)
(* first address, takes a kept-alive connection of that host or dials the  *)
(* pin, and holds the connection until the response is closed.             *)
(*                                                                         *)
(* Servers answer a URL always in the same way; DNS does not.  A URL is a  *)
(* pair of a host and a path.  The pin is filed under the name that stands *)
(* in the URL and looked up under the name that the pool connects to; for  *)
(* an internationalised host, written out in the URL and in its IDNA form  *)
(* in the pool, the two differ and the pin is not found.                   *)
(***************************************************************************)
EXTENDS Integers, Sequences, SequencesExt

CONSTANTS
  Fetches,         \* concurrent requests for a fetch
  Urls, Starts,    \* URLs of the web, those a client asks for
  Sites,           \* what the web may look like: sets of functions on Urls
  Addresses,       \* per host: the addresses that DNS may answer with
  Public,          \* the addresses the guard accepts
  International,   \* hosts whose name in the URL is not the one that is dialled
  MaxRedirects,    \* webpage_max_redirects, max_hops, http_tools_max_redirects
  MaxConnections,  \* httpx.Limits(max_connections)
  Invalid, NoLocation, None

Host(u) == u[1]

Tools == {"page", "trace", "http", "once"}

\* A Location header: a URL, one that normalize_url refuses, or none.  Only
\* the codes 301, 302, 303, 307 and 308 are "redirect".
Answers == [kind : {"page", "redirect", "other_3xx"}, to : Urls \cup {Invalid, NoLocation}]

Connections == {<<Host(u), a>> : u \in Urls, a \in UNION {Addresses[Host(v)] : v \in Urls}}

ASSUME WebAssumption ==
  Sites \subseteq [Urls -> Answers] /\ Starts \subseteq Urls /\ Starts # {}
ASSUME NothingAssumption ==
  /\ None \notin Urls /\ None \notin Connections
  /\ None \notin {Invalid, NoLocation} /\ NoLocation \notin Urls
ASSUME LimitAssumption == MaxRedirects \in Nat /\ MaxConnections \in Nat \ {0}

VARIABLES
  site,   \* how the servers answer
  fetch,  \* Fetches -> where each request is
  idle    \* kept-alive connections, pairs of a host and an address

vars == <<site, fetch, idle>>

\* tool, start: what is asked; url, pin, conn: of the hop under way; path: the
\* URLs that have answered.
Fresh(t, u) ==
  [pc |-> "resolve", tool |-> t, start |-> u, url |-> u, pin |-> None, conn |-> None,
   path |-> << >>, answer |-> "none"]

Init ==
  /\ site \in Sites
  /\ fetch = [f \in Fetches |-> [Fresh("once", CHOOSE u \in Starts : TRUE) EXCEPT !.pc = "idle"]]
  /\ idle = {}

InUse == {f \in Fetches : fetch[f].conn # None}

Room == Cardinality(InUse) < MaxConnections

-----------------------------------------------------------------------------
Goto(f, label) == fetch' = [fetch EXCEPT ![f].pc = label]

\* The fetch is answered.  Its response is closed on every path.
End(f, answer) ==
  fetch' = [fetch EXCEPT ![f].pc = "idle", ![f].conn = None, ![f].pin = None, ![f].answer = answer]

\* The response is closed unread, the connection with it, and the next hop
\* begins.
GoOn(f, u) ==
  fetch' = [fetch EXCEPT ![f].pc = "resolve", ![f].conn = None, ![f].pin = None, ![f].url = u]

Arrive(f) ==
  /\ fetch[f].pc = "idle"
  /\ \E t \in Tools, u \in Starts : fetch' = [fetch EXCEPT ![f] = Fresh(t, u)]
  /\ UNCHANGED <<site, idle>>

\* SSRFGuard.resolve_and_check: the resolver never raises; an empty answer, a
\* malformed host or any address that is not public refuses the hop.  A target
\* that only trace lets pass may also be refused by the client for its scheme,
\* and an internationalised host that the guard's IDNA maps by the stricter one
\* of the client.
Resolve(f) ==
  /\ fetch[f].pc = "resolve"
  /\ fetch[f].url # Invalid
  /\ \E a \in Addresses[Host(fetch[f].url)] \cap Public :
       fetch' = [fetch EXCEPT ![f].pc = "send", ![f].pin = a]
  /\ UNCHANGED <<site, idle>>

Refuse(f) ==
  /\ fetch[f].pc = "resolve"
  /\ \/ End(f, "blocked")
     \/ fetch[f].url = Invalid /\ End(f, "failed")
     \/ fetch[f].url # Invalid /\ Host(fetch[f].url) \in International /\ End(f, "failed")
  /\ UNCHANGED <<site, idle>>

\* The client's pool prefers a connection that is open; the pin is not asked.
Reuse(f) ==
  /\ fetch[f].pc = "send"
  /\ Room
  /\ \E c \in idle :
       /\ c[1] = Host(fetch[f].url)
       /\ idle' = idle \ {c}
       /\ fetch' = [fetch EXCEPT ![f].pc = "headers", ![f].conn = c]
  /\ UNCHANGED site

\* Mutant: the backend resolves the host by itself.
DialledUnpinned(f) == {<<Host(fetch[f].url), a>> : a \in Addresses[Host(fetch[f].url)]}

\* PinnedNetworkBackend.connect_tcp: the pin if it is found under the name that
\* is dialled, else whatever the system's resolver makes of that name.
Dialled(f) ==
  LET host == Host(fetch[f].url) IN
  {<<host, a>> : a \in IF host \in International THEN Addresses[host] ELSE {fetch[f].pin}}

\* Otherwise it dials, at the expense of an idle connection if the pool is full.
Dial(f) ==
  /\ fetch[f].pc = "send"
  /\ Room
  /\ \A c \in idle : c[1] # Host(fetch[f].url)
  /\ \E c \in Dialled(f) : fetch' = [fetch EXCEPT ![f].pc = "headers", ![f].conn = c]
  /\ IF Cardinality(InUse) + Cardinality(idle) < MaxConnections
     THEN UNCHANGED idle
     ELSE \E c \in idle : idle' = idle \ {c}
  /\ UNCHANGED site

\* send() returns a response.  Only the page fetcher looks at DNS again.
Headers(f) ==
  /\ fetch[f].pc = "headers"
  /\ fetch' = [fetch EXCEPT ![f].pc = IF fetch[f].tool \in {"page", "trace"}
                                      THEN "verify" ELSE "respond",
                            ![f].path = Append(@, fetch[f].url)]
  /\ UNCHANGED <<site, idle>>

\* Connecting or waiting for the headers takes too long, or fails.
SendFails(f) ==
  /\ fetch[f].pc = "headers"
  /\ \E answer \in {"timeout", "failed"} : End(f, answer)
  /\ UNCHANGED <<site, idle>>

\* _verify_peer resolves the host once more.  The guard reports a blocked
\* address with an exception that the re-raising clause does not name, so the
\* hop goes on whatever DNS says.
VerifyPeer(f) ==
  /\ fetch[f].pc = "verify"
  /\ Goto(f, "respond")
  /\ UNCHANGED <<site, idle>>

-----------------------------------------------------------------------------
\* What the response of the hop is.
Given(f) == site[Last(fetch[f].path)]

LastTry(f) == Len(fetch[f].path) = MaxRedirects + 1

\* Does the tool go on from this answer, provided it has a Location?
Follows(tool, given) ==
  CASE tool = "once" -> FALSE
    [] tool = "http" -> given.kind # "page"
    [] OTHER -> given.kind = "redirect"

NoTarget(f) ==
  /\ fetch[f].pc = "respond"
  /\ Given(f).kind # "page" /\ Given(f).to = NoLocation /\ fetch[f].tool # "once"
  /\ End(f, "no_location")
  /\ UNCHANGED <<site, idle>>

\* A 3xx that the tool does not follow is its answer, with an empty body.
AsItIs(f) ==
  /\ fetch[f].pc = "respond"
  /\ Given(f).kind # "page" /\ ~Follows(fetch[f].tool, Given(f))
  /\ fetch[f].tool = "once" \/ Given(f).to # NoLocation
  /\ End(f, "page")
  /\ UNCHANGED <<site, idle>>

Redirects(f) ==
  /\ fetch[f].pc = "respond"
  /\ Follows(fetch[f].tool, Given(f)) /\ Given(f).to # NoLocation

\* page and http: the target must be valid, and a try must be left.
Follow(f) ==
  /\ Redirects(f)
  /\ fetch[f].tool # "trace"
  /\ CASE Given(f).to = Invalid -> End(f, "invalid_target")
       [] Given(f).to # Invalid /\ LastTry(f) -> End(f, "too_many")
       [] OTHER -> GoOn(f, Given(f).to)
  /\ UNCHANGED <<site, idle>>

\* Mutant: URLs that were seen before are fetched again.
TraceUnseen(f) ==
  /\ Redirects(f)
  /\ fetch[f].tool = "trace"
  /\ IF LastTry(f) THEN End(f, "unfinished") ELSE GoOn(f, Given(f).to)
  /\ UNCHANGED <<site, idle>>

\* trace: a URL that was seen ends it as a loop; the target is not validated.
Trace(f) ==
  /\ Redirects(f)
  /\ fetch[f].tool = "trace"
  /\ CASE Given(f).to \in ToSet(fetch[f].path) -> End(f, "loop")
       [] Given(f).to \notin ToSet(fetch[f].path) /\ LastTry(f) -> End(f, "unfinished")
       [] OTHER -> GoOn(f, Given(f).to)
  /\ UNCHANGED <<site, idle>>

Read(f) ==
  /\ fetch[f].pc = "respond"
  /\ Given(f).kind = "page"
  /\ Goto(f, "read")
  /\ UNCHANGED <<site, idle>>

\* Mutant: a response that is over the cap stays open.
TooLargeLeftOpen(f) ==
  /\ fetch[f].pc = "read"
  /\ fetch' = [fetch EXCEPT ![f].pc = "idle", ![f].answer = "too_large"]
  /\ UNCHANGED <<site, idle>>

\* _read_limited stops at the cap.
TooLarge(f) ==
  /\ fetch[f].pc = "read"
  /\ End(f, "too_large")
  /\ UNCHANGED <<site, idle>>

ReadFails(f) ==
  /\ fetch[f].pc = "read"
  /\ End(f, "failed")
  /\ UNCHANGED <<site, idle>>

\* Only a response that was read to its end leaves its connection open, if the
\* server agrees.
ReadAll(f) ==
  /\ fetch[f].pc = "read"
  /\ End(f, "page")
  /\ UNCHANGED idle \/ idle' = idle \cup {fetch[f].conn}
  /\ UNCHANGED site

\* A kept-alive connection expires or is closed by the server.
Expire ==
  /\ \E c \in idle : idle' = idle \ {c}
  /\ UNCHANGED <<site, fetch>>

Send(f) == Reuse(f) \/ Dial(f)

Other(f) ==
  \/ Resolve(f) \/ Refuse(f) \/ Headers(f) \/ SendFails(f) \/ VerifyPeer(f)
  \/ NoTarget(f) \/ AsItIs(f) \/ Follow(f) \/ Trace(f)
  \/ Read(f) \/ TooLarge(f) \/ ReadFails(f) \/ ReadAll(f)

Next == Expire \/ \E f \in Fetches : Arrive(f) \/ Send(f) \/ Other(f)

Spec == Init /\ [][Next]_vars

\* Resolving, connecting and every read have timeouts, and bodies are capped;
\* the pool serves its queue in order of arrival.
Fairness == \A f \in Fetches : WF_vars(Other(f)) /\ SF_vars(Send(f))

FairSpec == Spec /\ Fairness

-----------------------------------------------------------------------------
\* The variables have the types the code gives them.
Outcomes ==
  {"none", "page", "blocked", "timeout", "failed", "too_large", "no_location",
   "invalid_target", "too_many", "loop", "unfinished"}

TypeOK ==
  /\ site \in Sites
  /\ fetch \in [Fetches ->
       [pc : {"idle", "resolve", "send", "headers", "verify", "respond", "read"},
        tool : Tools, start : Urls, url : Urls \cup {Invalid},
        pin : Public \cup {None}, conn : Connections \cup {None},
        path : BoundedSeq(Urls, MaxRedirects + 1), answer : Outcomes]]
  /\ idle \in SUBSET Connections
  /\ Cardinality(InUse) + Cardinality(idle) <= MaxConnections

\* "The HTTP transport pins the hostname to the exact address returned by the
\* SSRF check": whatever DNS answers later, a request is only ever sent over a
\* connection to an address of its own host, also when the connection is left
\* over from another fetch or the hop came about by a redirect; and to a public
\* one, unless the pin is not found because the host is internationalised.
Checked(c) == c[2] \in Addresses[c[1]] /\ (c[1] \in International \/ c[2] \in Public)

PeerChecked ==
  /\ \A c \in idle : Checked(c)
  /\ \A f \in InUse : /\ fetch[f].conn[1] = Host(fetch[f].url)
                        /\ Checked(fetch[f].conn)

\* The chain of redirects that a tool sees on this web, None where it stops.
Chain(tool, start) ==
  LET at[n \in 0..MaxRedirects + 1] ==
        IF n = 0 THEN start
        ELSE LET u == at[n - 1] IN
             IF u \in Urls /\ Follows(tool, site[u]) THEN site[u].to ELSE None
  IN at

\* Unless the network or the guard interferes, the answer is the one the web
\* defines: the page, only at the end of a chain that fits the budget; too many
\* or unfinished, only of a longer chain that does not repeat itself for the
\* tool that looks; a loop, only where one is; an error of the right hop.
AnswerExact ==
  /\ TypeOK
  /\ \A f \in Fetches :
       LET answer == fetch[f].answer
           at == Chain(fetch[f].tool, fetch[f].start)
           hops == Len(fetch[f].path)
           repeats == \E i, j \in 0..hops : i < j /\ at[i] = at[j]
       IN fetch[f].pc = "idle" /\ answer \notin {"none", "blocked", "timeout", "failed", "too_large"} =>
            /\ hops \in 1..MaxRedirects + 1
            /\ \A i \in 1..hops : fetch[f].path[i] = at[i - 1]
            /\ at[hops] = CASE answer = "page" -> None
                            [] answer = "no_location" -> IF Follows(fetch[f].tool, Given(f))
                                                         THEN NoLocation ELSE None
                            [] answer = "invalid_target" -> Invalid
                            [] OTHER -> Given(f).to
            /\ answer \in {"too_many", "unfinished"} => hops = MaxRedirects + 1 /\ at[hops] # None
            /\ fetch[f].tool = "trace" => (answer = "loop" <=> repeats)

\* Every fetch is answered, however many connections the others hold.
EveryFetchEnds == \A f \in Fetches : fetch[f].pc # "idle" ~> fetch[f].pc = "idle"
=============================================================================
