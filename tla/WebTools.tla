------------------------------ MODULE WebTools ------------------------------
(***************************************************************************)
(* WebToolsService apart from its connections (NetProbes): what it reads   *)
(* out of the pages that the guarded fetcher brings (OutboundFetch): the   *)
(* chain of redirects of a URL, the rules of robots.txt, the technologies, *)
(* the type and the canonical URL of a page.                               *)
(*                                                                         *)
(* A URL is [scheme, www, name]: its host is name with or without "www.";  *)
(* the paths are left out, a host stands for each of its pages.            *)
(***************************************************************************)
EXTENDS ToolCall, Lists, SequencesExt

CONSTANTS
  Chains, RobotsTexts, Sites, Typings, Canonicals,   \* what is asked, what is fetched
  Servers, Languages,   \* known software, in the order of the elif chains
  MarkersOf   \* what else gives away a technology: words of the text, headers

-----------------------------------------------------------------------------
\* Mutant: the URLs that were seen are not remembered.
Forgotten(url, hops) == FALSE

\* A URL that was fetched before ends the chain, and is shown once more.
Seen(url, hops) == url \in ToSet(hops)

\* One pass of the loop of analyze_redirects; site[u] is the answer at u: a
\* page, a redirect with its target, or what makes _fetch_once raise.
Hop(site, s) ==
  LET shown == [s EXCEPT !.hops = Append(@, s.current)] IN
  IF s.status # "going" THEN s
  ELSE IF Seen(s.current, s.hops) \/ site[s.current][1] = "page" THEN [shown EXCEPT !.status = "done"]
  ELSE IF site[s.current][1] = "redirect" THEN [shown EXCEPT !.current = site[s.current][2]]
  ELSE [s EXCEPT !.status = "failed"]

\* What is left when the loop is exhausted is shown, but not fetched.
Ended(s) == IF s.status = "going" THEN [s EXCEPT !.hops = Append(@, s.current), !.status = "done"] ELSE s

Walked(q) ==
  LET walk[k \in 0..(q.max + 1)] ==
        IF k = 0 THEN [hops |-> << >>, current |-> q.url, status |-> "going"] ELSE Hop(q.site, walk[k - 1])
  IN Ended(walk[q.max + 1])

RedirectReply(q) ==
  LET walk == Walked(q)
      final == Last(walk.hops)
  IN IF walk.status = "failed" THEN [status |-> "failed"]
     ELSE [status |-> "done", hops |-> walk.hops, total |-> Len(walk.hops) - 1,
           is_loop |-> Len(walk.hops) > 1 /\ final \in ToSet(Front(walk.hops)),
           https |-> q.url.scheme = "http" /\ final.scheme = "https",
           www |-> q.url.name = final.name /\ q.url.www # final.www]

-----------------------------------------------------------------------------
\* A User-agent line of robots.txt: the rules below it are for this agent only.
ForAgent(s, agent) == [s EXCEPT !.current = agent]

\* A line is a key and a value; rules above any agent are for nobody.
Heard(s, line) ==
  IF line[1] = "user-agent" THEN ForAgent(s, line[2])
  ELSE IF line[1] \in {"allow", "disallow"} /\ s.current # None
       THEN [s EXCEPT !.rules[s.current][line[1]] = Append(@, line[2])] ELSE s

\* robots
RobotsReply(text) ==
  LET agents == {line[2] : line \in {l \in ToSet(text) : l[1] = "user-agent"}}
      heard[n \in 0..Len(text)] ==
        IF n = 0 THEN [current |-> None, rules |-> [a \in agents |-> [allow |-> << >>, disallow |-> << >>]]]
        ELSE Heard(heard[n - 1], text[n])
  IN heard[Len(text)].rules

-----------------------------------------------------------------------------
\* detect_technologies: of the Server and X-Powered-By headers the first of
\* the chain that is part of them, then what the markers give away.
FirstNamed(chain, header) ==
  LET named == {i \in DOMAIN chain : chain[i] \in header} IN IF named = {} THEN {} ELSE {chain[Min(named)]}

Detected(site) ==
  FirstNamed(Servers, site.server) \cup FirstNamed(Languages, site.powered)
  \cup {t \in DOMAIN MarkersOf : MarkersOf[t] \cap site.markers # {}}

\* detect_content_type: what is sniffed in the body (_sniff_magic) replaces the
\* declared type, but what the page is said to be goes by the declaration.
TypingReply(q) ==
  LET kinds == q.declared \cap {"html", "json", "xml"}
  IN [mime |-> IF q.check /\ q.body # "empty" THEN q.body ELSE q.declared,
      sniffed |-> IF q.check /\ q.body # "empty" THEN q.body ELSE None,
      kinds |-> kinds,
      binary |-> kinds = {} /\ "text" \notin q.declared]

\* check_canonical: the tag of the page, and without one the last Link header;
\* _normalize_canonical leaves case of hosts, final slashes and queries out.
CanonicalReply(q) ==
  LET canonical == IF q.tag # None THEN q.tag ELSE IF q.links = << >> THEN None ELSE Last(q.links)
      same(u, v) == u.scheme = v.scheme /\ u.host = v.host /\ u.path = v.path
  IN [canonical |-> canonical, self |-> canonical # None /\ same(canonical, q.final)]

WebCalled ==
  \/ Called("redirects", Chains) \/ Called("robots", RobotsTexts) \/ Called("technologies", Sites)
  \/ Called("type", Typings) \/ Called("canonical", Canonicals)

WebAnswers ==
  \/ Answers("redirects", RedirectReply) \/ Answers("robots", RobotsReply) \/ Answers("technologies", Detected)
  \/ Answers("type", TypingReply) \/ Answers("canonical", CanonicalReply)

\* What is asked: a redirect of a site leads to a page of it, and a line of
\* robots.txt is a key and a value.
WebIsTyped ==
  /\ \A q \in Chains :
       /\ q.max \in Nat /\ q.url \in DOMAIN q.site /\ None \notin DOMAIN q.site
       /\ \A u \in DOMAIN q.site : q.site[u][1] = "redirect" => q.site[u][2] \in DOMAIN q.site
  /\ \A text \in RobotsTexts : /\ DOMAIN text = 1..Len(text) /\ Len(text) \in Nat
                               /\ \A i \in DOMAIN text : text[i][2] # None

-----------------------------------------------------------------------------
\* Where a client comes to that follows the redirects of a site.
Orbit(q) ==
  LET orbit[k \in 0..(q.max + 1)] ==
        IF k = 0 THEN q.url
        ELSE IF orbit[k - 1] # None /\ q.site[orbit[k - 1]][1] = "redirect" THEN q.site[orbit[k - 1]][2] ELSE None
  IN orbit

\* The hops are where a client comes to, nothing but the last of them twice,
\* and a loop is reported exactly when max_hops redirects more lead back to a
\* URL; an upgrade to https or a change of "www." is one of the end of the
\* chain (analyze_redirects).
RedirectsExact ==
  Answered("redirects") /\ result[1].status = "done" =>
    LET reply == result[1]
        orbit == Orbit(call[2])
    IN /\ \A i \in DOMAIN reply.hops : reply.hops[i] = orbit[i - 1]
       /\ IsInjective(Front(reply.hops))
       /\ reply.is_loop <=> \E i, j \in DOMAIN orbit : i < j /\ orbit[i] = orbit[j] /\ orbit[j] # None
       /\ reply.total < call[2].max + 1 => reply.is_loop \/ call[2].site[Last(reply.hops)][1] = "page"
       /\ reply.www /\ ~reply.https => Last(reply.hops) # call[2].url

\* Every rule below an agent is listed for it, in the order of the text, and
\* for no other one (robots).
RobotsExact ==
  Answered("robots") =>
    LET text == call[2]
        owner(i) == LET above == {j \in 1..i : text[j][1] = "user-agent"}
                    IN IF above = {} THEN None ELSE text[Max(above)][2]
        rules(a, key) == Ascending({i \in DOMAIN text : text[i][1] = key /\ owner(i) = a})
    IN \A a \in DOMAIN result[1] :
         /\ result[1][a].allow = [k \in DOMAIN rules(a, "allow") |-> text[rules(a, "allow")[k]][2]]
         /\ result[1][a].disallow = [k \in DOMAIN rules(a, "disallow") |-> text[rules(a, "disallow")[k]][2]]
=============================================================================
