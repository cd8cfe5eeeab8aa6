----------------------------- MODULE WebSources -----------------------------
(***************************************************************************)
(* What is read out of the web: WebTools and IpSources, of which a request *)
(* asks one.                                                               *)
(***************************************************************************)
EXTENDS WebTools, IpSources

WebSpec == (WebCalled \/ IpCalled) /\ [][WebAnswers \/ IpAnswers]_callVars

\* Chains of redirects, rules of robots.txt and what three sources say of an
\* address are told as they are.
WebExact == RedirectsExact /\ RobotsExact /\ SourcesExact /\ RouteExact
=============================================================================
