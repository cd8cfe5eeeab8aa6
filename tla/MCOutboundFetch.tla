-------------------------- MODULE MCOutboundFetch --------------------------
(***************************************************************************)
(* TLC instance of what goes out to hosts that clients name: fetches       *)
(* (OutboundFetch) or the checks of ports and certificates (NetProbes).    *)
(*                                                                         *)
(* Four URLs on three hosts, one of them internationalised, two fetches    *)
(* that share one connection, at most two redirects, and webs in which the *)
(* first URL is a page, or leads to one of the other hosts, nowhere, or to *)
(* an invalid target, and the others end the chain, prolong it or close    *)
(* it.  Two ports of a host with one address, or with three of which two   *)
(* are tried, and one certificate.                                         *)
(***************************************************************************)
EXTENDS OutboundFetch, NetProbes

VARIABLE part   \* "fetch" or "probe": what goes out in this behaviour

A1 == <<"a", 1>>
A2 == <<"a", 2>>
B1 == <<"b", 1>>
I1 == <<"i", 1>>

MCUrls == {A1, A2, B1, I1}
MCStarts == {A1}

MCAddresses ==
  [h \in {"a", "b", "i"} |->
     {"private", CASE h = "a" -> "a public" [] h = "b" -> "b public" [] OTHER -> "i public"}]

Page == [kind |-> "page", to |-> NoLocation]
To(u) == [kind |-> "redirect", to |-> u]

\* A1 leads somewhere; what B1 and A2 do then varies, and I1 is a page.
MCSites ==
  {[u \in MCUrls |-> CASE u = A1 -> a [] u = B1 -> b [] u = A2 -> c [] OTHER -> Page] :
     a \in {Page, To(B1), To(I1), To(Invalid), [kind |-> "other_3xx", to |-> B1],
            [kind |-> "other_3xx", to |-> NoLocation]},
     b \in {Page, To(A1), To(A2), To(NoLocation)},
     c \in {Page, To(B1)}}

MCHosts == {<<r>> : r \in [kind : {"accepts", "refuses", "resets", "silent"}, delay : 1..2]}
         \cup {<<r, s, [kind |-> "accepts", delay |-> 1]>> :
                 r \in [kind : {"resets", "silent"}, delay : {1}],
                 s \in [kind : {"accepts", "silent"}, delay : {1}]}

-----------------------------------------------------------------------------
MCInit ==
  \/ part = "fetch" /\ Init /\ ProbesInit /\ host = [p \in Ports |-> <<[kind |-> "silent", delay |-> 1]>>]
  \/ part = "probe" /\ ProbesInit /\ Init /\ site = [u \in Urls |-> Page]

MCNext ==
  /\ UNCHANGED part
  /\ \/ part = "fetch" /\ Next /\ UNCHANGED probeVars
     \/ part = "probe" /\ ProbesNext /\ UNCHANGED vars

MCSpec == MCInit /\ [][MCNext]_<<part, vars, probeVars>> /\ (part = "fetch" => Fairness)

\* OutboundFetch: every client gets an answer.
EveryAnswerComes == part = "fetch" => EveryFetchEnds
=============================================================================
