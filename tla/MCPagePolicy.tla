---------------------------- MODULE MCPagePolicy ----------------------------
(***************************************************************************)
(* TLC instance of the browser: the analysis of a page (PagePolicy) or the *)
(* pool of contexts that it takes place in (BrowserPool).                  *)
(*                                                                         *)
(* A page with two images, of which the budget allows one, and two         *)
(* resources that are never fetched, one of them of an unlisted type, in   *)
(* two viewports.  Page requests and a screenshot compete for two contexts *)
(* while the browser may crash, and two driver processes fit on the        *)
(* machine.                                                                *)
(***************************************************************************)
EXTENDS PagePolicy, BrowserPool

VARIABLE part   \* "page" or "pool": what this behaviour is about

-----------------------------------------------------------------------------
MCInit ==
  \/ part = "page" /\ Init /\ PoolInit /\ ~started
  \/ part = "pool" /\ PoolInit /\ Init /\ service = "audit"

MCNext ==
  /\ UNCHANGED part
  /\ \/ part = "page" /\ Next /\ UNCHANGED poolVars
     \/ part = "pool" /\ PoolNext /\ UNCHANGED vars

MCSpec == MCInit /\ [][MCNext]_<<part, vars, poolVars>> /\ (part = "pool" => Fairness)

-----------------------------------------------------------------------------
\* BrowserPool: every request that has begun ends.
EveryRequestEnds == part = "pool" => RequestsEnd
=============================================================================
