----------------------------- MODULE PagePolicy -----------------------------
(***************************************************************************)
(* The network policy of one browser context (_ManagedContext) while a     *)
(* page is analysed: every request of the page is intercepted and runs     *)
(* through a handler of its own, the handlers interleave at their awaits   *)
(* and share the budgets of the context.  The analysis meanwhile visits    *)
(* one viewport after the other and then reports what it has seen.         *)
(*                                                                         *)
(* service = "design" is DesignSystemService._extract_uncached, "audit" an *)
(* analysis of browser_intelligence_service.py.                            *)
(***************************************************************************)
EXTENDS Integers, FiniteSets

CONSTANTS
  Resources,     \* what the page requests besides its document
  Images,        \* those of type "image"
  Unwanted,      \* those whose scheme, method or type is never fetched
  Unlisted,      \* of these, those whose type is in neither list of types
  Viewports,     \* number of viewports
  MaxRequests, MaxImages, MaxBytes, MaxTotal, MaxRedirects

ASSUME KindAssumption ==
  /\ IsFiniteSet(Resources)
  /\ Images \subseteq Resources /\ Unwanted \subseteq Resources /\ Images \cap Unwanted = {}
  /\ Unlisted \subseteq Unwanted
ASSUME BudgetAssumption ==
  /\ {Viewports, MaxRequests, MaxImages, MaxBytes, MaxTotal} \subseteq Nat \ {0}
  /\ MaxRedirects \in Nat

VARIABLES
  service, view, phase,   \* the analysis: its kind, its viewport, its progress
  pc, outcome,            \* each request: where its handler is, how it ended
  size, hops,             \* of its response; redirects before it
  requests, images, bytes, blocked, warned,  \* _ManagedContext
  sent, sentImages, passed,  \* history: fetches, of images, bytes passed on
  report

analysis == <<service, view, phase, report>>
handlers == <<pc, outcome, size, hops>>
budgets == <<requests, images, bytes>>
history == <<sent, sentImages, passed>>
vars == <<analysis, handlers, budgets, blocked, warned, history>>

Documents == {<<"document", v>> : v \in 1..Viewports}

All == Documents \cup Resources

NoReport == [made |-> FALSE, partial |-> FALSE, lost |-> {}, aborting |-> {}]

Init ==
  /\ service \in {"design", "audit"}
  /\ view = 1 /\ phase = "navigating"
  /\ pc = [r \in All |-> "unseen"]
  /\ outcome = [r \in All |-> "none"]
  /\ size = [r \in All |-> 0]
  /\ hops = [r \in All |-> 0]
  /\ requests = 0 /\ images = 0 /\ bytes = 0
  /\ blocked = FALSE /\ warned = FALSE
  /\ sent = 0 /\ sentImages = 0 /\ passed = 0
  /\ report = NoReport

Document == <<"document", view>>

Running == phase \in {"navigating", "rendering"}

-----------------------------------------------------------------------------
\* The handler of a request.

Goto(r, label) == pc' = [pc EXCEPT ![r] = label] /\ UNCHANGED outcome

Finish(r, how) ==
  /\ pc' = [pc EXCEPT ![r] = "done"]
  /\ outcome' = [outcome EXCEPT ![r] = how]

Note(b, w) == blocked' = (blocked \/ b) /\ warned' = (warned \/ w)

\* The page requests its document first, then what the document names.
Request(r) ==
  /\ Running /\ pc[r] = "unseen"
  /\ IF r \in Documents THEN r = Document /\ phase = "navigating"
                        ELSE \E d \in Documents : outcome[d] = "delivered"
  /\ \/ r \in Unlisted /\ Goto(r, "abort") /\ Note(FALSE, FALSE)
     \/ r \in Unwanted \ Unlisted /\ Finish(r, "refused") /\ Note(TRUE, FALSE)
     \/ r \notin Unwanted /\ Goto(r, "guard") /\ Note(FALSE, FALSE)
  /\ UNCHANGED <<analysis, size, hops, budgets, history>>

\* Every other refusal is counted before route.abort is awaited; that of a type
\* in neither list is counted when the abort is through, and not at all when it
\* raises: the handler then stays where it is.
CountAborted(r) ==
  /\ Running /\ pc[r] = "abort"
  /\ Finish(r, "refused") /\ Note(TRUE, FALSE)
  /\ UNCHANGED <<analysis, size, hops, budgets, history>>

\* SSRFGuard.resolve_and_check, an await.
Guard(r) ==
  /\ Running /\ pc[r] = "guard"
  /\ \/ Goto(r, "budget") /\ Note(FALSE, FALSE)
     \/ Finish(r, "refused") /\ Note(TRUE, TRUE)
  /\ UNCHANGED <<analysis, size, hops, budgets, history>>

OverImages(r) == r \in Images /\ images + 1 > MaxImages

OverRequests == requests + 1 > MaxRequests

Count(r) ==
  images' = IF r \in Images THEN images + 1 ELSE images

\* Under the context's lock: an image over its budget is not counted as a
\* request and leaves no warning.
RefuseImage(r) ==
  /\ Running /\ pc[r] = "budget"
  /\ OverImages(r)
  /\ Count(r)
  /\ Finish(r, "refused") /\ Note(TRUE, FALSE)
  /\ UNCHANGED <<analysis, size, hops, requests, bytes, history>>

RefuseRequest(r) ==
  /\ Running /\ pc[r] = "budget"
  /\ ~OverImages(r) /\ OverRequests
  /\ Count(r) /\ requests' = requests + 1
  /\ Finish(r, "refused") /\ Note(TRUE, TRUE)
  /\ UNCHANGED <<analysis, size, hops, bytes, history>>

Admit(r) ==
  /\ Running /\ pc[r] = "budget"
  /\ ~OverImages(r) /\ ~OverRequests
  /\ Count(r) /\ requests' = requests + 1
  /\ Goto(r, "fetch") /\ Note(FALSE, FALSE)
  /\ sent' = sent + 1
  /\ sentImages' = IF r \in Images THEN sentImages + 1 ELSE sentImages
  /\ UNCHANGED <<analysis, size, hops, bytes, passed>>

\* route.fetch and response.body, awaits that fail or bring a response.
Fetch(r) ==
  /\ Running /\ pc[r] = "fetch"
  /\ \E n \in 1..MaxBytes + 1 :
       /\ size' = [size EXCEPT ![r] = n]
       /\ IF n > MaxBytes THEN Finish(r, "refused") /\ Note(TRUE, TRUE)
                          ELSE Goto(r, "deliver") /\ Note(FALSE, FALSE)
  /\ UNCHANGED <<analysis, hops, budgets, history>>

FetchFails(r) ==
  /\ Running /\ pc[r] = "fetch"
  /\ Finish(r, "failed") /\ Note(TRUE, TRUE)
  /\ UNCHANGED <<analysis, size, hops, budgets, history>>

\* Mutant: what the response itself adds is left out of the comparison.
OverTotalLate(r) == bytes > MaxTotal

OverTotal(r) == bytes + size[r] > MaxTotal

\* Under the lock again: this refusal warns but does not count as blocked.
RefuseBytes(r) ==
  /\ Running /\ pc[r] = "deliver"
  /\ OverTotal(r)
  /\ Finish(r, "refused") /\ Note(FALSE, TRUE)
  /\ UNCHANGED <<analysis, size, hops, budgets, history>>

OverRedirects(r) == hops[r] + 1 > MaxRedirects

\* route.fulfill: the page has its resource, or a redirect, which comes back as
\* a new request, or fulfill raises after the bytes were counted.
Deliver(r) ==
  /\ Running /\ pc[r] = "deliver"
  /\ ~OverTotal(r)
  /\ bytes' = bytes + size[r]
  /\ \/ /\ Finish(r, "delivered") /\ Note(FALSE, FALSE)
        /\ passed' = passed + size[r]
        /\ UNCHANGED hops
     \/ /\ hops' = [hops EXCEPT ![r] = @ + 1]
        /\ passed' = passed + size[r]
        /\ IF OverRedirects(r) THEN Finish(r, "refused") /\ Note(TRUE, TRUE)
                               ELSE Goto(r, "guard") /\ Note(FALSE, FALSE)
     \/ /\ Finish(r, "failed") /\ Note(TRUE, TRUE)
        /\ UNCHANGED <<hops, passed>>
  /\ UNCHANGED <<analysis, size, requests, images, sent, sentImages>>

-----------------------------------------------------------------------------
\* The analysis.

Aborting == {r \in All : pc[r] = "abort"}

Lost == {r \in All : outcome[r] \in {"refused", "failed"}} \cup Aborting

\* Mutant: what was blocked without a warning does not matter.
PartialByWarnings(w) == w \/ requests >= MaxRequests

\* w: there is a warning by now.
Partial(w) == w \/ (service = "design" /\ (blocked \/ requests >= MaxRequests))

\* The loop goes on to the next viewport, or ends in the report.
NextView(w, last) ==
  /\ warned' = (warned \/ w)
  /\ IF view = Viewports \/ last
     THEN /\ phase' = "reported"
          /\ report' = [made |-> TRUE, partial |-> Partial(warned \/ w),
                        lost |-> Lost, aborting |-> Aborting]
          /\ UNCHANGED view
     ELSE view' = view + 1 /\ phase' = "navigating" /\ UNCHANGED report
  /\ UNCHANGED <<service, handlers, requests, images, blocked, history>>

Abandon ==
  /\ phase' = "failed"
  /\ UNCHANGED <<service, view, report, handlers, budgets, blocked, warned, history>>

\* page.goto returns.  The design service reads the document again and adds its
\* length, outside of the lock and whatever the total.
Navigated ==
  /\ phase = "navigating" /\ outcome[Document] = "delivered"
  /\ phase' = "rendering"
  /\ bytes' \in IF service = "design" THEN {bytes, bytes + size[Document]} ELSE {bytes}
  /\ UNCHANGED <<service, view, report, handlers, requests, images, blocked, warned, history>>

\* page.goto times out, fails or is answered with 401.
NavigationFails ==
  /\ phase = "navigating"
  /\ IF view = 1 \/ service = "audit" THEN Abandon ELSE NextView(TRUE, FALSE) /\ UNCHANGED bytes

\* page.evaluate; a DOM over its limit adds a warning and ends the loop.
Analysed ==
  /\ phase = "rendering"
  /\ \/ NextView(FALSE, FALSE)
     \/ service = "design" /\ NextView(TRUE, TRUE)
  /\ UNCHANGED bytes

AnalysisFails ==
  /\ phase = "rendering"
  /\ IF view = 1 \/ service = "audit" THEN Abandon ELSE NextView(TRUE, FALSE) /\ UNCHANGED bytes

Handle(r) ==
  \/ Request(r) \/ CountAborted(r) \/ Guard(r) \/ RefuseImage(r) \/ RefuseRequest(r) \/ Admit(r)
  \/ Fetch(r) \/ FetchFails(r) \/ RefuseBytes(r) \/ Deliver(r)

Next ==
  \/ \E r \in All : Handle(r)
  \/ Navigated \/ NavigationFails \/ Analysed \/ AnalysisFails

Spec == Init /\ [][Next]_vars

-----------------------------------------------------------------------------
\* The variables have the types the code gives them; a counter exceeds its
\* budget by at most the number of requests that found it spent.
TypeOK ==
  /\ service \in {"design", "audit"} /\ view \in 1..Viewports
  /\ phase \in {"navigating", "rendering", "reported", "failed"}
  /\ pc \in [All -> {"unseen", "abort", "guard", "budget", "fetch", "deliver", "done"}]
  /\ outcome \in [All -> {"none", "refused", "failed", "delivered"}]
  /\ \A r \in All : pc[r] = "done" <=> outcome[r] # "none"
  /\ Aborting \subseteq Unlisted
  /\ size \in [All -> 0..MaxBytes + 1] /\ hops \in [All -> 0..MaxRedirects + 1]
  /\ requests \in 0..MaxRequests + Cardinality(All)
  /\ images \in 0..Cardinality(Images) * (MaxRedirects + 1)
  /\ bytes \in Nat /\ blocked \in BOOLEAN /\ warned \in BOOLEAN
  /\ report \in [made : BOOLEAN, partial : BOOLEAN, lost : SUBSET All, aborting : SUBSET All]

\* "Request count, response size, aggregate bytes, image count, redirects are
\* bounded" (docs/security.md): however the handlers interleave between their
\* awaits, no more is fetched and passed on than the budgets allow.
BudgetsHeld ==
  /\ sent <= MaxRequests
  /\ sentImages <= MaxImages
  /\ passed <= MaxTotal
  /\ \A r \in All : pc[r] \in {"guard", "budget", "fetch"} => hops[r] <= MaxRedirects

\* A report that does not call itself partial is about a page that has got all
\* it asked for until then, but for the requests whose refusal was under way: of
\* a type in neither list, being aborted at that moment and not counted yet.  An
\* audit, which looks at the warnings only, may also miss what is refused for
\* its type and the images over their budget.
PartialTruthful ==
  /\ TypeOK
  /\ report.made /\ ~report.partial =>
       IF service = "design" THEN report.lost \subseteq report.aborting /\ sent < MaxRequests
       ELSE report.lost \subseteq Images \cup Unwanted
=============================================================================
