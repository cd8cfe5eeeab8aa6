------------------------------ MODULE Registry ------------------------------
(***************************************************************************)
(* Registration data: RDAPProvider with its IANA bootstrap mapping,        *)
(* WhoIsService's fallback to WHOIS, and the availability that             *)
(* DomainService derives from the outcome.  Lookups of different domains   *)
(* run concurrently and share the mapping; lookups of one domain are       *)
(* coalesced by the cache, so a domain stands for its lookup.              *)
(*                                                                         *)
(* An outcome is a record or the class of the exception that ends a        *)
(* provider call.  A document and a registry say the truth or fail.        *)
(***************************************************************************)
EXTENDS Integers

CONSTANTS
  Domains,       \* domains that are looked up
  Tlds,          \* top-level domains
  TldOf,         \* the top-level domain of each domain
  Registered,    \* the domains that are registered
  BootstrapTtl,  \* BOOTSTRAP_TTL, in ticks
  MaxTime        \* bound of the clock in the model

ASSUME DomainAssumption == TldOf \in [Domains -> Tlds] /\ Registered \in SUBSET Domains
ASSUME TimeAssumption == BootstrapTtl \in Nat \ {0} /\ MaxTime \in Nat \ {0}

VARIABLES
  now,        \* time.monotonic(), positive
  mapping,    \* self._bootstrap: the top-level domains with a base URL
  fetchedAt,  \* self._bootstrap_fetched_at, 0 at first
  pc,         \* "idle", "bootstrap" (fetching it), "registry", "whois"
  began,      \* the clock when a lookup in "bootstrap" read it, else 0
  answer,     \* what the last lookup of a domain told the client
  served,     \* history: when IANA served the document behind the mapping
  bumped      \* history: fetchedAt was last set by a fetch that failed

vars == <<now, mapping, fetchedAt, pc, began, answer, served, bumped>>

bootstrap == <<mapping, fetchedAt, served, bumped>>

Init ==
  /\ now = 1
  /\ mapping = {}
  /\ fetchedAt = 0
  /\ pc = [d \in Domains |-> "idle"]
  /\ began = [d \in Domains |-> 0]
  /\ answer = [d \in Domains |-> "none"]
  /\ served = 0
  /\ bumped = FALSE

-----------------------------------------------------------------------------
\* Mutant: an outage counts as "not registered".
AvailabilityFromOutage(outcome) ==
  CASE outcome = "record" -> "registered"
    [] outcome \in {"RegistryNotFound", "WHOISUnavailable"} -> "available"
    [] OTHER -> "error"

\* DomainService: available is False, True or None, or the lookup is an error.
Availability(outcome) ==
  CASE outcome = "record"           -> "registered"
    [] outcome = "RegistryNotFound" -> "available"
    [] outcome = "WHOISUnavailable" -> "unknown"
    [] OTHER                        -> "error"

Goto(d, place) == pc' = [pc EXCEPT ![d] = place]

End(d, outcome) ==
  /\ Goto(d, "idle")
  /\ answer' = [answer EXCEPT ![d] = Availability(outcome)]

\* _detect: a provider error of RDAP falls back to WHOIS, everything else ends
\* the lookup.
RdapEnds(d, outcome) ==
  IF outcome = "WHOISUnavailable"
  THEN Goto(d, "whois") /\ UNCHANGED answer
  ELSE End(d, outcome)

\* ... and every provider error of WHOIS becomes WHOISUnavailableError, of
\* which RegistryNotFoundError is a subclass.
FromWhois(outcome) ==
  IF outcome = "RegistryNotFound" THEN "WHOISUnavailable" ELSE outcome

\* _find_base_url: without one the provider raises WHOISProviderError.
Route(d, known) ==
  IF TldOf[d] \in known
  THEN Goto(d, "registry") /\ UNCHANGED answer
  ELSE RdapEnds(d, "WHOISUnavailable")

MappingCurrent == mapping # {} /\ now - fetchedAt < BootstrapTtl

-----------------------------------------------------------------------------
\* lookup() with a bootstrap mapping that is still good.
Mapped(d) ==
  /\ pc[d] = "idle"
  /\ MappingCurrent
  /\ Route(d, mapping)
  /\ UNCHANGED <<now, bootstrap, began>>

\* lookup() that has to fetch the mapping; the clock is read before the fetch.
Fetch(d) ==
  /\ pc[d] = "idle"
  /\ ~MappingCurrent
  /\ Goto(d, "bootstrap")
  /\ began' = [began EXCEPT ![d] = now]
  /\ UNCHANGED <<now, bootstrap, answer>>

Fetched(d) == began' = [began EXCEPT ![d] = 0]

\* Mutant: the clock is read after the fetch.
LoadedStampedLate(d, known, at) ==
  /\ pc[d] = "bootstrap"
  /\ mapping' = known
  /\ fetchedAt' = now
  /\ served' = at
  /\ bumped' = FALSE
  /\ Route(d, known)
  /\ Fetched(d)
  /\ UNCHANGED now

\* The fetch succeeds with a document that IANA served while it ran.
Loaded(d, known, at) ==
  /\ pc[d] = "bootstrap"
  /\ mapping' = known
  /\ fetchedAt' = began[d]
  /\ served' = at
  /\ bumped' = FALSE
  /\ Route(d, known)
  /\ Fetched(d)
  /\ UNCHANGED now

\* It fails on the network or in the parser: the old mapping, which another
\* lookup may have loaded meanwhile, is kept and used.
FetchFails(d) ==
  /\ pc[d] = "bootstrap"
  /\ fetchedAt' = began[d]
  /\ bumped' = TRUE
  /\ Route(d, mapping)
  /\ Fetched(d)
  /\ UNCHANGED <<now, mapping, served>>

\* It is answered with an error status, which the handler does not catch, or
\* stopped by the SSRF guard, the size limit or a malformed entry.
FetchRaises(d, outcome) ==
  /\ pc[d] = "bootstrap"
  /\ RdapEnds(d, outcome)
  /\ Fetched(d)
  /\ UNCHANGED <<now, bootstrap>>

\* The registry of the domain answers, or the request to it fails.
Says(d, outcome) ==
  \/ outcome = "record" /\ d \in Registered
  \/ outcome = "RegistryNotFound" /\ d \notin Registered
  \/ outcome \in {"WHOISUnavailable", "other"}

RegistryAnswers(d, outcome) ==
  /\ pc[d] = "registry"
  /\ Says(d, outcome)
  /\ RdapEnds(d, outcome)
  /\ UNCHANGED <<now, bootstrap, began>>

\* The WHOIS server answers in its thread, or the library fails.
WhoisAnswers(d, outcome) ==
  /\ pc[d] = "whois"
  /\ Says(d, outcome)
  /\ End(d, FromWhois(outcome))
  /\ UNCHANGED <<now, bootstrap, began>>

Tick ==
  /\ now < MaxTime
  /\ now' = now + 1
  /\ UNCHANGED <<bootstrap, pc, began, answer>>

Outcomes == {"record", "RegistryNotFound", "WHOISUnavailable", "other"}

Next ==
  \/ \E d \in Domains :
       \/ Mapped(d) \/ Fetch(d) \/ FetchFails(d)
       \/ \E known \in SUBSET Tlds, at \in began[d]..now : Loaded(d, known, at)
       \/ \E o \in {"WHOISUnavailable", "other"} : FetchRaises(d, o)
       \/ \E o \in Outcomes : RegistryAnswers(d, o) \/ WhoisAnswers(d, o)
  \/ Tick

Spec == Init /\ [][Next]_vars

-----------------------------------------------------------------------------
\* The variables have the types the code gives them.
TypeOK ==
  /\ now \in 1..MaxTime /\ fetchedAt \in 0..now /\ served \in 0..now
  /\ mapping \in SUBSET Tlds
  /\ pc \in [Domains -> {"idle", "bootstrap", "registry", "whois"}]
  /\ began \in [Domains -> 0..MaxTime]
  /\ answer \in [Domains -> {"none", "registered", "available", "unknown", "error"}]
  /\ bumped \in BOOLEAN

\* "available: true when unregistered, false when registered, null when
\* unavailable" (docs/api.md): whichever of bootstrap, RDAP and WHOIS fail on
\* the way, an outage is never taken for an answer of the registry.
TruthfulAnswer ==
  \A d \in Domains :
    /\ answer[d] = "available" => d \notin Registered
    /\ answer[d] = "registered" => d \in Registered

\* A lookup trusts the mapping without fetching it only if the document behind
\* it is younger than the TTL, although overlapping fetches may end in any
\* order and an older document replace a newer one; a failed refresh prolongs
\* the mapping on purpose.
TrustedMappingFresh ==
  [][\A d \in Domains : Mapped(d) /\ ~bumped => now - served < BootstrapTtl]_vars
=============================================================================
