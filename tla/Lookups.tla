------------------------------- MODULE Lookups -------------------------------
(***************************************************************************)
(* The lookups of names and addresses: DNSService ("dns"), MXService       *)
(* ("mx"), EmailValidationService ("email"), DomainService without its     *)
(* registration data, which Registry models ("domain"), URLService ("url") *)
(* and IPLookupService ("ip").  They go from one query to the next, any of *)
(* which may fail, and share one cache, which here is what ReadThrough     *)
(* promises of it.  What DNS has to say does not change.                   *)
(***************************************************************************)
EXTENDS Lists, Integers, SequencesExt

CONSTANTS
  Callers, Names, Addresses,
  Public,       \* the addresses that are not private or reserved
  Zones,        \* what DNS may have to say: for each domain, whether it exists and its
                \* records of every type
  Requests,     \* what clients ask: triples of a kind, a domain or an address,
                \* and for "dns" the record types
  MaxEntries,   \* cache_max_entries
  ProviderOf,   \* the known mail provider of a host, None if it has none
  Parking,      \* name servers of parking services
  Disposable, Free,   \* the local lists of domains
  NullMX,       \* the host of the record "MX 0 ."
  None

Types == {"A", "AAAA", "MX", "NS"}

Kinds == {"dns", "mx", "email", "domain", "url", "ip"}

ASSUME ZoneAssumption ==
  /\ Public \subseteq Addresses
  /\ \A z \in Zones, d \in Names :
       /\ z[d].records["A"] \in Seq(Addresses) /\ z[d].records["AAAA"] \in Seq(Addresses)
       /\ z[d].records["MX"] \in Seq(DOMAIN ProviderOf \cup {NullMX})
ASSUME RequestAssumption ==
  /\ Requests # {}
  /\ Requests \subseteq ({"dns"} \X Names \X (Seq(Types) \ {<< >>}))
                        \cup ({"mx", "email", "domain", "url"} \X Names) \cup ({"ip"} \X Addresses)
ASSUME RoomAssumption == MaxEntries \in Nat \ {0}

VARIABLES zone, cache, call

lookupVars == <<zone, cache, call>>

\* about: a domain or an address; asked, left: types; got: the answers;
\* ask: addresses to ask the GeoIP provider for; geo: the one it has located.
Begun(q) ==
  LET types == CASE q[1] = "dns" -> q[3]
                 [] q[1] \in {"mx", "email"} -> <<"MX">>
                 [] q[1] = "domain" -> <<"MX", "NS", "A">>
                 [] q[1] = "url" -> <<"A", "AAAA">>
                 [] OTHER -> << >>
  IN [pc |-> "query", kind |-> q[1], about |-> q[2], asked |-> types, left |-> types,
      got |-> << >>, ask |-> << >>, geo |-> None, status |-> "none"]

LookupsInit ==
  /\ zone \in Zones
  /\ cache = << >>
  /\ call = [c \in Callers |-> [Begun(CHOOSE q \in Requests : TRUE) EXCEPT !.pc = "idle"]]

-----------------------------------------------------------------------------
Usable(hosts) == Among(hosts, ToSet(hosts) \ {NullMX})

Found(r, t) == IF t \in DOMAIN r.got THEN r.got[t] ELSE << >>

PublicOf(addrs) == Among(addrs, Public)

\* resolve_a_aaaa: whichever of the two types was answered.
Resolved(r) == Found(r, "A") \o Among(Found(r, "AAAA"), ToSet(Found(r, "AAAA")) \ ToSet(Found(r, "A")))

\* has_mx and mx_exists.
Mail(r) ==
  CASE "MX" \notin DOMAIN r.got -> "unknown"
    [] "MX" \in DOMAIN r.got /\ Usable(r.got["MX"]) # << >> -> "yes"
    [] OTHER -> "no"

\* detect_mx_provider: the only one that is known, if there is only one.
Provider(hosts) ==
  LET known == {ProviderOf[h] : h \in ToSet(Usable(hosts))} \ {None}
  IN IF Cardinality(known) = 1 THEN CHOOSE p \in known : TRUE ELSE None

\* classify_email_detailed.
Category(r) ==
  CASE r.about \in Disposable -> "disposable"
    [] r.about \notin Disposable /\ r.about \in Free -> "public_email"
    [] r.about \notin Disposable \cup Free /\ Provider(Found(r, "MX")) # None -> "business"
    [] OTHER -> "none"

\* detect_parked_domain.
Parked(r) ==
  CASE Usable(Found(r, "MX")) # << >> -> "no"
    [] Usable(Found(r, "MX")) = << >> /\ ToSet(Found(r, "NS")) \cap Parking # {} -> "yes"
    [] OTHER -> "unknown"

-----------------------------------------------------------------------------
\* Mutant: the types that were asked for are not part of the key.
KeyWithoutTypes(r) ==
  CASE r.kind = "dns" -> <<"dns", r.about, <<"A", "AAAA", "MX", "NS">>>>
    [] r.kind = "mx" -> <<"mx", r.about>>
    [] r.kind = "url" -> <<"urlgeo", Head(PublicOf(Resolved(r)))>>
    [] OTHER -> <<"ip", r.about>>

Key(r) ==
  CASE r.kind = "dns" -> <<"dns", r.about, r.asked>>
    [] r.kind = "mx" -> <<"mx", r.about>>
    [] r.kind = "url" -> <<"urlgeo", Head(PublicOf(Resolved(r)))>>
    [] OTHER -> <<"ip", r.about>>

\* get_or_set lets one caller at a time fill a key.
Fills(c) ==
  \/ call[c].kind = "mx" /\ call[c].pc = "query"
  \/ call[c].kind \in {"url", "ip"} /\ call[c].pc \in {"geo", "intel"}

Taken(key) == \E c \in Callers : Fills(c) /\ Key(call[c]) = key

\* A full cache gives up another entry.
Remember(key, value) ==
  \E kept \in SUBSET (DOMAIN cache \ {key}) :
    /\ Cardinality(kept) = Min({MaxEntries - 1, Cardinality(DOMAIN cache \ {key})})
    /\ cache' = [k \in kept \cup {key} |-> IF k = key THEN value ELSE cache[k]]

Update(c, r) == call' = [call EXCEPT ![c] = r]

EndCall(c, r, status) == Update(c, [r EXCEPT !.pc = "idle", !.ask = << >>, !.status = status])

\* The address of an "ip" is checked before anything is asked; "url" looks into
\* the cache only once it knows the addresses.
Ask(c) ==
  /\ call[c].pc = "idle"
  /\ \E q \in Requests :
       CASE q[1] \in {"dns", "mx"} -> Update(c, [Begun(q) EXCEPT !.pc = "cache"])
         [] q[1] = "ip" /\ q[2] \in Public ->
              Update(c, [Begun(q) EXCEPT !.pc = "cache", !.ask = <<q[2]>>])
         [] q[1] = "ip" /\ q[2] \notin Public -> EndCall(c, Begun(q), "ok")
         [] OTHER -> Update(c, Begun(q))
  /\ UNCHANGED <<zone, cache>>

Hit(c) ==
  LET r == call[c] IN
  /\ r.pc = "cache"
  /\ Key(r) \in DOMAIN cache
  /\ EndCall(c, CASE r.kind = "dns" -> [r EXCEPT !.got = cache[Key(r)]]
              [] r.kind = "mx" -> [r EXCEPT !.got = [t \in {"MX"} |-> cache[Key(r)]]]
              [] OTHER -> [r EXCEPT !.geo = cache[Key(r)]], "ok")
  /\ UNCHANGED <<zone, cache>>

\* "dns" uses get and set without a lock and takes a cache that fails, or an
\* entry that it can not read, for a miss.
Miss(c) ==
  LET r == call[c] IN
  /\ r.pc = "cache"
  /\ r.kind # "dns" => Key(r) \notin DOMAIN cache /\ ~Taken(Key(r))
  /\ Update(c, [r EXCEPT !.pc = IF r.kind \in {"dns", "mx"} THEN "query" ELSE "geo"])
  /\ cache' \in {cache} \cup (IF r.kind = "dns" /\ Key(r) \in DOMAIN cache
                              THEN {[k \in DOMAIN cache \ {Key(r)} |-> cache[k]]} ELSE {})
  /\ UNCHANGED zone

Asking(c) == call[c].pc = "query" /\ call[c].left # << >>

\* A type without records is an empty answer.
Answered(c) ==
  LET r == call[c]
      t == Head(r.left)
  IN
  /\ Asking(c)
  /\ zone[r.about].exists
  /\ Update(c, [r EXCEPT !.left = Tail(@),
                         !.got = [u \in DOMAIN r.got \cup {t} |->
                                    IF u = t THEN zone[r.about].records[t] ELSE r.got[u]]])
  /\ UNCHANGED <<zone, cache>>

\* NXDOMAIN, a timeout or no name server: "dns" and "mx" report it, the others
\* leave open what they do not know.
Fails(c) ==
  LET r == call[c] IN
  /\ Asking(c)
  /\ \E how \in {"failed"} \cup (IF zone[r.about].exists THEN {} ELSE {"nxdomain"}) :
       IF r.kind \in {"dns", "mx"} THEN EndCall(c, [r EXCEPT !.got = << >>, !.left = << >>], how)
                                   ELSE Update(c, [r EXCEPT !.left = Tail(@)])
  /\ UNCHANGED <<zone, cache>>

\* All queries are done.
Complete(c) ==
  LET r == call[c] IN
  /\ r.pc = "query" /\ r.left = << >>
  /\ CASE r.kind = "dns" ->
            EndCall(c, r, "ok") /\ (Remember(Key(r), r.got) \/ UNCHANGED cache)
       [] r.kind = "mx" ->
            /\ EndCall(c, [r EXCEPT !.got = [t \in {"MX"} |-> Usable(r.got["MX"])]], "ok")
            /\ Remember(Key(r), Usable(r.got["MX"]))
       [] r.kind = "email" -> EndCall(c, r, "ok") /\ UNCHANGED cache
       [] r.kind = "domain" ->
            /\ UNCHANGED cache
            /\ IF Found(r, "A") = << >> THEN EndCall(c, r, "ok")
               ELSE Update(c, [r EXCEPT !.pc = "geo", !.ask = <<Head(Found(r, "A"))>>])
       [] r.kind = "url" ->
            /\ UNCHANGED cache
            /\ CASE Resolved(r) = << >> -> EndCall(c, r, "blocked")
                 [] Resolved(r) # << >> /\ PublicOf(Resolved(r)) = << >> -> EndCall(c, r, "ok")
                 [] OTHER -> Update(c, [r EXCEPT !.pc = "cache", !.ask = PublicOf(Resolved(r))])
  /\ UNCHANGED zone

\* The GeoIP provider answers.  "ip" then asks the intelligence provider.
Located(c) ==
  LET r == [call[c] EXCEPT !.geo = Head(call[c].ask)] IN
  /\ call[c].pc = "geo"
  /\ CASE r.kind = "url" -> EndCall(c, r, "ok") /\ Remember(Key(r), r.geo)
       [] r.kind = "domain" -> EndCall(c, r, "ok") /\ UNCHANGED cache
       [] r.kind = "ip" -> Update(c, [r EXCEPT !.pc = "intel"]) /\ UNCHANGED cache
  /\ UNCHANGED zone

\* It fails: "url" tries its next address; without any the answer has no place.
NotLocated(c) ==
  /\ call[c].pc = "geo"
  /\ IF Len(call[c].ask) > 1 THEN Update(c, [call[c] EXCEPT !.ask = Tail(@)])
                             ELSE EndCall(c, call[c], "ok")
  /\ UNCHANGED <<zone, cache>>

Intel(c) ==
  /\ call[c].pc = "intel"
  /\ EndCall(c, call[c], "ok")
  /\ Remember(Key(call[c]), call[c].geo)
  /\ UNCHANGED zone

\* Without intelligence, what is known of the address is thrown away.
NoIntel(c) ==
  /\ call[c].pc = "intel"
  /\ EndCall(c, [call[c] EXCEPT !.geo = None], "ok")
  /\ UNCHANGED <<zone, cache>>

\* An entry expires or is evicted.
Expire ==
  /\ \E key \in DOMAIN cache : cache' = [k \in DOMAIN cache \ {key} |-> cache[k]]
  /\ UNCHANGED <<zone, call>>

Lookup(c) ==
  \/ Ask(c) \/ Hit(c) \/ Miss(c) \/ Answered(c) \/ Fails(c) \/ Complete(c)
  \/ Located(c) \/ NotLocated(c) \/ Intel(c) \/ NoIntel(c)

LookupsNext == Expire \/ \E c \in Callers : Lookup(c)

LookupsSpec == LookupsInit /\ [][LookupsNext]_lookupVars

-----------------------------------------------------------------------------
\* The variables have the types the code gives them; only a call that has an
\* address left asks for a location, and a key is filled by one call at a time.
LookupsTypeOK ==
  /\ zone \in Zones
  /\ Cardinality(DOMAIN cache) <= MaxEntries
  /\ \A c \in Callers :
       LET r == call[c] IN
       /\ r.pc \in {"idle", "cache", "query", "geo", "intel"} /\ r.kind \in Kinds
       /\ r.about \in Names \cup Addresses
       /\ ToSet(r.asked) \subseteq Types
       /\ \E n \in 0..Len(r.asked) : r.left = SubSeq(r.asked, n + 1, Len(r.asked))
       /\ DOMAIN r.got \subseteq Types
       /\ ToSet(r.ask) \subseteq Addresses /\ (r.pc = "geo" => r.ask # << >>)
       /\ r.geo \in Addresses \cup {None}
       /\ r.status \in {"none", "ok", "nxdomain", "failed", "blocked"}
  /\ \A c, e \in Callers : Fills(c) /\ Fills(e) /\ Key(call[c]) = Key(call[e]) => c = e

Done(c, kinds) == call[c].pc = "idle" /\ call[c].status = "ok" /\ call[c].kind \in kinds

Truth(d, t) == zone[d].records[t]

\* What is said about the mail of a domain is what DNS says, also behind the
\* cache: an outage or a name that does not exist never becomes "no MX", a null
\* MX never a host, and only the hosts of one known provider mean business.
MxTruthful ==
  \A c \in Callers : Done(c, {"mx", "email", "domain"}) =>
    LET r == call[c]
        hosts == Usable(Truth(r.about, "MX"))
    IN /\ r.kind = "mx" => r.got["MX"] = hosts
       /\ Mail(r) = "yes" => zone[r.about].exists /\ hosts # << >>
       /\ Mail(r) = "no" => zone[r.about].exists /\ hosts = << >>
       /\ Category(r) = "business" => Provider(hosts) = Provider(Found(r, "MX"))
       /\ Parked(r) = "no" => hosts # << >>

\* A DNS reply has the records of all the types that were asked for and of no
\* other, wherever it comes from: a part of a reply is neither given nor kept.
ReplyComplete ==
  /\ \A c \in Callers : Done(c, {"dns"}) =>
       call[c].got = [t \in ToSet(call[c].asked) |-> Truth(call[c].about, t)]
  /\ \A key \in DOMAIN cache :
       CASE key[1] = "dns" -> cache[key] = [t \in ToSet(key[3]) |-> Truth(key[2], t)]
         [] key[1] = "mx" -> zone[key[2]].exists /\ cache[key] = Usable(Truth(key[2], "MX"))
         [] OTHER -> TRUE

AddressesOf(d) == ToSet(Truth(d, "A")) \cup ToSet(Truth(d, "AAAA"))

\* A location is that of the address it is reported for.  A URL may show that
\* of another address: of one that a host has which shares an address with it.
GeoOfTheAddress ==
  \A c \in Callers : Done(c, {"ip", "domain", "url"}) /\ call[c].geo # None =>
    LET r == call[c] IN
    CASE r.kind = "ip" -> r.geo = r.about /\ r.geo \in Public
      [] r.kind = "domain" -> r.geo = Head(Truth(r.about, "A"))
      [] OTHER -> /\ r.geo \in Public
                  /\ \E d \in Names :
                       r.geo \in AddressesOf(d) /\ AddressesOf(d) \cap AddressesOf(r.about) # {}

\* Servers, answers and places are those of the name that was asked for,
\* whatever is cached and whoever fills the cache.
LookupsTruthful == LookupsTypeOK /\ MxTruthful /\ ReplyComplete /\ GeoOfTheAddress

\* "private/internal addresses are never sent to external GeoIP/intelligence
\* providers" (docs/architecture.md).
PrivateNeverSent ==
  \A c \in Callers : call[c].pc \in {"geo", "intel"} => Head(call[c].ask) \in Public
=============================================================================
