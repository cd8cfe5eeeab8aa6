----------------------------- MODULE IpSources -----------------------------
(***************************************************************************)
(* FreeIPIntelligenceProvider: three public sources are asked about an     *)
(* address and what they say is put together; IPService lets its provider  *)
(* of threat signals correct that.  A source says a value for each of some *)
(* fields, "else" standing for all that nobody reads; one that has failed  *)
(* (_safe), and one with an empty answer, is silent.  A value that is not  *)
(* of its type is "odd": a latitude that is no number, or "blocks", the    *)
(* connection, timezone and security of ipwho.is, one of which is no       *)
(* object.  Addresses have Bits bits.                                      *)
(***************************************************************************)
EXTENDS ToolCall, FiniteSetsExt

CONSTANTS
  Inquiries,  \* [geo, security, signals: what each of them says, rdap: a network]
  Bits

Silent == [field \in {} |-> None]

-----------------------------------------------------------------------------
\* How many addresses a prefix of Bits - k bits leaves.
Size[k \in 0..Bits] == IF k = 0 THEN 1 ELSE 2 * Size[k - 1]

\* A network [first, last] of addresses is one that a prefix names.
Network(net) ==
  \E k \in 0..Bits : net.last - net.first = Size[k] - 1 /\ net.first % Size[k] = 0

\* The CIDRs with a prefix and a length; the first of them is the one that counts.
FullCidrs(cidrs) == {i \in DOMAIN cidrs : cidrs[i] # None}

\* _route_from_rdap: the first CIDR that is complete, else the first network of
\* the range (summarize_address_range), whichever address was asked about.
Route(rdap) ==
  LET from == {last \in rdap.first..rdap.last : Network([first |-> rdap.first, last |-> last])}
  IN IF FullCidrs(rdap.cidrs) # {} THEN rdap.cidrs[Min(FullCidrs(rdap.cidrs))]
     ELSE IF rdap.first = None \/ rdap.last = None \/ rdap.last < rdap.first THEN None
     ELSE [first |-> rdap.first, last |-> CHOOSE last \in from : \A other \in from : other <= last]

-----------------------------------------------------------------------------
Said(source, field) == IF field \in DOMAIN source THEN source[field] ELSE None
Or(x, y) == IF x # None THEN x ELSE y

\* What lookup does not expect of a source: a block that is no object, and a
\* length that is no number (such a network has no last address).
Malformed(q) ==
  \/ Said(q.geo, "blocks") = "odd"
  \/ /\ q.rdap # None
     /\ FullCidrs(q.rdap.cidrs) # {}
     /\ q.rdap.cidrs[Min(FullCidrs(q.rdap.cidrs))].last = None

\* lookup raises an exception: all sources are silent, or one is malformed.
Failed(q) == (q.geo = Silent /\ q.security = Silent /\ q.rdap = None) \/ Malformed(q)

PlaceFields == {"country", "code", "lat", "asn", "org"}
SignalFields == {"hosting", "datacenter", "tor", "vpn", "relay", "abuser"}
IpFields == PlaceFields \cup SignalFields \cup {"route"}

\* lookup: ipapi.is says "datacenter" only; as soon as it answers, were it with
\* nothing that is read, what ipwho.is says about Tor and VPN does not count.
Gathered(q) ==
  LET hosting == Or(Said(q.security, "datacenter"), Said(q.geo, "hosting"))
      own(field) == IF q.security # Silent THEN Said(q.security, field) ELSE Said(q.geo, field)
  IN [country |-> Said(q.geo, "country"),
      code |-> Or(Said(q.geo, "code"), Said(q.security, "code")),
      lat |-> IF Said(q.geo, "lat") = "odd" THEN None ELSE Said(q.geo, "lat"),
      asn |-> Or(Said(q.geo, "asn"), Said(q.security, "asn")),
      org |-> Or(Said(q.geo, "org"), Said(q.security, "org")),
      route |-> IF q.rdap = None THEN None ELSE Route(q.rdap),
      hosting |-> hosting, datacenter |-> hosting, tor |-> own("tor"), vpn |-> own("vpn"),
      relay |-> Said(q.geo, "relay"), abuser |-> Said(q.security, "abuser")]

\* IPService.lookup: an exception of its provider leaves nothing known.
IpReply(q) ==
  [field \in IpFields |-> IF Failed(q) THEN None
                        ELSE IF field \in SignalFields THEN Or(Said(q.signals, field), Gathered(q)[field])
                        ELSE Gathered(q)[field]]

IpCalled == Called("ip", Inquiries)
IpAnswers == Answers("ip", IpReply)

\* What ipwho.is, ipapi.is and the provider of threat signals can say, and what
\* an RDAP server says of the range of an address.
GeoFields == {"country", "code", "lat", "asn", "org", "hosting", "tor", "vpn", "relay", "blocks", "else"}
SecurityFields == {"code", "asn", "org", "datacenter", "tor", "vpn", "abuser", "else"}

IpIsTyped ==
  /\ Bits \in Nat
  /\ \A q \in Inquiries :
       /\ q = [geo |-> q.geo, security |-> q.security, signals |-> q.signals, rdap |-> q.rdap]
       /\ DOMAIN q.geo \subseteq GeoFields /\ DOMAIN q.security \subseteq SecurityFields
       /\ DOMAIN q.signals \subseteq SignalFields
       /\ q.rdap # None => q.rdap.first \in Nat \cup {None} /\ q.rdap.last \in Nat \cup {None}

-----------------------------------------------------------------------------
\* What a source says about a field, under the names that sources have for it.
Voices(q, field) ==
  {Said(q.signals, field)}
    \cup {Said(source, name) : source \in {q.geo, q.security},
                                name \in IF field \in {"hosting", "datacenter"} THEN {"hosting", "datacenter"} ELSE {field}}

\* Nothing is made up, and of what is said nothing is lost but where lookup
\* loses it (free.py, geoip/base.py): what is reported has been said; what is
\* said is reported as soon as one source has answered, and an answer takes
\* nothing away, unless it is malformed and takes everything; what ipwho.is
\* says about Tor and VPN is given up for an answer of ipapi.is, and for
\* nothing else.
SourcesExact ==
  Answered("ip") =>
    LET q == call[2]
        reply == result[1]
        mute(field) == field \in {"tor", "vpn"} /\ q.security # Silent
        without == {[q EXCEPT !.geo = Silent], [q EXCEPT !.security = Silent], [q EXCEPT !.rdap = None]}
    IN /\ \A field \in IpFields \ {"route"} : reply[field] \in Voices(q, field) \cup {None}
       /\ \A less \in without, field \in IpFields :
            IpReply(less)[field] # None /\ reply[field] = None => mute(field) \/ Malformed(q)
       /\ \A field \in IpFields \ {"route"} :
            (\E less \in without : less # q) /\ reply[field] = None =>
              mute(field) \/ Malformed(q) \/ Voices(q, field) \subseteq {None, "odd"}

\* A route is a network, and the one of the range if that is a network; it may
\* leave out the end of a range and with it the address (_route_from_rdap).
RouteExact ==
  Answered("ip") /\ result[1].route # None /\ call[2].rdap.cidrs = << >> =>
    LET rdap == call[2].rdap
        route == result[1].route
    IN /\ Network(route) /\ route.first = rdap.first /\ route.last <= rdap.last
       /\ Network([first |-> rdap.first, last |-> rdap.last]) => route.last = rdap.last
=============================================================================
