----------------------------- MODULE MCRegistry -----------------------------
(***************************************************************************)
(* TLC instance of what is looked up about domains and addresses: their    *)
(* registration (Registry), or their records and places (Lookups).         *)
(*                                                                         *)
(* A registered domain of one top-level domain and an unregistered one of  *)
(* another, either of which the mapping may lack, and a clock that runs    *)
(* past two periods of the mapping.  A shop whose zone varies, and an      *)
(* alias that shares its first public address; two mail providers.         *)
(***************************************************************************)
EXTENDS Registry, Lookups

VARIABLE part   \* "registration" or "lookup": what this behaviour is about

MCTldOf == [d \in Domains |-> IF d = "taken.com" THEN "com" ELSE "io"]

Zone(a, aaaa, mx, ns) ==
  [exists |-> TRUE, records |-> [A |-> a, AAAA |-> aaaa, MX |-> mx, NS |-> ns]]

Nowhere == [exists |-> FALSE, records |-> [t \in Types |-> << >>]]

Alias == Zone(<<"first">>, << >>, << >>, << >>)

ShopZones ==
  {Nowhere,
   Zone(<<"first">>, <<"second">>, <<"outlook">>, <<"ns">>),
   Zone(<<"private", "first">>, <<"first">>, <<NullMX>>, <<"parking">>),
   Zone(<<"private">>, << >>, <<"outlook", "google">>, <<"ns">>),
   Zone(<< >>, <<"second">>, <<"outlook", "other", NullMX>>, <<"parking">>),
   Zone(<< >>, << >>, << >>, <<"ns">>)}

MCZones == {[d \in {"shop", "alias"} |-> IF d = "shop" THEN z ELSE Alias] : z \in ShopZones}

MCRequests ==
  {<<"dns", "shop", <<"A", "MX">>>>, <<"dns", "shop", <<"NS">>>>, <<"ip", "first">>,
   <<"ip", "private">>, <<"url", "alias">>}
  \cup {<<kind, "shop">> : kind \in {"mx", "email", "domain", "url"}}

MCProviderOf == [h \in {"outlook", "google", "other"} |-> IF h = "other" THEN None ELSE h]

-----------------------------------------------------------------------------
MCInit ==
  \/ part = "registration" /\ Init /\ LookupsInit /\ zone["shop"] = Nowhere
  \/ part = "lookup" /\ LookupsInit /\ Init

MCNext ==
  /\ UNCHANGED part
  /\ \/ part = "registration" /\ Next /\ UNCHANGED lookupVars
     \/ part = "lookup" /\ LookupsNext /\ UNCHANGED vars

MCSpec == MCInit /\ [][MCNext]_<<part, vars, lookupVars>>

Symmetric == Permutations(Callers)
=============================================================================
