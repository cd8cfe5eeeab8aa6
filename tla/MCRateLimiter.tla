--------------------------- MODULE MCRateLimiter ---------------------------
(***************************************************************************)
(* TLC instance of RateLimiter and its clients: a policy with a limit of   *)
(* two and one that is switched off, two slots for three clients.          *)
(***************************************************************************)
EXTENDS RateLimiterClients, TLC

MCPolicyLimit == [p \in Policies |-> IF p = "general" THEN 2 ELSE -1]

Symmetric == Permutations(Clients)
=============================================================================
