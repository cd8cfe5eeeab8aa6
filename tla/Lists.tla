-------------------------------- MODULE Lists --------------------------------
(***************************************************************************)
(* What several services do with lists: a set of numbers put in order, and *)
(* the members of a list that are kept, in their order.  Both count, so    *)
(* that they can be reasoned about without recursion.                      *)
(***************************************************************************)
EXTENDS Integers, FiniteSets

\* The members of S that are not above i.
UpTo(S, i) == {j \in S : j <= i}

\* sorted, of numbers.
Ascending(S) == [n \in 1..Cardinality(S) |-> CHOOSE i \in S : Cardinality(UpTo(S, i)) = n]

\* The members of a sequence that are in a set, in their order.
Among(s, S) ==
  LET places == Ascending({i \in DOMAIN s : s[i] \in S})
  IN [n \in DOMAIN places |-> s[places[n]]]
=============================================================================
