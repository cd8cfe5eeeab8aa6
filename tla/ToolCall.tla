------------------------------ MODULE ToolCall ------------------------------
(***************************************************************************)
(* One request to a service that keeps no state between requests: the      *)
(* route hands it over and returns what the service makes of it.  The      *)
(* modules of such services extend this one; a call is <<tool, request>>.  *)
(***************************************************************************)
EXTENDS Integers, Sequences, FiniteSets

CONSTANT None  \* what a request or a reply does not say

VARIABLES
  call,   \* the tool that is asked and what it is asked
  result  \* its answer, << >> before there is one

callVars == <<call, result>>

Called(tool, requests) == \E r \in requests : call = <<tool, r>> /\ result = << >>

Answers(tool, Reply(_)) ==
  /\ call[1] = tool /\ result = << >>
  /\ result' = <<Reply(call[2])>>
  /\ UNCHANGED call

\* A service that draws lots: any of the replies.
AnswersAny(tool, Replies(_)) ==
  /\ call[1] = tool /\ result = << >>
  /\ \E reply \in Replies(call[2]) : result' = <<reply>>
  /\ UNCHANGED call

\* The first of several checks, pairs of a condition and a reason, that fails.
Reason(checks) ==
  LET failed == {i \in DOMAIN checks : checks[i][1]}
  IN IF failed = {} THEN "none" ELSE checks[CHOOSE i \in failed : \A j \in failed : i <= j][2]

Answered(tool) == call[1] = tool /\ result # << >>
=============================================================================
