------------------------- MODULE MCApprovalClaims -------------------------
(***************************************************************************)
(* An instance of ApprovalClaims for TLC: three steps, two requests whose  *)
(* decision sets overlap in the middle one, and token counts on both sides *)
(* of the budget.                                                          *)
(***************************************************************************)
EXTENDS ApprovalClaims, TLC

CONSTANTS a, b, c, r1, r2

ThreeSteps ==
  <<[step |-> a, kind |-> "document-generation", own |-> TRUE],
    [step |-> b, kind |-> "document-generation", own |-> TRUE],
    [step |-> c, kind |-> "document-generation", own |-> TRUE]>>

Approve(s) == [step |-> s, approve |-> TRUE, edit |-> NoEdit]
Reject(s) == [step |-> s, approve |-> FALSE, edit |-> NoEdit]

OverlappingSets ==
  {[form |-> "set", decisions |-> <<Approve(a), Approve(b)>>],
   [form |-> "set", decisions |-> <<Reject(b), Approve(c)>>],
   [form |-> "set", decisions |-> <<Approve(b), Reject(b)>>],
   [form |-> "single", decisions |-> <<Approve(b)>>]}

RequestSymmetry == Permutations(Requests)
===========================================================================
