---------------------------- MODULE MCJobStream ----------------------------
(***************************************************************************)
(* Instances of JobStream for TLC: one page, and a job of one or two       *)
(* document steps, under approval or not.                                  *)
(***************************************************************************)
EXTENDS JobStream

CONSTANTS a, b

Document(s) == [step |-> s, kind |-> "document-generation", own |-> TRUE]
OneStep == <<Document(a)>>
TwoSteps == <<Document(a), Document(b)>>
=============================================================================
