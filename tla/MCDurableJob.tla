--------------------------- MODULE MCDurableJob ---------------------------
(***************************************************************************)
(* Instances of DurableJob for TLC.  MaxRetries of the engine is cut to 1  *)
(* and a plan to four steps at most; see README.md for why that is enough. *)
(***************************************************************************)
EXTENDS DurableJob, TLC

CONSTANTS a, b, c, z, e1, bad, r1, r2

Plain(s) == [step |-> s, kind |-> "document-generation", own |-> TRUE]
Writer(s) == [step |-> s, kind |-> "document-generation", own |-> FALSE]
Research(s) == [step |-> s, kind |-> "rag-research", own |-> FALSE]

Approve(s, edit) == [step |-> s, approve |-> TRUE, edit |-> edit]
Reject(s) == [step |-> s, approve |-> FALSE, edit |-> NoEdit]
Single(d) == [form |-> "single", decisions |-> <<d>>]
Set(ds) == [form |-> "set", decisions |-> ds]

\* Research handed to a document under approval.
ResearchThenWrite == <<Research(a), Writer(b)>>

\* Research handed to a document; a second document; a third, under approval.
Handoffs == <<Research(a), Writer(b), Writer(c), Plain(z)>>

\* Two documents, both under approval.
TwoGates == <<Plain(a), Plain(b)>>

\* One id twice, once for a flagged kind and once for another.
DisguisedStep == <<Plain(a), Research(a)>>

SingleBodies == {Single(Approve(b, NoEdit)), Single(Approve(b, e1)), Single(Reject(b))}
MixedBodies ==
  SingleBodies \cup
    {Single(Approve(b, bad)),
     Set(<<Approve(a, NoEdit), Reject(b)>>),
     Set(<<Approve(b, e1), Approve(b, NoEdit)>>)}
TwoGateBodies ==
  {Single(Approve(a, NoEdit)), Single(Reject(a)), Single(Approve(b, e1)),
   Set(<<Approve(a, NoEdit), Approve(b, e1)>>)}
ApproveOnly == {Single(Approve(b, NoEdit))}

RequestSymmetry == Permutations(Requests)
===========================================================================
