---------------------------- MODULE MCRagService ----------------------------
(***************************************************************************)
(* An instance of RagService for TLC: two requests with one question, two  *)
(* ingests of one chunk, and room for one document in memory.              *)
(***************************************************************************)
EXTENDS RagService, TLC

CONSTANTS r1, r2, w1, w2, c1, c2, q

MCBatch == w1 :> <<c1>> @@ w2 :> <<c2>>
MCQuestion == [r \in Requests |-> q]
MCMaxRetries == [r \in Requests |-> 2]
MCDeployments == (Backends \X {TRUE}) \cup {<<"memory", FALSE>>}
Symmetry == Permutations(Requests)
=============================================================================
