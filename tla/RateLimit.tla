----------------------------- MODULE RateLimit ------------------------------
(***************************************************************************)
(* middleware/rate_limit.py: who a request is counted for, and the fixed   *)
(* window of the limits library, which starts at the first hit and counts  *)
(* the hits it refuses.                                                    *)
(***************************************************************************)
EXTENDS Integers, Sequences, FiniteSetsExt

CONSTANTS Window       \* the period of llm_rate_limit

ASSUME WindowAssumption == Window \in Nat \ {0}

\* Mutant: the leftmost address of the header, which the client wrote.
LeftmostHop(forwarded, stops) == Min(stops)

\* Where the walk from the right ends.
LastHop(forwarded, stops) == Max(stops)

\* get_client_identifier: X-Forwarded-For counts only from a trusted peer; the
\* first element from the right that is no trusted proxy is the client, unless
\* it is no address.
ClientIdentifier(peer, forwarded, trusted, addresses) ==
  LET stops == {i \in DOMAIN forwarded : forwarded[i] \notin trusted}
      hop == forwarded[LastHop(forwarded, stops)]
  IN IF peer \notin trusted \/ stops = {} THEN peer
     ELSE IF hop \in addresses THEN hop ELSE peer

NoHits == [hits |-> 0, until |-> 0]

Hit(bucket, now) ==
  IF now >= bucket.until THEN [hits |-> 1, until |-> now + Window]
  ELSE [bucket EXCEPT !.hits = @ + 1]
=============================================================================
