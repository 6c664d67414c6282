----------------------------- MODULE RagService -----------------------------
(***************************************************************************)
(* The RAG routes of services/api: rag.py with its deadline, the workflow  *)
(* of deps/workflow.py and its result cache (rag_cache.py), over the store *)
(* and the run.                                                            *)
(*                                                                         *)
(* A request computes a key from the query, max_retries and the store's    *)
(* generation; it is answered from the cache, joins the leader that is     *)
(* running for the key, or becomes the leader.  The cache's lock guards    *)
(* code without an await.                                                  *)
(***************************************************************************)
EXTENDS CorrectiveRag

CONSTANTS
  Deployments, \* the backends and cache modes the settings select
  Question,    \* the query of each request
  CacheSize,   \* rag_cache_size
  NoKey,
  NoRequest

ASSUME CacheAssumption ==
  /\ Deployments \subseteq Backends \X BOOLEAN
  /\ DOMAIN Question = Requests
  /\ CacheSize \in Nat \ {0}
  /\ NoKey \notin Range(Question) \X (1..10) \X Nat
  /\ NoRequest \notin Requests
  /\ NoAnswer \notin Answers

VARIABLES
  caching,   \* rag_cache_ttl # 0
  cache,     \* _cache; stale: older than the ttl, used: its place in the order
  uses,      \* the last place handed out
  pending,   \* _pending_futures, each future named by its leader
  future,    \* the state of that future
  pc,        \* what the request's task is awaiting
  key,       \* cache_key
  leader,    \* the future a follower awaits
  status,    \* the response
  \* history
  must       \* the ingests acknowledged before the request derived its key

cacheVars == <<caching, cache, uses, pending, future>>
routeVars == <<pc, key, leader, status, must>>
vars == <<storeVars, ingestVars, scanVars, runVars, cacheVars, routeVars>>

Keys == Range(Question) \X (1..10) \X Nat
Entries == [key : Keys, answer : Answers, stale : BOOLEAN, used : Nat]

TypeOK ==
  /\ StoreTypeOK /\ RunTypeOK
  /\ caching \in BOOLEAN
  /\ cache \in SUBSET Entries
  /\ uses \in Nat
  /\ pending \subseteq [key : Keys, leader : Requests]
  /\ future \in [Requests -> {"none", "pending", "result", "error", "timeout"}]
  /\ pc \in [Requests -> {"idle", "bypass", "lead", "follow", "done"}]
  /\ key \in [Requests -> Keys \cup {NoKey}]
  /\ leader \in [Requests -> Requests \cup {NoRequest}]
  /\ status \in [Requests -> {0, 200, 500, 504}]
  /\ must \in [Requests -> SUBSET Ingests]

Init ==
  /\ StoreInit /\ RunInit
  /\ caching \in BOOLEAN
  /\ <<backend, caching>> \in Deployments
  /\ cache = {}
  /\ uses = 0
  /\ pending = {}
  /\ future = [r \in Requests |-> "none"]
  /\ pc = [r \in Requests |-> "idle"]
  /\ key = [r \in Requests |-> NoKey]
  /\ leader = [r \in Requests |-> NoRequest]
  /\ status = [r \in Requests |-> 0]
  /\ must = [r \in Requests |-> {}]

-----------------------------------------------------------------------------
\* Mutant: the key of the query alone.
KeyWithoutGeneration(r) == <<Question[r], MaxRetries[r], 0>>

\* _generate_cache_key.
CacheKey(r) == <<Question[r], MaxRetries[r], generation>>

\* _evict_expired_entries.
Fresh == {e \in cache : ~e.stale}

Cached(c, k) == {e \in c : e.key = k}

\* move_to_end.
MoveToEnd(c, e) == (c \ {e}) \cup {[e EXCEPT !.used = uses + 1]}

Place(c, k) ==
  IF Cached(c, k) = {} THEN uses + 1 ELSE (CHOOSE e \in Cached(c, k) : TRUE).used

\* _cache[k] = ...: a key the cache has keeps its place.
Put(c, k, a) ==
  {e \in c : e.key # k}
    \cup {[key |-> k, answer |-> a, stale |-> FALSE, used |-> Place(c, k)]}

LeastRecentlyUsed(c) == {e \in c : \A f \in c : e.used <= f.used}

\* Mutant: one entry too many.
EvictLruLate(c) ==
  IF Cardinality(c) > CacheSize + 1 THEN c \ LeastRecentlyUsed(c) ELSE c

\* _evict_lru_entry, when the size limit is passed.
EvictLru(c) == IF Cardinality(c) > CacheSize THEN c \ LeastRecentlyUsed(c) ELSE c

Respond(r, code) ==
  /\ pc' = [pc EXCEPT ![r] = "done"]
  /\ key' = [key EXCEPT ![r] = NoKey]
  /\ leader' = [leader EXCEPT ![r] = NoRequest]
  /\ status' = [status EXCEPT ![r] = code]

\* What run() does before its first await derives the key; what was
\* acknowledged by then is what the answer has to know.
Arrive(r) ==
  /\ pc[r] = "idle"
  /\ must' = [must EXCEPT ![r] = {w \in Ingests : acked[w] # 0}]
  /\ UNCHANGED caching

\* rag_cache_ttl = 0.
Bypass(r) ==
  /\ Arrive(r) /\ ~caching
  /\ pc' = [pc EXCEPT ![r] = "bypass"]
  /\ StartRun(r)
  /\ UNCHANGED <<storeVars, ingestVars, cache, uses, pending, future, key, leader, status>>

\* An entry that is fresh enough.
ServeCached(r) ==
  /\ Arrive(r) /\ caching
  /\ \E e \in Cached(Fresh, CacheKey(r)) :
       /\ cache' = MoveToEnd(Fresh, e)
       /\ answer' = [answer EXCEPT ![r] = e.answer]
  /\ uses' = uses + 1
  /\ Respond(r, 200)
  /\ UNCHANGED <<storeVars, ingestVars, scanVars, pending, future,
                 run, searchCount, retrieved, attempt, found>>

Misses(r) == Arrive(r) /\ caching /\ Cached(Fresh, CacheKey(r)) = {}

\* Another request runs for the key: await its future, shielded.
Join(r) ==
  /\ Misses(r)
  /\ key' = [key EXCEPT ![r] = CacheKey(r)]
  /\ cache' = Fresh
  /\ \E p \in pending : p.key = CacheKey(r) /\ leader' = [leader EXCEPT ![r] = p.leader]
  /\ pc' = [pc EXCEPT ![r] = "follow"]
  /\ UNCHANGED <<storeVars, ingestVars, scanVars, runVars, uses, pending, future, status>>

\* Mutant: the future is not registered.
NotRegistered(r) == pending

Registered(r) == pending \cup {[key |-> CacheKey(r), leader |-> r]}

Lead(r) ==
  /\ Misses(r)
  /\ \A p \in pending : p.key # CacheKey(r)
  /\ key' = [key EXCEPT ![r] = CacheKey(r)]
  /\ cache' = Fresh
  /\ pending' = Registered(r)
  /\ future' = [future EXCEPT ![r] = "pending"]
  /\ pc' = [pc EXCEPT ![r] = "lead"]
  /\ StartRun(r)
  /\ UNCHANGED <<storeVars, ingestVars, uses, leader, status>>

\* The leader resumes with the result: store it, set the future, withdraw it.
Finish(r) ==
  /\ pc[r] = "lead" /\ run[r] = "stop"
  /\ cache' = EvictLru(Put(cache, key[r], answer[r]))
  /\ uses' = uses + 1
  /\ future' = [future EXCEPT ![r] = "result"]
  /\ pending' = {p \in pending : p.key # key[r]}
  /\ Respond(r, 200)
  /\ ForgetRun(r)
  /\ UNCHANGED <<storeVars, ingestVars, caching, must, answer>>

\* Mutant: only an Exception is handled, not a cancellation.
WithdrawUnlessCancelled(r, outcome) ==
  /\ pending' = IF outcome = "timeout" THEN pending
                ELSE pending \ {[key |-> key[r], leader |-> r]}
  /\ future' = IF outcome = "timeout" THEN future
               ELSE [future EXCEPT ![r] = outcome]

\* The except block: the leader's own entry goes, its followers are told.
Withdraw(r, outcome) ==
  /\ pending' = pending \ {[key |-> key[r], leader |-> r]}
  /\ future' = [future EXCEPT ![r] = outcome]

LeaderRaises(r) ==
  /\ pc[r] = "lead" /\ run[r] = "raised"
  /\ Withdraw(r, "error")
  /\ Respond(r, 500)
  /\ ForgetRun(r)
  /\ UNCHANGED <<storeVars, ingestVars, caching, cache, uses, must, answer>>

\* rag_workflow_timeout, at any await: the task is cancelled.
LeaderTimesOut(r) ==
  /\ pc[r] = "lead"
  /\ Withdraw(r, "timeout")
  /\ Respond(r, 504)
  /\ ForgetRun(r)
  /\ answer' = [answer EXCEPT ![r] = NoAnswer]
  /\ UNCHANGED <<storeVars, ingestVars, caching, cache, uses, must>>

BypassEnds(r) ==
  /\ pc[r] = "bypass"
  /\ \/ run[r] = "stop" /\ Respond(r, 200) /\ UNCHANGED answer
     \/ run[r] = "raised" /\ Respond(r, 500) /\ UNCHANGED answer
     \/ Respond(r, 504) /\ answer' = [answer EXCEPT ![r] = NoAnswer]
  /\ ForgetRun(r)
  /\ UNCHANGED <<storeVars, ingestVars, cacheVars, must>>

\* The future is done: its result, its exception, or the TimeoutError.
FollowerResumes(r) ==
  /\ pc[r] = "follow"
  /\ \/ /\ future[leader[r]] = "result"
        /\ answer' = [answer EXCEPT ![r] = answer[leader[r]]]
        /\ Respond(r, 200)
     \/ future[leader[r]] = "error" /\ Respond(r, 500) /\ UNCHANGED answer
     \/ future[leader[r]] = "timeout" /\ Respond(r, 504) /\ UNCHANGED answer
  /\ UNCHANGED <<storeVars, ingestVars, scanVars, cacheVars, must,
                 run, searchCount, retrieved, attempt, found>>

\* The follower's own timeout; the shield keeps the future as it is.
FollowerTimesOut(r) ==
  /\ pc[r] = "follow"
  /\ Respond(r, 504)
  /\ UNCHANGED <<storeVars, ingestVars, scanVars, runVars, cacheVars, must>>

\* Time passes: an entry gets older than the ttl.
GrowStale(e) ==
  /\ ~e.stale
  /\ cache' = (cache \ {e}) \cup {[e EXCEPT !.stale = TRUE]}
  /\ UNCHANGED <<storeVars, ingestVars, scanVars, runVars, routeVars,
                 caching, uses, pending, future>>

RunOf(r) ==
  /\ pc[r] \in {"lead", "bypass"}
  /\ RunStep(r)
  /\ UNCHANGED <<cacheVars, routeVars>>

IngestOf(w) ==
  /\ IngestStep(w)
  /\ UNCHANGED <<runVars, cacheVars, routeVars>>

Serve(r) ==
  \/ Bypass(r)
  \/ ServeCached(r)
  \/ Join(r)
  \/ Lead(r)
  \/ RunOf(r)
  \/ Finish(r)
  \/ LeaderRaises(r)
  \/ LeaderTimesOut(r)
  \/ BypassEnds(r)
  \/ FollowerResumes(r)
  \/ FollowerTimesOut(r)

Next ==
  \/ \E w \in Ingests : IngestOf(w)
  \/ \E r \in Requests : Serve(r)
  \/ \E e \in cache : GrowStale(e)

Spec == Init /\ [][Next]_vars

-----------------------------------------------------------------------------
\* An answer comes from a search over every ingest that was acknowledged
\* before the request came in, whether the request ran itself, joined a run
\* that was under way, or was served from the cache (_generate_cache_key).
ReadsAckedIngests ==
  \A r \in Requests : status[r] = 200 => must[r] \subseteq answer[r].saw

\* Never two runs for one key (the thundering herd, run()).
OneRunPerKey ==
  \A r, s \in Requests :
    pc[r] = "lead" /\ pc[s] = "lead" /\ key[r] = key[s] => r = s

\* A future that can be joined, or is awaited while it is not done, has its
\* leader at work: also when the leader was cancelled (the except block).
AwaitedFutureHasLeader ==
  /\ \A p \in pending :
       pc[p.leader] = "lead" /\ key[p.leader] = p.key /\ future[p.leader] = "pending"
  /\ \A r \in Requests :
       pc[r] = "follow" /\ future[leader[r]] = "pending" =>
         pc[leader[r]] = "lead" /\ key[leader[r]] = key[r]

\* The cache stays within its size and holds one answer for a key.
CacheBounded ==
  /\ Cardinality(cache) <= CacheSize
  /\ \A e, f \in cache : e.key = f.key => e = f

\* A chunk id names one chunk: in the store, in the hits of the searches under
\* way and in the answers given, also after evictions and failed ingests.
Known ==
  {[chunk |-> documents[i], ordinal |-> Ordinals[i]] : i \in 1..Len(documents)}
    \cup (UNION {hits[r] : r \in Requests})
    \cup (UNION {answer[r].citations : r \in {s \in Requests : answer[s] # NoAnswer}})
IdsNameChunks ==
  \A g, h \in Known :
    /\ g.ordinal # NoOrdinal
    /\ g.ordinal = h.ordinal <=> g.chunk = h.chunk

\* The vectors that are reused for the next search are those of the documents
\* the store holds, whatever was ingested while they were derived.
VectorsMatchDocuments == vectors \in {NoVectors, documents}

\* A run's answer either cites hits of its own, or found nothing at all; it
\* gives up on insufficient hits only after its last search, and makes no more.
AnswersAreGrounded ==
  /\ \A r \in Requests : run[r] = "synthesize" =>
       \A cited \in Truncated(hits[r]) : CitationsValid(r, cited)
  /\ \A r \in Requests :
       run[r] = "stop" =>
         /\ searchCount[r] \in 1..MaxRetries[r]
         /\ found[r] => answer[r].citations # {}
         /\ ~found[r] /\ answer[r].citations # {} => searchCount[r] = MaxRetries[r]
=============================================================================
