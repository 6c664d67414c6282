------------------------- MODULE RagService_proofs --------------------------
(***************************************************************************)
(* Theorems about RagService, for any requests, ingests, batches, cache    *)
(* size and deployments: every variable keeps its type; one run per key    *)
(* with its leader at work; answers that know every ingest acknowledged    *)
(* before they were asked for.                                             *)
(***************************************************************************)
EXTENDS RagService, TLAPS, FiniteSetTheorems, SequenceTheorems, WellFoundedInduction

-----------------------------------------------------------------------------
(* Types.                                                                  *)

\* What the types rest on: a document has its ordinal, a run that has stopped
\* its answer, a leader its key and a follower its leader; only a leader, or a
\* request that goes past the cache, has a run.
Aligned ==
  /\ backend = "memory" => Len(ordinals) = Len(documents)
  /\ \A r \in Requests :
       scan[r] = "score" => Len(snapshot[r].ordinals) = Len(snapshot[r].documents)
Answered == \A r \in Requests : run[r] = "stop" => answer[r] \in Answers
Named ==
  \A r \in Requests :
    /\ pc[r] = "lead" => key[r] \in Keys
    /\ pc[r] = "follow" => key[r] \in Keys /\ leader[r] \in Requests
Idle == \A r \in Requests : pc[r] \notin {"lead", "bypass"} => run[r] = "none"

\* A chunk of the corpus with its ordinal is a hit.
LEMMA HitsTyped ==
  ASSUME NEW k \in Nat, NEW docs \in Seq(Chunks), NEW ords,
         \A i \in 1..Len(docs) : ords[i] \in Nat \cup {NoOrdinal},
         NEW h \in TopK(k, docs, ords)
  PROVE  h \in SUBSET Hit
<1>1. PICK best \in SUBSET (1..Len(docs)) :
        h = {[chunk |-> docs[i], ordinal |-> ords[i]] : i \in best}
  BY DEF TopK, kSubset
<1> QED BY <1>1 DEF Hit

\* The ordinals of the stored documents, whatever the backend.
LEMMA OrdinalsTyped ==
  ASSUME StoreTypeOK, Aligned
  PROVE  \A i \in 1..Len(documents) : Ordinals[i] \in Nat \cup {NoOrdinal}
<1> SUFFICES ASSUME NEW i \in 1..Len(documents)
             PROVE  Ordinals[i] \in Nat \cup {NoOrdinal}
  OBVIOUS
<1>1. CASE backend = "memory"
  BY <1>1 DEF Ordinals, Aligned, StoreTypeOK
<1>2. CASE backend = "chroma"
  <2>1. documents[i] \in Chunks
    BY DEF StoreTypeOK
  <2> QED BY <1>2, <2>1 DEF Ordinals, StoreTypeOK
<1>3. CASE backend = "ollama"
  BY <1>3 DEF Ordinals, StoreTypeOK
<1> QED BY <1>1, <1>2, <1>3 DEF StoreTypeOK, Backends

\* Dropping the oldest elements of two lists of one length.
LEMMA DropTyped ==
  ASSUME NEW S, NEW T, NEW s \in Seq(S), NEW t \in Seq(T), Len(t) = Len(s)
  PROVE  /\ DropOldest(s, Excess(s)) \in Seq(S)
         /\ DropOldest(t, Excess(s)) \in Seq(T)
         /\ Len(DropOldest(t, Excess(s))) = Len(DropOldest(s, Excess(s)))
<1>1. Len(s) \in Nat /\ Excess(s) \in 0..Len(s)
  BY StoreAssumption DEF Excess
<1> DEFINE n == Excess(s)
<1>2. /\ \A i \in n + 1 .. Len(s) : s[i] \in S
      /\ \A i \in n + 1 .. Len(t) : t[i] \in T
  BY <1>1
<1>3. /\ SubSeq(s, n + 1, Len(s)) \in Seq(S)
      /\ Len(SubSeq(s, n + 1, Len(s))) =
           IF n + 1 <= Len(s) THEN Len(s) - (n + 1) + 1 ELSE 0
  BY <1>1, <1>2, SubSeqProperties
<1>4. /\ SubSeq(t, n + 1, Len(t)) \in Seq(T)
      /\ Len(SubSeq(t, n + 1, Len(t))) =
           IF n + 1 <= Len(t) THEN Len(t) - (n + 1) + 1 ELSE 0
  BY <1>1, <1>2, SubSeqProperties
<1> QED BY <1>3, <1>4 DEF DropOldest

LEMMA NewOrdinalsTyped ==
  ASSUME NEW w \in Ingests, nextOrdinal \in Nat
  PROVE  NewOrdinals(w) \in Seq(Nat) /\ Len(NewOrdinals(w)) = Len(Batch[w])
<1>1. Len(Batch[w]) \in Nat
  BY StoreAssumption
<1>2. NewOrdinals(w) \in [1..Len(Batch[w]) -> Nat]
  BY <1>1 DEF NewOrdinals
<1> QED BY <1>1, <1>2, SeqDef

\* An ingest keeps the store typed.
LEMMA IngestTyped ==
  ASSUME StoreTypeOK, Aligned, NEW w \in Ingests, IngestStep(w)
  PROVE  StoreTypeOK' /\ Aligned'
<1> USE DEF storeVars, scanVars, ingestVars
<1>1. Batch[w] \in Seq(Chunks) /\ Len(Batch[w]) \in Nat
  BY StoreAssumption
<1>2. documents \o Batch[w] \in Seq(Chunks)
  BY <1>1 DEF StoreTypeOK
<1>3. CASE AddInMemory(w)
  <2> DEFINE docs == documents \o Batch[w]
             ords == ordinals \o NewOrdinals(w)
  <2>1. ords \in Seq(Nat) /\ Len(ords) = Len(docs)
    <3>1. NewOrdinals(w) \in Seq(Nat) /\ Len(NewOrdinals(w)) = Len(Batch[w])
      BY NewOrdinalsTyped DEF StoreTypeOK
    <3>2. /\ ordinals \in Seq(Nat) /\ documents \in Seq(Chunks)
          /\ Len(ordinals) = Len(documents)
      BY <1>3 DEF StoreTypeOK, Aligned, AddInMemory
    <3>3. ords \in Seq(Nat) /\ Len(ords) = Len(ordinals) + Len(NewOrdinals(w))
      BY <3>1, <3>2, ConcatProperties, Zenon
    <3>4. Len(docs) = Len(documents) + Len(Batch[w])
      BY <1>1, <3>2
    <3> QED BY <3>1, <3>2, <3>3, <3>4
  <2>2. /\ documents' \in Seq(Chunks)
        /\ ordinals' \in Seq(Nat)
        /\ Len(ordinals') = Len(documents')
    <3>1. /\ documents' = DropOldest(docs, Excess(docs))
          /\ ordinals' = DropOldest(ords, Excess(docs))
      BY <1>3 DEF AddInMemory
    <3>2. docs \in Seq(Chunks)
      BY <1>2
    <3> HIDE DEF docs, ords
    <3> QED BY <2>1, <3>1, <3>2, DropTyped
  <2>3. Aligned'
    BY <1>3, <2>2 DEF AddInMemory, Aligned
  <2>4. nextOrdinal' \in Nat /\ vectors' \in Seq(Chunks) \cup {NoVectors}
    BY <1>1, <1>3 DEF AddInMemory, StoreTypeOK
  <2>5. /\ generation' \in Nat
        /\ acked' \in [Ingests -> Nat]
        /\ ingest' \in [Ingests -> {"idle", "adding", "added", "done", "failed"}]
        /\ landed' \subseteq Ingests
    BY <1>3 DEF AddInMemory, StoreTypeOK, Acknowledge
  <2> QED BY <1>3, <2>2, <2>3, <2>4, <2>5 DEF AddInMemory, StoreTypeOK
<1>4. CASE AssignOrdinals(w)
  <2>1. idToOrdinal' \in [Chunks -> Nat \cup {NoOrdinal}]
    <3>1. ASSUME NEW c \in Chunks, \E i \in DOMAIN Batch[w] : Batch[w][i] = c
          PROVE  NewOrdinals(w)[CHOOSE i \in DOMAIN Batch[w] : Batch[w][i] = c] \in Nat
      <4> DEFINE j == CHOOSE i \in DOMAIN Batch[w] : Batch[w][i] = c
      <4>1. j \in DOMAIN Batch[w]
        BY <3>1
      <4>2. j \in 1..Len(Batch[w])
        BY <1>1, <4>1
      <4> HIDE DEF j
      <4>3. NewOrdinals(w)[j] \in Nat
        BY <1>1, <4>2 DEF NewOrdinals, StoreTypeOK
      <4> QED BY <4>3 DEF j
    <3> QED BY <1>4, <3>1 DEF AssignOrdinals, StoreTypeOK
  <2>2. nextOrdinal' \in Nat
    BY <1>1, <1>4 DEF AssignOrdinals, StoreTypeOK
  <2> QED BY <1>4, <2>1, <2>2 DEF AssignOrdinals, StoreTypeOK, Aligned
<1>5. CASE CollectionAdds(w)
  BY <1>2, <1>5 DEF CollectionAdds, StoreTypeOK, Aligned
<1>6. CASE AddReturns(w)
  BY <1>6 DEF AddReturns, Acknowledge, StoreTypeOK, Aligned
<1>7. CASE AskEmbeddings(w)
  BY <1>7 DEF AskEmbeddings, StoreTypeOK, Aligned
<1>8. CASE EmbeddingsReturn(w)
  BY <1>2, <1>8 DEF EmbeddingsReturn, Acknowledge, StoreTypeOK, Aligned
<1>9. CASE IngestFails(w)
  BY <1>9 DEF IngestFails, StoreTypeOK, Aligned
<1> QED BY <1>3, <1>4, <1>5, <1>6, <1>7, <1>8, <1>9 DEF IngestStep

\* So does a search, from its start ...
LEMMA StartScanTyped ==
  ASSUME StoreTypeOK, Aligned, NEW r \in Requests, StartScan(r),
         UNCHANGED <<storeVars, ingestVars>>
  PROVE  StoreTypeOK' /\ Aligned'
<1> DEFINE s == IF backend = "memory"
                  THEN [documents |-> documents, ordinals |-> ordinals, count |-> 0,
                        derived |-> vectors = NoVectors, generation |-> generation]
                  ELSE NoSnapshot
<1>1. s \in Snapshot
  BY DEF StoreTypeOK, Snapshot, NoSnapshot
<1>2. snapshot' = [snapshot EXCEPT ![r] = s]
  BY DEF StartScan
<1>3. scan'[r] = "score" =>
        backend = "memory" /\ s.ordinals = ordinals /\ s.documents = documents
  BY DEF StartScan, FirstAwait, StoreTypeOK, Backends
<1> HIDE DEF s
<1>4. snapshot' \in [Requests -> Snapshot] /\ snapshot'[r] = s
  BY <1>1, <1>2 DEF StoreTypeOK
<1>5. scan' \in [Requests -> {"none", "score", "count", "query", "embed"}]
  BY DEF StartScan, FirstAwait, StoreTypeOK, Backends
<1>6. hits' \in [Requests -> SUBSET Hit] /\ saw' \in [Requests -> SUBSET Ingests]
  BY DEF StartScan, StoreTypeOK
<1>7. UNCHANGED <<storeVars, ingestVars>>
  OBVIOUS
<1>8. Aligned'
  BY <1>2, <1>3, <1>4, <1>7 DEF Aligned, StartScan, StoreTypeOK, storeVars
<1> QED BY <1>4, <1>5, <1>6, <1>7, <1>8 DEF StoreTypeOK, storeVars, ingestVars

\* ... to its result.
LEMMA ScanReturnsTyped ==
  ASSUME StoreTypeOK, Aligned, NEW r \in Requests, NEW h \in SUBSET Hit, ScanReturns(r, h),
         UNCHANGED <<backend, documents, ordinals, idToOrdinal, nextOrdinal, generation>>,
         vectors' \in Seq(Chunks) \cup {NoVectors},
         UNCHANGED ingestVars, saw' \in [Requests -> SUBSET Ingests]
  PROVE  StoreTypeOK' /\ Aligned'
<1>1. NoSnapshot \in Snapshot
  BY DEF Snapshot, NoSnapshot
<1> QED BY <1>1 DEF ScanReturns, StoreTypeOK, Aligned, ingestVars

LEMMA SearchTyped ==
  ASSUME StoreTypeOK, Aligned, NEW r \in Requests, NEW k \in Nat, SearchStep(r, k),
         UNCHANGED ingestVars
  PROVE  StoreTypeOK' /\ Aligned'
<1>1. snapshot[r] \in Snapshot
  BY DEF StoreTypeOK
<1>2. \A h \in TopK(k, documents, Ordinals) : h \in SUBSET Hit
  <2>1. documents \in Seq(Chunks)
    BY DEF StoreTypeOK
  <2> QED BY <2>1, OrdinalsTyped, HitsTyped
<1>3. CASE Score(r, k)
  <2>1. PICK h \in TopK(k, snapshot[r].documents, snapshot[r].ordinals) : ScanReturns(r, h)
    BY <1>3 DEF Score
  <2>2. /\ snapshot[r].documents \in Seq(Chunks)
        /\ snapshot[r].ordinals \in Seq(Nat)
        /\ Len(snapshot[r].ordinals) = Len(snapshot[r].documents)
    BY <1>1, <1>3 DEF Score, Aligned, Snapshot
  <2>3. \A i \in 1..Len(snapshot[r].documents) :
          snapshot[r].ordinals[i] \in Nat \cup {NoOrdinal}
    BY <2>2
  <2>4. h \in SUBSET Hit
    BY <2>1, <2>2, <2>3, HitsTyped
  <2>5. vectors' \in Seq(Chunks) \cup {NoVectors}
    BY <1>3, <2>2 DEF Score, PublishVectors, StoreTypeOK
  <2>6. saw' \in [Requests -> SUBSET Ingests]
    BY <1>3 DEF Score, StoreTypeOK
  <2> QED BY <1>3, <2>1, <2>4, <2>5, <2>6, ScanReturnsTyped DEF Score
<1>4. CASE Count(r)
  <2>1. [NoSnapshot EXCEPT !.count = Len(documents)] \in Snapshot
    <3>1. Len(documents) \in Nat
      BY DEF StoreTypeOK
    <3>2. NoSnapshot \in Snapshot
      BY DEF NoSnapshot, Snapshot
    <3> QED BY <3>1, <3>2 DEF Snapshot
  <2>2. snapshot' \in [Requests -> Snapshot]
    BY <1>4, <2>1 DEF Count, StoreTypeOK
  <2>3. saw' \in [Requests -> SUBSET Ingests]
    BY <1>4 DEF Count, StoreTypeOK
  <2> QED BY <1>4, <2>2, <2>3 DEF Count, StoreTypeOK, Aligned, storeVars, ingestVars
<1>5. CASE Query(r, k)
  <2> DEFINE n == Min({k, snapshot[r].count})
  <2>1. n \in Nat
    <3>1. snapshot[r].count \in Nat
      BY <1>1 DEF Snapshot
    <3> QED BY <3>1 DEF Min
  <2>2. PICK h \in TopK(n, documents, Ordinals) : ScanReturns(r, h)
    BY <1>5 DEF Query
  <2>3. documents \in Seq(Chunks)
    BY DEF StoreTypeOK
  <2> HIDE DEF n
  <2>4. h \in SUBSET Hit
    BY <2>1, <2>2, <2>3, OrdinalsTyped, HitsTyped
  <2>5. saw' \in [Requests -> SUBSET Ingests]
    BY <1>5 DEF Query, StoreTypeOK
  <2> QED BY <1>5, <2>2, <2>4, <2>5, ScanReturnsTyped DEF Query, storeVars, StoreTypeOK
<1>6. CASE Embedded(r, k)
  <2>1. PICK h \in TopK(k, documents, Ordinals) : ScanReturns(r, h)
    BY <1>6 DEF Embedded
  <2>2. saw' \in [Requests -> SUBSET Ingests]
    BY <1>6 DEF Embedded, StoreTypeOK
  <2> QED BY <1>2, <1>6, <2>1, <2>2, ScanReturnsTyped DEF Embedded, storeVars, StoreTypeOK
<1> QED BY <1>3, <1>4, <1>5, <1>6 DEF SearchStep

\* Every step of a run keeps the store and the runs typed.
LEMMA RunStepTyped ==
  ASSUME StoreTypeOK, Aligned, RunTypeOK, Answered, NEW r \in Requests, RunStep(r)
  PROVE  StoreTypeOK' /\ Aligned' /\ RunTypeOK' /\ Answered'
<1>1. hits[r] \in SUBSET Hit /\ saw[r] \in SUBSET Ingests
  BY DEF StoreTypeOK
<1>2. Ids(hits[r]) \subseteq Nat \cup {NoOrdinal}
  BY <1>1 DEF Ids, Hit
<1>3. UNCHANGED <<storeVars, ingestVars, scanVars>> => StoreTypeOK' /\ Aligned'
  BY DEF StoreTypeOK, Aligned, storeVars, ingestVars, scanVars
<1>4. ASSUME NEW cited \in SUBSET Hit, NEW ok \in BOOLEAN, Stop(r, cited, ok)
      PROVE  /\ run' \in [Requests -> {"none", "search", "evaluate", "synthesize",
                                       "stop", "raised"}]
             /\ answer' \in [Requests -> Answers \cup {NoAnswer}]
             /\ found' \in [Requests -> BOOLEAN]
             /\ Answered'
  <2>1. [citations |-> cited, saw |-> saw[r]] \in Answers
    BY <1>1 DEF Answers
  <2> QED BY <1>4, <2>1 DEF Stop, RunTypeOK, Answered
<1>5. CASE Search(r)
  <2>1. TopKOf(r) \in Nat
    BY RagAssumption DEF TopKOf
  <2>2. RunTypeOK' /\ Answered'
    BY <1>5 DEF Search, RunTypeOK, Answered, runVars
  <2> QED BY <1>5, <2>1, <2>2, SearchTyped DEF Search, ingestVars
<1>6. CASE Evaluate(r)
  <2>1. retrieved' \in [Requests -> SUBSET (Nat \cup {NoOrdinal})]
    BY <1>2, <1>6 DEF Evaluate, RunTypeOK
  <2>2. CASE Stop(r, {}, FALSE) /\ UNCHANGED attempt
    BY <1>3, <1>4, <1>6, <2>1, <2>2 DEF Evaluate, RunTypeOK
  <2>3. CASE /\ run' = [run EXCEPT ![r] = "evaluate"]
             /\ attempt' = [attempt EXCEPT ![r] = 1]
             /\ UNCHANGED <<answer, found>>
    BY <1>3, <1>6, <2>1, <2>3, RagAssumption DEF Evaluate, RunTypeOK, Answered
  <2> QED BY <1>6, <2>2, <2>3 DEF Evaluate
<1>7. CASE RetryCall(r)
  BY <1>3, <1>7, RagAssumption DEF RetryCall, AttemptsLeft, RunTypeOK, Answered
<1>8. CASE \E sufficient \in BOOLEAN : Verdict(r, sufficient)
  <2>1. ASSUME NEW ok \in BOOLEAN, StartSynthesis(r, ok),
               UNCHANGED <<storeVars, ingestVars, retrieved, answer>>
        PROVE  StoreTypeOK' /\ Aligned' /\ RunTypeOK' /\ Answered'
    BY <1>3, <2>1, RagAssumption DEF StartSynthesis, RunTypeOK, Answered
  <2>2. ASSUME SearchAgain(r), EndCall(r),
               UNCHANGED <<storeVars, ingestVars, retrieved, answer>>
        PROVE  StoreTypeOK' /\ Aligned' /\ RunTypeOK' /\ Answered'
    <3>1. RunTypeOK' /\ Answered'
      BY <2>2, RagAssumption DEF SearchAgain, EndCall, RunTypeOK, Answered
    <3> QED BY <2>2, <3>1, StartScanTyped DEF SearchAgain
  <2> QED BY <1>8, <2>1, <2>2 DEF Verdict
<1>9. CASE Synthesize(r)
  <2>1. attempt' \in [Requests -> 0..MaxAttempts]
    BY <1>9, RagAssumption DEF Synthesize, EndCall, RunTypeOK
  <2>2. PICK cited \in Truncated(hits[r]) :
          \/ Stop(r, cited, found[r])
          \/ run' = [run EXCEPT ![r] = "raised"] /\ UNCHANGED <<found, answer>>
    BY <1>9 DEF Synthesize
  <2>3. cited \in SUBSET Hit /\ found[r] \in BOOLEAN
    BY <1>1, <2>2 DEF Truncated, RunTypeOK
  <2>4. CASE Stop(r, cited, found[r])
    BY <1>3, <1>4, <1>9, <2>1, <2>3, <2>4 DEF Synthesize, RunTypeOK
  <2>5. CASE run' = [run EXCEPT ![r] = "raised"] /\ UNCHANGED <<found, answer>>
    BY <1>3, <1>9, <2>1, <2>5 DEF Synthesize, RunTypeOK, Answered
  <2> QED BY <2>2, <2>4, <2>5
<1>10. CASE RunRaises(r)
  BY <1>3, <1>10 DEF RunRaises, RunTypeOK, Answered
<1> QED BY <1>5, <1>6, <1>7, <1>8, <1>9, <1>10 DEF RunStep

\* TypeOK, but for the store's and the runs' own variables.
CacheTypeOK ==
  /\ caching \in BOOLEAN
  /\ cache \in SUBSET Entries
  /\ uses \in Nat
  /\ pending \subseteq [key : Keys, leader : Requests]
  /\ future \in [Requests -> {"none", "pending", "result", "error", "timeout"}]
RouteTypeOK ==
  /\ pc \in [Requests -> {"idle", "bypass", "lead", "follow", "done"}]
  /\ key \in [Requests -> Keys \cup {NoKey}]
  /\ leader \in [Requests -> Requests \cup {NoRequest}]
  /\ status \in [Requests -> {0, 200, 500, 504}]
  /\ must \in [Requests -> SUBSET Ingests]

Shape ==
  /\ StoreTypeOK /\ Aligned
  /\ RunTypeOK /\ Answered
  /\ CacheTypeOK
  /\ RouteTypeOK /\ Named /\ Idle

LEMMA KeyTyped ==
  ASSUME Shape, NEW r \in Requests
  PROVE  CacheKey(r) \in Keys
<1>1. Question[r] \in Range(Question)
  BY CacheAssumption DEF Range
<1>2. MaxRetries[r] \in 1..10 /\ generation \in Nat
  BY RagAssumption DEF Shape, StoreTypeOK
<1> QED BY <1>1, <1>2 DEF CacheKey, Keys

\* A request that is answered forgets its key and its leader.
LEMMA RespondTyped ==
  ASSUME RouteTypeOK, Named, NEW r \in Requests, NEW code \in {0, 200, 500, 504},
         Respond(r, code), UNCHANGED must
  PROVE  RouteTypeOK' /\ Named'
BY DEF Respond, RouteTypeOK, Named

\* So is a run that is over.
LEMMA ForgetTyped ==
  ASSUME StoreTypeOK, Aligned, RunTypeOK, Answered, NEW r \in Requests, ForgetRun(r),
         UNCHANGED <<storeVars, ingestVars>>,
         answer' = answer \/ answer' = [answer EXCEPT ![r] = NoAnswer]
  PROVE  StoreTypeOK' /\ Aligned' /\ RunTypeOK' /\ Answered'
<1>1. NoSnapshot \in Snapshot
  BY DEF Snapshot, NoSnapshot
<1>2. StoreTypeOK'
  BY <1>1 DEF ForgetRun, StoreTypeOK, storeVars, ingestVars
<1>3. Aligned'
  BY DEF ForgetRun, Aligned, StoreTypeOK, storeVars
<1>4. RunTypeOK' /\ Answered'
  BY RagAssumption DEF ForgetRun, RunTypeOK, Answered
<1> QED BY <1>2, <1>3, <1>4

\* A run that starts.
LEMMA StartRunTyped ==
  ASSUME StoreTypeOK, Aligned, RunTypeOK, Answered, NEW r \in Requests, StartRun(r),
         UNCHANGED <<storeVars, ingestVars>>
  PROVE  StoreTypeOK' /\ Aligned' /\ RunTypeOK' /\ Answered'
<1>1. StoreTypeOK' /\ Aligned'
  BY StartScanTyped DEF StartRun
<1>2. RunTypeOK' /\ Answered'
  BY DEF StartRun, RunTypeOK, Answered
<1> QED BY <1>1, <1>2

\* What is stored in the cache, evicted from it and marked in it is an entry.
LEMMA FreshTyped ==
  ASSUME CacheTypeOK
  PROVE  Fresh \in SUBSET Entries
BY DEF Fresh, CacheTypeOK

LEMMA PutTyped ==
  ASSUME CacheTypeOK, NEW k \in Keys, NEW a \in Answers
  PROVE  Put(cache, k, a) \in SUBSET Entries
<1>1. Place(cache, k) \in Nat
  <2>1. CASE Cached(cache, k) = {}
    BY <2>1 DEF Place, CacheTypeOK
  <2>2. CASE Cached(cache, k) # {}
    <3>1. (CHOOSE e \in Cached(cache, k) : TRUE) \in Cached(cache, k)
      BY <2>2
    <3>2. (CHOOSE e \in Cached(cache, k) : TRUE) \in Entries
      BY <3>1 DEF Cached, CacheTypeOK
    <3> QED BY <2>2, <3>2 DEF Place, Entries
  <2> QED BY <2>1, <2>2
<1>2. [key |-> k, answer |-> a, stale |-> FALSE, used |-> Place(cache, k)] \in Entries
  BY <1>1 DEF Entries
<1> QED BY <1>2 DEF Put, CacheTypeOK

LEMMA EvictedTyped ==
  ASSUME CacheTypeOK, NEW k \in Keys, NEW a \in Answers
  PROVE  EvictLru(Put(cache, k, a)) \in SUBSET Entries
BY PutTyped DEF EvictLru

LEMMA ShapeInit == Init => Shape
<1> SUFFICES ASSUME Init  PROVE Shape
  OBVIOUS
<1> USE DEF Init
<1>1. NoSnapshot \in Snapshot
  BY DEF Snapshot, NoSnapshot
<1>2. StoreTypeOK /\ Aligned
  BY <1>1 DEF StoreInit, StoreTypeOK, Aligned
<1>3. RunTypeOK /\ Answered
  BY RagAssumption DEF RunInit, RunTypeOK, Answered
<1>4. CacheTypeOK /\ RouteTypeOK /\ Named
  BY DEF CacheTypeOK, RouteTypeOK, Named
<1>5. Idle
  BY DEF RunInit, Idle
<1> QED BY <1>2, <1>3, <1>4, <1>5 DEF Shape

\* A run starts with its request and is forgotten with it.
LEMMA IdleStep ==
  ASSUME Shape, NEW r \in Requests, Serve(r)
  PROVE  Idle'
<1> USE DEF Shape, RunTypeOK, RouteTypeOK, Idle
<1>1. CASE Bypass(r) \/ Lead(r)
  BY <1>1 DEF Bypass, Lead, StartRun
<1>2. CASE ServeCached(r) \/ Join(r)
  BY <1>2 DEF ServeCached, Join, Misses, Arrive, Respond, runVars
<1>3. CASE RunOf(r)
  <2>1. UNCHANGED pc /\ pc[r] \in {"lead", "bypass"}
    BY <1>3 DEF RunOf, routeVars
  <2>2. \A s \in Requests \ {r} : run'[s] = run[s]
    BY <1>3 DEF RunOf, RunStep, Search, Evaluate, RetryCall, Verdict, Synthesize, RunRaises,
                Stop, StartSynthesis, SearchAgain, runVars
  <2> QED BY <2>1, <2>2
<1>4. CASE Finish(r) \/ LeaderRaises(r) \/ LeaderTimesOut(r) \/ BypassEnds(r)
  BY <1>4 DEF Finish, LeaderRaises, LeaderTimesOut, BypassEnds, Respond, ForgetRun
<1>5. CASE FollowerResumes(r) \/ FollowerTimesOut(r)
  BY <1>5 DEF FollowerResumes, FollowerTimesOut, Respond, runVars
<1> QED BY <1>1, <1>2, <1>3, <1>4, <1>5 DEF Serve

\* A request that comes in.
LEMMA ArrivalShape ==
  ASSUME Shape, NEW r \in Requests, Bypass(r) \/ ServeCached(r) \/ Join(r) \/ Lead(r)
  PROVE  Shape'
<1> Idle'
  BY IdleStep DEF Serve
<1>1. CacheKey(r) \in Keys
  BY KeyTyped
<1>2. Arrive(r) => must' \in [Requests -> SUBSET Ingests]
  BY DEF Arrive, Shape, RouteTypeOK
<1>3. CASE Bypass(r)
  <2>1. StoreTypeOK' /\ Aligned' /\ RunTypeOK' /\ Answered'
    BY <1>3, StartRunTyped DEF Bypass, Shape
  <2>2. CacheTypeOK'
    BY <1>3 DEF Bypass, Arrive, Shape, CacheTypeOK
  <2>3. RouteTypeOK' /\ Named'
    BY <1>2, <1>3 DEF Bypass, Shape, RouteTypeOK, Named
  <2> QED BY <2>1, <2>2, <2>3 DEF Shape
<1>4. CASE ServeCached(r)
  <2>1. PICK e \in Cached(Fresh, CacheKey(r)) :
          /\ cache' = MoveToEnd(Fresh, e)
          /\ answer' = [answer EXCEPT ![r] = e.answer]
    BY <1>4 DEF ServeCached
  <2>2. Fresh \in SUBSET Entries /\ e \in Entries
    BY <2>1, FreshTyped DEF Shape, Cached
  <2>3. [e EXCEPT !.used = uses + 1] \in Entries
    BY <2>2 DEF Entries, Shape, CacheTypeOK
  <2>4. CacheTypeOK'
    BY <1>4, <2>1, <2>2, <2>3 DEF ServeCached, Arrive, MoveToEnd, Shape, CacheTypeOK
  <2>5. StoreTypeOK' /\ Aligned'
    BY <1>4 DEF ServeCached, Shape, StoreTypeOK, Aligned, storeVars, ingestVars, scanVars
  <2>6. RunTypeOK' /\ Answered'
    <3>1. e.answer \in Answers
      BY <2>2 DEF Entries
    <3> QED BY <1>4, <2>1, <3>1 DEF ServeCached, Shape, RunTypeOK, Answered
  <2>7. RouteTypeOK' /\ Named'
    BY <1>2, <1>4 DEF ServeCached, Respond, Shape, RouteTypeOK, Named
  <2> QED BY <2>4, <2>5, <2>6, <2>7 DEF Shape
<1>5. CASE Join(r)
  <2>1. StoreTypeOK' /\ Aligned' /\ RunTypeOK' /\ Answered'
    BY <1>5 DEF Join, Shape, StoreTypeOK, Aligned, RunTypeOK, Answered,
                storeVars, ingestVars, scanVars, runVars
  <2>2. CacheTypeOK'
    BY <1>5, FreshTyped DEF Join, Misses, Arrive, Shape, CacheTypeOK
  <2>3. PICK p \in pending : leader' = [leader EXCEPT ![r] = p.leader]
    BY <1>5 DEF Join
  <2>4. p.leader \in Requests
    BY <2>3 DEF Shape, CacheTypeOK
  <2>5. RouteTypeOK' /\ Named'
    BY <1>1, <1>2, <1>5, <2>3, <2>4 DEF Join, Misses, Shape, RouteTypeOK, Named
  <2> QED BY <2>1, <2>2, <2>5 DEF Shape
<1>6. CASE Lead(r)
  <2>1. StoreTypeOK' /\ Aligned' /\ RunTypeOK' /\ Answered'
    BY <1>6, StartRunTyped DEF Lead, Shape
  <2>2. CacheTypeOK'
    BY <1>1, <1>6, FreshTyped DEF Lead, Misses, Arrive, Registered, Shape, CacheTypeOK
  <2>3. RouteTypeOK' /\ Named'
    BY <1>1, <1>2, <1>6 DEF Lead, Misses, Shape, RouteTypeOK, Named
  <2> QED BY <2>1, <2>2, <2>3 DEF Shape
<1> QED BY <1>3, <1>4, <1>5, <1>6

\* A request that is answered.
LEMMA DepartureShape ==
  ASSUME Shape, NEW r \in Requests,
         \/ Finish(r) \/ LeaderRaises(r) \/ LeaderTimesOut(r)
         \/ BypassEnds(r) \/ FollowerResumes(r) \/ FollowerTimesOut(r)
  PROVE  Shape'
<1> Idle'
  BY IdleStep DEF Serve
<1>1. CASE Finish(r)
  <2>1. StoreTypeOK' /\ Aligned' /\ RunTypeOK' /\ Answered'
    BY <1>1, ForgetTyped DEF Finish, Shape
  <2>2. key[r] \in Keys /\ answer[r] \in Answers
    BY <1>1 DEF Finish, Shape, Named, Answered
  <2>3. cache' \in SUBSET Entries
    BY <1>1, <2>2, EvictedTyped DEF Finish, Shape
  <2>4. CacheTypeOK'
    BY <1>1, <2>3 DEF Finish, Shape, CacheTypeOK
  <2>5. RouteTypeOK' /\ Named'
    BY <1>1, RespondTyped DEF Finish, Shape
  <2> QED BY <2>1, <2>4, <2>5 DEF Shape
<1>2. ASSUME LeaderRaises(r) \/ LeaderTimesOut(r)
      PROVE  Shape'
  <2>1. StoreTypeOK' /\ Aligned' /\ RunTypeOK' /\ Answered'
    BY <1>2, ForgetTyped DEF LeaderRaises, LeaderTimesOut, Shape
  <2>2. CacheTypeOK'
    BY <1>2 DEF LeaderRaises, LeaderTimesOut, Withdraw, Shape, CacheTypeOK
  <2>3. RouteTypeOK' /\ Named'
    BY <1>2, RespondTyped DEF LeaderRaises, LeaderTimesOut, Shape
  <2> QED BY <2>1, <2>2, <2>3 DEF Shape
<1>3. CASE BypassEnds(r)
  <2>1. StoreTypeOK' /\ Aligned' /\ RunTypeOK' /\ Answered'
    BY <1>3, ForgetTyped DEF BypassEnds, Shape
  <2>2. CacheTypeOK'
    BY <1>3 DEF BypassEnds, cacheVars, Shape, CacheTypeOK
  <2>3. RouteTypeOK' /\ Named'
    BY <1>3, RespondTyped DEF BypassEnds, Shape
  <2> QED BY <2>1, <2>2, <2>3 DEF Shape
<1>4. CASE FollowerResumes(r)
  <2>1. StoreTypeOK' /\ Aligned'
    BY <1>4 DEF FollowerResumes, Shape, StoreTypeOK, Aligned, storeVars, ingestVars, scanVars
  <2>2. CacheTypeOK'
    BY <1>4 DEF FollowerResumes, cacheVars, Shape, CacheTypeOK
  <2>3. RouteTypeOK' /\ Named'
    BY <1>4, RespondTyped DEF FollowerResumes, Shape
  <2>4. leader[r] \in Requests
    BY <1>4 DEF FollowerResumes, Shape, Named
  <2>5. RunTypeOK' /\ Answered'
    BY <1>4, <2>4 DEF FollowerResumes, Shape, RunTypeOK, Answered, Idle
  <2> QED BY <2>1, <2>2, <2>3, <2>5 DEF Shape
<1>5. CASE FollowerTimesOut(r)
  <2>1. StoreTypeOK' /\ Aligned' /\ RunTypeOK' /\ Answered'
    BY <1>5 DEF FollowerTimesOut, Shape, StoreTypeOK, Aligned, RunTypeOK, Answered,
                storeVars, ingestVars, scanVars, runVars
  <2>2. CacheTypeOK'
    BY <1>5 DEF FollowerTimesOut, cacheVars, Shape, CacheTypeOK
  <2>3. RouteTypeOK' /\ Named'
    BY <1>5, RespondTyped DEF FollowerTimesOut, Shape
  <2> QED BY <2>1, <2>2, <2>3 DEF Shape
<1> QED BY <1>1, <1>2, <1>3, <1>4, <1>5

\* Every step keeps the types.
LEMMA ShapeStep == Shape /\ [Next]_vars => Shape'
<1> SUFFICES ASSUME Shape, [Next]_vars
             PROVE  Shape'
  OBVIOUS
<1>1. ASSUME NEW w \in Ingests, IngestOf(w)
      PROVE  Shape'
  <2>1. StoreTypeOK' /\ Aligned'
    BY <1>1, IngestTyped DEF IngestOf, Shape
  <2>2. RunTypeOK' /\ Answered' /\ Idle'
    BY <1>1 DEF IngestOf, Shape, RunTypeOK, Answered, Idle, runVars, routeVars
  <2>3. CacheTypeOK' /\ RouteTypeOK' /\ Named'
    BY <1>1 DEF IngestOf, Shape, CacheTypeOK, RouteTypeOK, Named, cacheVars, routeVars
  <2> QED BY <2>1, <2>2, <2>3 DEF Shape
<1>2. ASSUME NEW r \in Requests, Serve(r)
      PROVE  Shape'
  <2>1. CASE RunOf(r)
    <3>1. StoreTypeOK' /\ Aligned' /\ RunTypeOK' /\ Answered'
      BY <2>1, RunStepTyped DEF RunOf, Shape
    <3>2. CacheTypeOK' /\ RouteTypeOK' /\ Named'
      BY <2>1 DEF RunOf, Shape, CacheTypeOK, RouteTypeOK, Named, cacheVars, routeVars
    <3> QED BY <1>2, <3>1, <3>2, IdleStep DEF Shape
  <2> QED BY <1>2, <2>1, ArrivalShape, DepartureShape DEF Serve
<1>3. ASSUME NEW e \in cache, GrowStale(e)
      PROVE  Shape'
  <2>1. [e EXCEPT !.stale = TRUE] \in Entries
    BY DEF Shape, CacheTypeOK, Entries
  <2>2. CacheTypeOK'
    BY <1>3, <2>1 DEF GrowStale, Shape, CacheTypeOK
  <2>3. StoreTypeOK' /\ Aligned' /\ RunTypeOK' /\ Answered'
    BY <1>3 DEF GrowStale, Shape, StoreTypeOK, Aligned, RunTypeOK, Answered,
                storeVars, ingestVars, scanVars, runVars
  <2>4. RouteTypeOK' /\ Named' /\ Idle'
    BY <1>3 DEF GrowStale, Shape, RouteTypeOK, Named, Idle, routeVars, runVars
  <2> QED BY <2>2, <2>3, <2>4 DEF Shape
<1>4. CASE UNCHANGED vars
  <2>1. StoreTypeOK' /\ Aligned' /\ RunTypeOK' /\ Answered'
    BY <1>4 DEF vars, Shape, StoreTypeOK, Aligned, RunTypeOK, Answered,
                storeVars, ingestVars, scanVars, runVars
  <2>2. CacheTypeOK' /\ RouteTypeOK' /\ Named' /\ Idle'
    BY <1>4 DEF vars, Shape, CacheTypeOK, RouteTypeOK, Named, Idle,
                cacheVars, routeVars, runVars
  <2> QED BY <2>1, <2>2 DEF Shape
<1> QED BY <1>1, <1>2, <1>3, <1>4 DEF Next

\* Every variable keeps its type, for any number of requests and ingests.
THEOREM ShapeInvariant == Spec => []Shape
BY ShapeInit, ShapeStep, PTL DEF Spec

\* Type correctness of the RAG routes, their cache and their store.
THEOREM TypeCorrect == Spec => []TypeOK
<1>1. Shape => TypeOK
  BY DEF Shape, TypeOK, CacheTypeOK, RouteTypeOK
<1> QED BY <1>1, ShapeInvariant, PTL

-----------------------------------------------------------------------------
(* Leaders and followers.                                                  *)

\* The leaders and the pending futures are one to one, a key has at most one,
\* a future is pending exactly as long as its leader leads, and a follower
\* joined the leader of its own key.
Leadership ==
  /\ \A r \in Requests : pc[r] = "lead" => [key |-> key[r], leader |-> r] \in pending
  /\ \A p \in pending : pc[p.leader] = "lead" /\ key[p.leader] = p.key
  /\ \A p, q \in pending : p.key = q.key => p = q
  /\ \A r \in Requests :
       /\ future[r] = "pending" <=> pc[r] = "lead"
       /\ future[r] \in {"result", "error", "timeout"} => pc[r] = "done"
  /\ \A r \in Requests :
       pc[r] = "follow" =>
         /\ pc[leader[r]] # "idle"
         /\ future[leader[r]] = "pending" => key[leader[r]] = key[r]

LEMMA LeadershipInit == Init => Leadership
BY DEF Init, Leadership

\* A request that leads registers a key nobody leads.
LEMMA LeadLeadership ==
  ASSUME Shape, Leadership, NEW r \in Requests, Lead(r)
  PROVE  Leadership'
<1> DEFINE own == [key |-> CacheKey(r), leader |-> r]
<1>1. /\ pending' = pending \cup {own}
      /\ own.key = CacheKey(r) /\ own.leader = r
      /\ \A p \in pending : p.key # CacheKey(r)
  BY DEF Lead, Registered
<1>2. /\ pc' = [pc EXCEPT ![r] = "lead"]
      /\ key' = [key EXCEPT ![r] = CacheKey(r)]
      /\ future' = [future EXCEPT ![r] = "pending"]
      /\ pc[r] = "idle" /\ leader' = leader
  BY DEF Lead, Misses, Arrive
<1> HIDE DEF own
<1>3. \A p \in pending : p.leader \in Requests \ {r}
  BY <1>2 DEF Leadership, Shape, CacheTypeOK
<1>4. \A s \in Requests : pc'[s] = "lead" => [key |-> key'[s], leader |-> s] \in pending'
  BY <1>1, <1>2 DEF own, Leadership, Shape, RouteTypeOK
<1>5. \A p \in pending' : pc'[p.leader] = "lead" /\ key'[p.leader] = p.key
  BY <1>1, <1>2, <1>3 DEF Leadership, Shape, RouteTypeOK
<1>6. \A p, q \in pending' : p.key = q.key => p = q
  BY <1>1 DEF Leadership
<1>7. \A s \in Requests :
        /\ future'[s] = "pending" <=> pc'[s] = "lead"
        /\ future'[s] \in {"result", "error", "timeout"} => pc'[s] = "done"
  BY <1>2 DEF Leadership, Shape, RouteTypeOK, CacheTypeOK
<1>8. ASSUME NEW s \in Requests, pc'[s] = "follow"
      PROVE  /\ pc'[leader'[s]] # "idle"
             /\ future'[leader'[s]] = "pending" => key'[leader'[s]] = key'[s]
  <2>1. s # r /\ pc[s] = "follow" /\ leader[s] \in Requests
    BY <1>2, <1>8 DEF Shape, RouteTypeOK, Named
  <2> QED BY <1>2, <1>8, <2>1 DEF Leadership, Shape, RouteTypeOK, CacheTypeOK
<1> QED BY <1>4, <1>5, <1>6, <1>7, <1>8 DEF Leadership

\* A leader that is answered withdraws its own future, and no other.
LEMMA LeaderEnds ==
  ASSUME Shape, Leadership, NEW r \in Requests, pc[r] = "lead",
         NEW outcome \in {"result", "error", "timeout"}, NEW code, Respond(r, code),
         pending' = pending \ {[key |-> key[r], leader |-> r]},
         future' = [future EXCEPT ![r] = outcome]
  PROVE  Leadership'
<1> DEFINE own == [key |-> key[r], leader |-> r]
<1>1. /\ pc' = [pc EXCEPT ![r] = "done"]
      /\ key' = [key EXCEPT ![r] = NoKey]
      /\ leader' = [leader EXCEPT ![r] = NoRequest]
  BY DEF Respond
<1>2. own \in pending /\ own.key = key[r] /\ own.leader = r
  BY DEF Leadership
<1>3. \A p \in pending' : p \in pending /\ p # own /\ p.leader \in Requests
  BY DEF Shape, CacheTypeOK
<1>4. \A p \in pending' : p.leader # r
  <2> SUFFICES ASSUME NEW p \in pending', p.leader = r  PROVE FALSE
    OBVIOUS
  <2>1. p.key = own.key
    BY <1>2, <1>3 DEF Leadership
  <2> QED BY <1>2, <1>3, <2>1 DEF Leadership
<1>5. \A s \in Requests : pc'[s] = "lead" => [key |-> key'[s], leader |-> s] \in pending'
  <2> SUFFICES ASSUME NEW s \in Requests, pc'[s] = "lead"
               PROVE  [key |-> key'[s], leader |-> s] \in pending'
    OBVIOUS
  <2>1. s # r /\ pc[s] = "lead" /\ key'[s] = key[s]
    BY <1>1 DEF Shape, RouteTypeOK
  <2>2. [key |-> key[s], leader |-> s] \in pending
    BY <2>1 DEF Leadership
  <2>3. [key |-> key[s], leader |-> s].leader # own.leader
    BY <2>1
  <2> QED BY <2>1, <2>2, <2>3
<1> HIDE DEF own
<1>6. \A p \in pending' : pc'[p.leader] = "lead" /\ key'[p.leader] = p.key
  BY <1>1, <1>3, <1>4 DEF Leadership, Shape, RouteTypeOK
<1>7. \A p, q \in pending' : p.key = q.key => p = q
  BY <1>3 DEF Leadership
<1>8. \A s \in Requests :
        /\ future'[s] = "pending" <=> pc'[s] = "lead"
        /\ future'[s] \in {"result", "error", "timeout"} => pc'[s] = "done"
  BY <1>1 DEF Leadership, Shape, RouteTypeOK, CacheTypeOK
<1>9. ASSUME NEW s \in Requests, pc'[s] = "follow"
      PROVE  /\ pc'[leader'[s]] # "idle"
             /\ future'[leader'[s]] = "pending" => key'[leader'[s]] = key'[s]
  <2>1. s # r /\ pc[s] = "follow" /\ leader'[s] = leader[s] /\ leader[s] \in Requests
    BY <1>1, <1>9 DEF Shape, RouteTypeOK, Named
  <2> QED BY <1>1, <2>1 DEF Leadership, Shape, RouteTypeOK, CacheTypeOK
<1> QED BY <1>5, <1>6, <1>7, <1>8, <1>9 DEF Leadership

\* A request that is not a leader, and does not become one, leaves the leaders
\* and their followers alone.
LEMMA BystanderEnds ==
  ASSUME Shape, Leadership, NEW r \in Requests, pc[r] # "lead",
         NEW code, Respond(r, code), UNCHANGED <<pending, future>>
  PROVE  Leadership'
<1>1. /\ pc' = [pc EXCEPT ![r] = "done"]
      /\ key' = [key EXCEPT ![r] = NoKey]
      /\ leader' = [leader EXCEPT ![r] = NoRequest]
  BY DEF Respond
<1>2. \A p \in pending : p.leader \in Requests \ {r}
  BY DEF Leadership, Shape, CacheTypeOK
<1>3. \A s \in Requests : pc'[s] = "lead" => [key |-> key'[s], leader |-> s] \in pending'
  BY <1>1 DEF Leadership, Shape, RouteTypeOK
<1>4. \A p \in pending' : pc'[p.leader] = "lead" /\ key'[p.leader] = p.key
  BY <1>1, <1>2 DEF Leadership, Shape, RouteTypeOK
<1>5. \A s \in Requests :
        /\ future'[s] = "pending" <=> pc'[s] = "lead"
        /\ future'[s] \in {"result", "error", "timeout"} => pc'[s] = "done"
  BY <1>1 DEF Leadership, Shape, RouteTypeOK, CacheTypeOK
<1>6. ASSUME NEW s \in Requests, pc'[s] = "follow"
      PROVE  /\ pc'[leader'[s]] # "idle"
             /\ future'[leader'[s]] = "pending" => key'[leader'[s]] = key'[s]
  <2>1. s # r /\ pc[s] = "follow" /\ leader'[s] = leader[s] /\ leader[s] \in Requests
    BY <1>1, <1>6 DEF Shape, RouteTypeOK, Named
  <2> QED BY <1>1, <2>1 DEF Leadership, Shape, RouteTypeOK, CacheTypeOK
<1> QED BY <1>3, <1>4, <1>5, <1>6 DEF Leadership

LEMMA JoinLeadership ==
  ASSUME Shape, Leadership, NEW r \in Requests, Join(r)
  PROVE  Leadership'
<1>1. PICK p \in pending : p.key = CacheKey(r) /\ leader' = [leader EXCEPT ![r] = p.leader]
  BY DEF Join
<1>2. /\ pc' = [pc EXCEPT ![r] = "follow"]
      /\ key' = [key EXCEPT ![r] = CacheKey(r)]
      /\ pc[r] = "idle" /\ UNCHANGED <<pending, future>>
  BY DEF Join, Misses, Arrive
<1>3. \A q \in pending : q.leader \in Requests \ {r}
  BY <1>2 DEF Leadership, Shape, CacheTypeOK
<1>4. \A s \in Requests : pc'[s] = "lead" => [key |-> key'[s], leader |-> s] \in pending'
  BY <1>2 DEF Leadership, Shape, RouteTypeOK
<1>5. \A q \in pending' : pc'[q.leader] = "lead" /\ key'[q.leader] = q.key
  BY <1>2, <1>3 DEF Leadership, Shape, RouteTypeOK
<1>6. \A s \in Requests :
        /\ future'[s] = "pending" <=> pc'[s] = "lead"
        /\ future'[s] \in {"result", "error", "timeout"} => pc'[s] = "done"
  BY <1>2 DEF Leadership, Shape, RouteTypeOK, CacheTypeOK
<1>7. ASSUME NEW s \in Requests, pc'[s] = "follow"
      PROVE  /\ pc'[leader'[s]] # "idle"
             /\ future'[leader'[s]] = "pending" => key'[leader'[s]] = key'[s]
  <2>1. CASE s = r
    <3>1. leader'[s] = p.leader /\ key'[s] = p.key
      BY <1>1, <1>2, <2>1 DEF Shape, RouteTypeOK
    <3>2. pc'[p.leader] = "lead" /\ key'[p.leader] = p.key
      BY <1>2, <1>5
    <3> QED BY <3>1, <3>2
  <2>2. CASE s # r
    <3>1. pc[s] = "follow" /\ leader'[s] = leader[s] /\ leader[s] \in Requests
      BY <1>1, <1>2, <1>7, <2>2 DEF Shape, RouteTypeOK, Named
    <3>2. pc[leader[s]] # "idle"
      BY <3>1 DEF Leadership
    <3>3. leader[s] # r
      BY <1>2, <3>2
    <3> QED BY <1>2, <2>2, <3>1, <3>3 DEF Leadership, Shape, RouteTypeOK
  <2> QED BY <2>1, <2>2
<1> QED BY <1>2, <1>4, <1>5, <1>6, <1>7 DEF Leadership

LEMMA LeadershipStep == Shape /\ Leadership /\ [Next]_vars => Leadership'
<1> SUFFICES ASSUME Shape, Leadership, [Next]_vars
             PROVE  Leadership'
  OBVIOUS
<1>1. UNCHANGED <<pc, key, leader, pending, future>> => Leadership'
  BY DEF Leadership
<1>2. ASSUME NEW r \in Requests, Serve(r)
      PROVE  Leadership'
  <2>1. CASE Bypass(r)
    <3>1. /\ pc' = [pc EXCEPT ![r] = "bypass"] /\ pc[r] = "idle"
          /\ UNCHANGED <<key, leader, pending, future>>
      BY <2>1 DEF Bypass, Arrive
    <3>2. \A p \in pending : p.leader \in Requests \ {r}
      BY <3>1 DEF Leadership, Shape, CacheTypeOK
    <3> QED BY <3>1, <3>2 DEF Leadership, Shape, RouteTypeOK, Named
  <2>2. CASE ServeCached(r)
    BY <2>2, BystanderEnds DEF ServeCached, Arrive
  <2>3. CASE RunOf(r)
    BY <1>1, <2>3 DEF RunOf, cacheVars, routeVars
  <2>4. CASE Finish(r)
    <3>1. {p \in pending : p.key # key[r]} = pending \ {[key |-> key[r], leader |-> r]}
      <4>1. [key |-> key[r], leader |-> r] \in pending
        BY <2>4 DEF Finish, Leadership
      <4> QED BY <4>1 DEF Leadership
    <3> QED BY <2>4, <3>1, LeaderEnds DEF Finish
  <2>5. CASE LeaderRaises(r)
    BY <2>5, LeaderEnds DEF LeaderRaises, Withdraw
  <2>6. CASE LeaderTimesOut(r)
    BY <2>6, LeaderEnds DEF LeaderTimesOut, Withdraw
  <2>7. CASE BypassEnds(r)
    BY <2>7, BystanderEnds DEF BypassEnds, cacheVars
  <2>8. CASE FollowerResumes(r)
    BY <2>8, BystanderEnds DEF FollowerResumes, cacheVars
  <2>9. CASE FollowerTimesOut(r)
    BY <2>9, BystanderEnds DEF FollowerTimesOut, cacheVars
  <2> QED BY <1>2, <2>1, <2>2, <2>3, <2>4, <2>5, <2>6, <2>7, <2>8, <2>9,
             JoinLeadership, LeadLeadership DEF Serve
<1>3. ASSUME NEW w \in Ingests, IngestOf(w)
      PROVE  Leadership'
  BY <1>1, <1>3 DEF IngestOf, cacheVars, routeVars
<1>4. ASSUME NEW e \in cache, GrowStale(e)
      PROVE  Leadership'
  BY <1>1, <1>4 DEF GrowStale, routeVars
<1>5. CASE UNCHANGED vars
  BY <1>1, <1>5 DEF vars, cacheVars, routeVars
<1> QED BY <1>2, <1>3, <1>4, <1>5 DEF Next

\* Pending keys and leaders at work belong to each other, one to one.
THEOREM LeadershipInvariant == Spec => []Leadership
BY LeadershipInit, LeadershipStep, ShapeInvariant, PTL DEF Spec

\* Two runs for one key would be two pending futures for it.
THEOREM HerdIsTamed == Spec => []OneRunPerKey
<1>1. Leadership => OneRunPerKey
  <2> SUFFICES ASSUME Leadership, NEW r \in Requests, NEW s \in Requests,
                      pc[r] = "lead", pc[s] = "lead", key[r] = key[s]
               PROVE  r = s
    BY DEF OneRunPerKey
  <2>1. /\ [key |-> key[r], leader |-> r] \in pending
        /\ [key |-> key[s], leader |-> s] \in pending
    BY DEF Leadership
  <2>2. [key |-> key[r], leader |-> r] = [key |-> key[s], leader |-> s]
    BY <2>1 DEF Leadership
  <2> QED BY <2>2
<1> QED BY <1>1, LeadershipInvariant, PTL

\* Nobody awaits a future that nobody will resolve.
THEOREM NoFutureIsOrphaned == Spec => []AwaitedFutureHasLeader
<1>1. Shape /\ Leadership => AwaitedFutureHasLeader
  BY DEF Shape, Leadership, CacheTypeOK, Named, AwaitedFutureHasLeader
<1> QED BY <1>1, ShapeInvariant, LeadershipInvariant, PTL

-----------------------------------------------------------------------------
(* What an answer knows.                                                   *)

\* The ingests acknowledged up to generation g; what a run has to see of them:
\* a leader what its key counts, a request of its own what it came after.
AckedBy(g) == {w \in Ingests : acked[w] # 0 /\ acked[w] <= g}
Needed(r) == IF pc[r] = "lead" THEN AckedBy(key[r][3]) ELSE must[r]

\* The run's last search has read the store.
Searched(r) ==
  \/ run[r] \in {"evaluate", "synthesize", "stop"}
  \/ run[r] = "search" /\ scan[r] \in {"none", "score"}

\* An acknowledged ingest has landed, at a generation that has come.
StoreReads ==
  \A w \in Ingests :
    /\ acked[w] <= generation
    /\ acked[w] # 0 => w \in landed /\ ingest[w] = "done"
    /\ ingest[w] = "added" => w \in landed
RunReads ==
  \A r \in Requests : pc[r] \in {"lead", "bypass"} =>
    /\ Searched(r) => Needed(r) \subseteq saw[r]
    /\ run[r] = "stop" => answer[r].saw = saw[r]
    /\ pc[r] = "lead" => key[r][3] <= generation /\ must[r] \subseteq AckedBy(key[r][3])
    /\ pc[r] = "bypass" => must[r] \subseteq landed
FollowReads ==
  \A r \in Requests : pc[r] = "follow" =>
    /\ key[r][3] <= generation /\ must[r] \subseteq AckedBy(key[r][3])
    /\ future[leader[r]] = "result" => AckedBy(key[r][3]) \subseteq answer[leader[r]].saw
CacheReads ==
  \A e \in cache : e.key[3] <= generation /\ AckedBy(e.key[3]) \subseteq e.answer.saw
DoneReads ==
  \A r \in Requests : status[r] = 200 => pc[r] = "done" /\ must[r] \subseteq answer[r].saw

Reads == StoreReads /\ RunReads /\ FollowReads /\ CacheReads /\ DoneReads

LEMMA ReadsInit == Init => Reads
BY DEF Init, StoreInit, RunInit, Reads, StoreReads, RunReads, FollowReads, CacheReads,
       DoneReads

\* An ingest is acknowledged at a generation no key has counted yet.
LEMMA IngestEffect ==
  ASSUME Shape, StoreReads, NEW w \in Ingests, IngestStep(w)
  PROVE  /\ StoreReads'
         /\ generation <= generation' /\ landed \subseteq landed'
         /\ \A g \in Nat : g <= generation => AckedBy(g)' = AckedBy(g)
         /\ UNCHANGED <<scan, saw>>
<1> USE DEF Shape, StoreTypeOK, storeVars, scanVars
<1>1. CASE UNCHANGED <<generation, acked>> /\ landed \subseteq landed'
           /\ ingest[w] # "done" /\ ingest' \in {[ingest EXCEPT ![w] = s] : s \in {"adding", "added", "failed"}}
           /\ (ingest'[w] = "added" => w \in landed') /\ UNCHANGED <<scan, saw>>
  BY <1>1 DEF StoreReads, AckedBy
<1>2. CASE Acknowledge(w) /\ landed' = landed \cup {w} /\ ingest[w] # "done"
           /\ UNCHANGED <<scan, saw>>
  <2>1. acked[w] = 0
    BY <1>2 DEF StoreReads
  <2> QED BY <1>2, <2>1 DEF Acknowledge, StoreReads, AckedBy
<1>3. CASE AddInMemory(w) \/ EmbeddingsReturn(w)
  BY <1>2, <1>3 DEF AddInMemory, EmbeddingsReturn
<1>4. CASE AddReturns(w)
  <2>1. landed = landed \cup {w}
    BY <1>4 DEF AddReturns, StoreReads
  <2> QED BY <1>2, <1>4, <2>1 DEF AddReturns
<1>5. CASE AssignOrdinals(w) \/ AskEmbeddings(w) \/ CollectionAdds(w) \/ IngestFails(w)
  BY <1>1, <1>5 DEF AssignOrdinals, AskEmbeddings, CollectionAdds, IngestFails
<1> QED BY <1>3, <1>4, <1>5 DEF IngestStep

LEMMA IngestReads ==
  ASSUME Shape, Reads, NEW w \in Ingests, IngestOf(w)
  PROVE  Reads'
<1>1. /\ StoreReads'
      /\ generation <= generation' /\ landed \subseteq landed'
      /\ \A g \in Nat : g <= generation => AckedBy(g)' = AckedBy(g)
      /\ UNCHANGED <<scan, saw>>
  BY IngestEffect DEF IngestOf, Reads
<1>2. /\ UNCHANGED <<run, answer, cache, future, pc, key, leader, status, must>>
      /\ generation \in Nat /\ generation' \in Nat
  BY ShapeStep DEF IngestOf, runVars, cacheVars, routeVars, Shape, StoreTypeOK, Next
<1>3. \A r \in Requests : pc[r] \in {"lead", "follow"} => key[r][3] \in Nat
  BY DEF Shape, Named, Keys
<1>4. \A e \in cache : e.key[3] \in Nat
  BY DEF Shape, CacheTypeOK, Entries, Keys
<1>5. RunReads'
  BY <1>1, <1>2, <1>3 DEF Reads, RunReads, Needed, Searched
<1>6. FollowReads'
  BY <1>1, <1>2, <1>3 DEF Reads, FollowReads
<1>7. CacheReads'
  BY <1>1, <1>2, <1>4 DEF Reads, CacheReads
<1>8. DoneReads'
  BY <1>2 DEF Reads, DoneReads
<1> QED BY <1>1, <1>5, <1>6, <1>7, <1>8 DEF Reads

\* A search that needs no await, or takes its snapshot first, reads the store
\* as it starts.
LEMMA StartScanReads ==
  ASSUME Shape, NEW r \in Requests, StartScan(r)
  PROVE  /\ scan'[r] \in {"none", "score"} => saw'[r] = landed
         /\ \A s \in Requests \ {r} : scan'[s] = scan[s] /\ saw'[s] = saw[s]
<1>1. FirstAwait \in {"score", "count", "embed"}
  BY DEF FirstAwait, Shape, StoreTypeOK, Backends
<1> QED BY <1>1 DEF StartScan, Shape, StoreTypeOK

\* A step of a run reads the store no later than it says, and leaves the other
\* runs alone.
LEMMA RunEffect ==
  ASSUME Shape, NEW r \in Requests, RunStep(r), NEW N, N \subseteq landed,
         Searched(r) => N \subseteq saw[r],
         run[r] = "stop" => answer[r].saw = saw[r]
  PROVE  /\ Searched(r)' => N \subseteq saw'[r]
         /\ run'[r] = "stop" => answer'[r].saw = saw'[r]
         /\ \A s \in Requests \ {r} :
              /\ run'[s] = run[s] /\ scan'[s] = scan[s]
              /\ saw'[s] = saw[s] /\ answer'[s] = answer[s]
         /\ UNCHANGED <<acked, generation, landed, ingest>>
<1> USE DEF Shape, StoreTypeOK, RunTypeOK
<1>1. CASE Search(r)
  <2>1. /\ run[r] = "search" /\ UNCHANGED <<run, answer, acked, landed, ingest, generation>>
        /\ \A s \in Requests \ {r} : scan'[s] = scan[s] /\ saw'[s] = saw[s]
    BY <1>1 DEF Search, SearchStep, Score, Count, Query, Embedded, ScanReturns,
                runVars, ingestVars, storeVars
  <2>2. scan'[r] \in {"none", "score"} => N \subseteq saw'[r]
    BY <1>1, <2>1 DEF Search, SearchStep, Score, Count, Query, Embedded, ScanReturns, Searched
  <2> QED BY <2>1, <2>2 DEF Searched
<1>2. ASSUME NEW cited, NEW ok, Stop(r, cited, ok), Searched(r),
             UNCHANGED <<storeVars, ingestVars, scanVars>>
      PROVE  /\ Searched(r)' => N \subseteq saw'[r]
             /\ run'[r] = "stop" => answer'[r].saw = saw'[r]
             /\ \A s \in Requests \ {r} :
                  /\ run'[s] = run[s] /\ scan'[s] = scan[s]
                  /\ saw'[s] = saw[s] /\ answer'[s] = answer[s]
             /\ UNCHANGED <<acked, generation, landed, ingest>>
  BY <1>2 DEF Stop, storeVars, ingestVars, scanVars
<1>3. ASSUME NEW to \in {"evaluate", "synthesize", "raised"},
             run' = [run EXCEPT ![r] = to], Searched(r) \/ to = "raised",
             UNCHANGED <<storeVars, ingestVars, scanVars, answer>>
      PROVE  /\ Searched(r)' => N \subseteq saw'[r]
             /\ run'[r] = "stop" => answer'[r].saw = saw'[r]
             /\ \A s \in Requests \ {r} :
                  /\ run'[s] = run[s] /\ scan'[s] = scan[s]
                  /\ saw'[s] = saw[s] /\ answer'[s] = answer[s]
             /\ UNCHANGED <<acked, generation, landed, ingest>>
  BY <1>3 DEF Searched, storeVars, ingestVars, scanVars
<1>4. CASE Evaluate(r)
  <2>1. Searched(r)
    BY <1>4 DEF Evaluate, Searched
  <2> QED BY <1>2, <1>3, <1>4, <2>1 DEF Evaluate
<1>5. CASE RetryCall(r)
  BY <1>5 DEF RetryCall, Searched, storeVars, ingestVars, scanVars
<1>6. CASE \E sufficient \in BOOLEAN : Verdict(r, sufficient)
  <2>1. Searched(r) /\ UNCHANGED <<storeVars, ingestVars, answer>>
    BY <1>6 DEF Verdict, Searched
  <2>2. CASE \E ok \in BOOLEAN : StartSynthesis(r, ok)
    BY <1>3, <2>1, <2>2 DEF StartSynthesis
  <2>3. CASE SearchAgain(r)
    <3>1. run' = [run EXCEPT ![r] = "search"] /\ StartScan(r)
      BY <2>3 DEF SearchAgain
    <3> QED BY <2>1, <3>1, StartScanReads DEF Searched, storeVars, ingestVars
  <2> QED BY <1>6, <2>2, <2>3 DEF Verdict
<1>7. CASE Synthesize(r)
  <2>1. Searched(r) /\ UNCHANGED <<storeVars, ingestVars, scanVars>>
    BY <1>7 DEF Synthesize, Searched
  <2>2. PICK cited \in Truncated(hits[r]) :
          \/ Stop(r, cited, found[r])
          \/ run' = [run EXCEPT ![r] = "raised"] /\ UNCHANGED <<found, answer>>
    BY <1>7 DEF Synthesize
  <2> QED BY <1>2, <1>3, <2>1, <2>2
<1>8. CASE RunRaises(r)
  BY <1>3, <1>8 DEF RunRaises
<1> QED BY <1>1, <1>4, <1>5, <1>6, <1>7, <1>8 DEF RunStep

LEMMA RunOfReads ==
  ASSUME Shape, Leadership, Reads, NEW r \in Requests, RunOf(r)
  PROVE  Reads'
<1>1. pc[r] \in {"lead", "bypass"} /\ RunStep(r)
  BY DEF RunOf
<1>2. UNCHANGED <<cache, future, pc, key, leader, status, must>>
  BY DEF RunOf, cacheVars, routeVars
<1>3. Needed(r) \subseteq landed
  BY <1>1 DEF Needed, AckedBy, Reads, StoreReads, RunReads
<1>4. /\ Searched(r) => Needed(r) \subseteq saw[r]
      /\ run[r] = "stop" => answer[r].saw = saw[r]
  BY <1>1 DEF Reads, RunReads
<1>5. /\ Searched(r)' => Needed(r) \subseteq saw'[r]
      /\ run'[r] = "stop" => answer'[r].saw = saw'[r]
      /\ \A s \in Requests \ {r} :
           /\ run'[s] = run[s] /\ scan'[s] = scan[s]
           /\ saw'[s] = saw[s] /\ answer'[s] = answer[s]
      /\ UNCHANGED <<acked, generation, landed, ingest>>
  BY <1>1, <1>3, <1>4, RunEffect
<1>6. \A g : AckedBy(g)' = AckedBy(g)
  BY <1>5 DEF AckedBy
<1>7. StoreReads' /\ CacheReads'
  BY <1>2, <1>5, <1>6 DEF Reads, StoreReads, CacheReads
<1>8. RunReads'
  <2> SUFFICES ASSUME NEW s \in Requests, pc[s] \in {"lead", "bypass"}
               PROVE  /\ Searched(s)' => Needed(s)' \subseteq saw'[s]
                      /\ run'[s] = "stop" => answer'[s].saw = saw'[s]
                      /\ pc[s] = "lead" => key[s][3] <= generation'
                                           /\ must[s] \subseteq AckedBy(key[s][3])'
                      /\ pc[s] = "bypass" => must[s] \subseteq landed'
    BY <1>2 DEF RunReads
  <2>1. Needed(s)' = Needed(s)
    BY <1>2, <1>6 DEF Needed
  <2>2. /\ pc[s] = "lead" => key[s][3] <= generation' /\ must[s] \subseteq AckedBy(key[s][3])'
        /\ pc[s] = "bypass" => must[s] \subseteq landed'
    BY <1>2, <1>5, <1>6 DEF Reads, RunReads
  <2>3. CASE s = r
    BY <1>5, <2>1, <2>2, <2>3
  <2>4. CASE s # r
    BY <1>5, <2>1, <2>2, <2>4 DEF Reads, RunReads, Searched
  <2> QED BY <2>3, <2>4
<1>9. FollowReads'
  <2> SUFFICES ASSUME NEW s \in Requests, pc[s] = "follow"
               PROVE  /\ key[s][3] <= generation' /\ must[s] \subseteq AckedBy(key[s][3])'
                      /\ future[leader[s]] = "result" =>
                           AckedBy(key[s][3])' \subseteq answer'[leader[s]].saw
    BY <1>2 DEF FollowReads
  <2>1. leader[s] \in Requests
    BY DEF Shape, Named
  <2>2. future[leader[s]] = "result" => leader[s] # r
    BY <1>1, <2>1 DEF Leadership
  <2> QED BY <1>2, <1>5, <1>6, <2>1, <2>2 DEF Reads, FollowReads
<1>10. DoneReads'
  BY <1>1, <1>2, <1>5 DEF Reads, DoneReads
<1> QED BY <1>7, <1>8, <1>9, <1>10 DEF Reads

\* A request that comes in has to know what has been acknowledged by then: that
\* is what its key counts, and it has landed.
LEMMA ArrivalKnows ==
  ASSUME Shape, Reads, NEW r \in Requests, Arrive(r)
  PROVE  /\ must'[r] = AckedBy(generation) /\ AckedBy(generation) \subseteq landed
         /\ CacheKey(r)[3] = generation
         /\ \A s \in Requests \ {r} : must'[s] = must[s]
BY DEF Arrive, AckedBy, CacheKey, Reads, StoreReads, Shape, StoreTypeOK, RouteTypeOK

\* When a request comes in or goes, the others, and what is acknowledged, stay
\* as they were.
Others(r) ==
  /\ UNCHANGED <<acked, generation, landed, ingest>>
  /\ \A s \in Requests \ {r} :
       /\ run'[s] = run[s] /\ scan'[s] = scan[s] /\ saw'[s] = saw[s]
       /\ answer'[s] = answer[s] /\ future'[s] = future[s]
       /\ pc'[s] = pc[s] /\ key'[s] = key[s] /\ leader'[s] = leader[s]
       /\ status'[s] = status[s] /\ must'[s] = must[s]

LEMMA OthersStay ==
  ASSUME Shape, NEW r \in Requests, Serve(r), ~RunOf(r)
  PROVE  Others(r)
<1> USE DEF Shape, StoreTypeOK, RunTypeOK, CacheTypeOK, RouteTypeOK, Others,
            storeVars, ingestVars, scanVars, runVars, cacheVars
<1>1. CASE Bypass(r)
  BY <1>1 DEF Bypass, Arrive, StartRun, StartScan
<1>2. CASE ServeCached(r)
  BY <1>2 DEF ServeCached, Arrive, Respond
<1>3. CASE Join(r)
  BY <1>3 DEF Join, Misses, Arrive
<1>4. CASE Lead(r)
  BY <1>4 DEF Lead, Misses, Arrive, StartRun, StartScan
<1>5. CASE Finish(r)
  BY <1>5 DEF Finish, Respond, ForgetRun
<1>6. CASE LeaderRaises(r) \/ LeaderTimesOut(r)
  BY <1>6 DEF LeaderRaises, LeaderTimesOut, Withdraw, Respond, ForgetRun
<1>7. CASE BypassEnds(r)
  BY <1>7 DEF BypassEnds, Respond, ForgetRun
<1>8. CASE FollowerResumes(r) \/ FollowerTimesOut(r)
  BY <1>8 DEF FollowerResumes, FollowerTimesOut, Respond
<1> QED BY <1>1, <1>2, <1>3, <1>4, <1>5, <1>6, <1>7, <1>8 DEF Serve

\* So only r's own parts of the invariant, the followers it leads, and the
\* cache are left to show.
LEMMA OwnReads ==
  ASSUME Shape, Leadership, Reads, NEW r \in Requests, Others(r),
         pc'[r] \in {"lead", "bypass"} =>
           /\ Searched(r)' => Needed(r)' \subseteq saw'[r]
           /\ run'[r] = "stop" => answer'[r].saw = saw'[r]
           /\ pc'[r] = "lead" =>
                key'[r][3] <= generation /\ must'[r] \subseteq AckedBy(key'[r][3])
           /\ pc'[r] = "bypass" => must'[r] \subseteq landed,
         pc'[r] = "follow" =>
           /\ key'[r][3] <= generation /\ must'[r] \subseteq AckedBy(key'[r][3])
           /\ leader'[r] \in Requests \ {r} /\ future'[leader'[r]] # "result",
         future'[r] = "result" => 
           /\ future[r] \in {"pending", "result"}
           /\ future[r] = "pending" => AckedBy(key[r][3]) \subseteq answer'[r].saw
           /\ future[r] = "result" => answer'[r] = answer[r],
         status'[r] = 200 => pc'[r] = "done" /\ must'[r] \subseteq answer'[r].saw,
         \A e \in cache' : e.key[3] <= generation /\ AckedBy(e.key[3]) \subseteq e.answer.saw
  PROVE  Reads'
<1>1. /\ UNCHANGED <<acked, generation, landed, ingest>>
      /\ \A g : AckedBy(g)' = AckedBy(g)
  BY DEF Others, AckedBy
<1>2. StoreReads' /\ CacheReads'
  BY <1>1 DEF Reads, StoreReads, CacheReads
<1>3. RunReads'
  <2> SUFFICES ASSUME NEW s \in Requests, pc'[s] \in {"lead", "bypass"}
               PROVE  /\ Searched(s)' => Needed(s)' \subseteq saw'[s]
                      /\ run'[s] = "stop" => answer'[s].saw = saw'[s]
                      /\ pc'[s] = "lead" => key'[s][3] <= generation'
                                            /\ must'[s] \subseteq AckedBy(key[s][3])'
                      /\ pc'[s] = "bypass" => must'[s] \subseteq landed'
    BY DEF RunReads
  <2>1. CASE s = r
    BY <1>1, <2>1
  <2>2. CASE s # r
    <3>1. /\ run'[s] = run[s] /\ scan'[s] = scan[s] /\ saw'[s] = saw[s]
          /\ answer'[s] = answer[s] /\ pc'[s] = pc[s] /\ key'[s] = key[s] /\ must'[s] = must[s]
      BY <2>2 DEF Others
    <3>2. Needed(s)' = Needed(s) /\ AckedBy(key[s][3])' = AckedBy(key[s][3])
      BY <1>1, <3>1 DEF Needed
    <3> QED BY <1>1, <3>1, <3>2 DEF Reads, RunReads, Searched
  <2> QED BY <2>1, <2>2
<1>4. FollowReads'
  <2> SUFFICES ASSUME NEW s \in Requests, pc'[s] = "follow"
               PROVE  /\ key'[s][3] <= generation' /\ must'[s] \subseteq AckedBy(key[s][3])'
                      /\ future'[leader'[s]] = "result" =>
                           AckedBy(key[s][3])' \subseteq answer'[leader'[s]].saw
    BY DEF FollowReads
  <2>1. CASE s = r
    BY <1>1, <2>1
  <2>2. CASE s # r
    <3>1. /\ pc[s] = "follow" /\ key'[s] = key[s] /\ must'[s] = must[s]
          /\ leader'[s] = leader[s]
      BY <2>2 DEF Others
    <3>2. /\ leader[s] \in Requests
          /\ AckedBy(key[s][3])' = AckedBy(key[s][3])
      BY <1>1, <3>1 DEF Shape, Named
    <3>3. /\ key[s][3] <= generation /\ must[s] \subseteq AckedBy(key[s][3])
          /\ future[leader[s]] = "result" => AckedBy(key[s][3]) \subseteq answer[leader[s]].saw
      BY <3>1 DEF Reads, FollowReads
    <3>4. CASE leader[s] = r
      <4>1. future[r] = "pending" => key[r] = key[s]
        BY <3>1, <3>4 DEF Leadership
      <4> QED BY <1>1, <3>1, <3>2, <3>3, <3>4, <4>1
    <3>5. CASE leader[s] # r
      BY <1>1, <3>1, <3>2, <3>3, <3>5 DEF Others
    <3> QED BY <3>4, <3>5
  <2> QED BY <2>1, <2>2
<1>5. DoneReads'
  BY DEF Others, Reads, DoneReads
<1> QED BY <1>2, <1>3, <1>4, <1>5 DEF Reads

LEMMA ArrivalReads ==
  ASSUME Shape, Leadership, Reads, NEW r \in Requests,
         Bypass(r) \/ ServeCached(r) \/ Join(r) \/ Lead(r)
  PROVE  Reads'
<1>1. /\ Arrive(r) /\ pc[r] = "idle" /\ generation \in Nat
      /\ must'[r] = AckedBy(generation) /\ AckedBy(generation) \subseteq landed
      /\ CacheKey(r)[3] = generation
  BY ArrivalKnows DEF Bypass, ServeCached, Join, Lead, Misses, Arrive, Shape, StoreTypeOK
<1>2. ~RunOf(r) /\ status[r] # 200 /\ future[r] \notin {"pending", "result"}
  BY <1>1 DEF RunOf, Reads, DoneReads, Leadership
<1>3. Others(r)
  BY <1>2, OthersStay DEF Serve
<1>4. UNCHANGED <<acked, generation, landed>> /\ \A g : AckedBy(g)' = AckedBy(g)
  BY <1>3 DEF Others, AckedBy
<1>5. \A e \in Fresh : e.key[3] <= generation /\ AckedBy(e.key[3]) \subseteq e.answer.saw
  BY DEF Fresh, Reads, CacheReads
<1> USE DEF Shape, RunTypeOK, CacheTypeOK, RouteTypeOK
<1>6. CASE Bypass(r)
  <2>1. /\ pc'[r] = "bypass" /\ run'[r] = "search" /\ UNCHANGED <<cache, future, status>>
        /\ scan'[r] \in {"none", "score"} => saw'[r] = landed
    BY <1>6, StartScanReads DEF Bypass, StartRun
  <2>2. Searched(r)' => Needed(r)' \subseteq saw'[r]
    BY <1>1, <2>1 DEF Searched, Needed
  <2>3. \A e \in cache' : e.key[3] <= generation /\ AckedBy(e.key[3]) \subseteq e.answer.saw
    BY <2>1 DEF Reads, CacheReads
  <2> QED BY <1>1, <1>2, <1>3, <2>1, <2>2, <2>3, OwnReads
<1>7. CASE ServeCached(r)
  <2>1. PICK e \in Cached(Fresh, CacheKey(r)) :
          /\ cache' = MoveToEnd(Fresh, e)
          /\ answer' = [answer EXCEPT ![r] = e.answer]
    BY <1>7 DEF ServeCached
  <2>2. e \in Fresh /\ e.key = CacheKey(r) /\ e \in Entries
    BY <2>1, FreshTyped DEF Cached
  <2>3. must'[r] \subseteq answer'[r].saw
    BY <1>1, <1>5, <2>1, <2>2
  <2>4. \A f \in cache' : f.key[3] <= generation /\ AckedBy(f.key[3]) \subseteq f.answer.saw
    <3>1. /\ [e EXCEPT !.used = uses + 1].key = e.key
          /\ [e EXCEPT !.used = uses + 1].answer = e.answer
      BY <2>2 DEF Entries
    <3> QED BY <1>5, <2>1, <2>2, <3>1 DEF MoveToEnd
  <2>5. pc'[r] = "done" /\ UNCHANGED future
    BY <1>7 DEF ServeCached, Respond
  <2> QED BY <1>2, <1>3, <2>3, <2>4, <2>5, OwnReads
<1>8. CASE Join(r)
  <2>1. PICK p \in pending : leader' = [leader EXCEPT ![r] = p.leader]
    BY <1>8 DEF Join
  <2>2. p.leader \in Requests \ {r} /\ future[p.leader] = "pending"
    BY <1>1, <2>1 DEF Leadership
  <2>3. /\ pc'[r] = "follow" /\ key'[r][3] = generation
        /\ leader'[r] = p.leader /\ UNCHANGED <<future, status>> /\ cache' = Fresh
    BY <1>1, <1>8, <2>1 DEF Join, Misses
  <2> QED BY <1>1, <1>2, <1>3, <1>5, <2>2, <2>3, OwnReads
<1>9. CASE Lead(r)
  <2>1. /\ pc'[r] = "lead" /\ run'[r] = "search" /\ key'[r][3] = generation
        /\ scan'[r] \in {"none", "score"} => saw'[r] = landed
        /\ future'[r] = "pending" /\ cache' = Fresh /\ UNCHANGED status
    BY <1>1, <1>9, StartScanReads DEF Lead, Misses, StartRun
  <2>2. Searched(r)' => Needed(r)' \subseteq saw'[r]
    BY <1>1, <1>4, <2>1 DEF Searched, Needed
  <2> QED BY <1>1, <1>2, <1>3, <1>5, <2>1, <2>2, OwnReads
<1> QED BY <1>6, <1>7, <1>8, <1>9

LEMMA DepartureReads ==
  ASSUME Shape, Leadership, Reads, NEW r \in Requests,
         \/ Finish(r) \/ LeaderRaises(r) \/ LeaderTimesOut(r)
         \/ BypassEnds(r) \/ FollowerResumes(r) \/ FollowerTimesOut(r)
  PROVE  Reads'
<1>1. pc'[r] = "done" /\ UNCHANGED must /\ pc[r] \in {"lead", "bypass", "follow"}
  BY DEF Finish, LeaderRaises, LeaderTimesOut, BypassEnds, FollowerResumes, FollowerTimesOut,
         Respond, Shape, RouteTypeOK
<1>2. future[r] = "pending" <=> pc[r] = "lead"
  BY DEF Leadership
<1>3. future[r] # "result"
  BY <1>1 DEF Leadership
<1>4. \A e \in cache : e.key[3] <= generation /\ AckedBy(e.key[3]) \subseteq e.answer.saw
  BY DEF Reads, CacheReads
<1> USE DEF Shape, RunTypeOK, CacheTypeOK, RouteTypeOK
<1>5. Others(r)
  <2>1. ~RunOf(r)
    BY <1>1 DEF RunOf, routeVars
  <2> QED BY <2>1, OthersStay DEF Serve
<1>6. CASE Finish(r)
  <2>1. /\ pc[r] = "lead" /\ run[r] = "stop" /\ UNCHANGED answer
        /\ cache' = EvictLru(Put(cache, key[r], answer[r])) /\ future[r] = "pending"
    BY <1>2, <1>6 DEF Finish
  <2>2. /\ AckedBy(key[r][3]) \subseteq answer[r].saw /\ key[r][3] <= generation
        /\ must[r] \subseteq AckedBy(key[r][3])
    BY <2>1 DEF Searched, Needed, Reads, RunReads
  <2>3. \A e \in cache' : e.key[3] <= generation /\ AckedBy(e.key[3]) \subseteq e.answer.saw
    <3>1. \A e \in Put(cache, key[r], answer[r]) :
            e \in cache \/ (e.key = key[r] /\ e.answer = answer[r])
      <4> DEFINE new == [key |-> key[r], answer |-> answer[r], stale |-> FALSE,
                         used |-> Place(cache, key[r])]
      <4>1. new.key = key[r] /\ new.answer = answer[r]
        OBVIOUS
      <4>2. Put(cache, key[r], answer[r]) \subseteq cache \cup {new}
        BY DEF Put
      <4> HIDE DEF new
      <4> QED BY <4>1, <4>2
    <3> QED BY <1>4, <2>1, <2>2, <3>1 DEF EvictLru
  <2> QED BY <1>1, <1>5, <2>1, <2>2, <2>3, OwnReads
<1>7. CASE LeaderRaises(r) \/ LeaderTimesOut(r)
  <2>1. status'[r] # 200 /\ future'[r] # "result" /\ UNCHANGED cache
    BY <1>7 DEF LeaderRaises, LeaderTimesOut, Withdraw, Respond
  <2> QED BY <1>1, <1>4, <1>5, <2>1, OwnReads
<1>8. CASE BypassEnds(r)
  <2>1. UNCHANGED <<cache, future>> /\ pc[r] = "bypass"
    BY <1>8 DEF BypassEnds, cacheVars
  <2>2. ASSUME status'[r] = 200
        PROVE  must'[r] \subseteq answer'[r].saw
    <3>1. run[r] = "stop" /\ UNCHANGED answer
      BY <1>8, <2>2 DEF BypassEnds, Respond
    <3> QED BY <1>1, <2>1, <3>1 DEF Searched, Needed, Reads, RunReads
  <2> QED BY <1>1, <1>3, <1>4, <1>5, <2>1, <2>2, OwnReads
<1>9. CASE FollowerResumes(r)
  <2>1. UNCHANGED <<cache, future>> /\ pc[r] = "follow"
    BY <1>9 DEF FollowerResumes, cacheVars
  <2>2. ASSUME status'[r] = 200
        PROVE  must'[r] \subseteq answer'[r].saw
    <3>1. future[leader[r]] = "result" /\ answer' = [answer EXCEPT ![r] = answer[leader[r]]]
      BY <1>9, <2>2 DEF FollowerResumes, Respond
    <3>2. /\ must[r] \subseteq AckedBy(key[r][3])
          /\ AckedBy(key[r][3]) \subseteq answer[leader[r]].saw
      BY <2>1, <3>1 DEF Reads, FollowReads
    <3> QED BY <1>1, <3>1, <3>2
  <2> QED BY <1>1, <1>3, <1>4, <1>5, <2>1, <2>2, OwnReads
<1>10. CASE FollowerTimesOut(r)
  <2>1. UNCHANGED <<cache, future>> /\ status'[r] # 200
    BY <1>10 DEF FollowerTimesOut, cacheVars, Respond
  <2> QED BY <1>1, <1>3, <1>4, <1>5, <2>1, OwnReads
<1> QED BY <1>6, <1>7, <1>8, <1>9, <1>10

LEMMA ReadsStep == Shape /\ Leadership /\ Reads /\ [Next]_vars => Reads'
<1> SUFFICES ASSUME Shape, Leadership, Reads, [Next]_vars
             PROVE  Reads'
  OBVIOUS
<1>1. ASSUME UNCHANGED <<storeVars, ingestVars, scanVars, runVars, routeVars, future>>,
             \A e \in cache' : \E f \in cache : e.key = f.key /\ e.answer = f.answer
      PROVE  Reads'
  <2>1. /\ UNCHANGED <<generation, ingest, acked, landed, scan, saw, run, answer>>
        /\ UNCHANGED <<pc, key, leader, status, must, future>>
    BY <1>1 DEF storeVars, ingestVars, scanVars, runVars, routeVars
  <2>2. StoreReads' /\ RunReads' /\ FollowReads' /\ DoneReads'
    BY <2>1 DEF Reads, StoreReads, RunReads, FollowReads, DoneReads,
                Needed, Searched, AckedBy
  <2>3. CacheReads'
    BY <1>1, <2>1 DEF Reads, CacheReads, AckedBy
  <2> QED BY <2>2, <2>3 DEF Reads
<1>2. ASSUME NEW w \in Ingests, IngestOf(w)
      PROVE  Reads'
  BY <1>2, IngestReads
<1>3. ASSUME NEW r \in Requests, Serve(r)
      PROVE  Reads'
  BY <1>3, RunOfReads, ArrivalReads, DepartureReads DEF Serve
<1>4. ASSUME NEW e \in cache, GrowStale(e)
      PROVE  Reads'
  <2>1. e \in Entries /\ cache' = (cache \ {e}) \cup {[e EXCEPT !.stale = TRUE]}
    BY <1>4 DEF GrowStale, Shape, CacheTypeOK
  <2>2. /\ [e EXCEPT !.stale = TRUE].key = e.key
        /\ [e EXCEPT !.stale = TRUE].answer = e.answer
    BY <2>1 DEF Entries
  <2> QED BY <1>1, <1>4, <2>1, <2>2 DEF GrowStale
<1>5. CASE UNCHANGED vars
  BY <1>1, <1>5 DEF vars, cacheVars
<1> QED BY <1>2, <1>3, <1>4, <1>5 DEF Next

\* An answer knows every ingest that was acknowledged before it was asked for,
\* for any requests, ingests, batches, backend and cache.
THEOREM AnswersAreFresh == Spec => []ReadsAckedIngests
<1>1. Reads => ReadsAckedIngests
  BY DEF Reads, DoneReads, ReadsAckedIngests
<1>2. Init /\ [][Next]_vars /\ []Shape /\ []Leadership => []Reads
  BY ReadsInit, ReadsStep, PTL
<1> QED BY <1>1, <1>2, ShapeInvariant, LeadershipInvariant, PTL DEF Spec

-----------------------------------------------------------------------------
(* The size of the cache.                                                  *)

\* An entry that was used least recently exists, so that an eviction evicts.
LEMMA SomethingToEvict ==
  ASSUME NEW c \in SUBSET Entries, c # {}
  PROVE  LeastRecentlyUsed(c) # {}
<1> DEFINE places == {e.used : e \in c}
<1>1. places \subseteq Nat /\ places # {}
  BY DEF Entries
<1>2. PICK n \in places : \A m \in places : ~ (<<m, n>> \in OpToRel(<, Nat))
  <2> HIDE DEF places
  <2> QED BY <1>1, NatLessThanWellFounded, WFMin
<1>3. \A m \in places : n <= m
  <2>1. \A i, j \in Nat : i < j => <<i, j>> \in OpToRel(<, Nat)
    BY Zenon DEF OpToRel
  <2>2. \A m \in places : m \in Nat /\ n \in Nat /\ ~ (m < n)
    BY <1>1, <1>2, <2>1, Zenon
  <2> QED BY <2>2
<1>4. PICK e \in c : e.used = n
  BY <1>2
<1>5. \A f \in c : e.used <= f.used
  BY <1>3, <1>4
<1> QED BY <1>5 DEF LeastRecentlyUsed

Bounded == IsFiniteSet(cache) /\ CacheBounded

\* A set that replaces one element by at most one other is no larger.
LEMMA Replaced ==
  ASSUME NEW S, IsFiniteSet(S), NEW T \in SUBSET S, NEW x, NEW y, x \in T
  PROVE  /\ IsFiniteSet((T \ {x}) \cup {y})
         /\ Cardinality((T \ {x}) \cup {y}) <= Cardinality(S)
<1>1. IsFiniteSet(T) /\ Cardinality(T) <= Cardinality(S)
  BY FS_Subset
<1>2. IsFiniteSet(T \ {x}) /\ Cardinality(T \ {x}) = Cardinality(T) - 1
  BY <1>1, FS_RemoveElement
<1>3. /\ IsFiniteSet((T \ {x}) \cup {y})
      /\ Cardinality((T \ {x}) \cup {y}) \in {Cardinality(T) - 1, Cardinality(T)}
  BY <1>1, <1>2, FS_AddElement, FS_CardinalityType
<1> QED BY <1>1, <1>3, FS_CardinalityType

LEMMA EvictedSize ==
  ASSUME Shape, Bounded, NEW k \in Keys, NEW a \in Answers
  PROVE  /\ IsFiniteSet(EvictLru(Put(cache, k, a)))
         /\ Cardinality(EvictLru(Put(cache, k, a))) <= CacheSize
<1> DEFINE rest == {e \in cache : e.key # k}
           new == [key |-> k, answer |-> a, stale |-> FALSE, used |-> Place(cache, k)]
           put == Put(cache, k, a)
<1>1. IsFiniteSet(rest) /\ Cardinality(rest) <= Cardinality(cache)
  BY FS_Subset DEF Bounded
<1>2. put = rest \cup {new}
  BY DEF Put
<1>3. IsFiniteSet(put) /\ Cardinality(put) <= CacheSize + 1
  <2>1. IsFiniteSet(put) /\ Cardinality(put) \in {Cardinality(rest), Cardinality(rest) + 1}
    <3> HIDE DEF put, rest, new
    <3>1. /\ IsFiniteSet(rest \cup {new})
          /\ Cardinality(rest \cup {new}) =
               IF new \in rest THEN Cardinality(rest) ELSE Cardinality(rest) + 1
      BY <1>1, FS_AddElement
    <3> QED BY <1>2, <3>1
  <2>2. Cardinality(put) \in Nat /\ Cardinality(rest) \in Nat /\ Cardinality(cache) \in Nat
    BY <1>1, <2>1, FS_CardinalityType DEF Bounded
  <2> HIDE DEF put, rest
  <2> QED BY <1>1, <2>1, <2>2, CacheAssumption DEF Bounded, CacheBounded
<1> HIDE DEF put
<1>4. CASE Cardinality(put) > CacheSize
  <2>1. EvictLru(put) = put \ LeastRecentlyUsed(put)
    BY <1>4 DEF EvictLru
  <2>2. put # {} /\ put \in SUBSET Entries
    <3>1. put # {}
      BY <1>2
    <3>2. put \in SUBSET Entries
      BY PutTyped DEF Shape, put
    <3> QED BY <3>1, <3>2
  <2>3. PICK e \in put : e \in LeastRecentlyUsed(put)
    BY <2>2, SomethingToEvict DEF LeastRecentlyUsed
  <2>4. IsFiniteSet(put \ {e}) /\ Cardinality(put \ {e}) = Cardinality(put) - 1
    BY <1>3, FS_RemoveElement
  <2>5. put \ LeastRecentlyUsed(put) \in SUBSET (put \ {e})
    BY <2>3
  <2>6. /\ IsFiniteSet(EvictLru(put))
        /\ Cardinality(EvictLru(put)) <= Cardinality(put) - 1
    BY <2>1, <2>4, <2>5, FS_Subset
  <2>7. Cardinality(put) \in Nat /\ Cardinality(EvictLru(put)) \in Nat
    BY <1>3, <2>6, FS_CardinalityType
  <2> QED BY <1>3, <2>6, <2>7, CacheAssumption DEF put
<1>5. CASE ~ (Cardinality(put) > CacheSize)
  <2>1. EvictLru(put) = put
    BY <1>5 DEF EvictLru
  <2>2. Cardinality(put) \in Nat
    BY <1>3, FS_CardinalityType
  <2> QED BY <1>3, <1>5, <2>1, <2>2, CacheAssumption DEF put
<1> QED BY <1>4, <1>5

LEMMA BoundedInit == Init => Bounded
BY FS_EmptySet, CacheAssumption DEF Init, Bounded, CacheBounded

\* Only an answered leader adds an entry, and then one too many is evicted.
LEMMA BoundedStep == Shape /\ Bounded /\ [Next]_vars => Bounded'
<1> SUFFICES ASSUME Shape, Bounded, [Next]_vars
             PROVE  Bounded'
  OBVIOUS
<1>1. IsFiniteSet(cache) /\ Cardinality(cache) \in Nat /\ Cardinality(cache) <= CacheSize
  BY FS_CardinalityType DEF Bounded, CacheBounded
<1>2. cache' = cache => Bounded'
  BY DEF Bounded, CacheBounded
<1>3. cache' = Fresh => Bounded'
  <2>1. Fresh \in SUBSET cache
    BY DEF Fresh
  <2>2. IsFiniteSet(Fresh) /\ Cardinality(Fresh) <= Cardinality(cache)
    BY <1>1, <2>1, FS_Subset
  <2>3. Cardinality(Fresh) \in Nat
    BY <2>2, FS_CardinalityType
  <2> QED BY <1>1, <2>1, <2>2, <2>3, CacheAssumption DEF Bounded, CacheBounded
<1>4. ASSUME NEW T \in SUBSET cache, NEW x \in T, NEW y, y.key = x.key,
             cache' = (T \ {x}) \cup {y}
      PROVE  Bounded'
  <2>1. IsFiniteSet(cache') /\ Cardinality(cache') <= Cardinality(cache)
    BY <1>1, <1>4, Replaced
  <2>2. Cardinality(cache') \in Nat
    BY <2>1, FS_CardinalityType
  <2>3. \A e, f \in cache' : e.key = f.key => e = f
    BY <1>4 DEF Bounded, CacheBounded
  <2> QED BY <1>1, <2>1, <2>2, <2>3, CacheAssumption DEF Bounded, CacheBounded
<1>5. ASSUME NEW r \in Requests, Serve(r)
      PROVE  Bounded'
  <2>1. CASE ServeCached(r)
    <3>1. PICK e \in Cached(Fresh, CacheKey(r)) : cache' = MoveToEnd(Fresh, e)
      BY <2>1 DEF ServeCached
    <3>2. e \in Fresh /\ Fresh \in SUBSET cache /\ e \in Entries
      BY <3>1 DEF Cached, Fresh, Shape, CacheTypeOK
    <3>3. [e EXCEPT !.used = uses + 1].key = e.key
      BY <3>2 DEF Entries
    <3> QED BY <1>4, <3>1, <3>2, <3>3 DEF MoveToEnd
  <2>2. CASE Finish(r)
    <3>1. /\ cache' = EvictLru(Put(cache, key[r], answer[r]))
          /\ key[r] \in Keys /\ answer[r] \in Answers
      BY <2>2 DEF Finish, Shape, Named, Answered
    <3>2. IsFiniteSet(cache') /\ Cardinality(cache') <= CacheSize
      BY <3>1, EvictedSize
    <3>3. \A e, f \in cache' : e.key = f.key => e = f
      <4>1. \A e, f \in Put(cache, key[r], answer[r]) : e.key = f.key => e = f
        <5> DEFINE new == [key |-> key[r], answer |-> answer[r], stale |-> FALSE,
                           used |-> Place(cache, key[r])]
        <5>1. new.key = key[r]
          OBVIOUS
        <5>2. \A e \in Put(cache, key[r], answer[r]) :
                e = new \/ (e \in cache /\ e.key # key[r])
          BY DEF Put
        <5> HIDE DEF new
        <5> QED BY <5>1, <5>2 DEF Bounded, CacheBounded
      <4> QED BY <3>1, <4>1 DEF EvictLru
    <3> QED BY <3>2, <3>3 DEF Bounded, CacheBounded
  <2>3. CASE Join(r) \/ Lead(r)
    BY <1>3, <2>3 DEF Join, Lead
  <2>4. CASE Bypass(r) \/ RunOf(r) \/ LeaderRaises(r) \/ LeaderTimesOut(r)
             \/ BypassEnds(r) \/ FollowerResumes(r) \/ FollowerTimesOut(r)
    BY <1>2, <2>4 DEF Bypass, RunOf, LeaderRaises, LeaderTimesOut, BypassEnds,
                      FollowerResumes, FollowerTimesOut, cacheVars
  <2> QED BY <1>5, <2>1, <2>2, <2>3, <2>4 DEF Serve
<1>6. ASSUME NEW w \in Ingests, IngestOf(w)
      PROVE  Bounded'
  BY <1>2, <1>6 DEF IngestOf, cacheVars
<1>7. ASSUME NEW e \in cache, GrowStale(e)
      PROVE  Bounded'
  <2>1. e \in Entries
    BY DEF Shape, CacheTypeOK
  <2>2. [e EXCEPT !.stale = TRUE].key = e.key
    BY <2>1 DEF Entries
  <2> QED BY <1>4, <1>7, <2>2 DEF GrowStale
<1>8. CASE UNCHANGED vars
  BY <1>2, <1>8 DEF vars, cacheVars
<1> QED BY <1>5, <1>6, <1>7, <1>8 DEF Next

\* The cache never holds more answers than its size, nor two for one key.
THEOREM CacheIsBounded == Spec => []CacheBounded
<1>1. Bounded => CacheBounded
  BY DEF Bounded
<1> QED BY <1>1, BoundedInit, BoundedStep, ShapeInvariant, PTL DEF Spec

-----------------------------------------------------------------------------
(* The vectors kept for the next search.                                   *)

\* A search that derives vectors publishes them only at the generation of its
\* snapshot, and at that generation the store still holds that snapshot.
Derived ==
  /\ VectorsMatchDocuments
  /\ backend # "memory" => vectors = NoVectors
  /\ \A r \in Requests : snapshot[r].derived =>
       /\ backend = "memory" /\ snapshot[r].generation <= generation
       /\ snapshot[r].generation = generation => snapshot[r].documents = documents

LEMMA DerivedInit == Init => Derived
BY DEF Init, StoreInit, Derived, VectorsMatchDocuments, NoSnapshot

\* What drops a snapshot, or starts a search, is safe.
LEMMA NewSnapshot ==
  ASSUME Shape, Derived, NEW r \in Requests, UNCHANGED storeVars,
         \/ UNCHANGED snapshot
         \/ \E s : /\ snapshot' = [snapshot EXCEPT ![r] = s]
                   /\ s.derived => /\ backend = "memory" /\ s.generation = generation
                                   /\ s.documents = documents
  PROVE  Derived'
BY DEF Derived, VectorsMatchDocuments, storeVars, Shape, StoreTypeOK

LEMMA NoSnapshotIsSafe ==
  /\ ~ NoSnapshot.derived
  /\ \A n : ~ [NoSnapshot EXCEPT !.count = n].derived
BY DEF NoSnapshot

LEMMA StartScanDerived ==
  ASSUME Shape, Derived, NEW r \in Requests, StartScan(r), UNCHANGED storeVars
  PROVE  Derived'
<1>1. CASE backend = "memory"
  <2> DEFINE s == [documents |-> documents, ordinals |-> ordinals, count |-> 0,
                   derived |-> vectors = NoVectors, generation |-> generation]
  <2>1. snapshot' = [snapshot EXCEPT ![r] = s]
    BY <1>1 DEF StartScan
  <2>2. s.generation = generation /\ s.documents = documents
    OBVIOUS
  <2> HIDE DEF s
  <2> QED BY <1>1, <2>1, <2>2, NewSnapshot
<1>2. CASE backend # "memory"
  BY <1>2, NewSnapshot, NoSnapshotIsSafe DEF StartScan
<1> QED BY <1>1, <1>2

LEMMA RunStepDerived ==
  ASSUME Shape, Derived, NEW r \in Requests, RunStep(r)
  PROVE  Derived'
<1>1. CASE Search(r)
  <2>1. CASE \E h : ScanReturns(r, h) /\ UNCHANGED storeVars
    BY <2>1, NewSnapshot, NoSnapshotIsSafe DEF ScanReturns
  <2>2. CASE Score(r, TopKOf(r))
    <3>1. snapshot' = [snapshot EXCEPT ![r] = NoSnapshot]
      BY <2>2 DEF Score, ScanReturns
    <3>2. UNCHANGED <<backend, documents, generation>> /\ vectors' = PublishVectors(r)
      BY <2>2 DEF Score
    <3>3. vectors' \in {NoVectors, documents} /\ (backend # "memory" => vectors' = NoVectors)
      BY <3>2 DEF PublishVectors, Derived, VectorsMatchDocuments
    <3> QED BY <3>1, <3>2, <3>3, NoSnapshotIsSafe
            DEF Derived, VectorsMatchDocuments, Shape, StoreTypeOK
  <2>3. CASE Count(r)
    BY <2>3, NewSnapshot, NoSnapshotIsSafe DEF Count
  <2> QED BY <1>1, <2>1, <2>2, <2>3 DEF Search, SearchStep, Query, Embedded
<1>2. CASE UNCHANGED <<storeVars, snapshot>>
  BY <1>2, NewSnapshot
<1>3. CASE SearchAgain(r) /\ UNCHANGED storeVars
  BY <1>3, StartScanDerived DEF SearchAgain
<1> QED BY <1>1, <1>2, <1>3 DEF RunStep, Evaluate, RetryCall, Verdict, StartSynthesis,
                                Synthesize, RunRaises, scanVars

LEMMA DerivedStep == Shape /\ Derived /\ [Next]_vars => Derived'
<1> SUFFICES ASSUME Shape, Derived, [Next]_vars
             PROVE  Derived'
  OBVIOUS
<1>1. ASSUME NEW w \in Ingests, IngestOf(w)
      PROVE  Derived'
  <2> USE DEF Derived, VectorsMatchDocuments, Shape, StoreTypeOK, storeVars, scanVars
  <2> \A r \in Requests : snapshot[r].generation \in Nat
    BY DEF Snapshot
  <2>1. CASE AddInMemory(w)
    BY <2>1 DEF AddInMemory, Acknowledge
  <2>2. CASE AddReturns(w)
    BY <2>2 DEF AddReturns, Acknowledge
  <2>3. CASE CollectionAdds(w) \/ EmbeddingsReturn(w)
    BY <2>3 DEF CollectionAdds, EmbeddingsReturn, Acknowledge
  <2>4. CASE AssignOrdinals(w) \/ AskEmbeddings(w) \/ IngestFails(w)
    BY <2>4 DEF AssignOrdinals, AskEmbeddings, IngestFails
  <2> QED BY <1>1, <2>1, <2>2, <2>3, <2>4 DEF IngestOf, IngestStep
<1>2. ASSUME NEW r \in Requests, Serve(r)
      PROVE  Derived'
  <2>1. CASE Bypass(r) \/ Lead(r)
    BY <2>1, StartScanDerived DEF Bypass, Lead, StartRun
  <2>2. CASE RunOf(r)
    BY <2>2, RunStepDerived DEF RunOf
  <2>3. CASE Finish(r) \/ LeaderRaises(r) \/ LeaderTimesOut(r) \/ BypassEnds(r)
    BY <2>3, NewSnapshot, NoSnapshotIsSafe
       DEF Finish, LeaderRaises, LeaderTimesOut, BypassEnds, ForgetRun
  <2>4. CASE ServeCached(r) \/ Join(r) \/ FollowerResumes(r) \/ FollowerTimesOut(r)
    BY <2>4, NewSnapshot DEF ServeCached, Join, FollowerResumes, FollowerTimesOut, scanVars
  <2> QED BY <1>2, <2>1, <2>2, <2>3, <2>4 DEF Serve
<1>3. ASSUME NEW e \in cache, GrowStale(e)
      PROVE  Derived'
  BY <1>3 DEF GrowStale, Derived, VectorsMatchDocuments, storeVars, scanVars
<1>4. CASE UNCHANGED vars
  BY <1>4 DEF vars, Derived, VectorsMatchDocuments, storeVars, scanVars
<1> QED BY <1>1, <1>2, <1>3, <1>4 DEF Next

\* No search is scored against the vectors of documents that were replaced.
THEOREM VectorsAreCurrent == Spec => []VectorsMatchDocuments
<1>1. Derived => VectorsMatchDocuments
  BY DEF Derived
<1> QED BY <1>1, DerivedInit, DerivedStep, ShapeInvariant, PTL DEF Spec

-----------------------------------------------------------------------------
(* What an answer rests on.                                                *)

\* A run has searched at most as often as it may; the ids of the hits it is
\* judging are recorded; it is told to give up only after the last search.
Grounded(r) ==
  /\ run[r] \in {"search", "evaluate", "synthesize", "stop"} =>
       searchCount[r] \in 1..MaxRetries[r]
  /\ run[r] \in {"evaluate", "synthesize"} => Ids(hits[r]) \subseteq retrieved[r]
  /\ run[r] = "synthesize" /\ ~found[r] => searchCount[r] = MaxRetries[r]
  /\ run[r] = "stop" =>
       /\ found[r] => answer[r].citations # {}
       /\ ~found[r] /\ answer[r].citations # {} => searchCount[r] = MaxRetries[r]

LEMMA GroundedInit == Init => \A r \in Requests : Grounded(r)
BY DEF Init, RunInit, Grounded

LEMMA RunStepGrounded ==
  ASSUME Shape, NEW r \in Requests, Grounded(r), RunStep(r)
  PROVE  /\ Grounded(r)'
         /\ \A s \in Requests \ {r} : Grounded(s) => Grounded(s)'
<1> USE DEF Shape, RunTypeOK, StoreTypeOK
<1> DEFINE Same(s) ==
      /\ run'[s] = run[s] /\ searchCount'[s] = searchCount[s] /\ hits'[s] = hits[s]
      /\ retrieved'[s] = retrieved[s] /\ found'[s] = found[s] /\ answer'[s] = answer[s]
<1>1. \A s \in Requests \ {r} : Same(s)
  BY DEF RunStep, Search, SearchStep, Score, Count, Query, Embedded, ScanReturns, Evaluate,
         RetryCall, Verdict, Synthesize, RunRaises, Stop, StartSynthesis, SearchAgain,
         StartScan, EndCall, runVars, scanVars
<1>2. ASSUME NEW s \in Requests, Same(s)
      PROVE  Grounded(s) => Grounded(s)'
  BY <1>2 DEF Grounded, Ids
<1>3. MaxRetries[r] \in 1..10
  BY RagAssumption
<1>4. Grounded(r)'
  <2>1. CASE Search(r)
    BY <2>1 DEF Search, Grounded, runVars
  <2>2. CASE Evaluate(r)
    <3>1. /\ run[r] = "search" /\ UNCHANGED <<hits, searchCount>>
          /\ retrieved'[r] = retrieved[r] \cup Ids(hits[r])
      BY <2>2 DEF Evaluate, scanVars
    <3>2. CASE Stop(r, {}, FALSE)
      <4>1. run'[r] = "stop" /\ ~found'[r] /\ answer'[r].citations = {}
        BY <3>2 DEF Stop
      <4> QED BY <3>1, <4>1 DEF Grounded
    <3>3. CASE run' = [run EXCEPT ![r] = "evaluate"]
      BY <3>1, <3>3 DEF Grounded, Ids
    <3> QED BY <2>2, <3>2, <3>3 DEF Evaluate
  <2>3. CASE RetryCall(r)
    BY <1>2, <2>3 DEF RetryCall, scanVars
  <2>4. CASE \E sufficient \in BOOLEAN : Verdict(r, sufficient)
    <3>1. run[r] = "evaluate" /\ UNCHANGED <<retrieved, answer>>
      BY <2>4 DEF Verdict
    <3>2. CASE StartSynthesis(r, TRUE)
      BY <3>1, <3>2 DEF StartSynthesis, Grounded, scanVars, Ids
    <3>3. CASE SearchesLeft(r) /\ SearchAgain(r)
      <4>1. run'[r] = "search" /\ searchCount'[r] = searchCount[r] + 1
        BY <3>3 DEF SearchAgain
      <4>2. searchCount[r] \in 1..MaxRetries[r] /\ searchCount[r] < MaxRetries[r]
        BY <3>1, <3>3 DEF SearchesLeft, Grounded
      <4> QED BY <1>3, <4>1, <4>2 DEF Grounded
    <3>4. CASE ~SearchesLeft(r) /\ StartSynthesis(r, FALSE)
      <4>1. searchCount[r] = MaxRetries[r]
        BY <1>3, <3>1, <3>4 DEF SearchesLeft, Grounded
      <4> QED BY <1>3, <3>1, <3>4, <4>1 DEF StartSynthesis, Grounded, scanVars, Ids
    <3> QED BY <2>4, <3>2, <3>3, <3>4 DEF Verdict
  <2>5. CASE Synthesize(r)
    <3>1. run[r] = "synthesize" /\ UNCHANGED searchCount
      BY <2>5 DEF Synthesize
    <3>2. PICK cited \in Truncated(hits[r]) :
            \/ Stop(r, cited, found[r])
            \/ run' = [run EXCEPT ![r] = "raised"]
      BY <2>5 DEF Synthesize
    <3>3. CASE Stop(r, cited, found[r])
      <4>1. run'[r] = "stop" /\ found'[r] = found[r] /\ answer'[r].citations = cited
        BY <3>3 DEF Stop
      <4> QED BY <3>1, <3>2, <4>1 DEF Grounded, Truncated
    <3>4. CASE run' = [run EXCEPT ![r] = "raised"]
      BY <3>4 DEF Grounded
    <3> QED BY <3>2, <3>3, <3>4
  <2>6. CASE RunRaises(r)
    BY <2>6 DEF RunRaises, Grounded
  <2> QED BY <2>1, <2>2, <2>3, <2>4, <2>5, <2>6 DEF RunStep
<1> QED BY <1>1, <1>2, <1>4

LEMMA GroundedStep ==
  Shape /\ (\A r \in Requests : Grounded(r)) /\ [Next]_vars => (\A r \in Requests : Grounded(r))'
<1> SUFFICES ASSUME Shape, \A r \in Requests : Grounded(r), [Next]_vars,
                    NEW r \in Requests
             PROVE  Grounded(r)'
  OBVIOUS
<1> USE DEF Shape, RunTypeOK, StoreTypeOK
<1>1. UNCHANGED <<run, searchCount, hits, retrieved, found, answer>> => Grounded(r)'
  BY DEF Grounded, Ids
<1>2. ASSUME NEW w \in Ingests, IngestOf(w)
      PROVE  Grounded(r)'
  <2>1. UNCHANGED hits
    BY <1>2 DEF IngestOf, IngestStep, AddInMemory, AssignOrdinals, CollectionAdds, AddReturns,
                AskEmbeddings, EmbeddingsReturn, IngestFails, scanVars
  <2> QED BY <1>1, <1>2, <2>1 DEF IngestOf, runVars
<1>3. ASSUME NEW s \in Requests, Serve(s)
      PROVE  Grounded(r)'
  <2>1. CASE RunOf(s)
    BY <2>1, RunStepGrounded DEF RunOf
  <2>2. CASE Bypass(s) \/ Lead(s)
    <3>1. /\ run' = [run EXCEPT ![s] = "search"] /\ searchCount' = [searchCount EXCEPT ![s] = 1]
          /\ UNCHANGED <<retrieved, found, answer>> /\ StartScan(s)
      BY <2>2 DEF Bypass, Lead, StartRun
    <3>2. CASE s = r
      <4>1. run'[r] = "search" /\ searchCount'[r] = 1
        BY <3>1, <3>2
      <4>2. MaxRetries[r] \in 1..10
        BY RagAssumption
      <4> QED BY <4>1, <4>2 DEF Grounded
    <3>3. CASE s # r
      BY <3>1, <3>3 DEF StartScan, Grounded, Ids
    <3> QED BY <3>2, <3>3
  <2>3. CASE ServeCached(s) \/ FollowerResumes(s)
    <3>1. UNCHANGED <<run, searchCount, hits, retrieved, found>> /\ run[s] = "none"
      BY <2>3 DEF ServeCached, FollowerResumes, Arrive, Idle, scanVars
    <3>2. r # s => answer'[r] = answer[r]
      BY <2>3 DEF ServeCached, FollowerResumes
    <3> QED BY <3>1, <3>2 DEF Grounded, Ids
  <2>4. CASE Join(s) \/ FollowerTimesOut(s)
    BY <1>1, <2>4 DEF Join, FollowerTimesOut, runVars, scanVars
  <2>5. CASE Finish(s) \/ LeaderRaises(s) \/ LeaderTimesOut(s) \/ BypassEnds(s)
    <3>1. ForgetRun(s) /\ (r # s => answer'[r] = answer[r])
      BY <2>5 DEF Finish, LeaderRaises, LeaderTimesOut, BypassEnds
    <3> QED BY <3>1 DEF ForgetRun, Grounded, Ids
  <2> QED BY <1>3, <2>1, <2>2, <2>3, <2>4, <2>5 DEF Serve
<1>4. ASSUME NEW e \in cache, GrowStale(e)
      PROVE  Grounded(r)'
  BY <1>1, <1>4 DEF GrowStale, runVars, scanVars
<1>5. CASE UNCHANGED vars
  BY <1>1, <1>5 DEF vars, runVars, scanVars
<1> QED BY <1>2, <1>3, <1>4, <1>5 DEF Next

\* No answer claims a context without citing a hit of its own run, and no run
\* gives up early or searches too often.
THEOREM AnswersCiteTheirHits == Spec => []AnswersAreGrounded
<1>1. Shape /\ (\A r \in Requests : Grounded(r)) => AnswersAreGrounded
  BY DEF Grounded, AnswersAreGrounded, CitationsValid, Truncated, Ids
<1> QED BY <1>1, GroundedInit, GroundedStep, ShapeInvariant, PTL DEF Spec
-----------------------------------------------------------------------------
(* Chunk ids.  Whatever the backend, the chunks it has numbered could be   *)
(* listed in a catalogue, once each, with numbers below the next one; all  *)
(* that carries an ordinal agrees with it: the store, the snapshots and    *)
(* the hits of the searches, the answers and the cache.  An eviction takes *)
(* nothing from the catalogue.                                             *)

Numbered(w) == IF backend = "chroma" THEN ingest[w] # "idle" ELSE w \in landed
Given == {c \in Chunks : \E w \in Ingests : Numbered(w) /\ \E i \in DOMAIN Batch[w] : Batch[w][i] = c}
NextNumber == IF backend = "ollama" THEN Len(documents) ELSE nextOrdinal

\* A catalogue; in Chroma's store it is _id_to_ordinal.
Numbering(name) ==
  /\ name \in [Chunks -> Nat \cup {NoOrdinal}]
  /\ \A c \in Given : name[c] \in 0..NextNumber - 1
  /\ \A c, d \in Given : name[c] = name[d] => c = d
  /\ backend = "chroma" => name = idToOrdinal
Labels(name) == {[chunk |-> c, ordinal |-> name[c]] : c \in Given}

\* The chunks that the store, and the requests, hold with an ordinal.
StoredIn(L) ==
  \A i \in 1..Len(documents) : [chunk |-> documents[i], ordinal |-> Ordinals[i]] \in L
FoundIn(L) ==
  \A r \in Requests :
    /\ hits[r] \subseteq L
    /\ \A i \in 1..Len(snapshot[r].documents) :
         [chunk |-> snapshot[r].documents[i], ordinal |-> snapshot[r].ordinals[i]] \in L
ToldIn(L) ==
  /\ \A r \in Requests : answer[r] # NoAnswer => answer[r].citations \subseteq L
  /\ \A e \in cache : e.answer.citations \subseteq L
HeldIn(L) == StoredIn(L) /\ FoundIn(L) /\ ToldIn(L)

Landings == \A w \in landed : ingest[w] \in {"added", "done"}
Catalogued ==
  /\ Landings
  /\ \E name : Numbering(name) /\ HeldIn(Labels(name))

LEMMA CataloguedInit == Init => Catalogued
<1> SUFFICES ASSUME Init  PROVE Catalogued
  OBVIOUS
<1> DEFINE none == [c \in Chunks |-> NoOrdinal]
<1>1. Landings
  BY DEF Init, StoreInit, Landings
<1>2. Given = {}
  BY DEF Init, StoreInit, Given, Numbered
<1>3. Numbering(none)
  BY <1>2 DEF Init, StoreInit, Numbering
<1>4. StoredIn(Labels(none))
  BY DEF Init, StoreInit, StoredIn
<1>5. FoundIn(Labels(none))
  BY DEF Init, StoreInit, FoundIn, NoSnapshot
<1>6. ToldIn(Labels(none))
  BY DEF Init, RunInit, ToldIn
<1> HIDE DEF none
<1> QED BY <1>1, <1>3, <1>4, <1>5, <1>6 DEF Catalogued, HeldIn

\* The best k of a corpus are of the corpus.
LEMMA HitsIn ==
  ASSUME NEW k, NEW docs, NEW ords, NEW L,
         \A i \in 1..Len(docs) : [chunk |-> docs[i], ordinal |-> ords[i]] \in L,
         NEW h \in TopK(k, docs, ords)
  PROVE  h \subseteq L
<1>1. PICK best \in SUBSET (1..Len(docs)) :
        h = {[chunk |-> docs[i], ordinal |-> ords[i]] : i \in best}
  BY DEF TopK, kSubset
<1> QED BY <1>1

\* A search reads the store, or what it read of it before its await.
LEMMA StartScanIn ==
  ASSUME Shape, NEW L, StoredIn(L), FoundIn(L), NEW r \in Requests, StartScan(r)
  PROVE  FoundIn(L)'
<1> USE DEF Shape, StoreTypeOK
<1>1. \A s \in Requests \ {r} : hits'[s] = hits[s] /\ snapshot'[s] = snapshot[s]
  BY DEF StartScan
<1>2. hits'[r] = {}
  BY DEF StartScan
<1>3. \A i \in 1..Len(snapshot'[r].documents) :
        [chunk |-> snapshot'[r].documents[i], ordinal |-> snapshot'[r].ordinals[i]] \in L
  <2>1. CASE backend = "memory"
    <3>1. snapshot'[r].documents = documents /\ snapshot'[r].ordinals = ordinals
      BY <2>1 DEF StartScan
    <3>2. Ordinals = ordinals
      BY <2>1 DEF Ordinals
    <3> QED BY <3>1, <3>2 DEF StoredIn
  <2>2. CASE backend # "memory"
    BY <2>2 DEF StartScan, NoSnapshot
  <2> QED BY <2>1, <2>2
<1> QED BY <1>1, <1>2, <1>3 DEF FoundIn

LEMMA RunStepFinds ==
  ASSUME Shape, NEW L, StoredIn(L), FoundIn(L), NEW r \in Requests, RunStep(r)
  PROVE  FoundIn(L)'
<1> USE DEF Shape, StoreTypeOK
<1>1. ASSUME NEW h, ScanReturns(r, h), h \subseteq L
      PROVE  FoundIn(L)'
  BY <1>1 DEF ScanReturns, FoundIn, NoSnapshot
<1>2. CASE Search(r)
  <2>1. CASE Score(r, TopKOf(r))
    <3>1. PICK h \in TopK(TopKOf(r), snapshot[r].documents, snapshot[r].ordinals) : ScanReturns(r, h)
      BY <2>1 DEF Score
    <3>2. h \subseteq L
      BY HitsIn DEF FoundIn
    <3> QED BY <1>1, <3>1, <3>2
  <2>2. CASE Count(r)
    BY <2>2 DEF Count, FoundIn, NoSnapshot
  <2>3. CASE Query(r, TopKOf(r)) \/ Embedded(r, TopKOf(r))
    <3>1. PICK k, h : h \in TopK(k, documents, Ordinals) /\ ScanReturns(r, h)
      BY <2>3 DEF Query, Embedded
    <3>2. h \subseteq L
      BY <3>1, HitsIn DEF StoredIn
    <3> QED BY <1>1, <3>1, <3>2
  <2> QED BY <1>2, <2>1, <2>2, <2>3 DEF Search, SearchStep
<1>3. CASE UNCHANGED <<hits, snapshot>>
  BY <1>3 DEF FoundIn
<1>4. CASE SearchAgain(r)
  BY <1>4, StartScanIn DEF SearchAgain
<1> QED BY <1>2, <1>3, <1>4 DEF RunStep, Evaluate, RetryCall, Verdict, StartSynthesis,
                                Synthesize, RunRaises, scanVars

\* A run cites hits of its own.
LEMMA RunStepTells ==
  ASSUME Shape, NEW L, FoundIn(L), ToldIn(L), NEW r \in Requests, RunStep(r), UNCHANGED cache
  PROVE  ToldIn(L)'
<1> USE DEF Shape, RunTypeOK
<1>1. ASSUME NEW cited, NEW ok, Stop(r, cited, ok), cited \subseteq hits[r]
      PROVE  ToldIn(L)'
  <2>1. answer'[r].citations = cited /\ \A s \in Requests \ {r} : answer'[s] = answer[s]
    BY <1>1 DEF Stop
  <2>2. cited \subseteq L
    BY <1>1 DEF FoundIn
  <2> QED BY <2>1, <2>2 DEF ToldIn
<1>2. CASE UNCHANGED answer
  BY <1>2 DEF ToldIn
<1>3. CASE Evaluate(r)
  BY <1>1, <1>2, <1>3 DEF Evaluate
<1>4. CASE Synthesize(r)
  <2>1. PICK cited \in Truncated(hits[r]) : Stop(r, cited, found[r]) \/ UNCHANGED answer
    BY <1>4 DEF Synthesize
  <2>2. cited \subseteq hits[r]
    BY DEF Truncated
  <2> QED BY <1>1, <1>2, <2>1, <2>2
<1> QED BY <1>2, <1>3, <1>4 DEF RunStep, Search, RetryCall, Verdict, RunRaises, runVars

\* What a step of a request, or time, leaves of the store.
Corpus == <<backend, documents, ordinals, idToOrdinal, nextOrdinal, ingest, landed>>

LEMMA CorpusKept ==
  ASSUME [Next]_vars, ~ \E w \in Ingests : IngestOf(w)
  PROVE  UNCHANGED Corpus
<1> USE DEF Corpus, storeVars, ingestVars
<1>1. ASSUME NEW r \in Requests, RunOf(r)
      PROVE  UNCHANGED Corpus
  BY <1>1 DEF RunOf, RunStep, Search, SearchStep, Score, Count, Query, Embedded, Evaluate,
              RetryCall, Verdict, Synthesize, RunRaises
<1>2. ASSUME NEW r \in Requests, Serve(r), ~RunOf(r)
      PROVE  UNCHANGED Corpus
  BY <1>2 DEF Serve, Bypass, ServeCached, Join, Lead, Finish, LeaderRaises, LeaderTimesOut,
              BypassEnds, FollowerResumes, FollowerTimesOut
<1>3. ASSUME NEW e \in cache, GrowStale(e)
      PROVE  UNCHANGED Corpus
  BY <1>3 DEF GrowStale
<1> QED BY <1>1, <1>2, <1>3 DEF Next, vars

\* A request repeats what the store, a search or an earlier answer told it.
LEMMA ServeHolds ==
  ASSUME Shape, NEW L, HeldIn(L), NEW r \in Requests, Serve(r)
  PROVE  FoundIn(L)' /\ ToldIn(L)'
<1> USE DEF Shape, RunTypeOK, CacheTypeOK, HeldIn
<1>1. CASE RunOf(r)
  BY <1>1, RunStepFinds, RunStepTells DEF RunOf, cacheVars
<1>2. ASSUME \E s \in Requests : \/ ForgetRun(s)
                                 \/ UNCHANGED scanVars
      PROVE  FoundIn(L)'
  <2>1. \A q \in Requests : hits'[q] \in {hits[q], {}} /\ snapshot'[q] \in {snapshot[q], NoSnapshot}
    BY <1>2 DEF ForgetRun, scanVars, StoreTypeOK
  <2>2. 1..Len(NoSnapshot.documents) = {}
    BY EmptySeq DEF NoSnapshot
  <2>3. ASSUME NEW q \in Requests
        PROVE  /\ hits'[q] \subseteq L
               /\ \A i \in 1..Len(snapshot'[q].documents) :
                    [chunk |-> snapshot'[q].documents[i], ordinal |-> snapshot'[q].ordinals[i]] \in L
    BY <2>1, <2>2 DEF FoundIn
  <2> QED BY <2>3 DEF FoundIn
<1>3. ASSUME cache' \subseteq cache,
             UNCHANGED answer \/ answer' = [answer EXCEPT ![r] = NoAnswer]
      PROVE  ToldIn(L)'
  BY <1>3 DEF ToldIn
<1>4. CASE Bypass(r) \/ Lead(r)
  <2>1. StartScan(r) /\ UNCHANGED answer /\ cache' \subseteq cache
    BY <1>4 DEF Bypass, Lead, StartRun, Fresh
  <2> QED BY <1>3, <2>1, StartScanIn
<1>5. CASE Join(r) \/ FollowerTimesOut(r)
  <2>1. cache' \subseteq cache /\ UNCHANGED <<scanVars, answer>>
    BY <1>5 DEF Join, FollowerTimesOut, cacheVars, runVars, Fresh
  <2> QED BY <1>2, <1>3, <2>1
<1>6. CASE LeaderRaises(r) \/ LeaderTimesOut(r) \/ BypassEnds(r)
  <2>1. /\ ForgetRun(r) /\ UNCHANGED cache
        /\ UNCHANGED answer \/ answer' = [answer EXCEPT ![r] = NoAnswer]
    BY <1>6 DEF LeaderRaises, LeaderTimesOut, BypassEnds, cacheVars
  <2> QED BY <1>2, <1>3, <2>1
<1>7. CASE ServeCached(r)
  <2>1. PICK e \in cache : /\ cache' = MoveToEnd(Fresh, e)
                           /\ answer' = [answer EXCEPT ![r] = e.answer]
    BY <1>7 DEF ServeCached, Cached, Fresh
  <2>2. e \in Entries
    OBVIOUS
  <2>3. [e EXCEPT !.used = uses + 1].answer = e.answer
    BY <2>2 DEF Entries
  <2>4. \A f \in cache' : f.answer.citations \subseteq L
    BY <2>1, <2>3 DEF MoveToEnd, Fresh, ToldIn
  <2>5. ToldIn(L)'
    BY <2>1, <2>4 DEF ToldIn
  <2> QED BY <1>2, <1>7, <2>5 DEF ServeCached, scanVars
<1>8. CASE Finish(r)
  <2>1. answer[r] # NoAnswer
    BY <1>8, CacheAssumption DEF Finish, Answered
  <2>2. \A f \in Put(cache, key[r], answer[r]) : f.answer.citations \subseteq L
    BY <2>1 DEF Put, ToldIn
  <2>3. cache' \subseteq Put(cache, key[r], answer[r])
    BY <1>8 DEF Finish, EvictLru
  <2>4. ToldIn(L)'
    BY <1>8, <2>2, <2>3 DEF Finish, ToldIn
  <2> QED BY <1>2, <1>8, <2>4 DEF Finish
<1>9. CASE FollowerResumes(r)
  <2>1. UNCHANGED cache /\ UNCHANGED scanVars
    BY <1>9 DEF FollowerResumes, cacheVars
  <2>2. leader[r] \in Requests
    BY <1>9 DEF FollowerResumes, Named
  <2>3. UNCHANGED answer \/ answer' = [answer EXCEPT ![r] = answer[leader[r]]]
    BY <1>9 DEF FollowerResumes
  <2>4. ToldIn(L)'
    BY <2>1, <2>2, <2>3 DEF ToldIn
  <2> QED BY <1>2, <2>1, <2>4
<1> QED BY <1>1, <1>4, <1>5, <1>6, <1>7, <1>8, <1>9 DEF Serve

\* So the catalogue stays as it is while nothing is ingested.
LEMMA CatalogueKept ==
  ASSUME Shape, Catalogued, [Next]_vars, ~ \E w \in Ingests : IngestOf(w)
  PROVE  Catalogued'
<1>1. PICK name : Numbering(name) /\ HeldIn(Labels(name))
  BY DEF Catalogued
<1> PICK L : L = Labels(name)
  OBVIOUS
<1>2. UNCHANGED Corpus
  BY CorpusKept
<1>3. Given' = Given /\ NextNumber' = NextNumber /\ Ordinals' = Ordinals
  BY <1>2 DEF Corpus, Given, Numbered, NextNumber, Ordinals
<1>4. Numbering(name)' /\ Labels(name)' = L /\ Landings'
  BY <1>1, <1>2, <1>3 DEF Corpus, Numbering, Labels, Landings, Catalogued
<1>5. StoredIn(L)'
  BY <1>1, <1>2, <1>3 DEF Corpus, StoredIn, HeldIn
<1>6. FoundIn(L)' /\ ToldIn(L)'
  <2>1. HeldIn(L)
    BY <1>1
  <2>2. ASSUME NEW r \in Requests, Serve(r)
        PROVE  FoundIn(L)' /\ ToldIn(L)'
    BY <2>1, <2>2, ServeHolds
  <2>3. ASSUME NEW e \in cache, GrowStale(e)
        PROVE  FoundIn(L)' /\ ToldIn(L)'
    <3>1. e \in Entries
      BY DEF Shape, CacheTypeOK
    <3>2. [e EXCEPT !.stale = TRUE].answer = e.answer
      BY <3>1 DEF Entries
    <3>3. /\ UNCHANGED <<hits, snapshot, answer>>
          /\ cache' = (cache \ {e}) \cup {[e EXCEPT !.stale = TRUE]}
      BY <2>3 DEF GrowStale, scanVars, runVars
    <3> QED BY <2>1, <3>2, <3>3 DEF HeldIn, FoundIn, ToldIn
  <2>4. CASE UNCHANGED vars
    BY <2>1, <2>4 DEF vars, scanVars, runVars, cacheVars, HeldIn, FoundIn, ToldIn
  <2> QED BY <2>2, <2>3, <2>4 DEF Next
<1>7. HeldIn(L)'
  BY <1>5, <1>6 DEF HeldIn
<1>8. HeldIn(Labels(name))'
  BY <1>4, <1>7
<1> QED BY <1>4, <1>8 DEF Catalogued

\* One more ingest is numbered, from the next number on.
Extended(name, w) ==
  [c \in Chunks |->
     IF \E i \in DOMAIN Batch[w] : Batch[w][i] = c
       THEN NextNumber + (CHOOSE i \in DOMAIN Batch[w] : Batch[w][i] = c) - 1
       ELSE name[c]]

LEMMA NewNumbers ==
  ASSUME Shape, NEW name, Numbering(name), NEW w \in Ingests, ~Numbered(w),
         \A v \in Ingests : Numbered(v)' <=> Numbered(v) \/ v = w,
         NextNumber' = NextNumber + Len(Batch[w]), UNCHANGED backend,
         NEW new, new = Extended(name, w),
         backend = "chroma" => idToOrdinal' = new
  PROVE  /\ Numbering(new)'
         /\ Labels(name) \subseteq Labels(new)'
         /\ \A i \in DOMAIN Batch[w] :
              [chunk |-> Batch[w][i], ordinal |-> NextNumber + i - 1] \in Labels(new)'
<1> DEFINE n == Len(Batch[w])
<1>1. n \in Nat /\ DOMAIN Batch[w] = 1..n /\ \A i \in 1..n : Batch[w][i] \in Chunks
  BY StoreAssumption
<1>2. NextNumber \in Nat
  BY DEF NextNumber, Shape, StoreTypeOK
<1> HIDE DEF n
<1>3. \A i \in 1..n : new[Batch[w][i]] = NextNumber + i - 1
  <2> SUFFICES ASSUME NEW i \in 1..n
               PROVE  new[Batch[w][i]] = NextNumber + i - 1
    OBVIOUS
  <2> DEFINE c == Batch[w][i]
             k == CHOOSE j \in DOMAIN Batch[w] : Batch[w][j] = c
  <2>1. c \in Chunks /\ i \in DOMAIN Batch[w]
    BY <1>1
  <2>2. k \in DOMAIN Batch[w] /\ Batch[w][k] = c
    BY <2>1
  <2>3. k = i
    BY <2>1, <2>2, OccurrenceAssumption
  <2>4. new[c] = NextNumber + k - 1
    BY <2>1 DEF Extended
  <2> QED BY <2>3, <2>4
<1>4. Given' = Given \cup {Batch[w][i] : i \in 1..n}
  BY <1>1 DEF Given
<1>5. \A c \in Given : new[c] = name[c] /\ \A i \in 1..n : Batch[w][i] # c
  <2> SUFFICES ASSUME NEW c \in Given
               PROVE  new[c] = name[c] /\ \A i \in 1..n : Batch[w][i] # c
    OBVIOUS
  <2>1. PICK v \in Ingests : Numbered(v) /\ \E j \in DOMAIN Batch[v] : Batch[v][j] = c
    BY DEF Given
  <2>2. \A i \in DOMAIN Batch[w] : Batch[w][i] # c
    BY <2>1, OccurrenceAssumption
  <2>3. c \in Chunks
    BY DEF Given
  <2> QED BY <1>1, <2>2, <2>3 DEF Extended
<1>6. new \in [Chunks -> Nat \cup {NoOrdinal}]
  <2> SUFFICES ASSUME NEW c \in Chunks
               PROVE  new[c] \in Nat \cup {NoOrdinal}
    BY DEF Extended
  <2>1. CASE \E i \in 1..n : Batch[w][i] = c
    <3>1. PICK i \in 1..n : Batch[w][i] = c
      BY <2>1
    <3> QED BY <1>1, <1>2, <1>3, <3>1
  <2>2. CASE ~ \E i \in 1..n : Batch[w][i] = c
    BY <1>1, <2>2 DEF Extended, Numbering
  <2> QED BY <2>1, <2>2
<1>7. /\ \A c \in Given : new[c] \in 0..NextNumber - 1
      /\ \A c, d \in Given : new[c] = new[d] => c = d
  BY <1>5 DEF Numbering
<1>8. \A c \in Given' : new[c] \in 0..NextNumber' - 1
  BY <1>1, <1>2, <1>3, <1>4, <1>7 DEF n
<1>9. \A c, d \in Given' : new[c] = new[d] => c = d
  <2> SUFFICES ASSUME NEW c \in Given', NEW d \in Given', new[c] = new[d]
               PROVE  c = d
    OBVIOUS
  <2>1. CASE c \in Given /\ d \in Given
    BY <1>7, <2>1
  <2>2. \A i \in 1..n : \A b \in Given : new[Batch[w][i]] # new[b]
    BY <1>1, <1>2, <1>3, <1>7
  <2>3. \A i, j \in 1..n : new[Batch[w][i]] = new[Batch[w][j]] => i = j
    BY <1>1, <1>2, <1>3
  <2> QED BY <1>4, <2>1, <2>2, <2>3
<1>10. Numbering(new)'
  BY <1>6, <1>8, <1>9 DEF Numbering
<1>11. Labels(new)' = {[chunk |-> c, ordinal |-> new[c]] : c \in Given'}
  BY DEF Labels
<1>12. Labels(name) \subseteq Labels(new)'
  BY <1>4, <1>5, <1>11 DEF Labels
<1>13. \A i \in 1..n : [chunk |-> Batch[w][i], ordinal |-> NextNumber + i - 1] \in Labels(new)'
  BY <1>3, <1>4, <1>11
<1> QED BY <1>1, <1>10, <1>12, <1>13

\* What was told stays told when the catalogue grows.
LEMMA HeldInMore ==
  ASSUME NEW L, NEW M, L \subseteq M, FoundIn(L), ToldIn(L),
         UNCHANGED <<hits, snapshot, answer, cache>>
  PROVE  FoundIn(M)' /\ ToldIn(M)'
BY DEF FoundIn, ToldIn

\* The in-memory store numbers the chunks it appends, evicts the oldest, and
\* keeps both lists in step.
LEMMA AddedInMemory ==
  ASSUME Shape, NEW w \in Ingests, AddInMemory(w), NEW L, NEW M, L \subseteq M, StoredIn(L),
         \A i \in DOMAIN Batch[w] : [chunk |-> Batch[w][i], ordinal |-> nextOrdinal + i - 1] \in M
  PROVE  StoredIn(M)'
<1> USE DEF Shape, StoreTypeOK
<1> DEFINE docs == documents \o Batch[w]
           ords == ordinals \o NewOrdinals(w)
           d == Len(documents)
           n == Len(Batch[w])
           x == Excess(docs)
<1>1. /\ Batch[w] \in Seq(Chunks) /\ n \in Nat /\ d \in Nat
      /\ DOMAIN Batch[w] = 1..n
  BY StoreAssumption
<1>2. NewOrdinals(w) \in Seq(Nat) /\ Len(NewOrdinals(w)) = n
  BY NewOrdinalsTyped
<1>3. backend = "memory" /\ backend' = "memory" /\ Len(ordinals) = d
  BY DEF AddInMemory, Aligned
<1>4. /\ docs \in Seq(Chunks) /\ Len(docs) = d + n
      /\ \A k \in 1..d + n : docs[k] = IF k <= d THEN documents[k] ELSE Batch[w][k - d]
  BY <1>1, ConcatProperties
<1>5. /\ ords \in Seq(Nat) /\ Len(ords) = d + n
      /\ \A k \in 1..d + n : ords[k] = IF k <= d THEN ordinals[k] ELSE NewOrdinals(w)[k - d]
  <2>1. PICK m : m = NewOrdinals(w)
    OBVIOUS
  <2>2. ordinals \in Seq(Nat) /\ Len(ordinals) = d /\ m \in Seq(Nat) /\ Len(m) = n
    BY <1>2, <1>3, <2>1
  <2>3. /\ ordinals \o m \in Seq(Nat) /\ Len(ordinals \o m) = d + n
        /\ \A k \in 1..d + n : (ordinals \o m)[k] = IF k <= d THEN ordinals[k] ELSE m[k - d]
    <3> HIDE DEF d, n
    <3> QED BY <1>1, <2>2, ConcatProperties
  <2> QED BY <2>1, <2>3
<1>6. \A k \in 1..d + n : [chunk |-> docs[k], ordinal |-> ords[k]] \in M
  <2> SUFFICES ASSUME NEW k \in 1..d + n
               PROVE  [chunk |-> docs[k], ordinal |-> ords[k]] \in M
    OBVIOUS
  <2>1. CASE k <= d
    <3>1. docs[k] = documents[k] /\ ords[k] = Ordinals[k] /\ k \in 1..d
      BY <1>1, <1>3, <1>4, <1>5, <2>1 DEF Ordinals
    <3> QED BY <3>1 DEF StoredIn
  <2>2. CASE ~(k <= d)
    <3>1. k - d \in 1..n
      BY <1>1, <2>2
    <3>2. docs[k] = Batch[w][k - d] /\ ords[k] = nextOrdinal + (k - d) - 1
      BY <1>4, <1>5, <2>2, <3>1 DEF NewOrdinals
    <3> QED BY <1>1, <3>1, <3>2
  <2> QED BY <2>1, <2>2
<1>7. x \in 0..d + n
  BY <1>1, <1>4, StoreAssumption DEF Excess
<1>8. documents' = SubSeq(docs, x + 1, d + n) /\ ordinals' = SubSeq(ords, x + 1, d + n)
  BY <1>4, <1>5 DEF AddInMemory, DropOldest
<1> HIDE DEF docs, ords, d, n, x
<1>9. /\ Len(documents') = d + n - x
      /\ \A i \in 1..d + n - x : documents'[i] = docs[x + i] /\ ordinals'[i] = ords[x + i]
  <2>1. PICK e : e = d + n
    OBVIOUS
  <2>2. e \in Nat /\ x \in 0..e /\ x + 1 \in Nat
    BY <1>1, <1>7, <2>1
  <2>3. DOMAIN docs = 1..e /\ DOMAIN ords = 1..e
    BY <1>4, <1>5, <2>1, LenProperties
  <2>4. \A i \in x + 1..e : docs[i] \in Chunks /\ ords[i] \in Nat
    BY <1>4, <1>5, <2>2, <2>3
  <2>5. /\ Len(SubSeq(docs, x + 1, e)) = IF x + 1 <= e THEN e - (x + 1) + 1 ELSE 0
        /\ \A i \in 1..e - (x + 1) + 1 : SubSeq(docs, x + 1, e)[i] = docs[x + 1 + i - 1]
    BY <2>2, <2>4, SubSeqProperties
  <2>6. \A i \in 1..e - (x + 1) + 1 : SubSeq(ords, x + 1, e)[i] = ords[x + 1 + i - 1]
    BY <2>2, <2>4, SubSeqProperties
  <2>7. /\ documents' = SubSeq(docs, x + 1, e) /\ ordinals' = SubSeq(ords, x + 1, e)
        /\ e - (x + 1) + 1 = e - x /\ (x + 1 <= e \/ e - x = 0)
    BY <1>8, <2>1, <2>2
  <2>8. Len(documents') = e - x
    BY <2>5, <2>7
  <2>9. \A i \in 1..e - x : documents'[i] = docs[x + i] /\ ordinals'[i] = ords[x + i]
    <3> SUFFICES ASSUME NEW i \in 1..e - x
                 PROVE  documents'[i] = docs[x + i] /\ ordinals'[i] = ords[x + i]
      OBVIOUS
    <3>1. x + 1 + i - 1 = x + i
      BY <2>2
    <3> QED BY <2>5, <2>6, <2>7, <3>1
  <2>10. e - x = d + n - x
    BY <1>1, <1>7, <2>1, <2>2
  <2> HIDE DEF docs, ords
  <2> QED BY <2>8, <2>9, <2>10, Zenon
<1>10. Ordinals' = ordinals'
  BY <1>3 DEF Ordinals
<1>11. ASSUME NEW i \in 1..Len(documents')
       PROVE  [chunk |-> documents'[i], ordinal |-> ordinals'[i]] \in M
  <2>1. x + i \in 1..d + n
    BY <1>1, <1>7, <1>9, <1>11 DEF d, n
  <2> QED BY <1>6, <1>9, <1>11, <2>1
<1> QED BY <1>10, <1>11 DEF StoredIn

\* Chroma's and Ollama's only append.
LEMMA Appended ==
  ASSUME Shape, NEW w \in Ingests, documents' = documents \o Batch[w],
         NEW L, NEW M, L \subseteq M, StoredIn(L),
         \A i \in 1..Len(documents) : Ordinals'[i] = Ordinals[i],
         \A i \in DOMAIN Batch[w] :
           [chunk |-> Batch[w][i], ordinal |-> Ordinals'[Len(documents) + i]] \in M
  PROVE  StoredIn(M)'
<1> USE DEF Shape, StoreTypeOK
<1> DEFINE d == Len(documents)
           n == Len(Batch[w])
<1>1. /\ Batch[w] \in Seq(Chunks) /\ n \in Nat /\ d \in Nat
      /\ DOMAIN Batch[w] = 1..n
  BY StoreAssumption
<1>2. /\ Len(documents') = d + n
      /\ \A k \in 1..d + n : documents'[k] = IF k <= d THEN documents[k] ELSE Batch[w][k - d]
  BY <1>1, ConcatProperties
<1>3. ASSUME NEW k \in 1..Len(documents')
      PROVE  [chunk |-> documents'[k], ordinal |-> Ordinals'[k]] \in M
  <2>1. CASE k <= d
    <3>1. k \in 1..Len(documents) /\ documents'[k] = documents[k]
      BY <1>1, <1>2, <2>1
    <3> QED BY <3>1 DEF StoredIn
  <2>2. CASE ~(k <= d)
    <3>1. k - d \in 1..n /\ d + (k - d) = k
      BY <1>1, <1>2, <2>2
    <3>2. documents'[k] = Batch[w][k - d]
      BY <1>2, <2>2
    <3> QED BY <1>1, <3>1, <3>2
  <2> QED BY <2>1, <2>2
<1> QED BY <1>3 DEF StoredIn

LEMMA IngestCatalogued ==
  ASSUME Shape, Catalogued, NEW w \in Ingests, IngestOf(w)
  PROVE  Catalogued'
<1> USE DEF Shape, StoreTypeOK
<1>1. PICK name : Numbering(name) /\ HeldIn(Labels(name))
  BY DEF Catalogued
<1>2. PICK new : new = Extended(name, w)
  OBVIOUS
<1> PICK L, M : L = Labels(name) /\ M = Labels(new)'
  OBVIOUS
<1> DEFINE n == Len(Batch[w])
<1>3. StoredIn(L) /\ FoundIn(L) /\ ToldIn(L)
  BY <1>1 DEF HeldIn
<1>4. UNCHANGED <<backend, hits, snapshot, answer, cache>>
  BY DEF IngestOf, IngestStep, AddInMemory, AssignOrdinals, CollectionAdds, AddReturns,
         AskEmbeddings, EmbeddingsReturn, IngestFails, storeVars, scanVars, runVars, cacheVars
<1>5. Batch[w] \in Seq(Chunks) /\ n \in Nat /\ DOMAIN Batch[w] = 1..n
  BY StoreAssumption
<1>6. Landings'
  <2>1. CASE Acknowledge(w) /\ landed' \in {landed, landed \cup {w}}
    BY <2>1 DEF Acknowledge, Landings, Catalogued
  <2>2. CASE CollectionAdds(w)
    BY <2>2 DEF CollectionAdds, Landings, Catalogued
  <2>3. CASE ingest[w] \in {"idle", "adding"} /\ UNCHANGED landed
             /\ \E s : ingest' = [ingest EXCEPT ![w] = s]
    BY <2>3 DEF Landings, Catalogued
  <2> QED BY <2>1, <2>2, <2>3 DEF IngestOf, IngestStep, AddInMemory, AssignOrdinals, AddReturns,
                                  AskEmbeddings, EmbeddingsReturn, IngestFails
\* The chunks get numbers with this step.
<1>7. ASSUME Numbering(new)', L \subseteq M, StoredIn(M)'
      PROVE  Catalogued'
  <2>1. FoundIn(M)' /\ ToldIn(M)'
    BY <1>3, <1>4, <1>7, HeldInMore
  <2>2. HeldIn(Labels(new))'
    BY <1>7, <2>1 DEF HeldIn
  <2> QED BY <1>6, <1>7, <2>2 DEF Catalogued
<1>8. CASE AddInMemory(w)
  <2>1. backend = "memory" /\ ~Numbered(w) /\ NextNumber = nextOrdinal
    BY <1>8 DEF AddInMemory, Numbered, NextNumber, Landings, Catalogued
  <2>2. /\ \A v \in Ingests : Numbered(v)' <=> Numbered(v) \/ v = w
        /\ NextNumber' = NextNumber + n
    BY <1>4, <1>8, <2>1 DEF AddInMemory, Numbered, NextNumber
  <2>3. /\ Numbering(new)' /\ L \subseteq M
        /\ \A i \in DOMAIN Batch[w] : [chunk |-> Batch[w][i], ordinal |-> nextOrdinal + i - 1] \in M
    BY <1>1, <1>2, <1>4, <2>1, <2>2, NewNumbers
  <2>4. StoredIn(M)'
    BY <1>3, <1>8, <2>3, AddedInMemory
  <2> QED BY <1>7, <2>3, <2>4
<1>9. CASE AssignOrdinals(w)
  <2>1. backend = "chroma" /\ ~Numbered(w) /\ NextNumber = nextOrdinal /\ name = idToOrdinal
    BY <1>1, <1>9 DEF AssignOrdinals, Numbered, NextNumber, Numbering
  <2>2. /\ \A v \in Ingests : Numbered(v)' <=> Numbered(v) \/ v = w
        /\ NextNumber' = NextNumber + n
    BY <1>4, <1>9, <2>1 DEF AssignOrdinals, Numbered, NextNumber
  <2>3. idToOrdinal' = new
    <3>1. ASSUME NEW c \in Chunks, \E i \in DOMAIN Batch[w] : Batch[w][i] = c
          PROVE  LET k == CHOOSE i \in DOMAIN Batch[w] : Batch[w][i] = c
                 IN  NewOrdinals(w)[k] = nextOrdinal + k - 1
      <4>1. (CHOOSE i \in DOMAIN Batch[w] : Batch[w][i] = c) \in 1..n
        BY <1>5, <3>1
      <4> QED BY <4>1 DEF NewOrdinals
    <3> QED BY <1>2, <1>9, <2>1, <3>1 DEF AssignOrdinals, Extended
  <2>4. Numbering(new)' /\ L \subseteq M
    BY <1>1, <1>2, <1>4, <2>1, <2>2, <2>3, NewNumbers
  <2>5. StoredIn(M)'
    <3>1. UNCHANGED documents
      BY <1>9 DEF AssignOrdinals
    <3> SUFFICES ASSUME NEW i \in 1..Len(documents)
                 PROVE  [chunk |-> documents[i], ordinal |-> Ordinals'[i]] \in M
      BY <3>1 DEF StoredIn
    <3>2. Ordinals'[i] = new[documents[i]]
      BY <1>4, <2>1, <2>3, <3>1 DEF Ordinals
    <3>3. [chunk |-> documents[i], ordinal |-> Ordinals[i]] \in M
      BY <1>3, <2>4 DEF StoredIn
    <3>4. Ordinals[i] = new[documents[i]]
      BY <3>3 DEF Labels
    <3> QED BY <3>2, <3>3, <3>4
  <2> QED BY <1>7, <2>4, <2>5
<1>10. CASE EmbeddingsReturn(w)
  <2>1. backend = "ollama" /\ ~Numbered(w) /\ NextNumber = Len(documents)
    BY <1>10 DEF EmbeddingsReturn, Numbered, NextNumber, Landings, Catalogued
  <2>2. /\ documents' = documents \o Batch[w] /\ Len(documents') = Len(documents) + n
        /\ Len(documents) \in Nat
    BY <1>5, <1>10, ConcatProperties DEF EmbeddingsReturn
  <2>3. /\ \A v \in Ingests : Numbered(v)' <=> Numbered(v) \/ v = w
        /\ NextNumber' = NextNumber + n
    BY <1>4, <1>10, <2>1, <2>2 DEF EmbeddingsReturn, Numbered, NextNumber
  <2>4. /\ Numbering(new)' /\ L \subseteq M
        /\ \A i \in DOMAIN Batch[w] :
             [chunk |-> Batch[w][i], ordinal |-> Len(documents) + i - 1] \in M
    BY <1>1, <1>2, <1>4, <2>1, <2>3, NewNumbers
  <2>5. \A i \in 1..Len(documents') : Ordinals'[i] = i - 1
    BY <1>4, <2>1 DEF Ordinals
  <2>6. \A i \in 1..Len(documents) : Ordinals'[i] = Ordinals[i]
    <3> SUFFICES ASSUME NEW i \in 1..Len(documents)
                 PROVE  Ordinals'[i] = Ordinals[i]
      OBVIOUS
    <3>1. Ordinals[i] = i - 1
      BY <2>1 DEF Ordinals
    <3>2. i \in 1..Len(documents')
      <4> HIDE DEF n
      <4> QED BY <1>5, <2>2
    <3> QED BY <2>5, <3>1, <3>2
  <2>7. \A i \in DOMAIN Batch[w] : [chunk |-> Batch[w][i], ordinal |-> Ordinals'[Len(documents) + i]] \in M
    <3> SUFFICES ASSUME NEW i \in 1..n
                 PROVE  [chunk |-> Batch[w][i], ordinal |-> Ordinals'[Len(documents) + i]] \in M
      BY <1>5
    <3>1. Len(documents) + i \in 1..Len(documents')
      <4> HIDE DEF n
      <4> QED BY <1>5, <2>2
    <3>2. Ordinals'[Len(documents) + i] = Len(documents) + i - 1
      BY <2>5, <3>1
    <3> QED BY <1>5, <2>4, <3>2
  <2>8. StoredIn(M)'
    BY <1>3, <2>2, <2>4, <2>6, <2>7, Appended
  <2> QED BY <1>7, <2>4, <2>8
\* They have numbers, or are to get them.
<1>11. ASSUME Given' = Given, NextNumber' = NextNumber, UNCHANGED idToOrdinal, StoredIn(L)'
       PROVE  Catalogued'
  <2>1. Numbering(name)' /\ Labels(name)' = L
    BY <1>1, <1>4, <1>11 DEF Numbering, Labels
  <2>2. FoundIn(L)' /\ ToldIn(L)'
    BY <1>3, <1>4, HeldInMore
  <2>3. HeldIn(Labels(name))'
    BY <1>11, <2>1, <2>2 DEF HeldIn
  <2> QED BY <1>6, <2>1, <2>3 DEF Catalogued
<1>12. CASE CollectionAdds(w)
  <2>1. /\ backend = "chroma" /\ Numbered(w) /\ name = idToOrdinal
        /\ documents' = documents \o Batch[w] /\ UNCHANGED <<idToOrdinal, nextOrdinal>>
    BY <1>1, <1>12 DEF CollectionAdds, Numbered, Numbering
  <2>2. \A v \in Ingests : Numbered(v)' <=> Numbered(v)
    BY <1>4, <1>12, <2>1 DEF CollectionAdds, Numbered
  <2>3. Given' = Given /\ NextNumber' = NextNumber
    BY <1>4, <2>1, <2>2 DEF Given, NextNumber
  <2>4. /\ Len(documents') = Len(documents) + n /\ Len(documents) \in Nat
        /\ \A k \in 1..Len(documents) : documents'[k] = documents[k]
        /\ \A i \in 1..n : documents'[Len(documents) + i] = Batch[w][i]
    BY <1>5, <2>1, ConcatProperties
  <2>5. \A i \in 1..Len(documents') : Ordinals'[i] = idToOrdinal[documents'[i]]
    BY <1>4, <2>1 DEF Ordinals
  <2>6. \A i \in 1..Len(documents) : Ordinals'[i] = Ordinals[i]
    <3> SUFFICES ASSUME NEW i \in 1..Len(documents)
                 PROVE  Ordinals'[i] = Ordinals[i]
      OBVIOUS
    <3>1. Ordinals[i] = idToOrdinal[documents[i]]
      BY <2>1 DEF Ordinals
    <3>2. i \in 1..Len(documents') /\ documents'[i] = documents[i]
      <4> HIDE DEF n
      <4> QED BY <1>5, <2>4
    <3> QED BY <2>5, <3>1, <3>2
  <2>7. \A i \in 1..n : Batch[w][i] \in Given
    BY <1>5, <2>1 DEF Given
  <2>8. \A i \in 1..n : Ordinals'[Len(documents) + i] = name[Batch[w][i]]
    <3> SUFFICES ASSUME NEW i \in 1..n
                 PROVE  Ordinals'[Len(documents) + i] = name[Batch[w][i]]
      OBVIOUS
    <3>1. Len(documents) + i \in 1..Len(documents')
      <4> HIDE DEF n
      <4> QED BY <1>5, <2>4
    <3> QED BY <2>1, <2>4, <2>5, <3>1
  <2>9. \A i \in DOMAIN Batch[w] : [chunk |-> Batch[w][i], ordinal |-> Ordinals'[Len(documents) + i]] \in L
    <3> SUFFICES ASSUME NEW i \in 1..n
                 PROVE  [chunk |-> Batch[w][i], ordinal |-> name[Batch[w][i]]] \in L
      BY <1>5, <2>8
    <3>1. L = {[chunk |-> c, ordinal |-> name[c]] : c \in Given}
      BY DEF Labels
    <3> QED BY <2>7, <3>1
  <2>10. StoredIn(L)'
    BY <1>3, <2>1, <2>6, <2>9, Appended
  <2> QED BY <1>11, <2>1, <2>3, <2>10
<1>13. CASE AddReturns(w) \/ AskEmbeddings(w) \/ IngestFails(w)
  <2>1. UNCHANGED <<documents, ordinals, idToOrdinal, nextOrdinal, landed>>
    BY <1>13 DEF AddReturns, AskEmbeddings, IngestFails, storeVars
  <2>2. /\ \A v \in Ingests \ {w} : ingest'[v] = ingest[v]
        /\ ingest'[w] # "idle" /\ (backend = "chroma" => ingest[w] # "idle")
    BY <1>13 DEF AddReturns, AskEmbeddings, IngestFails, Acknowledge
  <2>3. Given' = Given /\ NextNumber' = NextNumber /\ Ordinals' = Ordinals
    BY <1>4, <2>1, <2>2 DEF Given, Numbered, NextNumber, Ordinals
  <2>4. StoredIn(L)'
    BY <1>3, <2>1, <2>3 DEF StoredIn
  <2> QED BY <1>11, <2>1, <2>3, <2>4
<1> QED BY <1>8, <1>9, <1>10, <1>12, <1>13 DEF IngestOf, IngestStep

LEMMA CataloguedStep == Shape /\ Catalogued /\ [Next]_vars => Catalogued'
BY CatalogueKept, IngestCatalogued

\* A chunk id names one chunk for good, in the store, in the hits and in the
\* answers, whichever backend numbers it, whatever is evicted or fails, and
\* however ingests and searches interleave.
THEOREM IdsAreNames == Spec => []IdsNameChunks
<1>1. Shape /\ Catalogued => IdsNameChunks
  <2> SUFFICES ASSUME Shape, Catalogued
               PROVE  IdsNameChunks
    OBVIOUS
  <2>1. PICK name : Numbering(name) /\ HeldIn(Labels(name))
    BY DEF Catalogued
  <2>2. Known \subseteq Labels(name)
    <3>1. /\ \A i \in 1..Len(documents) :
               [chunk |-> documents[i], ordinal |-> Ordinals[i]] \in Labels(name)
          /\ \A r \in Requests : hits[r] \subseteq Labels(name)
          /\ \A r \in Requests : answer[r] # NoAnswer => answer[r].citations \subseteq Labels(name)
      BY <2>1 DEF HeldIn, StoredIn, FoundIn, ToldIn
    <3> SUFFICES ASSUME NEW g \in Known
                 PROVE  g \in Labels(name)
      OBVIOUS
    <3>2. \/ \E i \in 1..Len(documents) : g = [chunk |-> documents[i], ordinal |-> Ordinals[i]]
          \/ \E r \in Requests : g \in hits[r]
          \/ \E r \in Requests : answer[r] # NoAnswer /\ g \in answer[r].citations
      <4>1. CASE g \in {[chunk |-> documents[i], ordinal |-> Ordinals[i]] : i \in 1..Len(documents)}
        BY <4>1
      <4>2. CASE g \in UNION {hits[r] : r \in Requests}
        BY <4>2
      <4>3. CASE g \in UNION {answer[r].citations : r \in {s \in Requests : answer[s] # NoAnswer}}
        BY <4>3
      <4> QED BY <4>1, <4>2, <4>3 DEF Known
    <3> QED BY <3>1, <3>2
  <2>3. \A c \in Given : name[c] \in Nat /\ name[c] # NoOrdinal
    <3>1. NextNumber \in Nat
      BY DEF NextNumber, Shape, StoreTypeOK
    <3> QED BY <2>1, <3>1, StoreAssumption DEF Numbering
  <2>4. ASSUME NEW g \in Known, NEW h \in Known
        PROVE  /\ g.ordinal # NoOrdinal
               /\ g.ordinal = h.ordinal <=> g.chunk = h.chunk
    <3>1. PICK c \in Given : g = [chunk |-> c, ordinal |-> name[c]]
      BY <2>2 DEF Labels
    <3>2. PICK d \in Given : h = [chunk |-> d, ordinal |-> name[d]]
      BY <2>2 DEF Labels
    <3>3. g.chunk = c /\ g.ordinal = name[c] /\ h.chunk = d /\ h.ordinal = name[d]
      BY <3>1, <3>2
    <3> QED BY <2>1, <2>3, <3>3 DEF Numbering
  <2> QED BY <2>4 DEF IdsNameChunks
<1> QED BY <1>1, CataloguedInit, CataloguedStep, ShapeInvariant, PTL DEF Spec
=============================================================================
