---------------------------- MODULE VectorStore ----------------------------
(***************************************************************************)
(* The vector stores of services/api/app/stores/vector_store (in memory,   *)
(* Chroma, Ollama embeddings), the ingest route that writes to the one the *)
(* settings select, and the search a RAG run makes of it.                  *)
(*                                                                         *)
(* One event loop: an action ends at an await.  The store's asyncio.Lock   *)
(* guards code without an await, so nobody ever waits for it.  A chunk is  *)
(* one occurrence of a text in one ingest (Chroma's uuid); scores are      *)
(* abstract: any k chunks may be the k best ones.                          *)
(***************************************************************************)
EXTENDS Naturals, Sequences, FiniteSetsExt

CONSTANTS
  Ingests,        \* ingest requests, each made at most once
  Chunks,
  Batch,          \* the chunks of an ingest request
  Requests,       \* RAG queries, each made at most once
  MaxDocuments,   \* InMemoryVectorStore.max_documents
  NoOrdinal,      \* an id that _id_to_ordinal lacks
  NoVectors       \* _doc_vectors is None

ASSUME StoreAssumption ==
  /\ Batch \in [Ingests -> Seq(Chunks)]
  /\ MaxDocuments \in Nat
  /\ NoOrdinal \notin Nat
  /\ NoVectors \notin Seq(Chunks)

\* A chunk is in one place of one ingest.
ASSUME OccurrenceAssumption ==
  \A v, w \in Ingests : \A i \in DOMAIN Batch[v], j \in DOMAIN Batch[w] :
    Batch[v][i] = Batch[w][j] => v = w /\ i = j

Backends == {"memory", "chroma", "ollama"}

VARIABLES
  backend,       \* the store the lifespan built
  documents,     \* the chunks it holds, oldest first
  ordinals,      \* in memory: their ordinals, in the same order
  idToOrdinal,   \* Chroma: _id_to_ordinal
  nextOrdinal,
  generation,
  vectors,       \* in memory: the chunks _doc_vectors were derived from
  ingest,        \* the state of each ingest request
  scan,          \* the await of each request's search
  snapshot,      \* what that search read before the await
  hits,          \* what each request's last search returned
  \* history
  acked,         \* the generation an ingest was acknowledged at; 0: not yet
  landed,        \* the ingests whose chunks the store has held
  saw            \* those of them each request's last search was over

storeVars == <<backend, documents, ordinals, idToOrdinal, nextOrdinal, generation, vectors>>
ingestVars == <<ingest, acked, landed>>
scanVars == <<scan, snapshot, hits, saw>>

Hit == [chunk : Chunks, ordinal : Nat \cup {NoOrdinal}]
Snapshot == [documents : Seq(Chunks), ordinals : Seq(Nat), derived : BOOLEAN,
             generation : Nat, count : Nat]
NoSnapshot == [documents |-> << >>, ordinals |-> << >>, derived |-> FALSE,
               generation |-> 0, count |-> 0]

StoreTypeOK ==
  /\ backend \in Backends
  /\ documents \in Seq(Chunks)
  /\ ordinals \in Seq(Nat)
  /\ idToOrdinal \in [Chunks -> Nat \cup {NoOrdinal}]
  /\ nextOrdinal \in Nat
  /\ generation \in Nat
  /\ vectors \in Seq(Chunks) \cup {NoVectors}
  /\ ingest \in [Ingests -> {"idle", "adding", "added", "done", "failed"}]
  /\ scan \in [Requests -> {"none", "score", "count", "query", "embed"}]
  /\ snapshot \in [Requests -> Snapshot]
  /\ hits \in [Requests -> SUBSET Hit]
  /\ acked \in [Ingests -> Nat]
  /\ landed \subseteq Ingests
  /\ saw \in [Requests -> SUBSET Ingests]

\* build_vector_store, and an empty store.
StoreInit ==
  /\ backend \in Backends
  /\ documents = << >>
  /\ ordinals = << >>
  /\ idToOrdinal = [c \in Chunks |-> NoOrdinal]
  /\ nextOrdinal = 0
  /\ generation = 0
  /\ vectors = NoVectors
  /\ ingest = [w \in Ingests |-> "idle"]
  /\ scan = [r \in Requests |-> "none"]
  /\ snapshot = [r \in Requests |-> NoSnapshot]
  /\ hits = [r \in Requests |-> {}]
  /\ acked = [w \in Ingests |-> 0]
  /\ landed = {}
  /\ saw = [r \in Requests |-> {}]

-----------------------------------------------------------------------------
(* The ingest route: add_documents, and the answer.                        *)

\* The generation advances, and the route answers: no await between the two.
Acknowledge(w) ==
  /\ generation' = generation + 1
  /\ acked' = [acked EXCEPT ![w] = generation + 1]
  /\ ingest' = [ingest EXCEPT ![w] = "done"]

IngestFails(w) ==
  /\ ingest[w] = "adding"
  /\ ingest' = [ingest EXCEPT ![w] = "failed"]
  /\ UNCHANGED <<storeVars, acked, landed, scanVars>>

\* _evict_oldest: what is left of a list with n elements too many.
DropOldest(s, n) == SubSeq(s, n + 1, Len(s))
Excess(s) == IF Len(s) > MaxDocuments THEN Len(s) - MaxDocuments ELSE 0
\* Mutant: positions, which a concurrent ingest or an eviction hands out again.
NewOrdinalsByPosition(w) == [i \in 1..Len(Batch[w]) |-> Len(documents) + i - 1]

NewOrdinals(w) == [i \in 1..Len(Batch[w]) |-> nextOrdinal + i - 1]

\* InMemoryVectorStore: no await at all.
AddInMemory(w) ==
  /\ backend = "memory" /\ ingest[w] = "idle"
  /\ LET docs == documents \o Batch[w]
         ords == ordinals \o NewOrdinals(w)
     IN  /\ documents' = DropOldest(docs, Excess(docs))
         /\ ordinals' = DropOldest(ords, Excess(docs))
  /\ nextOrdinal' = nextOrdinal + Len(Batch[w])
  /\ vectors' = NoVectors
  /\ landed' = landed \cup {w}
  /\ Acknowledge(w)
  /\ UNCHANGED <<backend, idToOrdinal, scanVars>>

\* ChromaVectorStore: the ids get their ordinals, then an executor thread adds
\* the chunks, then the coroutine resumes.
AssignOrdinals(w) ==
  /\ backend = "chroma" /\ ingest[w] = "idle"
  /\ ingest' = [ingest EXCEPT ![w] = "adding"]
  /\ idToOrdinal' = [c \in Chunks |->
       IF \E i \in DOMAIN Batch[w] : Batch[w][i] = c
         THEN NewOrdinals(w)[CHOOSE i \in DOMAIN Batch[w] : Batch[w][i] = c]
         ELSE idToOrdinal[c]]
  /\ nextOrdinal' = nextOrdinal + Len(Batch[w])
  /\ UNCHANGED <<backend, documents, ordinals, generation, vectors, acked, landed, scanVars>>

CollectionAdds(w) ==
  /\ backend = "chroma" /\ ingest[w] = "adding"
  /\ documents' = documents \o Batch[w]
  /\ ingest' = [ingest EXCEPT ![w] = "added"]
  /\ landed' = landed \cup {w}
  /\ UNCHANGED <<backend, ordinals, idToOrdinal, nextOrdinal, generation, vectors, acked, scanVars>>

AddReturns(w) ==
  /\ ingest[w] = "added"
  /\ Acknowledge(w)
  /\ UNCHANGED <<backend, documents, ordinals, idToOrdinal, nextOrdinal, vectors, landed, scanVars>>

\* OllamaEmbeddingVectorStore: the embeddings come first.
AskEmbeddings(w) ==
  /\ backend = "ollama" /\ ingest[w] = "idle"
  /\ ingest' = [ingest EXCEPT ![w] = "adding"]
  /\ UNCHANGED <<storeVars, acked, landed, scanVars>>

EmbeddingsReturn(w) ==
  /\ backend = "ollama" /\ ingest[w] = "adding"
  /\ documents' = documents \o Batch[w]
  /\ landed' = landed \cup {w}
  /\ Acknowledge(w)
  /\ UNCHANGED <<backend, ordinals, idToOrdinal, nextOrdinal, vectors, scanVars>>

IngestStep(w) ==
  \/ AddInMemory(w)
  \/ AssignOrdinals(w)
  \/ CollectionAdds(w)
  \/ AddReturns(w)
  \/ AskEmbeddings(w)
  \/ EmbeddingsReturn(w)
  \/ IngestFails(w)

-----------------------------------------------------------------------------
(* query_with_scores.                                                      *)

\* The ordinals the chunk ids of the stored documents carry.
Ordinals ==
  CASE backend = "memory" -> ordinals
    [] backend = "chroma" -> [i \in 1..Len(documents) |-> idToOrdinal[documents[i]]]
    [] backend = "ollama" -> [i \in 1..Len(documents) |-> i - 1]

\* The top k of a corpus, under any scores.
TopK(k, docs, ords) ==
  {{[chunk |-> docs[i], ordinal |-> ords[i]] : i \in best} :
     best \in kSubset(Min({k, Len(docs)}), 1..Len(docs))}

\* The call up to its first await.  An empty corpus needs none, except Chroma's.
NeedsAwait == backend = "chroma" \/ documents # << >>
FirstAwait == CASE backend = "memory" -> "score"
                [] backend = "chroma" -> "count"
                [] backend = "ollama" -> "embed"
StartScan(r) ==
  /\ scan' = [scan EXCEPT ![r] = IF NeedsAwait THEN FirstAwait ELSE "none"]
  /\ snapshot' = [snapshot EXCEPT ![r] =
       IF backend = "memory"
         THEN [documents |-> documents, ordinals |-> ordinals, count |-> 0,
               derived |-> vectors = NoVectors, generation |-> generation]
         ELSE NoSnapshot]
  /\ hits' = [hits EXCEPT ![r] = {}]
  /\ saw' = [saw EXCEPT ![r] = IF NeedsAwait /\ FirstAwait # "score" THEN {} ELSE landed]

\* The await of r ends with the result h.
ScanReturns(r, h) ==
  /\ hits' = [hits EXCEPT ![r] = h]
  /\ scan' = [scan EXCEPT ![r] = "none"]
  /\ snapshot' = [snapshot EXCEPT ![r] = NoSnapshot]

\* _ranked_hits resumes with the scores of its snapshot, and publishes the
\* vectors it derived unless the corpus has changed.
\* Mutant: without looking at the generation.
PublishAlways(r) == IF snapshot[r].derived THEN snapshot[r].documents ELSE vectors

PublishVectors(r) ==
  IF snapshot[r].derived /\ generation = snapshot[r].generation
    THEN snapshot[r].documents
    ELSE vectors
Score(r, k) ==
  /\ scan[r] = "score"
  /\ \E h \in TopK(k, snapshot[r].documents, snapshot[r].ordinals) : ScanReturns(r, h)
  /\ vectors' = PublishVectors(r)
  /\ UNCHANGED <<backend, documents, ordinals, idToOrdinal, nextOrdinal, generation, saw>>

\* collection.count, then, unless it is zero, collection.query.  An ordinal
\* never changes, so the executor's query and the resumption are one step.
Count(r) ==
  /\ scan[r] = "count"
  /\ scan' = [scan EXCEPT ![r] = IF documents = << >> THEN "none" ELSE "query"]
  /\ snapshot' = [snapshot EXCEPT ![r] = [NoSnapshot EXCEPT !.count = Len(documents)]]
  /\ saw' = [saw EXCEPT ![r] = IF documents = << >> THEN landed ELSE @]
  /\ UNCHANGED <<storeVars, hits>>
Query(r, k) ==
  /\ scan[r] = "query"
  /\ \E h \in TopK(Min({k, snapshot[r].count}), documents, Ordinals) : ScanReturns(r, h)
  /\ saw' = [saw EXCEPT ![r] = landed]
  /\ UNCHANGED storeVars

\* The embedding of the query has come: the stored documents are scored.
Embedded(r, k) ==
  /\ scan[r] = "embed"
  /\ \E h \in TopK(k, documents, Ordinals) : ScanReturns(r, h)
  /\ saw' = [saw EXCEPT ![r] = landed]
  /\ UNCHANGED storeVars

SearchStep(r, k) == Score(r, k) \/ Count(r) \/ Query(r, k) \/ Embedded(r, k)
=============================================================================
