# A TLA+ model of vaz-ai-next

This directory specifies the parts of vaz-ai-next in which several processes or
tasks share state. Three systems are covered:

- the **durable agent jobs** with their human approval, from the approve route of
  the web tier through Postgres and the durable engine to the worker that
  executes the plan, and from the worker's progress events back to the browser;
- the **RAG routes of the Python API**: answer cache, single flight, the
  corrective run and the three vector stores, with ingests going on;
- the **chat routes of the Python API** over the session stores, and the life of
  the **API process** around them: settings, startup, shutdown, rate limit and
  readiness.

TLC checks small instances completely; TLAPS proves the main safety properties of
all three for every value of the constants.

## 1. The system

A TypeScript monorepo with two Python services. What follows lists its parts,
the state each keeps and how they talk.

| Part | State | Operations | Talks to |
|---|---|---|---|
| **Job worker** (`apps/worker/src/main.ts`, `packages/agents/src/supervisor.ts`) | locals of one invocation: plan position, waiting citations | `runJob`, `dispatch`, approval step runner, instrumented sink | rows, engine, event sink |
| **Job rows** (`apps/worker/src/stores.ts`, `packages/db`) | `job`, `job_step`, `job_event`, `audit_log` | `insert`, `registerPending`, `recordStepUsage`, `claimPending`, `append` | Postgres |
| **Approve route** (`apps/web/.../approve/route.ts`, `lib/approvals.ts`, `lib/jobs.ts`) | one request at a time each | authorise, parse, claim, audit, submit | rows, engine |
| **Engine adapter** (`apps/worker/src/inngest.ts`) | none; Inngest keeps runs, checkpoints, waits, event ids | approval gate, job function, `submitJob`, `submitApproval` | Inngest |
| **Event stream** (`events.ts`, `publisher.ts`, `stream/route.ts`, `useJobStream.ts`, `ApprovalPanel.tsx`) | event history, Redis channel, browser list | append, publish, subscribe, fold | worker, Redis, browser |
| **RAG answer cache** (`services/api/.../rag_cache.py`) | cache, pending futures | `run` | corrective run, vector store |
| **Corrective run** (`corrective_rag.py`, `rag_llm.py`, `citation.py`) | per run: search count, retrieved ids, hits | search, evaluate, synthesise | vector store, models |
| **Vector stores** (`services/api/.../vector_store`) | documents, ordinals, generation, derived vectors | add, query | Chroma, Ollama |
| **RAG routes** (`api/v1/rag.py`) | none | ingest, query with a deadline | store, cache |
| **Session stores** (`session_store`) | histories, access times, locks | get, save (trim, evict), cleanup | Redis |
| **Guarded run** (`guardrails.py`) | messages, usage, audit trail | ask the model, call a tool, stop | pydantic-ai |
| **Chat and stream routes** (`agent.py`, `_stream.py`, `session_service.py`) | per stream: queue, producer task | chat, stream, heartbeat | session store, guarded run |
| **Settings** (`config/`, `llm/factory.py`) | one frozen object | validate, build the model chain | environment |
| **Lifespan** (`lifespan.py`, `stores/factory.py`) | resources on `app.state`, cleanup task | start, dry run, shut down | Redis, Ollama |
| **Rate limit, readiness** (`rate_limit.py`, `health.py`) | counts per address; cached probes and a lock | count, probe | proxies, services |
| **Chat agent** (`packages/agents/src/chat-agent.ts`, tool policy, audit hook) | none between turns | stream a turn, ask for tool approval, audit | AI SDK, tools |
| **RAG ingest** (`packages/rag`) | `document`, `chunk` | ingest, ingest via parser, retrieve | Postgres, embedder, document service |
| **Migration runner** (`packages/db/bin/migrate.ts`) | `_vaz_migration`, advisory lock | lock, apply, unlock | Postgres |
| **Document service, evals, tools, web chat** | none of their own | | |

### The durable job

A client submits a plan; the engine invokes the job function. The function
*replays*: it runs from its first line after every checkpoint, wait and failure,
and only `step.run` results and `waitForEvent` answers survive. For a step under
approval the worker inserts a `pending` row, then waits for a `job/approval`
event. An operator posts a decision, or a set of them, to the approve route,
which consumes the rows in one transaction, judges the token budget, writes the
audit log and sends one event per decision. The engine matches events to open
waits. Between any two awaits of one party, every other party may move, and each
may die.

What is hard there: a row is claimable before the wait is open; the claim, the
budget verdict and the event are three separate steps of a process that may die
between them; events are deduplicated by an id that does not name the decision;
every line of the worker outside a checkpoint is executed many times; and a
plan may use a step id twice.

Each event the worker publishes is appended to `job_event` and then published on
the job's Redis channel; either may fail, and the worker goes on. The stream
route of a page subscribes to the channel, forwards what arrives and closes the
stream at a job-level event; the hook collects.

What makes it correct: no gated step runs without an approval that consumed its
row, and then with the arguments of that approval; a row is decided once; a
refused request never resumes anything; a decision set is taken whole or not at
all; replays repeat the same calls; the token sum is exact; the progress stream
tells the truth; every job ends; no page knows more than the history; a page
that is told of the end is told the truth.

### The RAG routes

`query` derives a cache key from the question, `max_retries` and the store's
generation. It is answered from the cache, or joins the future of a request that
runs for the same key, or runs and answers those who join. The run searches,
asks a model whether the hits suffice, searches again with a wider k, and
synthesises. The route cancels it at its deadline. Meanwhile `ingest` changes the
store. One event loop: a step lasts from one await to the next.

What is hard: the key is derived before the corpus is read, and a store's content
and generation change at different times; a leader may be cancelled at any await
while others wait for its future; derived vectors come back from a worker thread
after the corpus has changed; ordinals name chunks across failures and evictions.

What makes it correct: an answer knows what was acknowledged before the request
came; one run for a key; a future somebody waits for has somebody to resolve it;
the cache is bounded; derived state matches the documents; an id names one chunk;
an answer cites hits of its own run.

### Chat and stream

A turn reads the history of its session, runs the agent for seconds and saves the
whole history back, trimmed. In memory the store evicts at `max_sessions` and a
cleanup task expires idle sessions; Redis expires keys on its own. A stream has a
producer task, which drives the run and fills a queue, and a consumer, which
polls the connection, waits for an event with a timeout, yields it and cleans up.

What is hard: two turns of one session; trims that must not separate a tool return
from its call; a save that took effect and whose answer was lost; a stream that
ends at any await of its consumer, in any state of its producer.

### The process

`Settings` is validated once; `lifespan` builds the resources, asks external
stores once, starts the cleanup task and the model chain, and undoes it on the
way out and when the start fails half way. The readiness route caches its probes
behind a lock; the LLM routes count requests by client address before they look
at the key.

## 2. Modules

    Workflow            plans and decisions (packages/schemas)
      JobStepStore      the rows of one job            ApprovalEvents   the events
          \                                             /        \
           ApproveRoute --------------------------------        DurableEngine
          /      \                                                 |
    ApprovalClaims  \                                          JobWorker
                     DurableJob ---------------------------------/
                              \__ INSTANCE ApprovalContract

    JobStream           JobWorker with its sink, the channel and the pages

    VectorStore -- CorrectiveRag -- RagService -- RagService_proofs
    SessionStore -- AgentRun -- ChatService -- ChatService_proofs
    Settings -- Lifespan --\
    RateLimit --------------- ApiProcess -- ApiProcess_proofs

The proofs of the durable job follow the same layers, so that what a request or
an invocation does is proved once for every module that composes it:

    ApproveRoute_proofs     what a step of a request keeps
      ApprovalClaims_proofs
      DurableJob_proofs  --  JobWorker_proofs     what a step of the worker keeps
                               JobStream_proofs

| Module | Models | State and actions |
|---|---|---|
| `Workflow` | `workflows.ts` | the constants: step ids, the plan, edits. A step is an id, a kind and whether a document brings its own citations |
| `JobStepStore` | `stores.ts` | `jobRow`, `approvalState`, `stepTokens`; one operator per statement or committed transaction |
| `ApprovalEvents` | `submitApproval` and the engine's event intake | `acceptedIds` (deduplication), `signals` (accepted, not yet processed) |
| `ApproveRoute` | the approve route | a program counter per request: `ReceiveApproval`, `ReadSpend`, `ClaimMismatch` or `ClaimCommit`, `AuditDecisions`, `SendDecision` per decision; `ClaimFails` (rolled back, or committed with the acknowledgement lost), `SendFails` (before or after the engine took the event), `WebCrash` |
| `DurableEngine` | what the code relies on of Inngest | `runState`, `attempt`, and per plan position `wait`, `answer`, `memo`, `memoUsage` |
| `JobWorker` | `runJob`, step runner, `dispatch` | `pc` names the await an invocation is at; `handoff` and `cites` are the citations of `dispatch`; `DatabaseFails`, `WorkerCrash` |
| `DurableJob` | all of it together | the composition, its fairness and its properties |
| `JobStream` | sink, publisher, stream route, hook | `sink` (the event the worker waits for: append, then publish), `history`, and per page `stream`, `wire`, `hook`, `events`; `AppendEvent`, `PublishEvent`, `OpenStream`, `Subscribe`, `Forward`, `CloseStream`, `StreamBreaks`, `LoseMessages`, `Leave`, `CancelStream` |
| `ApprovalClaims` | route and rows without `dispatch` | any worker that may register any step: what the route and the store promise by themselves |
| `ApprovalContract` | the abstract specification | a verdict per step, given once; an execution needs an approving verdict and has its arguments |
| `VectorStore` | the three stores, the ingest route | `documents`, `ordinals` or `idToOrdinal`, `generation`, `vectors`; per ingest where it is, per request the await of its search (`scan`) and what it read before it (`snapshot`); `AddInMemory`, `AssignOrdinals`/`CollectionAdds`/`AddReturns`, `AskEmbeddings`/`EmbeddingsReturn`, `Score`, `Count`, `Query`, `Embedded` |
| `CorrectiveRag` | one run | `run`, `searchCount`, `retrieved`, `attempt`, `found`, `answer`; `Search`, `Evaluate`, `RetryCall`, `Verdict`, `Synthesize`, `RunRaises` |
| `RagService` | `rag_cache.py`, the query route | `cache`, `pending`, `future`, and per request `pc`, `key`, `leader`, `status`; `ServeCached`, `Join`, `Lead`, `Finish`, `LeaderRaises`, `LeaderTimesOut`, `FollowerResumes`, `FollowerTimesOut`, `Bypass`, `GrowStale` |
| `SessionStore` | both session stores, `_trim.py` | `store`, `lastAccess`, `locks`; `GetHistory`, `SaveHistory`, `Expire`; `TrimHistory` |
| `AgentRun` | `run_guarded` and the loop it drives | a record per turn: stage, messages, usage, audit; `AskModel`, `CallTool`, `RunFails` |
| `ChatService` | `agent.py`, `_stream.py`, `session_service.py` | per turn `session`, `status`, `queue`, `sent`, `producer`, `reader`; `Continue`, `StartSession`, `LoadFails`, `Save`, `SaveReturns`, `Reply`, `ChatTimesOut`, `ProducerEnds`, `Wait`, `Get`, `GetTimesOut`, `ReadOn`, `Disconnect`, `Leave`, `Cleanup` |
| `Settings` | `config/`, `llm/factory.py` | `Valid`, `Normalized`, `FallbackModel`: operators only |
| `RateLimit` | `rate_limit.py` | `ClientIdentifier`, `Hit`: operators only |
| `Lifespan` | `lifespan.py`, `factory.py` | `phase`, `todo`, `held`, `sweeper`; `LoadSettings`, `StartupStep`, `StartupFails`, `Sweep`, `CancelCleanup`, `CloseResource`, `CloseRaises` |
| `ApiProcess` | `main.py`, `health.py` over the two above | `line` and `holder` of the readiness lock, `cached`, `checks`, `buckets`; `CallLlm`, `AskReady`, `ServeCached`, `ProbeAnew`, `ProbeReturns`, `ProbesEnd`, `Tick`, `ServiceChanges`, `BeginShutdown` |

Correspondence, where it is not literal:

Durable job

- A body that waits (`AskForApproval`) reports to the engine in a separate
  step (`ParkRun`). Between them lies the window in which an approval is lost.
- Checkpoints and waits are indexed by plan *position*, rows and events by step
  *id*: Inngest numbers the repeated ids of one function body, the primary key
  of `job_step` and the event id do not.
- History variables: `claimedBy` (who consumed a row), `ran` (specialist
  calls with their arguments and citations), `emitted` (the set of events given
  to the sink). No guard reads them.
- A specialist returns, with or without a token count, or throws; `llmVerify`
  accepts or rejects, anew at each replay, because it runs outside `step.run`.
- A decision's `args` are a model value; `BadEdits` are those
  `specialistInputSchema` rejects, after which the step fails and is retried.
- The budget is judged after the commit, as in `claimApprovalTargets`: a 429
  leaves the rows consumed.
- The callers of the route are those authentication, rate limit and ownership
  let through; before the job row exists they get 404.
- In `JobStream` the worker is that of `JobWorker`, but takes no step while the
  sink has an event; the approve route is the one step `SubmitDecision`. A page
  opens one stream. Redis delivers in order to whoever is subscribed at the
  moment of publication; a lost connection loses what is under way.
- `start.ts` registers the worker with `requiresApprovalForKind: () => false`:
  the gate is wired, and no kind is flagged yet. The model takes the flagged ids
  and kinds as constants, so it speaks of the mechanism and not of that setting.

RAG

- The asyncio locks of the cache and of the store in memory guard code without an
  await, so nobody ever waits for one and they are not variables.
- A future is named by its leader. `ServeCached`, `Join` and `Lead` are what
  `run()` does before its first await, the eviction of expired entries included.
- The cache is a set of entries; `used` is an entry's place in the `OrderedDict`.
- Scores are abstract: any k chunks may be the best k. A text is abstract, a
  prompt's budget may cut the hits anywhere after the first.
- A search that was cancelled may go on in its thread. All it could still do is
  publish vectors, which the generation guard decides, so the step is left out
  with the cancelled request.
- The engine's own workflow timeout is an outcome of `RunRaises`.
- History variables: `acked`, `landed`, `saw` (which ingests a search was over),
  `must` (which were acknowledged before the request derived its key).

Chat

- `StepStarted`, `ToolCalled` and `Token` are one event, `progress`; a reply of
  the model holds one part. No caller passes an allow-list or an approval hook.
- A Redis command that is cancelled on its way lands at once or never. A failed
  `get` exists in Redis only: a chat answers 500, and a stream, whose response has
  started by then, is aborted.
- The producer yields its last event, leaves `Agent.iter()`, closes the generator and
  only then puts the done marker: the last event comes with the stage of the run,
  the marker in a step of its own (`ProducerEnds`), in which leaving the run may
  raise. In between the consumer may send the last event and time out.
- The consumer is at `get` until it has to wait for an event (`Wait`). The timeout
  may fire with an event on the queue, put in the same pass of the event loop: the
  event is then lost. The poll of the connection may end the stream wherever the
  consumer is at `get`.
- A client that goes while an event is yielded leaves the event source to its
  finalizer: the cleanup is a later step, and until then the producer goes on.
  Nothing in the code cancels the producer but that cleanup.
- `trim_history`'s ids are pairs of a turn and a number. The times of
  `_last_access` are an order.
- History variables: `saved`, `forgotten` (what trims, evictions and expiry
  dropped), `rivals` (of a saved turn: the turns that have read the history of the
  session without it and may yet save theirs over it; when such a save brings a
  forgotten turn back, those that read in between are added).

Process

- A secret is how strong it is, a host pattern its form, a model its provider.
- The default limit of slowapi, the body limit and the host check are one refusal
  (`TurnedAway`): their counts are a library's and nothing else reads them.
- `enforce_llm_rate_limit` is a dependency of the route and `verify_api_key` runs
  after it, so a wrong key uses up the bucket of its address.
- The fixed window of `limits` begins at the first hit and counts refused hits.
- Probes run concurrently and each ends by the timeout of its client.
- History variable: `admitted` (the requests the limit let through, of whom and
  when). `MaxClock` and the guard of `Tick` bound time; the quota is per client.

## 3. Runs

Every pass run explores its instance completely.

| Run | Instance | Question |
|---|---|---|
| `job` | research, then a gated document; two requests, seven bodies; 1 retry; verification on | types; only an approval lets a step run; the same input on every replay; truthful progress; published work stands; consume once; refinement of `ApprovalContract` |
| `two_gates` | two gated documents; decision sets over both; budget 1, usages 1 and 2; under fairness | at most one row is pending, so a set of two is never claimed; a refused request never resumes; the token sum is exact; every job ends |
| `handoff` | research, two documents, a gated step without an approval gate | citations reach exactly one document, also on replay |
| `claims` | `ApprovalClaims`: three steps, two requests, overlapping sets, budget 2 | all or nothing; events match claims |
| `stream` | one gated document, one page; one failed append, publish or delivery; under fairness | a closed stream belongs to an executed plan; no page is ahead of the history; a page subscribed in time learns of the end |
| `rag` | two queries of one question, two ingests of one chunk; each backend with the cache, one without | types; answers know what was acknowledged; one run per key; awaited futures have leaders; bounds; ids, vectors and citations |
| `chat` | a chat and a stream of one caller; sessions of the caller, of another, and one to mint; memory and Redis; under fairness | kept turns; well-formed histories; limits; ownership; audit; completion means saved; the end is told; no orphan; every stream ends |
| `process` | 158 configurations; three requests, two proxies, forged headers; services going down or up | nothing left open; cleanup has its store; settings suffice; bounded admissions; recent answers; spaced probes |
| `lost_approval` | violation | an accepted approval that resumes nothing |
| `disguised_step` | violation | a flagged step that runs unapproved because a later step reuses its id |
| `failed_stream` | violation, under fairness | a stream that outlives the failed job |
| `tool_calls` | violation | a turn without a tool call that reports those of an earlier one |

Bounds, and why they are enough for these questions.

*Durable job.* One job: jobs share no row, wait or event. Two to four plan steps:
one or two gates after other steps, and a handoff followed by a document that
must not get it. Two requests, interchangeable where `RequestSymmetry` is used:
conflicts are between two claims of one row, and a third request meets a consumed
row as the second does. One retry instead of `JOB_FUNCTION_CONFIG.retries = 3`:
enough for a failure that is survived and one that is not. Token counts around
the budget. Steps, crashes and failures are otherwise unbounded: attempts start
afresh when a run makes progress, and the number of positions bounds the
progress. `CHECK_DEADLOCK FALSE` in these runs, because a job that has ended and
whose requests are answered stops; `claims` checks deadlock.

*Stream.* One page: pages share nothing but what they are sent. `MaxFaults`
bounds failed appends, failed publications and lost deliveries together; one is
enough for a page to miss any one event. The worker's own faults are those
above. One gated step makes the replays: its wait and its checkpoint each end an
invocation, and every failure may repeat what was published.

*RAG.* Two requests make leader and follower, or leader and a later leader; the
theorems cover any number. Two ingests and room for one document in memory make
an eviction; two searches of k 1 and 2, two attempts of a model call, a cache of
one entry make each limit bite. Requests and ingests happen once, so the system
stops.

*Chat.* Two turns are the smallest race for a session, and one is a stream. Five
messages are fewer than two turns with a tool call, so histories are trimmed, and
trimmed again. One session in memory makes every second one evict. Two requests,
two tokens, one tool call and costs 1 and 2 reach each limit on both sides; three
events reach the cap before and after the end of a run.

*Process.* Two seconds of time, a ttl of 2 and 0, and a window of 2: a result or a
window may just have ended or just not. Three requests: one probes, one queues,
one comes later, interchangeable. One change of a service: an answer speaks of
before it or after it. The configurations vary a sound one in the fields that
bear on each other; four of them are valid, in memory and with services, with
cached probes and without.

### Fairness

`JobTerminates` assumes that the engine invokes a queued run, processes the
events it accepted and closes a wait when its window (7 days by default) is
over, and that an invocation which is not interrupted gets on: every await of
it returns or throws. Nothing is assumed of the operators, the web process or
the absence of faults. Faults are bounded by the engine: it gives up after
`retries` of them without progress. That is also why the property needs no
strong fairness.

`EndIsSeen` and `FailureEndsStream` assume besides that the awaits of the sink
return or throw, that a stream which does not break gets its subscription, and
that a message on the wire reaches the subscriber. Nothing is assumed of the
pages: they may never open, and leave at any time.

`StreamEnds` assumes that the consumer's wait ends by an event or by
`sse_send_timeout`, that the client reads on or its connection ends, that a
dropped generator is finalised, and that the cleanup ends. Nothing is assumed of
the model, the tools or Redis: the producer may hang for ever, and is cancelled.

## 4. Properties

The type invariants are `TypeOK`. The others:

Durable job

- `ApprovedBeforeRun`: a gated call carries the arguments of an approval that
  consumed its row within budget. It relates the worker's calls to a request
  that may be long gone, through row, event, wait and replay.
- `RefusedNeverResumes`: also when the request did consume the row (429).
- `ConsumeOnce`: against `registerPending` on every replay.
- `ClaimIsAllOrNothing`, `EventsMatchClaims`: overlapping sets that race, sends
  that fail half way.
- `ReplaysSameInput`, `HandoffExact`: `dispatch` rebuilds its locals from
  checkpoints only, so arguments and citations are those of the first attempt.
- `SpendIsExact`: the sum a claim reads counts each completed step once. It is
  about plans with distinct ids: two steps with one id share a row, in which the
  usage of the later replaces that of the earlier.
- `OneStepAtATime`: a consequence that a reader of the set form of the approval
  request may not expect: with the sequential `dispatch`, a set over two gated
  steps is answered 409, always. It states a limitation of the code.
- `ProgressIsTruthful`: no completion before its checkpoint, none out of order.
- `PublishedWorkStands`: a replay of the body runs the verification of a document
  anew and publishes again, and may fail the job after its completion was
  published (section 5); whatever it does, no later step changes the checkpoint of
  a step whose completion was published, or calls its specialist again.
- `JobTerminates`: an operator who never answers, a lost approval and a request
  that died with its rows consumed all end in the expiry of the wait.
- `ClosedMeansDone`: across replays, which publish the terminal event again, and
  publish progress after it, while the unsubscribe is under way.
- `HistoryFirst`: also when the worker dies between append and publication.
- `EndIsSeen`: a worker that dies before the terminal event is published leaves
  it to a replay; a subscribed page is told all the same.
- `ImplementsContract`: refinement of `ApprovalContract`, with the verdict of a
  step taken at the commit of the claim that consumes its row.

RAG

- `ReadsAckedIngests`: the generation is in the key, so neither the cache nor a
  run under way may answer with less than what was acknowledged when the request
  came. It holds although a store's content changes before its generation.
- `OneRunPerKey`, `AwaitedFutureHasLeader`: through deadlines that cancel leaders
  and followers at any await. A request that comes after a cancelled leader leads.
- `CacheBounded`, `VectorsMatchDocuments`, `IdsNameChunks`, `AnswersAreGrounded`:
  what the caches and names stand for after evictions, failures and stale results.

Chat

- `TurnsAreKept`: a saved turn is lost only to a trim, an eviction, an expiry or a
  turn that had read the history before and was saved after. That last case is
  real: two overlapping turns of one session do overwrite each other. With three
  turns a stale save can also bring a forgotten turn back, after which a turn that
  began in between drops it again; no run has three turns, and it was the proof
  that asked for `rivals` to cover it.
- `HistoryWellFormed`: over histories that were trimmed before; the opening
  message is kept and the cut moves on until no return has lost its call.
- `StoreWithinLimits`, `SessionsAreOwned`, `StopsAreAudited`.
- `CompletedMeansSaved`: the converse does not hold; a client that saw an error
  may find its turn in the history.
- `EndIsTold`: nothing follows a terminal event but one `error`, which is last; all
  is within the cap; and a stream that ends because its producer ended has sent
  one terminal event, as its last, so that none ends in silence. "At most one
  terminal event" is not true of the code, see section 5.
- `NoOrphanProducer`, `StreamEnds`: wherever the stream ends. A closed stream has
  awaited its producer.

Process

- `NothingLeftOpen`, `CleanupHasItsStore`: for every point at which a start fails
  and every set of closes that raise.
- `LoadedSettingsSuffice`: the validators run once, the fallbacks are built from
  unvalidated copies; what loads is enough for them.
- `LlmAdmissionsBounded`: for requests through zero, one or two declared proxies
  and any forged header, once settings are loaded. Twice the limit is what a fixed
  window gives to the seconds of one window that straddle two; in the
  run (limit 1, window 2, clock up to 2) one admission is all a window length ever
  sees, and the theorem covers the other values.
- `AnswersAreRecent`: the expiry counts from the start of the probes, so that a
  slow probe makes its result old rather than long-lived.
- `ProbesAreSpaced`.

## 5. Where code and words differ

Four runs end in a violation; each states a sentence of the repository.

1. `lost_approval`. `registerPending` commits before the wait exists. An
   approval claimed and sent in between is accepted by the engine, matches no
   wait and is gone; the row is consumed, so nobody can approve again, and the
   step expires. `submitApproval` says the event resumes the suspended wait. The
   INV-1 comment (`main.ts:263`) rules out an await between the two calls of the
   worker, which does not close the window; the closeout plan in `specs/007`
   accepts the residual risk of a consumed row without an event, and
   `JobTerminates` shows that such a job still ends.
2. `disguised_step`. The plan schema does not ask the ids to be distinct, and
   the map from id to kind keeps the last. A flagged step whose id a later step
   reuses is not gated. The planner mints fresh ids; the schema is what a job
   request is checked against.
3. `failed_stream`. The stream route closes at an `error` without `stepId`;
   `dispatch` publishes none.
4. `tool_calls`. `ChatResponse.tool_calls_made` counts the calls in all messages
   of the result, the loaded history included, and none of a stopped run.

Differences that are known from reading and modelling the code, without a run:

- The sum a claim is judged by is read by one statement, the rows are consumed
  by a later one and the budget is compared after the commit; the comment of the
  route (D3) puts all of it in one transaction. The model has the window.
- Nothing reads `job_event`, though `events.ts` and `schema.ts` say that the
  stream route replays it: a page that subscribes late is not shown what was
  published before. Replays of the function body hide this in part.
- `findPendingStep` ignores the order of events: the error of an attempt that
  failed before the gate hides the step in all later ones.
- `health.py:74` says that callers arriving on an expired cache share one probe
  run. The expiry counts from the start of the probe, so when a probe takes the
  ttl or longer, each caller in the queue finds the result expired already and
  probes in turn. `ProbesAreSpaced` holds nevertheless.
- An `error` can follow `completed`, or another `error`. The producer puts its last
  event (`_stream.py:260`) before it leaves the run and puts the done marker
  (`:262-263`). If leaving takes `sse_send_timeout`, or raises, a client that has
  read `completed` gets an `error` as well, although `services/api/README.md:282`
  calls `completed` the terminal event and `sse.py:65` calls `error` the terminal
  event "when the stream fails". The turn is saved all the same
  (`CompletedMeansSaved`). `EndIsTold` is what remains true.
- The timeout of the stream may fire in the pass of the event loop in which an
  event was put; the client is told of a timeout, and the event, `completed`
  included, is dropped.
- A job may fail after its success was told. Its job-level completion is published
  before the function returns, and the completion of a document before the steps
  after it; `llmVerify` is outside `step.run` and is asked again on every replay,
  so it may reject what it accepted before. The stream of such a job has closed at
  the completion, or shows the step first as complete and then as failed.
- A RAG answer made of fallbacks, because the models did not answer, is cached
  like any other until it expires.
- The event cap of a stream ends it without a terminal event.
- `OllamaEmbeddingVectorStore` pairs documents and embeddings by position and
  does not compare their numbers; the model takes the service to return one
  vector per chunk.

## 6. Proofs

All theorems hold for every value of the constants that satisfies the assumptions
of the modules: any plan, set of operators, requests, ingests, chunks, limits and
number of retries.

| Theorem | States |
|---|---|
| `TypeCorrect` (`DurableJob_proofs`) | `Spec => []TypeOK` |
| `ApprovalIsSafe` | `Spec => []ApprovedBeforeRun` |
| `RefusalIsFinal` | `Spec => []RefusedNeverResumes` |
| `ConsumedForEver` | `Spec => ConsumeOnce` |
| `ProgressIsTrue` | `Spec => []ProgressIsTruthful` |
| `PublishedIsFinal` | `Spec => PublishedWorkStands` |
| `HandoffIsExact` | `Spec => []HandoffExact` |
| `ReplayIsDeterministic` | `Spec => []ReplaysSameInput` |
| `StepsComeOneByOne` | `Spec => []OneStepAtATime` |
| `SpendingIsExact` | for a finite set of step ids, none of them twice in the plan: `Spec => []SpendIsExact` |
| `JobImplementsContract` | `Spec => ImplementsContract` |
| `ClaimsAreAtomic` (`ApprovalClaims_proofs`) | `Spec => []ClaimIsAllOrNothing` |
| `EventsTellClaims` | `Spec => []EventsMatchClaims` |
| `HistoryComesFirst` (`JobStream_proofs`) | `Spec => []HistoryFirst` |
| `ClosedIsDone` | `Spec => []ClosedMeansDone` |
| `StreamTypesHold` | `Spec => []TypeOK` |
| `TypeCorrect` (`RagService_proofs`) | `Spec => []TypeOK` |
| `AnswersAreFresh` | `Spec => []ReadsAckedIngests` |
| `HerdIsTamed` | `Spec => []OneRunPerKey` |
| `NoFutureIsOrphaned` | `Spec => []AwaitedFutureHasLeader` |
| `CacheIsBounded` | `Spec => []CacheBounded` |
| `VectorsAreCurrent` | `Spec => []VectorsMatchDocuments` |
| `AnswersCiteTheirHits` | `Spec => []AnswersAreGrounded` |
| `IdsAreNames` | `Spec => []IdsNameChunks` |
| `TurnsKept` (`ChatService_proofs`) | `Spec => []TurnsAreKept` |
| `HistoriesAreSound` | `Spec => []HistoryWellFormed` |
| `StoreIsBounded` | `Spec => []StoreWithinLimits` |
| `HistoriesAreOwned` | `Spec => []SessionsAreOwned` |
| `CompletionIsSaved` | `Spec => []CompletedMeansSaved` |
| `TheEndIsTold` | `Spec => []EndIsTold` |
| `NoRunOutlivesItsStream` | `Spec => []NoOrphanProducer` |
| `StopsRecorded` | `Spec => []StopsAreAudited` |
| `EverythingIsClosed` (`ApiProcess_proofs`) | `Spec => []NothingLeftOpen` |
| `CleanupIsSafe` | `Spec => []CleanupHasItsStore` |
| `LoadedSettingsAreEnough` | `Spec => []LoadedSettingsSuffice` |
| `ProbesSpaced` | `Spec => ProbesAreSpaced` |
| `AnswersRecent` | `Spec => AnswersAreRecent` |
| `AdmissionsAreBounded` | `Spec => []LlmAdmissionsBounded` |

**Durable job.** The assumptions are `WorkflowAssumption`, `RouteAssumption`,
`EngineAssumption` and `WorkerAssumption`; except in `SpendingIsExact`, step ids
need not be distinct.
`Shape` strengthens `TypeOK` with what the types of the next state
need: an invocation between two steps is within the plan (`InPlan`), and a
request that sends has a decision left (`Unsent`). `Custody` follows a decision
from hand to hand. A claimed row is consumed and has one holder (`RowsHeld`);
whoever audits or sends holds all its rows, within budget (`SendersHoldRows`);
so every signal, and every answer a wait was resumed with, is a decision of the
holder of that row (`SignalsDecided`, `AnswersDecided`); an invocation past the
gate has an approving answer (`PastGate`); hence `ApprovedBeforeRun`. None of
these is inductive without the others: `ApprovedBeforeRun` alone says nothing of
an event that is under way. Two facts carry the steps. A request that holds a
row never changes its body or the sum it read (`HoldersFrozen`), so what was
decided stays decided (`DecidedForGood`); and no action returns a consumed row
to pending (`ConsumedForGood`), where `registerPending`'s conflict clause and
the all-or-nothing count (`AllPendingMeansAll`, by cardinality: as many rows
matched as there are decisions, so all of them did) are used.

The worker by itself has three invariants, proved for its steps in
`JobWorker_proofs` and carried past the steps of the others by what those leave
alone (`OutsideTheWorker`). `Progress`: an invocation has published the completion of
every step before its place (`Walked`), completions follow their checkpoints in
the order of the plan (`InOrder`), and the end of the plan comes after them all
(`PlanThrough`). `Gates`: an invocation has passed answered gates only (`GateWalk`),
answers are for good and specialists were called with the edits they carry
(`EditsOfAnswers`), and a row is pending at a gate only that answered ones led
to (`PendingAtGate`). `Handing`: what waits for a document is a
function of the plan and the place (`Queue`: the research since the last document
that takes citations), and so is what a document is given; a replay, which starts
with an empty queue, therefore rebuilds the same one (`QueueGrows`). The arguments
and citations of two calls of one step are then the same (`ReplayIsDeterministic`).
Of two pending rows, the gate of the one would lie before that of the other and be
answered, hence claimed; so there is one at most (`OnePending`), and a claim decides
one step (`ClaimsOne`).

`SpendingIsExact` needs that the ids are distinct (`DistinctSteps`): the run
`disguised_step` has a plan where one id is twice, and there the sum is not exact.
`Counted` says that a row holds the count of its step's checkpoint or nothing, and
holds it before the completion is published. That two sums over the same counts are
equal is a fact about `SumFunction`, which picks an element at a time: sums over
finite sets exist (`SumDefined`), take in an element whatever was picked first
(`SumTakes`), and do not grow when each term is put against one as large (`SumInto`). The library's induction is
not at hand; the lemmas take a least counterexample (`LeastNumber`), where the set
of the sizes at which a statement fails stands for the statement.

`PublishedIsFinal` is a fact about single steps (`PublishedKept`): a completion that
is published has its checkpoint, a checkpoint is written only where there is none,
and an invocation that calls a specialist is at a position without one.

For the refinement, `Naming` adds that a body past the duplicate check names
each step once and that a holder's body names its row; a verdict is then a
function of the holder, is given once (`VerdictKept`), and each step of the job
is a `Decide`, an `Execute` or a stutter (`ContractStep`).

**Claims.** The route with a worker that may register anything, and so with overlapping
sets that are really pending together. `Claims` adds to the two properties that a
request before its claim holds nothing and has not answered (`NothingYet`), and
`RowsHeld`, which `Custody` uses too. The assumption `ClaimsAssumption` is that counts
are natural numbers.

**Stream.** `HistoryComesFirst` needs no type of the worker. `Known`, the history and what
it failed to take, only grows (`KnownGrows`); `Behind` says that an event past
its append, the messages under way and the lists of the pages are known. It is
inductive because the sink holds one event and awaits its append. `ClosedIsDone`
follows an event without a step, which is the end of the plan, from the sink
(`SinkTells`) over the wire (`WireTells`) to the pages (`PageTells`): wherever there is
one, every step has its checkpoint (`Through`), which `Progress` says of the moment
the worker publishes it and which no later replay undoes. A closed page has it last
and once.

**RAG.** `Shape` strengthens the types with the length of the ordinals (`Aligned`),
with when a request has an answer, a key and a run (`Answered`, `Named`, `Idle`).
`Leadership` says that the entries of `pending` and the leaders at work are each
other's, key by key, and that a follower's leader is at work or has resolved its
future; single flight and the awaited futures follow. `AnswersAreFresh` rests on
`Reads`, which ties the generation to content: an ingest acknowledged at
generation g has landed, and g is at most the current generation (`StoreReads`);
a run's search, begun at or after its key was derived, saw every ingest
acknowledged at or below the generation in the key (`RunReads`), and so did the
answers waiting in a leader (`FollowReads`) and in the cache (`CacheReads`). A
request whose key has generation g need know no ingest acknowledged above g, so
any answer filed under its key will do. It is the key that makes
this inductive: without the generation in it, nothing relates a cached answer to
the request it is served to. `CacheIsBounded` needs that the places in the order
are distinct, so that one entry is the least recently used. `IdsAreNames` is about
ordinals given by position, by a counter or by a table. `Catalogued` says that there
is one numbering of all chunks that were ever given a number, evicted ones
included, that gives no number twice and stays below the next one (`Numbering`), and
that everything with an ordinal agrees with it (`HeldIn`): the store, snapshots and
hits of searches under way, answers and cached answers. An ingest extends it
(`Extended`) and nothing else changes it. `OccurrenceAssumption` says that a chunk
stands for one place of one ingest; equal texts are different chunks.

**Chat.** The assumption is `ChatAssumption`: the cap of a stream is at least one, as
the validator of `sse_max_events` demands. One invariant, `Conduct`, carries the
four theorems about runs and streams, turn by turn (`OneTurn`). `Outcome` ties the reason, the audit
trail and the save to the stage of a run, `Standing` the stage to the status and
the consumer, `Truthful` the word "completed", queued or sent, to a saved turn.
`Standing` has what a producer is at (`Driven`): it drives as long as
the run goes on, is not done before, and returns only from a run that told its end.
`Relay` is what `EndIsTold` needs. A terminal event may be sent while the done
marker is on its way or not yet put, so sent and queued events are described
together: as long as the consumer attends, what it has sent followed by what waits for
it (`Story`) is what the producer has put so far (`Tale`), which is progress, then one
terminal event if the run is saved or its save failed, then the marker if the
producer is done. What is put extends the tale (`TaleGoesOn`, `TaleIsDone`), what is
read leaves it as it is (`TaleIsPassedOn`), and what was sent of it has a terminal
event at most at its end, and there for certain once the marker of a producer that
returned is read (`TaleSoFar`). A timeout breaks the tale off and adds one error, after
which the consumer reads no more.

The four about the store rest on what trimming does. `OnlyIn`, the filter of
`_trim.py`, returns the messages it keeps in their order (`Picks`, by a least prefix
at which it would not), so a trimmed history is within the limit, keeps only
messages it had, and is `Sound` when it was: every return has its call before it, and
no call is there twice. `Chapters` says so of every stored history (`Bound`) and of the
messages of every run (`Telling`), whose own calls are numbered below its requests,
and that both speak of turns of that session and its owner. `Indexed` is the store in
memory: never more sessions than `max_sessions`, each in `_last_access` and with a lock.
`Keeping`: a saved turn is in the history of its session, and whoever may still save a
history without it is a rival of it (`Stays`); or it was forgotten, or a rival was
saved. `HistoryAssumption` says that the absence of a history is not a history.

**API process.** `RawAssumption` says what types a raw configuration has,
`ProcessAssumption` that `Dawn` is before any time an answer may look back to, and that
clients have addresses and paths are sequences of them.
`Course` says that what is left of a start or a shutdown is a suffix of its
steps, `Openings` what is open at each place of it (`Life`). The settings: a
validated configuration is still valid when normalized (`NormalizedValid`), and
each model of the chain is the primary one or a fallback (`ChainOf`). Readiness:
`Exclusive` says that the one who probes holds the lock and that a free lock means
the last probes are in the cache under their start plus ttl; `Found` and `Kept`
say that a result, in the making or in the cache, was true of its service at
some time since those probes began, which time and outages preserve
(`SightingsKept`); `Lined` that a request waits once. The rate limit: where the proxies
on the way are the declared ones, the walk over `X-Forwarded-For` ends at the client,
whatever it forged before its address (`IdentifiedAsClient`; `ClientsUntrusted` says that
no client is itself declared a proxy). So the count under its address is its own, and
`Limited` relates the two: what was taken of it in the window the count is of is at most
the count and the limit, and what was taken before, within one window length, is at
most the limit (`Within`). Any seconds of one window length meet at most those two.

Only model-checked are the liveness properties `JobTerminates`, `EndIsSeen` and
`StreamEnds`: the prover has no rules for fairness and `ENABLED`. Every invariant and
every action property that a passing run checks has its theorem. The type
invariants of `ChatService` and `ApiProcess` have none: the parts of them that a proof
needs are conjuncts of its invariant. That a sum over the rows is a number takes a
finite set of step ids, so `DurableJob` types `spend` by its domain only.

## 7. What is not modelled

Durable job: authentication, ownership and rate limit in front of the route; the
wording of answers; spans and logs; token deltas and tool events; the approval
panel and the parsing of frames; the content of plans, arguments and results; the
clock (a wait may expire at any time); several jobs. A step is its id, in one
spelling: an upper-case uuid matches the row in Postgres, is consumed, and does
not match the event filter, which compares text.

RAG: `clear()` and `clear_cache()` have no caller. The factory sets neither
`persist_directory` nor `max_memory_bytes`. A chunk that is too large is refused
by the request model before the store sees it, and a request has at least one
chunk. Several processes over one Chroma or Redis.

Chat: a stream without a session id, which saves nothing; the compactor, which no
caller sets; heartbeat comments; the loop of pydantic-ai itself; a Redis command
that lands long after its caller was cancelled.

Process: cancellation of the lifespan itself; numeric limits, CORS, `judge_model`
and the telemetry settings; a rate-limit storage that fails in mid request (it
answers 500); the metrics and tracing middlewares.

The TypeScript chat agent, RAG ingest and migration runner, the document service,
evals and the web chat have no module; `PROJECT.json` gives the reason for each.

## 8. Plan

1. Proofs: the type invariants of `ChatService` and `ApiProcess` as theorems; an
   abstract specification of what a conversation keeps, and of what an answer of
   the RAG routes may know, and that the modules implement them.
2. `Migrate`: advisory lock, one transaction per file, crash and lost answer;
   each file at most once and in order.
3. `IngestStore`: provider check ahead of the upsert, concurrent ingests.
