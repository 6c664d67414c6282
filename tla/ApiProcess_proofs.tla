-------------------------- MODULE ApiProcess_proofs --------------------------
(***************************************************************************)
(* Theorems about ApiProcess, for any configurations, services going down  *)
(* and up, requests, proxies, forged headers and failures of the start and *)
(* of the closes.                                                          *)
(***************************************************************************)
EXTENDS ApiProcess, TLAPS, SequenceTheorems, FiniteSetTheorems

-----------------------------------------------------------------------------
(* The life of the process.                                                *)

Ends(s, t) ==
  /\ Len(s) \in 0..Len(t)
  /\ \A i \in 1..Len(s) : s[i] = t[Len(t) - Len(s) + i]

LEMMA EmptyLen == ASSUME NEW S, NEW s \in Seq(S) PROVE s = << >> <=> Len(s) = 0
BY EmptySeq

LEMMA SuffixTail ==
  ASSUME NEW S, NEW s \in Seq(S), NEW t \in Seq(S), s # << >>, Ends(s, t)
  PROVE  /\ Tail(s) \in Seq(S) /\ Len(Tail(s)) = Len(s) - 1
         /\ Ends(Tail(s), t)
         /\ Head(s) = t[Len(t) - Len(s) + 1]
         /\ Tail(s) = << >> <=> Len(s) = 1
<1>1. /\ Tail(s) \in Seq(S) /\ Len(Tail(s)) = Len(s) - 1
      /\ \A i \in 1..Len(Tail(s)) : Tail(s)[i] = s[i + 1]
  BY HeadTailProperties
<1>5. Len(s) \in Nat \ {0} /\ Len(t) \in Nat
  BY EmptySeq, LenProperties
<1>2. Head(s) = s[1]
  OBVIOUS
<1>3. Ends(Tail(s), t)
  BY <1>1, <1>5 DEF Ends
<1>4. Tail(s) = << >> <=> Len(s) = 1
  <2>1. Tail(s) = << >> <=> Len(Tail(s)) = 0
    BY <1>1, EmptyLen, Zenon
  <2> QED BY <1>1, <1>5, <2>1
<1> QED BY <1>1, <1>2, <1>3, <1>4, <1>5 DEF Ends

Phases == {"off", "refused", "starting", "serving", "stopping", "failing", "stopped", "failed"}

Steps == {"http_client", "vector_store", "session_store", "ollama", "redis", "cleanup_task",
          "llm_model", "chat_agent", "readiness_cache", "logfire"}

\* Where startup and shutdown are.
Course ==
  /\ phase \in Phases
  /\ todo \in Seq(Steps)
  /\ phase \notin {"starting", "stopping", "failing"} => todo = << >>
  /\ phase = "starting" => todo # << >> /\ Ends(todo, StartupSteps)
  /\ phase \in {"stopping", "failing"} => todo # << >> /\ Ends(todo, ShutdownSteps)

\* What is open at each step of them, and while the cleanup task runs.
Open(ph, n, open, task) ==
  /\ open \subseteq Resources
  /\ task \in {"none", "asleep", "sweeping", "ended"}
  /\ ph \in {"off", "refused", "stopped", "failed"} =>
       open = {} /\ task \in {"none", "ended"}
  /\ ph = "off" => task = "none"
  /\ ph = "starting" =>
       /\ n <= 7 => "session_store" \in open
       /\ n > 4 => task = "none"
  /\ ph \in {"stopping", "failing"} =>
       /\ n <= 3 => task \in {"none", "ended"}
       /\ n <= 2 => "vector_store" \notin open
       /\ n <= 1 => "session_store" \notin open
  /\ task \in {"asleep", "sweeping"} => "session_store" \in open

Openings == Open(phase, Len(todo), held, sweeper)

Life == Course /\ Openings

LEMMA LifeInit == Init => Life
BY DEF Init, LifespanInit, Life, Course, Openings, Open, Phases

\* Requests, probes and the world leave the process's life alone.
LEMMA ElsewhereFrame ==
  ASSUME \/ \E r \in Requests : Request(r) \/ Readiness(r)
         \/ Tick
         \/ \E d \in Services : ServiceChanges(d)
  PROVE  UNCHANGED lifeVars
<1>1. ASSUME NEW r \in Requests, Request(r) PROVE UNCHANGED lifeVars
  BY <1>1, Zenon DEF Request, TurnedAway, AnsweredAtOnce, CallLlm, AskReady
<1>2. ASSUME NEW r \in Requests, Readiness(r) PROVE UNCHANGED lifeVars
  BY <1>2, Zenon DEF Readiness, ServeCached, ProbeAnew, ProbeReturns, ProbesEnd
<1>3. ASSUME Tick \/ (\E d \in Services : ServiceChanges(d)) PROVE UNCHANGED lifeVars
  BY <1>3, Zenon DEF Tick, ServiceChanges
<1> QED BY <1>1, <1>2, <1>3

LEMMA StepsTyped ==
  /\ StartupSteps \in Seq(Steps) /\ Len(StartupSteps) = 10
  /\ ShutdownSteps \in Seq(Steps) /\ Len(ShutdownSteps) = 4
BY DEF StartupSteps, ShutdownSteps, Steps

LEMMA StartupAt ==
  ASSUME NEW n \in 1..10
  PROVE  /\ n = 8 => StartupSteps[11 - n] = "session_store"
         /\ StartupSteps[11 - n] = "cleanup_task" => n = 5
BY DEF StartupSteps

LEMMA ShutdownAt ==
  ASSUME NEW n \in 1..4
  PROVE  /\ n = 4 <=> ShutdownSteps[5 - n] = "cleanup_task"
         /\ n = 3 <=> ShutdownSteps[5 - n] = "vector_store"
         /\ n = 2 <=> ShutdownSteps[5 - n] = "session_store"
         /\ n = 1 <=> ShutdownSteps[5 - n] = "http_client"
BY DEF ShutdownSteps

LEMMA LifeStep == Life /\ [Next]_vars => Life'
<1> SUFFICES ASSUME Life, [Next]_vars PROVE Life'
  OBVIOUS
<1> USE DEF Life
<1>1. CASE UNCHANGED lifeVars
  BY <1>1 DEF lifeVars, Course, Openings, Open
<1>2. CASE LoadSettings
  <2>1. Ends(StartupSteps, StartupSteps) /\ StartupSteps # << >>
    BY StepsTyped DEF Ends, StartupSteps
  <2>2. Course'
    BY <1>2, <2>1, StepsTyped DEF LoadSettings, Course, Phases
  <2>3. held' = {} /\ sweeper' = "none"
    BY <1>2 DEF LoadSettings, Openings, Open
  <2>4. phase' = "refused" \/ (phase' = "starting" /\ Len(todo') = 10)
    BY <1>2, StepsTyped DEF LoadSettings
  <2>5. Openings'
    <3> DEFINE n == Len(todo')
    <3>1. phase' = "refused" \/ (phase' = "starting" /\ n = 10)
      BY <2>4
    <3> HIDE DEF n
    <3>2. Open(phase', n, held', sweeper')
      BY <2>3, <3>1 DEF Open
    <3> QED BY <3>2 DEF n, Openings
  <2> QED BY <2>2, <2>5
<1>3. CASE StartupStep
  <2>1. /\ phase = "starting" /\ todo # << >> /\ todo \in Seq(Steps)
        /\ Ends(todo, StartupSteps)
    BY <1>3 DEF StartupStep, Course
  <2>2. /\ Tail(todo) \in Seq(Steps) /\ Len(Tail(todo)) = Len(todo) - 1
        /\ Ends(Tail(todo), StartupSteps)
        /\ Head(todo) = StartupSteps[11 - Len(todo)]
        /\ Tail(todo) = << >> <=> Len(todo) = 1
        /\ Len(todo) \in 1..10
    <3>1. Len(todo) \in 1..10
      BY <2>1, StepsTyped, EmptyLen DEF Ends
    <3>2. /\ Tail(todo) \in Seq(Steps) /\ Len(Tail(todo)) = Len(todo) - 1
          /\ Ends(Tail(todo), StartupSteps)
          /\ Head(todo) = StartupSteps[Len(StartupSteps) - Len(todo) + 1]
          /\ Tail(todo) = << >> <=> Len(todo) = 1
      BY <2>1, StepsTyped, SuffixTail
    <3>3. Len(StartupSteps) - Len(todo) + 1 = 11 - Len(todo)
      BY <3>1, StepsTyped
    <3> QED BY <3>1, <3>2, <3>3
  <2>3. /\ phase' = IF Len(todo) = 1 THEN "serving" ELSE "starting"
        /\ todo' = Tail(todo)
        /\ held' = held \cup ({Head(todo)} \cap Resources)
        /\ sweeper' = IF Head(todo) = "cleanup_task" THEN "asleep" ELSE sweeper
    BY <1>3 DEF StartupStep
  <2>4. Course'
    BY <2>2, <2>3 DEF Course, Phases
  <2>5. /\ Len(todo) = 8 => Head(todo) = "session_store"
        /\ Head(todo) = "cleanup_task" => Len(todo) = 5
    BY <2>2, StartupAt
  <2>6. /\ Len(todo) <= 7 => "session_store" \in held
        /\ Len(todo) > 4 => sweeper = "none"
    BY <2>1 DEF Openings, Open
  <2>7. Len(todo) <= 8 => "session_store" \in held'
    <3>1. "session_store" \in Resources /\ held \subseteq held'
      BY <2>3 DEF Resources
    <3>2. CASE Len(todo) = 8
      BY <2>3, <2>5, <3>1, <3>2
    <3>3. CASE Len(todo) <= 7
      BY <2>6, <3>1, <3>3
    <3>4. Len(todo) <= 8 => Len(todo) = 8 \/ Len(todo) <= 7
      <4> DEFINE n == Len(todo)
      <4>1. n \in 1..10
        BY <2>2
      <4> HIDE DEF n
      <4>2. n <= 8 => n = 8 \/ n <= 7
        BY <4>1
      <4> QED BY <4>2 DEF n
    <3> QED BY <3>2, <3>3, <3>4, Zenon
  <2>8. Len(todo) > 5 => sweeper' = "none"
    BY <2>2, <2>3, <2>5, <2>6
  <2>9. sweeper' \in {"none", "asleep", "sweeping", "ended"} /\ held' \subseteq Resources
    BY <2>3 DEF Openings, Open
  <2>10. Openings'
    <3>1. phase' \in {"starting", "serving"} /\ Len(todo') = Len(todo) - 1
      BY <2>2, <2>3
    <3>2. CASE Len(todo) > 8
      BY <2>2, <2>8, <2>9, <3>1, <3>2 DEF Openings, Open
    <3>3. CASE Len(todo) <= 8
      BY <2>2, <2>7, <2>8, <2>9, <3>1, <3>3 DEF Openings, Open
    <3> QED BY <2>2, <3>2, <3>3
  <2> QED BY <2>4, <2>10
<1>4. CASE StartupFails \/ BeginShutdown
  <2>1. Ends(ShutdownSteps, ShutdownSteps) /\ ShutdownSteps # << >>
    BY StepsTyped DEF Ends, ShutdownSteps
  <2>2. /\ phase' \in {"stopping", "failing"} /\ todo' = ShutdownSteps
        /\ UNCHANGED <<held, sweeper>>
    BY <1>4 DEF StartupFails, BeginShutdown
  <2> QED BY <2>1, <2>2, StepsTyped DEF Course, Openings, Open, Phases
<1>5. CASE Sweep
  <2>1. phase \notin {"off", "refused", "stopped", "failed"}
    BY <1>5 DEF Sweep, Openings, Open
  <2>2. sweeper \in {"asleep", "sweeping"} /\ sweeper' \in {"asleep", "sweeping"}
    BY <1>5 DEF Sweep
  <2> QED BY <1>5, <2>1, <2>2 DEF Sweep, Course, Openings, Open
<1>6. CASE CancelCleanup \/ CloseResource \/ CloseRaises
  <2>1. /\ phase \in {"stopping", "failing"} /\ todo # << >> /\ todo \in Seq(Steps)
        /\ Ends(todo, ShutdownSteps)
        /\ Head(todo) = "cleanup_task" \/ Head(todo) \in Resources
    BY <1>6 DEF CancelCleanup, CloseResource, CloseRaises, ShuttingDown, Course, Openings, Open
  <2>2. /\ Tail(todo) \in Seq(Steps) /\ Len(Tail(todo)) = Len(todo) - 1
        /\ Ends(Tail(todo), ShutdownSteps)
        /\ Head(todo) = ShutdownSteps[5 - Len(todo)]
        /\ Tail(todo) = << >> <=> Len(todo) = 1
        /\ Len(todo) \in 1..4
    <3>1. Len(todo) \in 1..4
      BY <2>1, StepsTyped, EmptyLen DEF Ends
    <3>2. /\ Tail(todo) \in Seq(Steps) /\ Len(Tail(todo)) = Len(todo) - 1
          /\ Ends(Tail(todo), ShutdownSteps)
          /\ Head(todo) = ShutdownSteps[Len(ShutdownSteps) - Len(todo) + 1]
          /\ Tail(todo) = << >> <=> Len(todo) = 1
      BY <2>1, StepsTyped, SuffixTail
    <3>3. Len(ShutdownSteps) - Len(todo) + 1 = 5 - Len(todo)
      BY <3>1, StepsTyped
    <3> QED BY <3>1, <3>2, <3>3
  <2>3. /\ todo' = Tail(todo)
        /\ phase' = IF Len(todo) = 1 THEN EndOf(phase) ELSE phase
    BY <1>6, <2>2 DEF CancelCleanup, CloseResource, CloseRaises, GoOn, Advance
  <2>4. EndOf(phase) \in {"stopped", "failed"}
    BY DEF EndOf
  <2>5. Course'
    BY <2>1, <2>2, <2>3, <2>4 DEF Course, Phases
  <2>6. /\ Len(todo) = 4 <=> Head(todo) = "cleanup_task"
        /\ Len(todo) = 3 <=> Head(todo) = "vector_store"
        /\ Len(todo) = 2 <=> Head(todo) = "session_store"
        /\ Len(todo) = 1 <=> Head(todo) = "http_client"
    BY <2>2, ShutdownAt
  <2>7. /\ Len(todo) = 4 => UNCHANGED held /\ sweeper' \in {"none", "ended"}
        /\ Len(todo) # 4 => held' = held \ {Head(todo)} /\ UNCHANGED sweeper
    BY <1>6, <2>6 DEF CancelCleanup, CloseResource, CloseRaises, Resources, Openings, Open
  <2>8. Openings'
    <3>1. /\ Len(todo) <= 3 => sweeper \in {"none", "ended"}
          /\ Len(todo) <= 2 => "vector_store" \notin held
          /\ Len(todo) <= 1 => "session_store" \notin held
      BY <2>1 DEF Openings, Open
    <3>2. sweeper' \in {"none", "ended"}
      BY <2>2, <2>7, <3>1
    <3>3. /\ Len(todo) <= 3 => "vector_store" \notin held'
          /\ Len(todo) <= 2 => "session_store" \notin held'
          /\ Len(todo) <= 1 => "http_client" \notin held'
      BY <2>2, <2>6, <2>7, <3>1
    <3>4. held' \subseteq Resources
      BY <2>2, <2>7 DEF Openings, Open
    <3>5. Len(todo) = 1 => held' = {}
      BY <3>3, <3>4 DEF Resources
    <3> QED BY <2>1, <2>2, <2>3, <2>4, <3>2, <3>3, <3>4, <3>5 DEF Openings, Open
  <2> QED BY <2>5, <2>8
<1> QED BY <1>1, <1>2, <1>3, <1>4, <1>5, <1>6, ElsewhereFrame DEF Next, Live, vars

\* What is left of a start or a shutdown, and what is open at each place of it.
THEOREM LifeInvariant == Spec => []Life
<1> QED BY LifeInit, LifeStep, PTL DEF Spec

\* A process that has ended has closed everything it opened.
THEOREM EverythingIsClosed == Spec => []NothingLeftOpen
<1>1. Life => NothingLeftOpen
  BY DEF Life, Openings, Open, NothingLeftOpen
<1> QED BY <1>1, LifeInvariant, PTL

\* The cleanup task has its session store.
THEOREM CleanupIsSafe == Spec => []CleanupHasItsStore
<1>1. Life => CleanupHasItsStore
  BY DEF Life, Openings, Open, CleanupHasItsStore
<1> QED BY <1>1, LifeInvariant, PTL

-----------------------------------------------------------------------------
(* The settings.                                                           *)

Names == {LowerCase(m) : m \in STRING}

\* What validated and normalized settings say to the factories.
Sufficient(s) ==
  /\ Valid(s)
  /\ LowerCase(s.llm_model) = s.llm_model
  /\ s.llm_fallback_models \in Seq(Names)
  /\ \A i \in DOMAIN s.llm_fallback_models :
       LowerCase(s.llm_fallback_models[i]) = s.llm_fallback_models[i]
  /\ s.llm_base_url \notin {"local", "provider"}
  /\ Dawn + s.readiness_probe_cache_ttl <= 0
  /\ s.readiness_probe_cache_ttl \in Nat
  /\ Clients \cap s.trusted_proxies = {}

Configured ==
  /\ phase = "off" => settings \in RawSettings
  /\ phase \notin {"off", "refused"} => Sufficient(settings)
  /\ llm_model # << >> => llm_model = FallbackModel(settings) /\ phase \notin {"off", "refused"}

LEMMA LowerCaseTwice == \A p : LowerCase(LowerCase(p)) = LowerCase(p)
BY DEF LowerCase

LEMMA NormalizedFields ==
  ASSUME NEW s \in RawSettings
  PROVE  LET t == Normalized(s) IN
         /\ t.allowed_hosts = s.allowed_hosts \ {""}
         /\ t.llm_model = LowerCase(s.llm_model)
         /\ t.llm_fallback_models =
              [i \in DOMAIN s.llm_fallback_models |-> LowerCase(s.llm_fallback_models[i])]
         /\ t.api_key = s.api_key /\ t.session_signing_key = s.session_signing_key
         /\ t.app_env = s.app_env /\ t.enable_mock_tools = s.enable_mock_tools
         /\ t.trusted_proxies = s.trusted_proxies
         /\ t.llm_api_key = s.llm_api_key /\ t.llm_base_url = s.llm_base_url
         /\ t.redis_session_store_enabled = s.redis_session_store_enabled
         /\ t.redis_url = s.redis_url
         /\ t.vector_store_backend = s.vector_store_backend
         /\ t.embedding_model = s.embedding_model
         /\ t.readiness_probe_cache_ttl = s.readiness_probe_cache_ttl
         /\ t.llm_rate_limit = s.llm_rate_limit
BY RawAssumption DEF Normalized, Fields

LEMMA NormalizedValid ==
  ASSUME NEW s \in RawSettings, Valid(s)
  PROVE  Sufficient(Normalized(s))
<1> DEFINE t == Normalized(s)
<1>1. /\ DOMAIN t.llm_fallback_models = DOMAIN s.llm_fallback_models
      /\ \A i \in DOMAIN s.llm_fallback_models :
           t.llm_fallback_models[i] = LowerCase(s.llm_fallback_models[i])
  BY NormalizedFields
<1>2. \A m \in ChainModels(t) : \E k \in ChainModels(s) : m = LowerCase(k)
  <2> SUFFICES ASSUME NEW m \in ChainModels(t)
              PROVE  \E k \in ChainModels(s) : m = LowerCase(k)
    OBVIOUS
  <2>1. CASE m = t.llm_model
    BY <2>1, NormalizedFields DEF ChainModels
  <2>2. CASE m # t.llm_model
    <3>1. PICK i \in DOMAIN t.llm_fallback_models : m = t.llm_fallback_models[i]
      BY <2>2 DEF ChainModels
    <3>2. s.llm_fallback_models[i] \in ChainModels(s) /\ m = LowerCase(s.llm_fallback_models[i])
      BY <1>1, <3>1 DEF ChainModels
    <3> QED BY <3>2
  <2> QED BY <2>1, <2>2
<1>3. t.llm_fallback_models \in Seq(Names)
  <2>1. s.llm_fallback_models \in Seq(STRING)
    BY RawAssumption
  <2>2. PICK n \in Nat : s.llm_fallback_models \in [1..n -> STRING]
    BY <2>1
  <2>3. t.llm_fallback_models \in [1..n -> Names]
    <3>1. t.llm_fallback_models = [i \in 1..n |-> LowerCase(s.llm_fallback_models[i])]
      BY <2>2, NormalizedFields
    <3>2. \A i \in 1..n : LowerCase(s.llm_fallback_models[i]) \in Names
      BY <2>2 DEF Names
    <3> HIDE DEF t
    <3> QED BY <3>1, <3>2
  <2> QED BY <2>2, <2>3
<1>4. SecretsStrong(t) /\ MockToolsAllowed(t) /\ ProxiesParse(t) /\ HostsAllowed(t)
  BY NormalizedFields DEF Valid, SecretsStrong, MockToolsAllowed, ProxiesParse, HostsAllowed
<1>5. ModelsAllowed(t)
  BY <1>2, LowerCaseTwice DEF Valid, ModelsAllowed, AllowedModel
<1>7. CloudKeyGiven(t)
  <2>1. t.llm_api_key = s.llm_api_key
    BY NormalizedFields
  <2> QED BY <1>2, <2>1, LowerCaseTwice DEF Valid, CloudKeyGiven, CheckedModels
<1>6. Valid(t)
  BY <1>4, <1>5, <1>7, NormalizedFields DEF Valid, RedisHasUrl, EmbeddingGiven, Secure
<1>8. /\ t.readiness_probe_cache_ttl \in Nat
      /\ Dawn + t.readiness_probe_cache_ttl <= 0
      /\ t.llm_base_url \notin {"local", "provider"}
  <2>1. s.readiness_probe_cache_ttl \in Int /\ s.readiness_probe_cache_ttl >= 0
    BY RawAssumption DEF Valid
  <2>2. /\ t.readiness_probe_cache_ttl = s.readiness_probe_cache_ttl
        /\ t.llm_base_url = s.llm_base_url
    BY NormalizedFields
  <2>3. Dawn \in Int /\ Dawn + s.readiness_probe_cache_ttl <= 0
    BY ProcessAssumption
  <2>4. s.llm_base_url \notin {"local", "provider"}
    BY RawAssumption
  <2> HIDE DEF t
  <2> QED BY <2>1, <2>2, <2>3, <2>4
<1>9. /\ LowerCase(t.llm_model) = t.llm_model
      /\ \A i \in DOMAIN t.llm_fallback_models :
           LowerCase(t.llm_fallback_models[i]) = t.llm_fallback_models[i]
  <2>1. t.llm_model = LowerCase(s.llm_model)
    BY NormalizedFields
  <2> HIDE DEF t
  <2> QED BY <1>1, <2>1, LowerCaseTwice
<1>10. Clients \cap t.trusted_proxies = {}
  BY ClientsUntrusted, NormalizedFields
<1> QED BY <1>3, <1>6, <1>8, <1>9, <1>10 DEF Sufficient

LEMMA ConfiguredStep == Configured /\ [Next]_vars => Configured'
<1> SUFFICES ASSUME Configured, [Next]_vars PROVE Configured'
  OBVIOUS
<1>1. CASE UNCHANGED lifeVars
  BY <1>1 DEF lifeVars, Configured
<1>2. CASE LoadSettings
  <2>1. phase = "off" /\ llm_model' = << >> /\ settings \in RawSettings
    BY <1>2 DEF LoadSettings, Configured
  <2>2. CASE Valid(settings)
    <3>1. settings' = Normalized(settings) /\ phase' = "starting"
      BY <1>2, <2>2 DEF LoadSettings
    <3>2. Sufficient(settings')
      BY <2>1, <2>2, <3>1, NormalizedValid
    <3> QED BY <2>1, <3>1, <3>2 DEF Configured
  <2>3. CASE ~ Valid(settings)
    BY <1>2, <2>1, <2>3 DEF LoadSettings, Configured
  <2> QED BY <2>2, <2>3
<1>3. CASE StartupStep
  <2>1. /\ phase = "starting" /\ phase' \in {"starting", "serving"}
        /\ settings' = settings
        /\ llm_model' \in {llm_model, FallbackModel(settings)}
    BY <1>3 DEF StartupStep
  <2> QED BY <2>1 DEF Configured
<1>4. CASE \/ StartupFails \/ BeginShutdown \/ Sweep
           \/ CancelCleanup \/ CloseResource \/ CloseRaises
  <2>1. UNCHANGED <<settings, llm_model>>
    BY <1>4 DEF StartupFails, BeginShutdown, Sweep, CancelCleanup, CloseResource, CloseRaises
  <2>2. \/ phase' = phase
        \/ /\ phase \in {"starting", "serving", "stopping", "failing"}
           /\ phase' \in {"stopping", "failing", "stopped", "failed"}
    BY <1>4 DEF StartupFails, BeginShutdown, Sweep, CancelCleanup, CloseResource, CloseRaises,
                GoOn, Advance, EndOf, ShuttingDown
  <2> QED BY <2>1, <2>2 DEF Configured
<1> QED BY <1>1, <1>2, <1>3, <1>4, ElsewhereFrame DEF Next, Live, vars

\* The models of a chain are the primary one and its fallbacks.
LEMMA ChainOf ==
  ASSUME NEW s, s.llm_fallback_models \in Seq(Names)
  PROVE  \A i \in DOMAIN FallbackModel(s) :
           \/ FallbackModel(s)[i] = BuildModel(s)
           \/ \E k \in DOMAIN s.llm_fallback_models :
                FallbackModel(s)[i] = BuildModel(SettingsForModel(s, s.llm_fallback_models[k]))
<1> DEFINE f == s.llm_fallback_models
           M == {BuildModel(s)} \cup {BuildModel(SettingsForModel(s, f[k])) : k \in DOMAIN f}
           rest == [k \in DOMAIN f |-> BuildModel(SettingsForModel(s, f[k]))]
<1>1. rest \in Seq(M)
  <2>1. PICK n \in Nat : f \in [1..n -> Names]
    OBVIOUS
  <2>2. rest \in [1..n -> M]
    BY <2>1
  <2> QED BY <2>2
<1>2. <<BuildModel(s)>> \in Seq(M)
  OBVIOUS
<1>3. FallbackModel(s) \in Seq(M)
  BY <1>1, <1>2, ConcatProperties DEF FallbackModel
<1>4. \A i \in DOMAIN FallbackModel(s) : FallbackModel(s)[i] \in M
  BY <1>3
<1> QED BY <1>4

LEMMA ChainSuffices ==
  ASSUME NEW s, Sufficient(s), NEW i \in DOMAIN FallbackModel(s)
  PROVE  LET m == FallbackModel(s)[i] IN
         /\ m.provider \in CloudProviders => m.key # "unset"
         /\ m.endpoint = s.llm_base_url => m.provider = s.llm_model
<1> DEFINE m == FallbackModel(s)[i]
<1>1. /\ m.provider \in ChainModels(s) /\ m.key = s.llm_api_key
      /\ m.provider = s.llm_model \/ m.endpoint \in {"local", "provider"}
  <2>1. CASE m = BuildModel(s)
    BY <2>1 DEF BuildModel, ChainModels
  <2>2. CASE m # BuildModel(s)
    <3>1. PICK k \in DOMAIN s.llm_fallback_models :
            m = BuildModel(SettingsForModel(s, s.llm_fallback_models[k]))
      BY <2>2, ChainOf DEF Sufficient
    <3> QED BY <3>1 DEF BuildModel, SettingsForModel, ChainModels
  <2> QED BY <2>1, <2>2
<1>2. \A p \in ChainModels(s) : LowerCase(p) = p
  BY DEF Sufficient, ChainModels
<1>3. m.provider \in CloudProviders => s.llm_api_key # "unset"
  BY <1>1, <1>2 DEF Sufficient, Valid, CloudKeyGiven, CheckedModels
<1> QED BY <1>1, <1>3 DEF Sufficient

\* Loaded settings passed the validators, and stay as they were loaded.
THEOREM ConfiguredInvariant == Spec => []Configured
<1>1. Init => Configured
  BY DEF Init, LifespanInit, Configured
<1> QED BY <1>1, ConfiguredStep, PTL DEF Spec

\* Settings that load leave no factory without what it needs, no cloud model
\* without a key, and no fallback with the endpoint of another provider.
THEOREM LoadedSettingsAreEnough == Spec => []LoadedSettingsSuffice
<1>1. Life /\ Configured => LoadedSettingsSuffice
  <2> SUFFICES ASSUME Life, Configured PROVE LoadedSettingsSuffice
    OBVIOUS
  <2>1. phase \notin {"off", "refused"} =>
          \A i \in DOMAIN StartupSteps : ~ MissingSetting(StartupSteps[i])
    BY DEF Configured, Sufficient, Valid, RedisHasUrl, EmbeddingGiven, MissingSetting
  <2>2. ASSUME NEW i \in DOMAIN llm_model
        PROVE  /\ llm_model[i].provider \in CloudProviders => llm_model[i].key # "unset"
               /\ llm_model[i].endpoint = settings.llm_base_url
                    => llm_model[i].provider = settings.llm_model
    <3>1. llm_model = FallbackModel(settings) /\ Sufficient(settings)
      BY <2>2 DEF Configured
    <3> QED BY <2>2, <3>1, ChainSuffices
  <2> QED BY <2>1, <2>2 DEF LoadedSettingsSuffice
<1> QED BY <1>1, LifeInvariant, ConfiguredInvariant, PTL

-----------------------------------------------------------------------------
(* Readiness.                                                              *)

Loaded == phase \notin {"off", "refused"}

Clocked ==
  /\ clock \in Nat /\ lastProbe \in Int /\ lastProbe <= clock
  /\ stage \in [Requests -> {"new", "queued", "probing"} \cup Settled]
  /\ began \in [Requests -> Int] /\ arrived \in [Requests -> Int]
  /\ DOMAIN checks = Requests
  /\ \A r \in Requests : arrived[r] <= clock
  /\ changed \in [Services -> Int]
  /\ \A d \in Services : changed[d] <= clock

\* Nothing was asked before the settings are loaded.
Quiet ==
  ~ Loaded =>
    /\ line = << >> /\ holder = NoRequest /\ cached = NoChecks /\ lastProbe = Dawn
    /\ \A r \in Requests : stage[r] = "new"

\* The lock is held across the probes, and what they find is kept under it.
Exclusive ==
  Loaded /\ Ttl # 0 =>
    /\ \A r \in Requests : stage[r] = "probing" => holder = r /\ began[r] = lastProbe
    /\ holder = NoRequest =>
         \/ cached.result = << >> /\ lastProbe = Dawn
         \/ cached.result # << >> /\ cached.expires = lastProbe + Ttl

\* What a probe says of a service was true at some time since t.
Finding(d, says, t) ==
  \/ says = "healthy" /\ LastUp(d) >= t
  \/ says = "unreachable" /\ LastDown(d) >= t

Found ==
  \A r \in Requests :
    /\ stage[r] # "probing" => checks[r] = << >>
    /\ stage[r] = "probing" =>
         /\ arrived[r] <= began[r] /\ began[r] <= clock
         /\ \A d \in DOMAIN checks[r] : d \in Services /\ Finding(d, checks[r][d], began[r])

Kept ==
  cached.result # << >> =>
    /\ DOMAIN cached.result = Probed /\ cached.expires \in Int
    /\ \A d \in Probed : Finding(d, cached.result[d], cached.expires - Ttl)

Cache == Clocked /\ Quiet /\ Exclusive /\ Found /\ Kept

LEMMA CacheInit == Init => Cache
<1> SUFFICES ASSUME Init PROVE Cache
  OBVIOUS
<1>1. Clocked
  BY ProcessAssumption DEF Init, Clocked
<1>2. Quiet /\ ~ Loaded
  BY DEF Init, LifespanInit, Quiet, Loaded
<1>3. Exclusive /\ Found /\ Kept
  BY <1>2 DEF Init, Quiet, Exclusive, Found, Kept, NoChecks
<1> QED BY <1>1, <1>2, <1>3 DEF Cache

\* Time and the services only add to when a service was last up or down.
LEMMA SightingsKept ==
  ASSUME Clocked, clock' \in Nat, clock <= clock',
         \/ UNCHANGED <<up, changed>>
         \/ \E e \in Services : /\ clock' = clock /\ changed' = [changed EXCEPT ![e] = clock]
                                /\ up' = IF e \in up THEN up \ {e} ELSE up \cup {e}
  PROVE  \A d \in Services, t \in Int : \A says : Finding(d, says, t) => Finding(d, says, t)'
<1> SUFFICES ASSUME NEW d \in Services, NEW t \in Int
             PROVE  /\ LastUp(d) >= t => LastUp(d)' >= t
                    /\ LastDown(d) >= t => LastDown(d)' >= t
  BY DEF Finding
<1>1. clock \in Nat /\ changed[d] \in Int /\ changed[d] <= clock
  BY DEF Clocked
<1>2. CASE UNCHANGED <<up, changed>>
  BY <1>1, <1>2 DEF LastUp, LastDown
<1>3. ASSUME NEW e \in Services, clock' = clock, changed' = [changed EXCEPT ![e] = clock],
             up' = IF e \in up THEN up \ {e} ELSE up \cup {e}
      PROVE  /\ LastUp(d) >= t => LastUp(d)' >= t
             /\ LastDown(d) >= t => LastDown(d)' >= t
  <2>1. changed'[d] = IF d = e THEN clock ELSE changed[d]
    BY <1>3 DEF Clocked
  <2>2. d # e => (d \in up' <=> d \in up)
    BY <1>3
  <2> QED BY <1>1, <1>3, <2>1, <2>2 DEF LastUp, LastDown
<1> QED BY <1>2, <1>3

LEMMA QuietIsNotAsked ==
  ASSUME Quiet, NEW r \in Requests,
         AskReady(r) \/ ServeCached(r) \/ ProbeAnew(r) \/ (\E d \in Services : ProbeReturns(r, d))
           \/ ProbesEnd(r)
  PROVE  Loaded
BY DEF Quiet, Loaded, AskReady, Arrives, ServeCached, ProbeAnew, ProbeReturns, ProbesEnd

\* The life of the process: only loading the settings changes them.
LEMMA CacheLifeStep ==
  ASSUME Cache, Life, Live \/ BeginShutdown
  PROVE  Cache'
<1>1. UNCHANGED <<up, Elsewhere>>
  BY DEF Live, BeginShutdown, LoadSettings, StartupStep, StartupFails, Sweep, CancelCleanup,
         CloseResource, CloseRaises
<1>2. /\ UNCHANGED <<up, clock, stage, checks, began, line, holder, cached, changed, arrived>>
      /\ UNCHANGED lastProbe
  BY <1>1 DEF Elsewhere, requestVars, cacheVars, ghostVars, worldVars
<1>3. CASE LoadSettings
  <2>1. ~ Loaded
    BY <1>3 DEF LoadSettings, Loaded
  <2>2. /\ line = << >> /\ holder = NoRequest /\ cached = NoChecks /\ lastProbe = Dawn
        /\ \A r \in Requests : stage[r] = "new"
    BY <2>1 DEF Cache, Quiet
  <2>3. Clocked'
    BY <1>2 DEF Cache, Clocked
  <2>4. Quiet'
    BY <1>2, <2>2 DEF Quiet, NoChecks
  <2>5. Exclusive' /\ Found' /\ Kept'
    BY <1>2, <2>2 DEF Cache, Exclusive, Found, Kept, NoChecks
  <2> QED BY <2>3, <2>4, <2>5 DEF Cache
<1>4. CASE ~ LoadSettings
  <2>1. settings' = settings /\ (Loaded' <=> Loaded)
    BY <1>4 DEF Live, BeginShutdown, StartupStep, StartupFails, Sweep, CancelCleanup,
                CloseResource, CloseRaises, GoOn, Advance, EndOf, ShuttingDown, Loaded
  <2>2. Clocked' /\ Quiet'
    BY <1>2, <2>1 DEF Cache, Clocked, Quiet, NoChecks
  <2>3. Exclusive'
    BY <1>2, <2>1 DEF Cache, Exclusive, Ttl
  <2>4. Found' /\ Kept'
    BY <1>2, <2>1 DEF Cache, Found, Kept, Finding, LastUp, LastDown, Probed, StoreServices, Ttl
  <2> QED BY <2>2, <2>3, <2>4 DEF Cache
<1> QED BY <1>3, <1>4

\* Requests to the other routes.
LEMMA CacheElsewhereStep ==
  ASSUME Cache, NEW r \in Requests, Request(r), ~ AskReady(r)
  PROVE  Cache'
<1>1. /\ stage[r] = "new" /\ phase = "serving"
      /\ \E s \in {"refused", "answered"} : stage' = [stage EXCEPT ![r] = s]
      /\ UNCHANGED <<lifeVars, up, checks, began, cacheVars, ghostVars, worldVars>>
  BY DEF Request, TurnedAway, AnsweredAtOnce, CallLlm, Arrives, Enter
<1>2. UNCHANGED <<settings, phase, up, clock, checks, began, line, holder, cached, changed, arrived,
                  lastProbe>>
  BY <1>1 DEF lifeVars, cacheVars, ghostVars, worldVars
<1>3. Loaded /\ Loaded'
  BY <1>1, <1>2 DEF Loaded
<1>4. /\ stage' \in [Requests -> {"new", "queued", "probing"} \cup Settled]
      /\ \A q \in Requests : stage'[q] = "probing" <=> stage[q] = "probing"
  BY <1>1 DEF Cache, Clocked, Settled
<1>5. Clocked'
  BY <1>2, <1>4 DEF Cache, Clocked
<1>6. Exclusive' /\ Quiet'
  BY <1>2, <1>3, <1>4 DEF Cache, Exclusive, Quiet, Ttl
<1>7. Found' /\ Kept'
  BY <1>2, <1>4 DEF Cache, Found, Kept, Finding, LastUp, LastDown, Probed, StoreServices, Ttl
<1> QED BY <1>5, <1>6, <1>7 DEF Cache
\* Probes that begin have found nothing.
LEMMA BeginProbeFound ==
  ASSUME Cache, NEW r \in Requests, BeginProbe(r), stage[r] # "probing",
         arrived'[r] <= clock, \A q \in Requests : q # r => arrived'[q] = arrived[q],
         UNCHANGED <<up, changed, clock, checks>>
  PROVE  Found'
<1>1. /\ stage' = [stage EXCEPT ![r] = "probing"] /\ began' = [began EXCEPT ![r] = clock]
      /\ stage \in [Requests -> {"new", "queued", "probing"} \cup Settled]
      /\ began \in [Requests -> Int] /\ clock \in Nat
  BY DEF BeginProbe, Enter, Cache, Clocked
<1>2. \A q \in Requests : stage[q] # "probing" => checks'[q] = << >>
  BY DEF Cache, Found
<1>3. ASSUME NEW q \in Requests, q # r, stage'[q] = "probing"
      PROVE  /\ arrived'[q] <= began'[q] /\ began'[q] <= clock'
             /\ \A d \in DOMAIN checks'[q] :
                  d \in Services /\ Finding(d, checks[q][d], began[q])'
  <2>1. stage[q] = "probing" /\ began'[q] = began[q] /\ checks'[q] = checks[q]
    BY <1>1, <1>3
  <2> QED BY <1>3, <2>1 DEF Cache, Found, Finding, LastUp, LastDown
<1>4. /\ arrived'[r] <= began'[r] /\ began'[r] <= clock' /\ DOMAIN checks'[r] = {}
  BY <1>1, <1>2
<1> QED BY <1>1, <1>2, <1>3, <1>4 DEF Found

LEMMA CacheAskStep ==
  ASSUME Cache, NEW r \in Requests, AskReady(r)
  PROVE  Cache'
<1>1. /\ stage[r] = "new" /\ phase = "serving" /\ arrived' = [arrived EXCEPT ![r] = clock]
      /\ UNCHANGED <<settings, phase, up, clock, checks, holder, cached, changed>>
  BY DEF AskReady, Arrives, lifeVars, worldVars
<1>2. Loaded /\ Loaded'
  BY <1>1 DEF Loaded
<1>3. /\ arrived' \in [Requests -> Int] /\ arrived'[r] = clock
      /\ \A q \in Requests : q # r => arrived'[q] = arrived[q]
      /\ \A q \in Requests : arrived'[q] <= clock
  BY <1>1 DEF Cache, Clocked
<1>4. Kept'
  BY <1>1 DEF Cache, Kept, Finding, LastUp, LastDown, Probed, StoreServices, Ttl
<1>5. CASE Ttl = 0
  <2>1. BeginProbe(r)
    BY <1>5 DEF AskReady
  <2>2. Clocked'
    BY <1>1, <1>3, <2>1 DEF BeginProbe, Enter, Cache, Clocked
  <2>3. Quiet' /\ Exclusive'
    BY <1>1, <1>2, <1>5 DEF Quiet, Exclusive, Ttl
  <2>4. Found'
    BY <1>1, <1>3, <2>1, BeginProbeFound DEF Cache, Clocked
  <2> QED BY <1>4, <2>2, <2>3, <2>4 DEF Cache
<1>6. CASE Ttl # 0
  <2>1. stage' = [stage EXCEPT ![r] = "queued"] /\ UNCHANGED <<began, lastProbe>>
    BY <1>6 DEF AskReady, Enter
  <2>2. \A q \in Requests : /\ stage'[q] = "probing" <=> stage[q] = "probing"
                            /\ stage[q] = "probing" => q # r
    BY <1>1, <2>1 DEF Cache, Clocked
  <2>3. Clocked'
    BY <1>1, <1>3, <2>1 DEF Cache, Clocked
  <2>4. Quiet' /\ Exclusive'
    BY <1>1, <1>2, <2>1, <2>2 DEF Cache, Quiet, Exclusive, Ttl
  <2>5. Found'
    BY <1>1, <1>3, <2>1, <2>2 DEF Cache, Found, Finding, LastUp, LastDown
  <2> QED BY <1>4, <2>3, <2>4, <2>5 DEF Cache
<1> QED BY <1>5, <1>6

LEMMA CacheServeStep ==
  ASSUME Cache, NEW r \in Requests, ServeCached(r), stage[r] # "probing"
  PROVE  Cache'
<1>1. /\ \E s \in {"ready", "not_ready"} : stage' = [stage EXCEPT ![r] = s]
      /\ arrived' = [arrived EXCEPT ![r] = Dawn]
      /\ UNCHANGED <<settings, phase, up, clock, checks, began, holder, cached, changed, lastProbe>>
  BY DEF ServeCached, Enter, Verdict, Forget, lifeVars, worldVars
<1>2. Loaded /\ Loaded'
  BY <1>1, QuietIsNotAsked DEF Loaded, Cache
<1>3. /\ stage' \in [Requests -> {"new", "queued", "probing"} \cup Settled]
      /\ \A q \in Requests : /\ stage'[q] = "probing" <=> stage[q] = "probing"
                             /\ stage[q] = "probing" => arrived'[q] = arrived[q]
  BY <1>1 DEF Cache, Clocked, Settled
<1>4. Clocked'
  BY <1>1, <1>3, ProcessAssumption DEF Cache, Clocked
<1>5. Quiet' /\ Exclusive'
  BY <1>1, <1>2, <1>3 DEF Cache, Quiet, Exclusive, Ttl
<1>6. Found' /\ Kept'
  BY <1>1, <1>3 DEF Cache, Found, Kept, Finding, LastUp, LastDown, Probed, StoreServices, Ttl
<1> QED BY <1>4, <1>5, <1>6 DEF Cache

LEMMA CacheProbeStep ==
  ASSUME Cache, NEW r \in Requests, ProbeAnew(r), stage[r] # "probing",
         Loaded => Sufficient(settings)
  PROVE  Cache'
<1>1. /\ BeginProbe(r) /\ holder = NoRequest /\ holder' = r
      /\ UNCHANGED <<settings, phase, up, clock, checks, cached, changed, arrived>>
  BY DEF ProbeAnew, LockIsFree, lifeVars, worldVars
<1>2. Loaded /\ Loaded' /\ Ttl \in Nat
  BY <1>1, QuietIsNotAsked DEF Loaded, Cache, Sufficient, Ttl
<1>3. /\ stage' = [stage EXCEPT ![r] = "probing"] /\ began' = [began EXCEPT ![r] = clock]
      /\ lastProbe' = clock
  BY <1>1 DEF BeginProbe, Enter
<1>4. Clocked'
  BY <1>1, <1>3 DEF Cache, Clocked
<1>5. Exclusive'
  <2>1. Ttl # 0 => \A q \in Requests : stage[q] # "probing"
    BY <1>1, <1>2, ProcessAssumption DEF Cache, Exclusive
  <2>2. \A q \in Requests : q # r => stage'[q] = stage[q]
    BY <1>3 DEF Cache, Clocked
  <2>3. began'[r] = lastProbe'
    BY <1>3 DEF Cache, Clocked
  <2>4. holder' # NoRequest /\ Ttl' = Ttl
    BY <1>1, ProcessAssumption DEF Ttl
  <2> QED BY <1>1, <2>1, <2>2, <2>3, <2>4 DEF Exclusive
<1>6. Found'
  BY <1>1, BeginProbeFound DEF Cache, Clocked
<1>7. Quiet' /\ Kept'
  BY <1>1, <1>2 DEF Cache, Quiet, Kept, Finding, LastUp, LastDown, Probed, StoreServices, Ttl
<1> QED BY <1>4, <1>5, <1>6, <1>7 DEF Cache

LEMMA CacheReturnStep ==
  ASSUME Cache, NEW r \in Requests, NEW e \in Services, ProbeReturns(r, e)
  PROVE  Cache'
<1>1. /\ stage[r] = "probing"
      /\ checks' = [checks EXCEPT ![r] = Noted(checks[r], e, IF e \in up THEN "healthy"
                                                                    ELSE "unreachable")]
      /\ UNCHANGED <<settings, phase, up, clock, stage, began, line, holder, cached, changed,
                     arrived, lastProbe>>
  BY DEF ProbeReturns, lifeVars, cacheVars, ghostVars, worldVars
<1>2. \A q \in Requests : q # r => checks'[q] = checks[q]
  BY <1>1 DEF Cache, Clocked
<1>3. /\ DOMAIN checks'[r] \subseteq DOMAIN checks[r] \cup {e}
      /\ \A d \in DOMAIN checks'[r] : d \in DOMAIN checks[r] => checks'[r][d] = checks[r][d]
      /\ e \notin DOMAIN checks[r]
           => checks'[r][e] = IF e \in up THEN "healthy" ELSE "unreachable"
  <2>1. checks'[r] = Noted(checks[r], e, IF e \in up THEN "healthy" ELSE "unreachable")
    BY <1>1 DEF Cache, Clocked
  <2>2. e \notin DOMAIN checks[r]
    BY DEF ProbeReturns
  <2> QED BY <2>1, <2>2 DEF Noted
<1>4. Clocked' /\ Quiet' /\ Exclusive'
  BY <1>1 DEF Cache, Clocked, Quiet, Exclusive, Ttl, Loaded, NoChecks
<1>5. Found'
  <2>1. \A d \in DOMAIN checks'[r] : d \in Services /\ Finding(d, checks'[r][d], began[r])
    <3> SUFFICES ASSUME NEW d \in DOMAIN checks'[r]
                 PROVE  d \in Services /\ Finding(d, checks'[r][d], began[r])
      OBVIOUS
    <3>1. CASE d \in DOMAIN checks[r]
      BY <1>1, <1>3, <3>1 DEF Cache, Found
    <3>2. CASE d \notin DOMAIN checks[r]
      <4>1. d = e /\ checks'[r][d] = IF e \in up THEN "healthy" ELSE "unreachable"
        BY <1>3, <3>2
      <4>2. began[r] <= clock
        BY <1>1 DEF Cache, Found
      <4> QED BY <4>1, <4>2 DEF Finding, LastUp, LastDown
    <3> QED BY <3>1, <3>2
  <2>2. ASSUME NEW q \in Requests, stage[q] = "probing"
        PROVE  /\ arrived[q] <= began[q] /\ began[q] <= clock
               /\ \A d \in DOMAIN checks'[q] : d \in Services /\ Finding(d, checks'[q][d], began[q])
    BY <1>2, <2>1, <2>2 DEF Cache, Found
  <2>3. ASSUME NEW q \in Requests, stage[q] # "probing" PROVE checks'[q] = << >>
    BY <1>1, <1>2, <2>3 DEF Cache, Found
  <2> QED BY <1>1, <2>2, <2>3 DEF Found, Finding, LastUp, LastDown
<1>6. Kept'
  BY <1>1 DEF Cache, Kept, Finding, LastUp, LastDown, Probed, StoreServices, Ttl
<1> QED BY <1>4, <1>5, <1>6 DEF Cache

LEMMA CacheEndStep ==
  ASSUME Cache, NEW r \in Requests, ProbesEnd(r), Loaded => Sufficient(settings)
  PROVE  Cache'
<1>1. /\ stage[r] = "probing" /\ DOMAIN checks[r] = Probed
      /\ \E s \in {"ready", "not_ready"} : stage' = [stage EXCEPT ![r] = s]
      /\ checks' = [checks EXCEPT ![r] = << >>]
      /\ cached' = IF Ttl = 0 THEN cached
                   ELSE [result |-> checks[r], expires |-> began[r] + Ttl]
      /\ holder' = IF holder = r THEN NoRequest ELSE holder
      /\ arrived' = [arrived EXCEPT ![r] = Dawn] /\ began' = [began EXCEPT ![r] = Dawn]
      /\ UNCHANGED <<settings, phase, up, clock, changed, lastProbe>>
  BY DEF ProbesEnd, Enter, Verdict, ExpiryOf, Release, Forget, lifeVars, worldVars
<1>2. Loaded /\ Loaded' /\ Ttl \in Nat
  BY <1>1, QuietIsNotAsked DEF Loaded, Cache, Sufficient, Ttl
<1>3. /\ stage' \in [Requests -> {"new", "queued", "probing"} \cup Settled]
      /\ stage'[r] # "probing" /\ checks'[r] = << >>
      /\ \A q \in Requests : q # r => /\ stage'[q] = stage[q] /\ checks'[q] = checks[q]
                                      /\ arrived'[q] = arrived[q] /\ began'[q] = began[q]
  BY <1>1 DEF Cache, Clocked, Settled
<1>4. Clocked'
  BY <1>1, <1>3, ProcessAssumption DEF Cache, Clocked
<1>5. began[r] \in Int /\ lastProbe \in Int /\ checks[r] # << >>
  <2>1. "llm" \in DOMAIN checks[r]
    BY <1>1 DEF Probed
  <2>2. checks[r] # << >>
    BY <2>1
  <2> QED BY <2>2 DEF Cache, Clocked
<1>6. Exclusive'
  <2>1. CASE Ttl = 0
    BY <1>1, <2>1 DEF Exclusive, Ttl
  <2>2. CASE Ttl # 0
    <3>1. /\ holder = r /\ began[r] = lastProbe
          /\ \A q \in Requests : q # r => stage[q] # "probing"
      BY <1>1, <1>2, <2>2 DEF Cache, Exclusive
    <3>2. /\ cached'.result = checks[r] /\ cached'.expires = lastProbe' + Ttl'
      BY <1>1, <2>2, <3>1 DEF Ttl
    <3> QED BY <1>3, <1>5, <3>1, <3>2 DEF Exclusive
  <2> QED BY <2>1, <2>2
<1>7. Found'
  <2>1. ASSUME NEW q \in Requests, q # r
        PROVE  /\ stage'[q] # "probing" => checks'[q] = << >>
               /\ stage'[q] = "probing" =>
                    /\ arrived'[q] <= began'[q] /\ began'[q] <= clock'
                    /\ \A d \in DOMAIN checks'[q] :
                         d \in Services /\ Finding(d, checks'[q][d], began'[q])
    BY <1>1, <1>3, <2>1 DEF Cache, Found
  <2> QED BY <1>1, <1>3, <2>1 DEF Found, Finding, LastUp, LastDown
<1>8. Kept'
  <2>1. CASE Ttl = 0
    BY <1>1, <2>1 DEF Cache, Kept, Finding, LastUp, LastDown, Probed, StoreServices, Ttl
  <2>2. CASE Ttl # 0
    <3>1. /\ cached'.result = checks[r] /\ cached'.expires \in Int
          /\ cached'.expires - Ttl = began[r]
      BY <1>1, <1>2, <1>5, <2>2
    <3>2. \A d \in Probed : Finding(d, checks[r][d], began[r])
      BY <1>1 DEF Cache, Found
    <3>3. UNCHANGED <<Probed, Ttl>>
      BY <1>1 DEF Probed, StoreServices, Ttl
    <3> QED BY <1>1, <3>1, <3>2, <3>3 DEF Kept, Finding, LastUp, LastDown
  <2> QED BY <2>1, <2>2
<1>9. Quiet'
  BY <1>2 DEF Quiet
<1> QED BY <1>4, <1>6, <1>7, <1>8, <1>9 DEF Cache

\* Time passes, or a service goes down or comes up.
LEMMA CacheWorldStep ==
  ASSUME Cache, Loaded => Sufficient(settings), Tick \/ (\E d \in Services : ServiceChanges(d))
  PROVE  Cache'
<1>1. UNCHANGED <<settings, phase, stage, checks, began, line, holder, cached, arrived, lastProbe>>
  BY DEF Tick, ServiceChanges, lifeVars, requestVars, cacheVars, ghostVars
<1>2. /\ clock' \in Nat /\ clock <= clock'
      /\ \/ UNCHANGED <<up, changed>>
         \/ \E e \in Services : /\ clock' = clock /\ changed' = [changed EXCEPT ![e] = clock]
                                /\ up' = IF e \in up THEN up \ {e} ELSE up \cup {e}
  BY DEF Tick, ServiceChanges, Cache, Clocked
<1>3. \A d \in Services, t \in Int : \A says : Finding(d, says, t) => Finding(d, says, t)'
  BY <1>2, SightingsKept DEF Cache
<1>4. Clocked'
  <2>1. changed' \in [Services -> Int] /\ \A d \in Services : changed'[d] <= clock'
    BY <1>2 DEF Cache, Clocked
  <2>2. lastProbe' <= clock' /\ \A r \in Requests : arrived'[r] <= clock'
    BY <1>1, <1>2 DEF Cache, Clocked
  <2> QED BY <1>1, <1>2, <2>1, <2>2 DEF Cache, Clocked
<1>5. Quiet' /\ Exclusive'
  BY <1>1 DEF Cache, Quiet, Exclusive, Loaded, Ttl, NoChecks
<1>6. Found'
  <2>1. ASSUME NEW r \in Requests, stage[r] = "probing"
        PROVE  /\ arrived[r] <= began[r] /\ began[r] <= clock'
               /\ \A d \in DOMAIN checks[r] :
                    d \in Services /\ Finding(d, checks[r][d], began[r])'
    <3>1. /\ arrived[r] <= began[r] /\ began[r] <= clock
          /\ began[r] \in Int /\ clock \in Nat
          /\ \A d \in DOMAIN checks[r] : d \in Services /\ Finding(d, checks[r][d], began[r])
      BY <2>1 DEF Cache, Found, Clocked
    <3>2. began[r] <= clock'
      BY <1>2, <3>1
    <3>3. \A d \in DOMAIN checks[r] : Finding(d, checks[r][d], began[r])'
      BY <1>1, <1>3, <3>1 DEF Finding, LastUp, LastDown
    <3> QED BY <3>1, <3>2, <3>3
  <2> QED BY <1>1, <2>1 DEF Cache, Found, Finding, LastUp, LastDown
<1>7. Kept'
  <2>1. ASSUME cached.result # << >>
        PROVE  /\ DOMAIN cached.result = Probed /\ cached.expires \in Int
               /\ \A d \in Probed : Finding(d, cached.result[d], cached.expires - Ttl)'
    <3>1. /\ DOMAIN cached.result = Probed /\ cached.expires \in Int
          /\ \A d \in Probed : Finding(d, cached.result[d], cached.expires - Ttl)
      BY <2>1 DEF Cache, Kept
    <3>2. Loaded
      BY <2>1 DEF Cache, Quiet, NoChecks
    <3>3. cached.expires - Ttl \in Int
      BY <3>1, <3>2 DEF Sufficient, Ttl
    <3>4. Probed \subseteq Services
      BY DEF Probed, StoreServices, Services
    <3> QED BY <1>1, <1>3, <3>1, <3>3, <3>4 DEF Finding, LastUp, LastDown, Ttl
  <2>2. UNCHANGED <<Probed, Ttl>>
    BY <1>1 DEF Probed, StoreServices, Ttl
  <2> QED BY <1>1, <2>1, <2>2 DEF Kept, Finding, LastUp, LastDown
<1> QED BY <1>4, <1>5, <1>6, <1>7 DEF Cache

\* Each request of the line waits there once.
Lined ==
  /\ line \in Seq(Requests)
  /\ \A i, j \in 1..Len(line) : line[i] = line[j] => i = j
  /\ \A i \in 1..Len(line) : stage[line[i]] = "queued"

LEMMA LinedStep == Clocked /\ Lined /\ [Next]_vars => Lined'
<1> SUFFICES ASSUME Clocked, Lined, [Next]_vars PROVE Lined'
  OBVIOUS
<1>1. CASE UNCHANGED <<line, stage>>
  BY <1>1 DEF Lined
<1>2. ASSUME NEW r \in Requests, NEW s, stage[r] # "queued", stage' = [stage EXCEPT ![r] = s],
             line' = line
      PROVE  Lined'
  BY <1>2 DEF Clocked, Lined
<1>3. ASSUME NEW r \in Requests, stage[r] # "queued", stage' = [stage EXCEPT ![r] = "queued"],
             line' = Append(line, r)
      PROVE  Lined'
  <2>1. /\ line' \in Seq(Requests) /\ Len(line') = Len(line) + 1 /\ Len(line) \in Nat
        /\ \A i \in 1..Len(line) : line'[i] = line[i]
        /\ line'[Len(line) + 1] = r
    BY <1>3, AppendProperties, LenProperties DEF Lined
  <2>2. \A i \in 1..Len(line) : line[i] # r /\ line[i] \in Requests
    BY <1>3 DEF Lined
  <2>3. \A i \in 1..Len(line') : i = Len(line) + 1 \/ i \in 1..Len(line)
    BY <2>1
  <2>4. \A i \in 1..Len(line') : stage'[line'[i]] = "queued"
    BY <1>3, <2>1, <2>2, <2>3 DEF Clocked, Lined
  <2>5. \A i, j \in 1..Len(line') : line'[i] = line'[j] => i = j
    BY <2>1, <2>2, <2>3 DEF Lined
  <2> QED BY <2>1, <2>4, <2>5 DEF Lined
<1>4. ASSUME NEW r \in Requests, NEW s, stage' = [stage EXCEPT ![r] = s], line # << >>,
             r = Head(line), line' = Tail(line)
      PROVE  Lined'
  <2>1. /\ line' \in Seq(Requests) /\ Len(line') = Len(line) - 1 /\ Len(line) \in Nat
        /\ \A i \in 1..Len(line') : line'[i] = line[i + 1]
        /\ r = line[1]
    BY <1>4, HeadTailProperties, LenProperties DEF Lined
  <2>2. \A i \in 1..Len(line') : i + 1 \in 1..Len(line) /\ i + 1 # 1 /\ 1 \in 1..Len(line)
    BY <2>1
  <2>3. \A i \in 1..Len(line') : line'[i] # r /\ line'[i] \in Requests
    BY <2>1, <2>2 DEF Lined
  <2>4. \A i \in 1..Len(line') : stage'[line'[i]] = "queued"
    BY <1>4, <2>1, <2>2, <2>3 DEF Clocked, Lined
  <2>5. \A i, j \in 1..Len(line') : line'[i] = line'[j] => i = j
    BY <2>1, <2>2 DEF Lined
  <2> QED BY <2>1, <2>4, <2>5 DEF Lined
<1>5. CASE Live \/ BeginShutdown \/ Tick \/ (\E d \in Services : ServiceChanges(d))
  <2>1. UNCHANGED <<line, stage>>
    BY <1>5 DEF Live, BeginShutdown, Tick, ServiceChanges, Elsewhere, requestVars, cacheVars
  <2> QED BY <1>1, <2>1
<1>6. ASSUME NEW r \in Requests, Request(r) PROVE Lined'
  <2>1. CASE AskReady(r)
    BY <1>2, <1>3, <2>1 DEF AskReady, Arrives, Enter, BeginProbe
  <2>2. CASE ~ AskReady(r)
    <3>1. /\ stage[r] = "new" /\ line' = line
          /\ \E s \in {"refused", "answered"} : stage' = [stage EXCEPT ![r] = s]
      BY <1>6, <2>2 DEF Request, TurnedAway, AnsweredAtOnce, CallLlm, Arrives, Enter, cacheVars
    <3> QED BY <1>2, <3>1
  <2> QED BY <2>1, <2>2
<1>7. ASSUME NEW r \in Requests, Readiness(r) PROVE Lined'
  <2>1. CASE ServeCached(r)
    BY <1>4, <2>1 DEF ServeCached, Enter
  <2>2. CASE ProbeAnew(r)
    BY <1>4, <2>2 DEF ProbeAnew, BeginProbe, Enter
  <2>3. CASE \E d \in Services : ProbeReturns(r, d)
    BY <1>1, <2>3 DEF ProbeReturns, cacheVars
  <2>4. CASE ProbesEnd(r)
    BY <1>2, <2>4 DEF ProbesEnd, Enter
  <2> QED BY <1>7, <2>1, <2>2, <2>3, <2>4 DEF Readiness
<1>8. CASE UNCHANGED vars
  BY <1>1, <1>8 DEF vars, requestVars, cacheVars
<1> QED BY <1>5, <1>6, <1>7, <1>8 DEF Next

\* The steps that change where a request is.
LEMMA StageStep ==
  ASSUME [Next]_vars
  PROVE  \/ UNCHANGED stage
         \/ \E r \in Requests, s \in {"refused", "answered", "queued"} :
              stage' = [stage EXCEPT ![r] = s]
         \/ \E r \in Requests : AskReady(r) /\ BeginProbe(r) /\ Ttl = 0
         \/ \E r \in Requests : ServeCached(r) \/ ProbeAnew(r) \/ ProbesEnd(r)
<1>1. CASE \/ Live \/ BeginShutdown \/ Tick \/ (\E d \in Services : ServiceChanges(d))
           \/ UNCHANGED vars
  BY <1>1 DEF Live, BeginShutdown, Tick, ServiceChanges, Elsewhere, requestVars, vars
<1>2. ASSUME NEW r \in Requests, Request(r)
      PROVE  \/ \E s \in {"refused", "answered", "queued"} : stage' = [stage EXCEPT ![r] = s]
             \/ AskReady(r) /\ BeginProbe(r) /\ Ttl = 0
  BY <1>2 DEF Request, TurnedAway, AnsweredAtOnce, CallLlm, AskReady, Enter
<1>3. ASSUME NEW r \in Requests, Readiness(r)
      PROVE  UNCHANGED stage \/ ServeCached(r) \/ ProbeAnew(r) \/ ProbesEnd(r)
  BY <1>3 DEF Readiness, ProbeReturns
<1> QED BY <1>1, <1>2, <1>3 DEF Next

LEMMA FirstIsQueued ==
  ASSUME Lined, NEW r, ServeCached(r) \/ ProbeAnew(r)
  PROVE  stage[r] = "queued"
<1>1. line \in Seq(Requests) /\ line # << >> /\ r = Head(line)
  BY DEF Lined, ServeCached, ProbeAnew
<1>2. r = line[1] /\ 1 \in 1..Len(line)
  BY <1>1, EmptySeq
<1> QED BY <1>2 DEF Lined

LEMMA CacheStep == Cache /\ Lined /\ Life /\ Configured /\ [Next]_vars => Cache'
<1> SUFFICES ASSUME Cache, Lined, Life, Configured, [Next]_vars PROVE Cache'
  OBVIOUS
<1>1. Loaded => Sufficient(settings)
  BY DEF Configured, Loaded
<1>2. CASE Live \/ BeginShutdown
  BY <1>2, CacheLifeStep
<1>3. ASSUME NEW r \in Requests, Request(r) PROVE Cache'
  BY <1>3, CacheAskStep, CacheElsewhereStep
<1>4. ASSUME NEW r \in Requests, Readiness(r) PROVE Cache'
  <2>1. ServeCached(r) \/ ProbeAnew(r) => stage[r] # "probing"
    BY FirstIsQueued
  <2> QED BY <1>1, <1>4, <2>1, CacheServeStep, CacheProbeStep, CacheReturnStep, CacheEndStep
          DEF Readiness
<1>5. CASE Tick \/ (\E d \in Services : ServiceChanges(d))
  BY <1>1, <1>5, CacheWorldStep
<1>6. CASE UNCHANGED vars
  <2>1. UNCHANGED <<settings, phase, up, clock, stage, checks, began, line, holder, cached, changed,
                    arrived, lastProbe>>
    BY <1>6 DEF vars, lifeVars, requestVars, cacheVars, ghostVars, worldVars
  <2>2. Clocked' /\ Quiet' /\ Exclusive'
    BY <2>1 DEF Cache, Clocked, Quiet, Exclusive, Loaded, Ttl, NoChecks
  <2>3. Found' /\ Kept'
    BY <2>1 DEF Cache, Found, Kept, Finding, LastUp, LastDown, Probed, StoreServices, Ttl
  <2> QED BY <2>2, <2>3 DEF Cache
<1> QED BY <1>2, <1>3, <1>4, <1>5, <1>6 DEF Next

\* Probes exclude each other, and their results, cached or in the making, were
\* true of the service at some time since they began.
THEOREM CacheInvariant == Spec => [](Cache /\ Lined)
<1>1. Init => Lined
  BY DEF Init, Lined
<1>2. Cache => Clocked
  BY DEF Cache
<1> QED
  BY <1>1, <1>2, CacheInit, CacheStep, LinedStep, LifeInvariant, ConfiguredInvariant, PTL DEF Spec

\* The probes of the readiness route begin at least ttl apart.
THEOREM ProbesSpaced == Spec => ProbesAreSpaced
<1>1. ASSUME Cache, Lined, Configured, [Next]_vars, NEW q \in Requests,
             stage[q] # "probing", stage'[q] = "probing"
      PROVE  clock >= lastProbe + Ttl
  <2>1. clock \in Nat /\ lastProbe \in Int /\ lastProbe <= clock
    BY <1>1 DEF Cache, Clocked
  <2>2. ASSUME NEW r \in Requests, NEW s, stage' = [stage EXCEPT ![r] = s]
        PROVE  q = r /\ s = "probing"
    BY <1>1, <2>2 DEF Cache, Clocked
  <2>3. CASE Ttl = 0
    BY <2>1, <2>3
  <2>4. CASE Ttl # 0
    <3>1. ProbeAnew(q)
      <4>1. \A r \in Requests : \A s : stage' = [stage EXCEPT ![r] = s] => q = r /\ s = "probing"
        BY <2>2
      <4>2. stage' # stage
        BY <1>1
      <4>3. \A r \in Requests : ServeCached(r) \/ ProbesEnd(r)
              => \E s \in {"ready", "not_ready"} : stage' = [stage EXCEPT ![r] = s]
        BY DEF ServeCached, ProbesEnd, Enter, Verdict
      <4>4. \A r \in Requests : ProbeAnew(r) => stage' = [stage EXCEPT ![r] = "probing"]
        BY DEF ProbeAnew, BeginProbe, Enter
      <4>5. PICK r \in Requests : ServeCached(r) \/ ProbeAnew(r) \/ ProbesEnd(r)
        BY <1>1, <2>4, <4>1, <4>2, StageStep
      <4>6. ProbeAnew(r)
        BY <4>1, <4>3, <4>5
      <4> QED BY <4>1, <4>4, <4>6
    <3>2. Loaded /\ Ttl \in Nat
      BY <1>1, <3>1, QuietIsNotAsked DEF Cache, Configured, Loaded, Sufficient, Ttl
    <3>3. holder = NoRequest /\ ~ Fresh
      BY <3>1 DEF ProbeAnew, LockIsFree
    <3>4. CASE cached.result = << >> /\ lastProbe = Dawn
      BY <1>1, <2>1, <3>2, <3>4 DEF Configured, Loaded, Sufficient, Ttl
    <3>5. CASE cached.result # << >> /\ cached.expires = lastProbe + Ttl
      BY <2>1, <3>2, <3>3, <3>5 DEF Fresh
    <3> QED BY <1>1, <2>4, <3>2, <3>3, <3>4, <3>5 DEF Cache, Exclusive
  <2> QED BY <2>3, <2>4
<1>2. (Cache /\ Lined) /\ Configured /\ [Next]_vars
        => [\A r \in Requests : stage[r] # "probing" /\ stage'[r] = "probing"
              => clock >= lastProbe + Ttl]_vars
  BY <1>1
<1> QED BY <1>2, CacheInvariant, ConfiguredInvariant, PTL DEF Spec, ProbesAreSpaced

LEMMA VerdictOf ==
  ASSUME NEW found, NEW t \in Int, DOMAIN found = Probed,
         \A d \in Probed : Finding(d, found[d], t)
  PROVE  /\ Verdict(found) = "ready" => \A d \in Probed : LastUp(d) >= t
         /\ Verdict(found) = "not_ready" => \E d \in Probed : LastDown(d) >= t
BY DEF Verdict, Finding

\* An answer is about the last ttl seconds or the time since its request came.
THEOREM AnswersRecent == Spec => AnswersAreRecent
<1>1. ASSUME Cache, Lined, Configured, [Next]_vars, NEW q \in Requests,
             stage[q] \in {"queued", "probing"}, stage'[q] \in {"ready", "not_ready"}
      PROVE  /\ stage'[q] = "ready" => \A d \in Probed : Recent(q, LastUp(d))
             /\ stage'[q] = "not_ready" => \E d \in Probed : Recent(q, LastDown(d))
  <2>1. stage \in [Requests -> {"new", "queued", "probing"} \cup Settled] /\ clock \in Nat
    BY <1>1 DEF Cache, Clocked
  <2>2. \A r \in Requests : \A s : stage' = [stage EXCEPT ![r] = s] => q = r /\ s \in {"ready", "not_ready"}
    BY <1>1, <2>1
  <2>3. /\ stage' # stage
        /\ \A r \in Requests : ~ BeginProbe(r) /\ ~ ProbeAnew(r)
    BY <1>1, <2>2 DEF BeginProbe, ProbeAnew, Enter
  <2>4. ServeCached(q) \/ ProbesEnd(q)
    <3>1. PICK r \in Requests : ServeCached(r) \/ ProbesEnd(r)
      BY <1>1, <2>2, <2>3, StageStep
    <3>2. r = q
      BY <2>2, <3>1 DEF ServeCached, ProbesEnd, Enter
    <3> QED BY <3>1, <3>2
  <2>5. \A d \in Probed : LastUp(d) \in Int /\ LastDown(d) \in Int
    BY <1>1 DEF Cache, Clocked, LastUp, LastDown, Probed, StoreServices, Services
  <2>6. Loaded /\ Ttl \in Nat
    BY <1>1, <2>4, QuietIsNotAsked DEF Cache, Configured, Loaded, Sufficient, Ttl
  <2>7. CASE ServeCached(q)
    <3>1. /\ stage'[q] = Verdict(cached.result)
          /\ cached.result # << >> /\ clock < cached.expires
      BY <2>1, <2>7 DEF ServeCached, Enter, Fresh
    <3>2. /\ DOMAIN cached.result = Probed /\ cached.expires \in Int
          /\ \A d \in Probed : Finding(d, cached.result[d], cached.expires - Ttl)
      BY <1>1, <3>1 DEF Cache, Kept
    <3>3. cached.expires - Ttl \in Int /\ cached.expires - Ttl > clock - Ttl
      BY <2>1, <2>6, <3>1, <3>2
    <3>4. /\ stage'[q] = "ready" => \A d \in Probed : LastUp(d) >= cached.expires - Ttl
          /\ stage'[q] = "not_ready" => \E d \in Probed : LastDown(d) >= cached.expires - Ttl
      BY <3>1, <3>2, <3>3, VerdictOf
    <3>5. \A n \in Int : n >= cached.expires - Ttl => n > clock - Ttl
      BY <2>1, <2>6, <3>2, <3>3
    <3> QED BY <2>5, <3>4, <3>5 DEF Recent
  <2>8. CASE ProbesEnd(q)
    <3>1. /\ stage'[q] = Verdict(checks[q]) /\ DOMAIN checks[q] = Probed /\ stage[q] = "probing"
      BY <2>1, <2>8 DEF ProbesEnd, Enter
    <3>2. /\ \A d \in Probed : Finding(d, checks[q][d], began[q])
          /\ arrived[q] <= began[q] /\ began[q] \in Int /\ arrived[q] \in Int
      BY <1>1, <3>1 DEF Cache, Found, Clocked
    <3>3. /\ stage'[q] = "ready" => \A d \in Probed : LastUp(d) >= began[q]
          /\ stage'[q] = "not_ready" => \E d \in Probed : LastDown(d) >= began[q]
      BY <3>1, <3>2, VerdictOf
    <3>4. \A n \in Int : n >= began[q] => n >= arrived[q]
      BY <3>2
    <3> QED BY <2>5, <3>3, <3>4 DEF Recent
  <2> QED BY <2>4, <2>7, <2>8
<1>2. (Cache /\ Lined) /\ Configured /\ [Next]_vars
        => [\A r \in Requests : stage[r] \in {"queued", "probing"} =>
              /\ stage'[r] = "ready" => \A d \in Probed : Recent(r, LastUp(d))
              /\ stage'[r] = "not_ready" => \E d \in Probed : Recent(r, LastDown(d))]_vars
  BY <1>1
<1> QED BY <1>2, CacheInvariant, ConfiguredInvariant, PTL DEF Spec, AnswersAreRecent

-----------------------------------------------------------------------------
(* The rate limit.                                                         *)

\* The right end of the trusted chain: behind declared proxies, whatever the
\* client forged to the left of them, a request counts for its client.
LEMMA IdentifiedAsClient ==
  ASSUME NEW trusted, NEW c \in Clients, c \notin trusted,
         NEW path \in Paths, ToSet(path) \subseteq trusted, NEW forged \in Forgeries
  PROVE  ClientIdentifier(Peer(c, path), Forwarded(c, path, forged), trusted, Addresses) = c
<1>1. path \in Seq(Addresses) /\ c \in Addresses
  BY ProcessAssumption
<1>2. PICK H : path \in Seq(H) /\ forged \in Seq(H) /\ c \in H
  <2>1. forged \in Seq(Range(forged))
    BY ProcessAssumption
  <2> DEFINE H == Addresses \cup Range(forged)
  <2>2. path \in Seq(H) /\ forged \in Seq(H) /\ c \in H
    BY <1>1, <2>1
  <2> QED BY <2>2
<1>3. CASE path = << >>
  BY <1>3 DEF ClientIdentifier, Peer
<1>4. CASE path # << >>
  <2> DEFINE m == Len(path)
             k == Len(forged) + 1
             fw == Forwarded(c, path, forged)
             stops == {i \in DOMAIN fw : fw[i] \notin trusted}
  <2>1. m \in Nat /\ m >= 1 /\ DOMAIN path = 1..m /\ Len(forged) \in Nat /\ k \in Nat
    BY <1>2, <1>4, LenProperties, EmptySeq
  <2>2. \A i \in 1..m : path[i] \in trusted
    BY <2>1 DEF ToSet
  <2>3. Peer(c, path) \in trusted
    BY <1>4, <2>1, <2>2 DEF Peer, Last
  <2>4. /\ Front(path) \in Seq(H) /\ Len(Front(path)) = m - 1
        /\ \A i \in 1..(m - 1) : Front(path)[i] = path[i]
    <3>1. Front(path) = SubSeq(path, 1, Len(path) - 1)
      BY DEF Front
    <3> QED BY <1>2, <2>1, <3>1, SubSeqProperties
  <2>5. /\ forged \o <<c>> \in Seq(H) /\ Len(forged \o <<c>>) = k
        /\ (forged \o <<c>>)[k] = c
    BY <1>2, <2>1, ConcatProperties
  <2>6. fw = (forged \o <<c>>) \o Front(path)
    BY <1>4 DEF Forwarded
  <2>7. /\ fw \in Seq(H) /\ Len(fw) = k + (m - 1) /\ DOMAIN fw = 1..(k + (m - 1))
        /\ fw[k] = c
        /\ \A i \in 1..(k + (m - 1)) : i > k => fw[i] = Front(path)[i - k]
    <3>1. PICK u \in Seq(H) : u = forged \o <<c>>
      BY <2>5
    <3>2. PICK v \in Seq(H) : v = Front(path)
      BY <2>4
    <3>3. fw = u \o v /\ Len(u) = k /\ Len(v) = m - 1 /\ u[k] = c
      BY <2>4, <2>5, <2>6, <3>1, <3>2
    <3> HIDE DEF fw, k, m
    <3>4. /\ u \o v \in Seq(H) /\ Len(u \o v) = Len(u) + Len(v)
          /\ \A i \in 1..(Len(u) + Len(v)) :
               (u \o v)[i] = IF i <= Len(u) THEN u[i] ELSE v[i - Len(u)]
      BY ConcatProperties
    <3>5. k >= 1
      BY <2>1 DEF k
    <3> QED BY <2>1, <3>2, <3>3, <3>4, <3>5, LenProperties
  <2>8. k \in stops /\ \A i \in stops : i <= k
    <3>1. k \in DOMAIN fw
      BY <2>1, <2>7
    <3>2. ASSUME NEW i \in DOMAIN fw, i > k  PROVE fw[i] \in trusted
      <4>1. i \in 1..(k + (m - 1)) /\ i - k \in 1..(m - 1) /\ i - k \in 1..m
        BY <2>1, <2>7, <3>2
      <4>2. fw[i] = path[i - k]
        BY <2>4, <2>7, <3>2, <4>1
      <4> QED BY <2>2, <4>1, <4>2
    <3> HIDE DEF fw, k, m
    <3> QED BY <2>1, <2>7, <3>1, <3>2
  <2>9. LastHop(fw, stops) = k
    <3> HIDE DEF fw, k, m
    <3>1. stops \subseteq Int
      BY <2>1, <2>7
    <3> HIDE DEF stops
    <3>2. \A x \in stops : (\A y \in stops : x >= y) => x = k
      BY <2>1, <2>8, <3>1
    <3>3. k \in stops /\ \A y \in stops : k >= y
      BY <2>1, <2>8, <3>1
    <3> QED BY <3>2, <3>3 DEF LastHop, Max
  <2>10. fw[k] = c /\ stops # {}
    BY <2>7, <2>8
  <2> HIDE DEF k, m
  <2> QED BY <1>1, <2>3, <2>9, <2>10 DEF ClientIdentifier
<1> QED BY <1>3, <1>4

Between(N, t, u) == {x \in N : t <= x.at /\ x.at < u}

\* What was taken of one client, N, next to its count, b, at time n with limit L:
\* no more than the limit in the window that b is of, and in the time before it
\* that is within a window of it.
Within(N, b, n, L) ==
  LET start == b.until - Window IN
  /\ IsFiniteSet(N)
  /\ b \in [hits : Nat, until : Nat] /\ b.until <= n + Window
  /\ \A x \in N : x.at \in Nat /\ x.at <= n /\ x.at < b.until
  /\ \A t \in Int : t >= start =>
       \A u \in Int : Cardinality(Between(N, t, u)) <= b.hits /\ Cardinality(Between(N, t, u)) <= L
  /\ \A t \in Int : t > start - Window => Cardinality(Between(N, t, start)) <= L
  /\ \A t \in Int : Cardinality(Between(N, t, t + Window)) <= 2 * L

LEMMA WithinEmpty == ASSUME NEW n \in Nat, NEW L \in Nat PROVE Within({}, NoHits, n, L)
<1>1. \A t, u : Cardinality(Between({}, t, u)) = 0
  BY FS_EmptySet DEF Between
<1> QED BY <1>1, WindowAssumption, FS_EmptySet DEF Within, NoHits

LEMMA WithinLater ==
  ASSUME NEW N, NEW b, NEW n \in Nat, NEW L \in Nat, Within(N, b, n, L), NEW m \in Nat, n <= m
  PROVE  Within(N, b, m, L)
<1>1. \A x \in N : x.at \in Nat /\ x.at <= m /\ x.at < b.until
  BY DEF Within
<1>2. b \in [hits : Nat, until : Nat] /\ b.until <= m + Window
  BY WindowAssumption DEF Within
<1> QED BY <1>1, <1>2 DEF Within

\* A part of a client's requests is finite, and has no more of them than the whole.
LEMMA PartsOfN ==
  ASSUME NEW N, IsFiniteSet(N)
  PROVE  /\ \A t, u : IsFiniteSet(Between(N, t, u)) /\ Cardinality(Between(N, t, u)) \in Nat
         /\ \A t, u, v, w : Between(N, t, u) \subseteq Between(N, v, w)
              => Cardinality(Between(N, t, u)) <= Cardinality(Between(N, v, w))
<1>1. \A t, u : Between(N, t, u) \in SUBSET N
  BY DEF Between
<1>2. \A t, u : IsFiniteSet(Between(N, t, u))
  BY <1>1, FS_Subset
<1> QED BY <1>2, FS_CardinalityType, FS_Subset

\* A hit that is counted and refused.
LEMMA WithinHit ==
  ASSUME NEW N, NEW b, NEW n \in Nat, NEW L \in Nat, Within(N, b, n, L)
  PROVE  Within(N, Hit(b, n), n, L)
<1>1. Window \in Nat /\ Window >= 1 /\ b.hits \in Nat /\ b.until \in Nat /\ IsFiniteSet(N)
  BY WindowAssumption DEF Within
<1> DEFINE start == b.until - Window
<1>2. CASE n < b.until
  <2>1. Hit(b, n) = [b EXCEPT !.hits = @ + 1]
    BY <1>1, <1>2 DEF Hit
  <2> DEFINE e == [b EXCEPT !.hits = @ + 1]
  <2>2. e \in [hits : Nat, until : Nat] /\ e.hits = b.hits + 1 /\ e.until = b.until
    BY DEF Within
  <2>3. \A t \in Int : t >= start => \A u \in Int : Cardinality(Between(N, t, u)) <= e.hits
    BY <1>1, <2>2, PartsOfN DEF Within
  <2> HIDE DEF e
  <2>4. Within(N, e, n, L)
    BY <2>2, <2>3 DEF Within
  <2> QED BY <2>1, <2>4 DEF e
<1>3. CASE n >= b.until
  <2>1. Hit(b, n) = [hits |-> 1, until |-> n + Window]
    BY <1>3 DEF Hit
  <2> DEFINE e == [hits |-> 1, until |-> n + Window]
  <2>2. e \in [hits : Nat, until : Nat] /\ e.hits = 1 /\ e.until = n + Window /\ e.until - Window = n
    BY <1>1
  <2>3. \A x \in N : x.at \in Nat /\ x.at < n /\ x.at < e.until
    BY <1>1, <1>3, <2>2 DEF Within
  <2>4. \A t \in Int : t >= n => \A u \in Int : Between(N, t, u) = {}
    BY <2>3 DEF Between
  <2>5. \A t \in Int : t > n - Window => Cardinality(Between(N, t, n)) <= L
    BY <1>1, <1>3 DEF Within
  <2> HIDE DEF e
  <2>6. Within(N, e, n, L)
    <3>1. \A t \in Int : t >= n => \A u \in Int : Cardinality(Between(N, t, u)) = 0
      BY <2>4, FS_EmptySet
    <3>2. \A x \in N : x.at <= n
      BY <2>3
    <3> QED BY <1>1, <2>2, <2>3, <2>5, <3>1, <3>2 DEF Within
  <2> QED BY <2>1, <2>6 DEF e
<1> QED BY <1>1, <1>2, <1>3

\* One that is taken.
LEMMA WithinTaken ==
  ASSUME NEW N, NEW b, NEW n \in Nat, NEW L \in Nat, Within(N, b, n, L),
         NEW e, e = Hit(b, n), e.hits <= L, NEW x, x.at = n
  PROVE  Within(N \cup {x}, e, n, L)
<1> DEFINE M == N \cup {x}
           start == e.until - Window
<1>1. Window \in Nat /\ Window >= 1 /\ b.hits \in Nat /\ b.until \in Nat /\ IsFiniteSet(N)
  BY WindowAssumption DEF Within
<1>2. Within(N, e, n, L)
  BY WithinHit
<1>3. e \in [hits : Nat, until : Nat] /\ e.hits \in Nat /\ e.until \in Nat /\ start \in Int
      /\ start <= n /\ n < e.until
  <2>1. e \in [hits : Nat, until : Nat] /\ e.until <= n + Window
    BY <1>2 DEF Within
  <2>2. n < e.until
    BY <1>1 DEF Hit, Within
  <2> QED BY <1>1, <2>1, <2>2
<1>4. IsFiniteSet(M)
  BY <1>1, FS_AddElement
<1>5. \A y \in M : y.at \in Nat /\ y.at <= n /\ y.at < e.until
  BY <1>2, <1>3 DEF Within
\* With the new one, the window has at most as many as the count says.
<1>6. ASSUME NEW t \in Int, t >= start, NEW u \in Int
      PROVE  Cardinality(Between(M, t, u)) <= e.hits
  <2>1. Between(M, t, u) \subseteq Between(N, t, u) \cup {x}
    BY DEF Between
  <2>2. /\ IsFiniteSet(Between(N, t, u) \cup {x})
        /\ Cardinality(Between(N, t, u) \cup {x}) <= Cardinality(Between(N, t, u)) + 1
    <3>1. IsFiniteSet(Between(N, t, u)) /\ Cardinality(Between(N, t, u)) \in Nat
      BY <1>1, PartsOfN
    <3>2. PICK P : P = Between(N, t, u)
      OBVIOUS
    <3>3. /\ IsFiniteSet(P \cup {x})
          /\ Cardinality(P \cup {x}) = IF x \in P THEN Cardinality(P) ELSE Cardinality(P) + 1
      BY <3>1, <3>2, FS_AddElement
    <3> QED BY <3>1, <3>2, <3>3
  <2>3. Cardinality(Between(M, t, u)) <= Cardinality(Between(N, t, u) \cup {x})
    BY <2>1, <2>2, FS_Subset
  <2>4. Cardinality(Between(N, t, u)) + 1 <= e.hits
    <3>1. CASE n < b.until
      <4>1. e.hits = b.hits + 1 /\ e.until = b.until
        BY <1>1, <3>1 DEF Hit, Within
      <4> QED BY <1>1, <1>6, <4>1, PartsOfN DEF Within
    <3>2. CASE n >= b.until
      <4>1. e.hits = 1 /\ start = n
        BY <1>1, <3>2 DEF Hit
      <4>2. Between(N, t, u) = {}
        BY <1>1, <1>6, <3>2, <4>1 DEF Within, Between
      <4> QED BY <4>1, <4>2, FS_EmptySet
    <3> QED BY <1>1, <3>1, <3>2
  <2>5. Cardinality(Between(N, t, u)) \in Nat /\ Cardinality(Between(M, t, u)) \in Nat
    BY <1>1, <1>4, PartsOfN
  <2>6. Cardinality(Between(N, t, u) \cup {x}) \in Nat
    BY <2>2, FS_CardinalityType
  <2> HIDE DEF M
  <2> QED BY <1>3, <2>2, <2>3, <2>4, <2>5, <2>6
<1>11. \A t, u \in Int : t >= start => Cardinality(Between(M, t, u)) <= e.hits
  BY <1>6
<1>7. \A t \in Int : t > start - Window => Cardinality(Between(M, t, start)) <= L
  <2>1. \A t : Between(M, t, start) = Between(N, t, start)
    BY <1>3 DEF Between
  <2> QED BY <1>2, <2>1 DEF Within
\* A period with the new one in it has what is in the window, and before it.
<1>8. ASSUME NEW t \in Int  PROVE Cardinality(Between(M, t, t + Window)) <= 2 * L
  <2>1. CASE ~ (t <= n /\ n < t + Window)
    <3>1. Between(M, t, t + Window) = Between(N, t, t + Window)
      BY <2>1 DEF Between
    <3> QED BY <1>2, <3>1 DEF Within
  <2>2. CASE t >= start
    <3>1. Cardinality(Between(M, t, t + Window)) <= e.hits
      <4>1. t + Window \in Int
        BY <1>1
      <4> HIDE DEF M, start
      <4> QED BY <1>11, <2>2, <4>1
    <3>2. Cardinality(Between(M, t, t + Window)) \in Nat
      BY <1>4, PartsOfN
    <3> HIDE DEF M
    <3> QED BY <1>3, <3>1, <3>2
  <2>3. CASE t <= n /\ n < t + Window /\ t < start
    <3> DEFINE A == Between(M, t, start)
               B == Between(M, start, t + Window)
    <3>1. Between(M, t, t + Window) \subseteq A \cup B
      BY <1>1, <1>3, <1>5, <2>3 DEF Between
    <3>2. Cardinality(A) <= L
      <4>1. t > start - Window
        BY <1>1, <1>3, <2>3
      <4> HIDE DEF M, start
      <4> QED BY <1>7, <4>1
    <3>3. Cardinality(B) <= e.hits
      <4>1. t + Window \in Int /\ start \in Int /\ start >= start
        BY <1>1, <1>3
      <4> HIDE DEF M, start
      <4> QED BY <1>11, <4>1
    <3>4. IsFiniteSet(A) /\ IsFiniteSet(B) /\ Cardinality(A) \in Nat /\ Cardinality(B) \in Nat
      BY <1>4, PartsOfN
    <3>5. IsFiniteSet(A \cup B) /\ Cardinality(A \cup B) <= Cardinality(A) + Cardinality(B)
      <4> HIDE DEF A, B
      <4>1. /\ IsFiniteSet(A \cup B)
            /\ Cardinality(A \cup B) = Cardinality(A) + Cardinality(B) - Cardinality(A \cap B)
        BY <3>4, FS_Union
      <4>2. Cardinality(A \cap B) \in Nat
        BY <3>4, FS_Subset, FS_CardinalityType
      <4> QED BY <3>4, <4>1, <4>2
    <3>6. Cardinality(Between(M, t, t + Window)) <= Cardinality(A \cup B)
      BY <3>1, <3>5, FS_Subset
    <3>7. Cardinality(A \cup B) \in Nat /\ Cardinality(Between(M, t, t + Window)) \in Nat
      BY <1>4, <3>5, PartsOfN, FS_CardinalityType
    <3> HIDE DEF A, B, M, start
    <3> QED BY <1>3, <3>2, <3>3, <3>4, <3>5, <3>6, <3>7
  <2> QED BY <1>1, <1>3, <2>1, <2>2, <2>3
<1>9. \A t \in Int : t >= start =>
        \A u \in Int : Cardinality(Between(M, t, u)) <= e.hits /\ Cardinality(Between(M, t, u)) <= L
  <2>1. \A t, u : Cardinality(Between(M, t, u)) \in Nat
    BY <1>4, PartsOfN
  <2> HIDE DEF M, start
  <2> QED BY <1>3, <1>6, <2>1
<1>10. e.until <= n + Window
  BY <1>2 DEF Within
<1> HIDE DEF M
<1>12. Within(M, e, n, L)
  BY <1>3, <1>4, <1>5, <1>7, <1>8, <1>9, <1>10 DEF Within
<1> QED BY <1>12 DEF M

Of(c) == {x \in admitted : x.client = c}

\* Nothing is counted before there is a limit; then each client is within it.
Limited ==
  /\ clock \in Nat
  /\ buckets = [a \in Addresses |-> buckets[a]]
  /\ ~ Loaded => admitted = {} /\ buckets = [a \in Addresses |-> NoHits]
  /\ Loaded /\ ProxiesDeclared =>
       \A c \in Clients : Within(Of(c), buckets[c], clock, settings.llm_rate_limit)

LEMMA LimitedStep == Configured /\ Limited /\ [Next]_vars => Limited'
<1> SUFFICES ASSUME Configured, Limited, [Next]_vars  PROVE Limited'
  OBVIOUS
<1>1. CASE LoadSettings /\ UNCHANGED Elsewhere
  <2>1. /\ ~ Loaded /\ UNCHANGED <<clock, admitted, buckets>>
    BY <1>1 DEF LoadSettings, Loaded, Elsewhere, limitVars, worldVars
  <2>2. \A c \in Clients : Of(c)' = {} /\ buckets'[c] = NoHits
    BY <2>1, ProcessAssumption DEF Limited, Of
  <2>3. Loaded' => settings'.llm_rate_limit \in Nat
    BY <1>1, ConfiguredStep DEF Configured, Sufficient, Valid, Loaded
  <2> QED BY <2>1, <2>2, <2>3, WithinEmpty DEF Limited
<1>2. ASSUME NEW r \in Requests, NEW c \in Clients, NEW path \in Paths, NEW forged \in Forgeries,
             NEW authentic \in BOOLEAN, CallLlm(r, c, path, forged, authentic)
      PROVE  Limited'
  <2>1. phase = "serving" /\ UNCHANGED <<phase, settings, clock>>
    BY <1>2 DEF CallLlm, Arrives, lifeVars, worldVars
  <2>2. PICK id : id = ClientIdentifier(Peer(c, path), Forwarded(c, path, forged),
                                        settings.trusted_proxies, Addresses)
    OBVIOUS
  <2>3. PICK e : e = Hit(buckets[id], clock)
    OBVIOUS
  <2>4. /\ buckets' = [buckets EXCEPT ![id] = e]
        /\ \/ admitted' = admitted
           \/ /\ e.hits <= settings.llm_rate_limit
              /\ admitted' = admitted \cup {[request |-> r, client |-> c, at |-> clock]}
    BY <1>2, <2>2, <2>3 DEF CallLlm
  <2>5. clock' \in Nat /\ buckets' = [a \in Addresses |-> buckets'[a]] /\ Loaded'
    BY <2>1, <2>4 DEF Limited, Loaded
  <2>6. ASSUME ProxiesDeclared', NEW d \in Clients
        PROVE  Within(Of(d)', buckets'[d], clock, settings.llm_rate_limit)
    <3>1. ProxiesDeclared /\ Loaded
      BY <2>1, <2>6 DEF ProxiesDeclared, Loaded
    <3>2. /\ Clients \cap settings.trusted_proxies = {}
          /\ settings.llm_rate_limit \in Nat
      BY <3>1 DEF Configured, Sufficient, Valid, Loaded
    <3>3. id = c
      BY <2>2, <3>1, <3>2, IdentifiedAsClient DEF ProxiesDeclared
    <3>4. Within(Of(d), buckets[d], clock, settings.llm_rate_limit) /\ clock \in Nat
      BY <3>1 DEF Limited
    <3>5. d \in DOMAIN buckets /\ c \in DOMAIN buckets
      BY ProcessAssumption DEF Limited
    <3>6. CASE d # c
      <4>1. Of(d)' = Of(d)
        BY <2>4, <3>6 DEF Of
      <4> QED BY <2>4, <3>3, <3>4, <3>5, <3>6, <4>1
    <3>7. CASE d = c
      <4>1. buckets'[d] = e /\ e = Hit(buckets[d], clock)
        BY <2>3, <2>4, <3>3, <3>5, <3>7
      <4>2. CASE admitted' = admitted
        <5>1. Of(d)' = Of(d)
          BY <4>2 DEF Of
        <5> QED BY <3>2, <3>4, <4>1, <5>1, WithinHit
      <4>3. CASE /\ e.hits <= settings.llm_rate_limit
                 /\ admitted' = admitted \cup {[request |-> r, client |-> c, at |-> clock]}
        <5>1. PICK x : x = [request |-> r, client |-> c, at |-> clock]
          OBVIOUS
        <5>2. x.at = clock /\ Of(d)' = Of(d) \cup {x}
          BY <3>7, <4>3, <5>1 DEF Of
        <5> QED BY <3>2, <3>4, <4>1, <4>3, <5>2, WithinTaken
      <4> QED BY <2>4, <4>2, <4>3
    <3> QED BY <3>6, <3>7
  <2> QED BY <2>1, <2>5, <2>6 DEF Limited
<1>3. CASE Tick
  <2>1. UNCHANGED <<phase, settings, admitted, buckets>> /\ clock' = clock + 1 /\ clock' \in Nat
    BY <1>3 DEF Tick, lifeVars, limitVars, Limited
  <2>2. Loaded => settings.llm_rate_limit \in Nat
    BY DEF Configured, Sufficient, Valid, Loaded
  <2>3. \A c \in Clients :
          Within(Of(c), buckets[c], clock, settings.llm_rate_limit) /\ Loaded
            => Within(Of(c), buckets[c], clock', settings.llm_rate_limit)
    BY <2>1, <2>2, WithinLater DEF Limited
  <2> QED BY <2>1, <2>3 DEF Limited, Loaded, ProxiesDeclared, Of
<1>4. CASE /\ UNCHANGED <<clock, admitted, buckets, settings>>
           /\ Loaded' <=> Loaded
  BY <1>4 DEF Limited, ProxiesDeclared, Of
<1>5. CASE \/ StartupStep /\ UNCHANGED Elsewhere
           \/ StartupFails /\ UNCHANGED Elsewhere
           \/ Sweep /\ UNCHANGED Elsewhere
           \/ CancelCleanup /\ UNCHANGED Elsewhere
           \/ CloseResource /\ UNCHANGED Elsewhere
           \/ CloseRaises /\ UNCHANGED Elsewhere
           \/ BeginShutdown
  <2>1. UNCHANGED <<settings, clock, admitted, buckets>>
    BY <1>5 DEF StartupStep, StartupFails, Sweep, CancelCleanup, CloseResource, CloseRaises,
                BeginShutdown, Elsewhere, limitVars, worldVars
  <2>2. Loaded' <=> Loaded
    BY <1>5 DEF StartupStep, StartupFails, Sweep, CancelCleanup, CloseResource, CloseRaises,
                BeginShutdown, GoOn, Advance, EndOf, ShuttingDown, Loaded
  <2> QED BY <1>4, <2>1, <2>2
<1>6. ASSUME NEW r \in Requests,
             \/ TurnedAway(r) \/ (\E host \in {"host", "other"} : AnsweredAtOnce(r, host))
             \/ AskReady(r) \/ Readiness(r)
      PROVE  Limited'
  <2>1. UNCHANGED <<lifeVars, limitVars, clock>>
    BY <1>6, Zenon DEF TurnedAway, AnsweredAtOnce, AskReady, Readiness, ServeCached, ProbeAnew,
                ProbeReturns, ProbesEnd, worldVars
  <2> QED BY <1>4, <2>1 DEF lifeVars, limitVars, Loaded
<1>7. CASE UNCHANGED vars \/ \E d \in Services : ServiceChanges(d)
  <2>1. UNCHANGED <<lifeVars, limitVars, clock>>
    BY <1>7 DEF ServiceChanges, vars, worldVars
  <2> QED BY <1>4, <2>1 DEF lifeVars, limitVars, Loaded
<1> QED BY <1>1, <1>2, <1>3, <1>5, <1>6, <1>7 DEF Next, Live, Request

\* What the LLM routes took of a client, in the window of its count and before it.
THEOREM LimitedInvariant == Spec => []Limited
<1>1. Init => Limited
  BY DEF Init, LifespanInit, Limited, Loaded
<1> QED BY <1>1, LimitedStep, ConfiguredInvariant, PTL DEF Spec

\* Behind declared proxies, and whatever its header says, the LLM routes take at
\* most two windows' worth of a client in any period as long as a window: the
\* fixed window of the limits library doubles at its edge, and no more.
THEOREM AdmissionsAreBounded == Spec => []LlmAdmissionsBounded
<1>1. Configured /\ Limited => LlmAdmissionsBounded
  <2> SUFFICES ASSUME Limited, Loaded, ProxiesDeclared, NEW c \in Clients, NEW t \in 0..MaxClock
               PROVE  Cardinality(Taken(c, t..(t + Window - 1))) <= 2 * settings.llm_rate_limit
    BY DEF LlmAdmissionsBounded, Loaded
  <2>1. Within(Of(c), buckets[c], clock, settings.llm_rate_limit)
    BY DEF Limited
  <2>2. Taken(c, t..(t + Window - 1)) = Between(Of(c), t, t + Window)
    BY <2>1, ProcessAssumption, WindowAssumption DEF Taken, Between, Of, Within
  <2> QED BY <2>1, <2>2, ProcessAssumption DEF Within
<1> QED BY <1>1, ConfiguredInvariant, LimitedInvariant, PTL
=============================================================================
