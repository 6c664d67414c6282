------------------------------ MODULE Lifespan ------------------------------
(***************************************************************************)
(* The life of an API process (lifespan.py): settings are loaded, startup  *)
(* builds one resource after another and asks the external stores once,    *)
(* and shutdown, on the normal path and after a failed startup, cancels    *)
(* the cleanup task and closes the stores and the HTTP client.  The server *)
(* lets the requests in flight end before it shuts the application down.   *)
(***************************************************************************)
EXTENDS Settings

CONSTANTS RawSettings  \* the configurations a process may be started with

\* Fields are of their types; "local" and "provider" name default endpoints.
ASSUME RawAssumption ==
  \A s \in RawSettings :
    /\ DOMAIN s = Fields
    /\ s.llm_model \in STRING /\ s.llm_fallback_models \in Seq(STRING)
    /\ s.llm_base_url \notin {"local", "provider"}
    /\ s.readiness_probe_cache_ttl \in Int /\ s.llm_rate_limit \in Int

VARIABLES
  settings,
  phase,       \* of the process
  todo,        \* the steps of startup or shutdown still to take
  held,        \* the resources on app.state that are open
  sweeper,     \* the session cleanup task
  llm_model,   \* the model chain
  up           \* the services that answer

lifeVars == <<settings, phase, todo, held, sweeper, llm_model>>

Services == {"redis", "ollama", "llm"}
Resources == {"http_client", "vector_store", "session_store"}

StartupSteps ==
  <<"http_client", "vector_store", "session_store", "ollama", "redis", "cleanup_task",
    "llm_model", "chat_agent", "readiness_cache", "logfire">>

\* Mutant: the stores are closed before the cleanup task is stopped.
StoresFirst == <<"vector_store", "session_store", "http_client", "cleanup_task">>

ShutdownSteps == <<"cleanup_task", "vector_store", "session_store", "http_client">>

LifespanTypeOK ==
  /\ phase \notin {"off", "refused"} => Valid(settings) /\ Normalized(settings) = settings
  /\ phase \in {"off", "refused", "starting", "serving", "stopping", "failing",
                "stopped", "failed"}
  /\ Len(todo) \in 0..Len(StartupSteps)
  /\ held \subseteq Resources
  /\ sweeper \in {"none", "asleep", "sweeping", "ended"}
  /\ \A i \in DOMAIN llm_model :
       llm_model[i].provider \in AllowedProviders
  /\ up \subseteq Services

LifespanInit ==
  /\ settings \in RawSettings
  /\ phase = "off"
  /\ todo = << >>
  /\ held = {}
  /\ sweeper = "none"
  /\ llm_model = << >>
  /\ up = Services

-----------------------------------------------------------------------------
\* create_app: settings that do not validate stop the process.
LoadSettings ==
  /\ phase = "off"
  /\ IF Valid(settings)
     THEN /\ settings' = Normalized(settings)
          /\ phase' = "starting"
          /\ todo' = StartupSteps
     ELSE /\ phase' = "refused"
          /\ UNCHANGED <<settings, todo>>
  /\ UNCHANGED <<held, sweeper, llm_model, up>>

\* The factories' own checks of what the validators should have refused.
MissingSetting(step) ==
  \/ step = "vector_store" /\ settings.vector_store_backend = "ollama"
                           /\ ~ settings.embedding_model
  \/ step = "session_store" /\ settings.redis_session_store_enabled
                            /\ ~ settings.redis_url

\* The dry run of a store that has a service fails when the service is down.
DryRunFails(step) == step \in StoreServices(settings) /\ step \notin up

StartupStep ==
  /\ phase = "starting" /\ todo # << >>
  /\ LET step == Head(todo) IN
     /\ ~ MissingSetting(step) /\ ~ DryRunFails(step)
     /\ held' = held \cup ({step} \cap Resources)
     /\ sweeper' = IF step = "cleanup_task" THEN "asleep" ELSE sweeper
     /\ llm_model' = IF step = "llm_model" THEN FallbackModel(settings) ELSE llm_model
  /\ todo' = Tail(todo)
  /\ phase' = IF Len(todo) = 1 THEN "serving" ELSE "starting"
  /\ UNCHANGED <<settings, up>>

\* The steps that may raise whatever the settings say: constructors and the
\* dry runs; starting a task and making the cache do not.
MayRaise(step) ==
  \/ step \in Resources \cup {"llm_model", "chat_agent", "logfire"}
  \/ DryRunFails(step)

StartupFails ==
  /\ phase = "starting" /\ todo # << >>
  /\ MayRaise(Head(todo))
  /\ phase' = "failing"
  /\ todo' = ShutdownSteps
  /\ UNCHANGED <<settings, held, sweeper, llm_model, up>>

\* One pass of the cleanup task; an error of it is logged and the task goes on.
Sweep ==
  /\ \/ sweeper = "asleep" /\ sweeper' = "sweeping"
     \/ sweeper = "sweeping" /\ sweeper' = "asleep"
  /\ UNCHANGED <<settings, phase, todo, held, llm_model, up>>

ShuttingDown == phase \in {"stopping", "failing"}
EndOf(p) == IF p = "failing" THEN "failed" ELSE "stopped"
Advance(rest) ==
  /\ todo' = rest
  /\ phase' = IF rest = << >> THEN EndOf(phase) ELSE phase

\* Cancels the task and waits for it, if startup came so far.
CancelCleanup ==
  /\ ShuttingDown /\ todo # << >> /\ Head(todo) = "cleanup_task"
  /\ sweeper' = IF sweeper = "none" THEN "none" ELSE "ended"
  /\ Advance(Tail(todo))
  /\ UNCHANGED <<settings, held, llm_model, up>>

CloseResource ==
  /\ ShuttingDown /\ todo # << >> /\ Head(todo) \in Resources
  /\ held' = held \ {Head(todo)}
  /\ Advance(Tail(todo))
  /\ UNCHANGED <<settings, sweeper, llm_model, up>>

\* Mutant: an error of a close ends the shutdown.
GiveUp(rest) == Advance(<< >>)

\* _close_quietly: an error is logged, and the resources after it are closed.
GoOn(rest) == Advance(rest)

CloseRaises ==
  /\ ShuttingDown /\ todo # << >> /\ Head(todo) \in held
  /\ held' = held \ {Head(todo)}
  /\ GoOn(Tail(todo))
  /\ UNCHANGED <<settings, sweeper, llm_model, up>>
=============================================================================
