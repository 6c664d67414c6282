------------------------------ MODULE Settings ------------------------------
(***************************************************************************)
(* The configuration of the Python API (config/): what Settings accepts,   *)
(* and the model chain that llm/factory.py builds from it.                 *)
(*                                                                         *)
(* A secret is how strong it is, an allowed host the form of its pattern,  *)
(* a URL where it points and whether it is secure, a model identifier its  *)
(* provider as spelled.  JSON and comma-separated spellings of a list are  *)
(* the list.                                                               *)
(***************************************************************************)
EXTENDS Integers, Sequences

CONSTANTS Addresses    \* IP addresses and networks; anything else is malformed

Fields ==
  {"api_key", "session_signing_key", "app_env", "enable_mock_tools", "trusted_proxies",
   "allowed_hosts", "llm_model", "llm_fallback_models", "llm_api_key", "llm_base_url",
   "redis_session_store_enabled", "redis_url", "vector_store_backend", "embedding_model",
   "readiness_probe_cache_ttl", "llm_rate_limit"}

Environments == {"development", "staging", "production"}
AllowedProviders == {"openai", "anthropic", "ollama", "groq"}
CloudProviders == AllowedProviders \ {"ollama"}
Backends == {"memory", "chroma", "ollama"}

\* Neither blank, a placeholder nor shorter than 16 characters.
Strong(secret) == secret = "strong"

LowerCase(provider) == CASE provider = "OpenAI" -> "openai"
                         [] provider = "Ollama" -> "ollama"
                         [] OTHER -> provider

AllowedModel(provider) == LowerCase(provider) \in AllowedProviders
Secure(url) == url # "remote http"

\* "*", "*.example.com" and "example.com"; not ".example.com" nor "ex*ample".
UsablePattern(pattern) == pattern \in {"*", "*.domain", "host"}

HostsAllowed(s) ==
  LET hosts == s.allowed_hosts \ {""} IN
  /\ hosts # {}
  /\ s.app_env # "development" => "*" \notin hosts
  /\ \A pattern \in hosts : UsablePattern(pattern)

ChainModels(s) == {s.llm_model} \cup {s.llm_fallback_models[i] :
                                        i \in DOMAIN s.llm_fallback_models}

\* Mutant: the cloud key is asked for the primary model only.
PrimaryModel(s) == {s.llm_model}

\* The models that may need the cloud key: fallbacks are built later, unchecked.
CheckedModels(s) == ChainModels(s)

CloudKeyGiven(s) ==
  (\E m \in CheckedModels(s) : LowerCase(m) \in CloudProviders)
    => s.llm_api_key # "unset"

SecretsStrong(s) ==
  /\ Strong(s.api_key) /\ Strong(s.session_signing_key)
  /\ s.llm_api_key # "unset" => Strong(s.llm_api_key)

MockToolsAllowed(s) == s.enable_mock_tools => s.app_env # "production"
ProxiesParse(s) == s.trusted_proxies \subseteq Addresses
ModelsAllowed(s) == \A m \in ChainModels(s) : AllowedModel(m)
RedisHasUrl(s) == s.redis_session_store_enabled => s.redis_url
EmbeddingGiven(s) == s.vector_store_backend = "ollama" => s.embedding_model

Valid(s) ==
  /\ SecretsStrong(s)
  /\ s.app_env \in Environments /\ MockToolsAllowed(s)
  /\ ProxiesParse(s) /\ HostsAllowed(s)
  /\ ModelsAllowed(s) /\ Secure(s.llm_base_url) /\ CloudKeyGiven(s)
  /\ RedisHasUrl(s)
  /\ s.vector_store_backend \in Backends /\ EmbeddingGiven(s)
  /\ s.readiness_probe_cache_ttl >= 0 /\ s.llm_rate_limit \in Nat

\* What the validators leave of what they were given.
Normalized(s) ==
  [s EXCEPT !.allowed_hosts = @ \ {""},
            !.llm_model = LowerCase(@),
            !.llm_fallback_models = [i \in DOMAIN @ |-> LowerCase(@[i])]]

-----------------------------------------------------------------------------
(* The model chain.                                                        *)

\* Mutant: a fallback keeps the endpoint, whoever its provider is.
SameEndpoint(s, m) == [s EXCEPT !.llm_model = m]

\* The settings a fallback is built from: llm_base_url is the primary
\* provider's, and no validator runs again.
SettingsForModel(s, m) ==
  [s EXCEPT !.llm_model = m,
            !.llm_base_url = IF m = s.llm_model THEN @ ELSE "unset"]

BuildModel(s) ==
  [provider |-> s.llm_model,
   key |-> s.llm_api_key,
   endpoint |-> CASE s.llm_base_url # "unset" -> s.llm_base_url
                  [] s.llm_base_url = "unset" /\ s.llm_model = "ollama" -> "local"
                  [] OTHER -> "provider"]

FallbackModel(s) ==
  <<BuildModel(s)>> \o [i \in DOMAIN s.llm_fallback_models |->
                          BuildModel(SettingsForModel(s, s.llm_fallback_models[i]))]

-----------------------------------------------------------------------------
(* What the deployment needs at run time.                                  *)

\* The services the startup dry run and the readiness probes ask.
StoreServices(s) ==
  (IF s.vector_store_backend = "ollama" THEN {"ollama"} ELSE {}) \cup
  (IF s.redis_session_store_enabled THEN {"redis"} ELSE {})

\* TrustedHostMiddleware: a host a pattern stands for.
HostMatches(s, host) == "*" \in s.allowed_hosts \/ host \in s.allowed_hosts
=============================================================================
