---------------------------- MODULE MCApiProcess ----------------------------
(***************************************************************************)
(* Instance of ApiProcess: two clients, two proxies, and configurations    *)
(* that vary a sound one in the fields that bear on each other.            *)
(***************************************************************************)
EXTENDS ApiProcess

CONSTANTS c1, c2, p1, p2, junk

Sound ==
  [api_key |-> "strong", session_signing_key |-> "strong",
   app_env |-> "production", enable_mock_tools |-> FALSE,
   trusted_proxies |-> {p1, p2}, allowed_hosts |-> {"host"},
   llm_model |-> "ollama", llm_fallback_models |-> << >>,
   llm_api_key |-> "unset", llm_base_url |-> "unset",
   redis_session_store_enabled |-> FALSE, redis_url |-> FALSE,
   vector_store_backend |-> "memory", embedding_model |-> FALSE,
   readiness_probe_cache_ttl |-> 2, llm_rate_limit |-> 1]

\* What the environment of a deployment exposes.
Exposures ==
  {[Sound EXCEPT !.api_key = k, !.session_signing_key = g, !.app_env = e,
                 !.enable_mock_tools = m, !.trusted_proxies = t, !.allowed_hosts = h] :
     k \in {"strong", "weak"}, g \in {"strong", "weak"},
     e \in {"production", "prod"}, m \in BOOLEAN,
     t \in {{}, {p1, p2, junk}}, h \in {{"host", ""}, {"*"}, {".domain"}, {}}}

\* Model chains over their keys and endpoints.
Chains ==
  {[Sound EXCEPT !.llm_model = m, !.llm_fallback_models = f, !.llm_api_key = k,
                 !.llm_base_url = u, !.readiness_probe_cache_ttl = 0] :
     m \in {"ollama", "mistral"}, f \in {<<"ollama", "OpenAI">>, <<"mistral">>},
     k \in {"unset", "strong", "weak"}, u \in {"remote https", "remote http"}}

\* Stores over what they need.
Stores ==
  {[Sound EXCEPT !.redis_session_store_enabled = need[1], !.redis_url = need[2],
                 !.vector_store_backend = "ollama", !.embedding_model = e] :
     need \in {<<FALSE, FALSE>>, <<TRUE, FALSE>>, <<TRUE, TRUE>>}, e \in BOOLEAN}

MCRawSettings == Exposures \cup Chains \cup Stores
MCAddresses == {c1, c2, p1, p2}
MCPaths == {<< >>, <<p1>>, <<p1, p2>>}
MCForgeries == {<< >>, <<c2>>, <<junk>>}
MCDawn == -10
Identical == Permutations(Requests)
=============================================================================
