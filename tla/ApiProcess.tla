----------------------------- MODULE ApiProcess -----------------------------
(***************************************************************************)
(* A process of the Python API under requests: what the middlewares and    *)
(* the rate limits let through (main.py), and the readiness route with its *)
(* cache of probes (api/health.py).  What a chat turn, a query or an       *)
(* ingest does then is ChatService's and RagService's.                     *)
(***************************************************************************)
EXTENDS Lifespan, RateLimit, SequencesExt, TLC, FiniteSets

CONSTANTS
  Requests,
  Clients,     \* the addresses requests come from
  Paths,       \* the proxies a request may come through, each adding its peer
  Forgeries,   \* what a client may have put in X-Forwarded-For itself
  NoRequest,
  Dawn,        \* before any time an answer may look back to
  MaxClock,    \* bound of the model: time stops here
  MaxChanges   \* bound of the model: services going down or up

ASSUME ProcessAssumption ==
  /\ MaxClock \in Nat /\ MaxChanges \in Nat /\ Dawn \in Int /\ Dawn <= 0
  /\ \A s \in RawSettings : Dawn + s.readiness_probe_cache_ttl <= 0
  /\ NoRequest \notin Requests
  /\ Clients \subseteq Addresses
  /\ \A path \in Paths : path \in Seq(Addresses)
  /\ \A forged \in Forgeries : forged \in Seq(Range(forged))

VARIABLES
  clock,
  stage,       \* of each request
  checks,      \* what the probes of a request found so far
  began,       \* when the probes of a request began
  line,        \* requests waiting for the readiness lock
  holder,      \* the request that holds it
  cached,      \* checks of the last probes, and when they expire
  buckets,     \* the count of each address
  changed,     \* when each service last went down or came up
  changes,     \* how often services have
  arrived,     \* when each request came to the readiness cache
  admitted,    \* the requests the LLM routes took, of whom and when
  lastProbe    \* when probes last began

requestVars == <<stage, checks, began>>
cacheVars == <<line, holder, cached>>
limitVars == <<buckets, admitted>>
ghostVars == <<arrived, lastProbe>>
worldVars == <<clock, changed, changes>>
vars == <<lifeVars, up, requestVars, cacheVars, limitVars, ghostVars, worldVars>>

Ttl == settings.readiness_probe_cache_ttl
Probed == {"llm"} \cup StoreServices(settings)
NoChecks == [result |-> << >>, expires |-> Dawn]
Settled == {"refused", "answered", "ready", "not_ready"}

TypeOK ==
  /\ LifespanTypeOK
  /\ clock \in 0..MaxClock
  /\ stage \in [Requests -> {"new", "queued", "probing"} \cup Settled]
  /\ \A r \in Requests :
       /\ DOMAIN checks[r] \subseteq Services
       /\ stage[r] # "probing" => checks[r] = << >>
  /\ began \in [Requests -> Dawn..MaxClock]
  /\ line \in Seq(Requests)
  /\ holder \in Requests \cup {NoRequest}
  /\ DOMAIN cached.result \in {{}, Probed}
  /\ \A a \in DOMAIN buckets : buckets[a].hits \in Nat
  /\ changed \in [Services -> Dawn..MaxClock] /\ changes \in 0..MaxChanges
  /\ arrived \in [Requests -> Dawn..MaxClock]
  /\ admitted \subseteq [request : Requests, client : Clients, at : 0..MaxClock]
  /\ lastProbe \in Dawn..MaxClock

Init ==
  /\ LifespanInit
  /\ clock = 0
  /\ stage = [r \in Requests |-> "new"]
  /\ checks = [r \in Requests |-> << >>]
  /\ began = [r \in Requests |-> Dawn]
  /\ line = << >> /\ holder = NoRequest /\ cached = NoChecks
  /\ buckets = [a \in Addresses |-> NoHits]
  /\ changed = [d \in Services |-> Dawn] /\ changes = 0
  /\ arrived = [r \in Requests |-> Dawn]
  /\ lastProbe = Dawn
  /\ admitted = {}

-----------------------------------------------------------------------------
(* Requests.                                                               *)

\* Every client's own address is the first one of a path that is not trusted.
ASSUME ClientsUntrusted == \A s \in RawSettings : Clients \cap s.trusted_proxies = {}

Arrives(r) == phase = "serving" /\ stage[r] = "new"
Enter(r, s) == stage' = [stage EXCEPT ![r] = s]

\* A Host that matches no pattern, for one; or a body announced too large, or
\* the default limit, whose counts are slowapi's.
TurnedAway(r) ==
  /\ Arrives(r)
  /\ Enter(r, "refused")
  /\ UNCHANGED <<lifeVars, up, checks, began, cacheVars, limitVars, ghostVars, worldVars>>

\* A preflight, the liveness route, or an ingest: past the host check and with
\* no limit of their own.
AnsweredAtOnce(r, host) ==
  /\ Arrives(r) /\ HostMatches(settings, host)
  /\ Enter(r, "answered")
  /\ UNCHANGED <<lifeVars, up, checks, began, cacheVars, limitVars, ghostVars, worldVars>>

Peer(c, path) == IF path = << >> THEN c ELSE Last(path)
Forwarded(c, path, forged) ==
  IF path = << >> THEN forged ELSE forged \o <<c>> \o Front(path)

\* chat, stream and query: the route's own limit is counted first, for a caller
\* with a wrong key too, then the key is compared.
CallLlm(r, c, path, forged, authentic) ==
  /\ Arrives(r)
  /\ LET id == ClientIdentifier(Peer(c, path), Forwarded(c, path, forged),
                                settings.trusted_proxies, Addresses)
         bucket == Hit(buckets[id], clock)
         served == bucket.hits <= settings.llm_rate_limit /\ authentic
     IN /\ buckets' = [buckets EXCEPT ![id] = bucket]
        /\ Enter(r, IF served THEN "answered" ELSE "refused")
        /\ admitted' = IF served THEN admitted \cup {[request |-> r, client |-> c, at |-> clock]}
                       ELSE admitted
  /\ UNCHANGED <<lifeVars, up, checks, began, cacheVars, ghostVars, worldVars>>

-----------------------------------------------------------------------------
(* Readiness: a cache in front of the probes, its lock held across them.   *)

BeginProbe(r) ==
  /\ Enter(r, "probing")
  /\ began' = [began EXCEPT ![r] = clock]
  /\ lastProbe' = clock

AskReady(r) ==
  /\ Arrives(r)
  /\ arrived' = [arrived EXCEPT ![r] = clock]
  /\ IF Ttl = 0
     THEN /\ BeginProbe(r)
          /\ UNCHANGED line
     ELSE /\ Enter(r, "queued")
          /\ line' = Append(line, r)
          /\ UNCHANGED <<began, lastProbe>>
  /\ UNCHANGED <<lifeVars, up, checks, holder, cached, limitVars, worldVars>>

Verdict(result) ==
  IF \A d \in DOMAIN result : result[d] # "unreachable" THEN "ready" ELSE "not_ready"

\* A request that is answered has no history.
Forget(r) == arrived' = [arrived EXCEPT ![r] = Dawn]

Fresh == cached.result # << >> /\ clock < cached.expires

\* Mutant: the cache has no lock.
MayEnter == TRUE

\* asyncio.Lock: the first in line, when nobody holds it.
LockIsFree == holder = NoRequest

ServeCached(r) ==
  /\ line # << >> /\ r = Head(line) /\ LockIsFree /\ Fresh
  /\ line' = Tail(line)
  /\ Enter(r, Verdict(cached.result))
  /\ Forget(r)
  /\ UNCHANGED <<lifeVars, up, checks, began, holder, cached, limitVars, lastProbe, worldVars>>

ProbeAnew(r) ==
  /\ line # << >> /\ r = Head(line) /\ LockIsFree /\ ~ Fresh
  /\ line' = Tail(line)
  /\ holder' = r
  /\ BeginProbe(r)
  /\ UNCHANGED <<lifeVars, up, checks, cached, limitVars, arrived, worldVars>>

Noted(found, d, says) ==
  [e \in DOMAIN found \cup {d} |-> IF e = d THEN says ELSE found[e]]

\* The probes run concurrently; each tells whether its service answered it.
ProbeReturns(r, d) ==
  /\ stage[r] = "probing"
  /\ d \in Probed \ DOMAIN checks[r]
  /\ checks' = [checks EXCEPT ![r] = Noted(@, d, IF d \in up THEN "healthy"
                                                            ELSE "unreachable")]
  /\ UNCHANGED <<lifeVars, up, stage, began, cacheVars, limitVars, ghostVars, worldVars>>

\* Mutant: a result is fresh from the end of its probes.
FreshFromEnd(r) == clock + Ttl

\* A result is fresh from the start of its probes.
ExpiryOf(r) == began[r] + Ttl

Release(r) == IF holder = r THEN NoRequest ELSE holder

ProbesEnd(r) ==
  /\ stage[r] = "probing" /\ DOMAIN checks[r] = Probed
  /\ Enter(r, Verdict(checks[r]))
  /\ checks' = [checks EXCEPT ![r] = << >>]
  /\ cached' = IF Ttl = 0 THEN cached
               ELSE [result |-> checks[r], expires |-> ExpiryOf(r)]
  /\ holder' = Release(r)
  /\ Forget(r) /\ began' = [began EXCEPT ![r] = Dawn]
  /\ UNCHANGED <<lifeVars, up, line, limitVars, lastProbe, worldVars>>

-----------------------------------------------------------------------------
(* The process and the world.                                              *)

Elsewhere == <<requestVars, cacheVars, limitVars, ghostVars, worldVars>>

\* The server shuts the application down when its requests have ended.
BeginShutdown ==
  /\ phase = "serving"
  /\ \A r \in Requests : stage[r] \in {"new"} \cup Settled
  /\ phase' = "stopping"
  /\ todo' = ShutdownSteps
  /\ UNCHANGED <<settings, held, sweeper, llm_model, up, Elsewhere>>

Live ==
  \/ LoadSettings /\ UNCHANGED Elsewhere
  \/ StartupStep /\ UNCHANGED Elsewhere
  \/ StartupFails /\ UNCHANGED Elsewhere
  \/ Sweep /\ UNCHANGED Elsewhere
  \/ CancelCleanup /\ UNCHANGED Elsewhere
  \/ CloseResource /\ UNCHANGED Elsewhere
  \/ CloseRaises /\ UNCHANGED Elsewhere

Request(r) ==
  \/ TurnedAway(r)
  \/ \E host \in {"host", "other"} : AnsweredAtOnce(r, host)
  \/ \E c \in Clients, path \in Paths, forged \in Forgeries, authentic \in BOOLEAN :
       CallLlm(r, c, path, forged, authentic)
  \/ AskReady(r)

Readiness(r) ==
  \/ ServeCached(r)
  \/ ProbeAnew(r)
  \/ \E d \in Services : ProbeReturns(r, d)
  \/ ProbesEnd(r)

\* A free lock is taken long before a second has passed.
Tick ==
  /\ phase = "serving" /\ clock < MaxClock
  /\ line # << >> => holder # NoRequest
  /\ clock' = clock + 1
  /\ UNCHANGED <<lifeVars, up, requestVars, cacheVars, limitVars, ghostVars, changed, changes>>

ServiceChanges(d) ==
  /\ phase \in {"starting", "serving"} /\ d \in Probed /\ changes < MaxChanges
  /\ up' = IF d \in up THEN up \ {d} ELSE up \cup {d}
  /\ changed' = [changed EXCEPT ![d] = clock]
  /\ changes' = changes + 1
  /\ UNCHANGED <<lifeVars, requestVars, cacheVars, limitVars, ghostVars, clock>>

Next ==
  \/ Live
  \/ BeginShutdown
  \/ \E r \in Requests : Request(r) \/ Readiness(r)
  \/ Tick
  \/ \E d \in Services : ServiceChanges(d)

Spec == Init /\ [][Next]_vars

-----------------------------------------------------------------------------
(* Properties.                                                             *)

\* A process that has ended, whatever failed on the way, has been through the
\* close of everything startup opened, and its cleanup task has ended.
NothingLeftOpen ==
  phase \in {"refused", "stopped", "failed"} => held = {} /\ sweeper \in {"none", "ended"}

\* The cleanup task never runs over a session store that is closed.
CleanupHasItsStore ==
  sweeper \in {"asleep", "sweeping"} => "session_store" \in held

\* Settings that load are enough: no factory misses one, every cloud model of
\* the chain has its key, and an endpoint given for the primary model's provider
\* is never another provider's.
LoadedSettingsSuffice ==
  /\ phase \notin {"off", "refused"} =>
       \A i \in DOMAIN StartupSteps : ~ MissingSetting(StartupSteps[i])
  /\ \A i \in DOMAIN llm_model :
       /\ llm_model[i].provider \in CloudProviders => llm_model[i].key # "unset"
       /\ llm_model[i].endpoint = settings.llm_base_url
            => llm_model[i].provider = settings.llm_model

ProxiesDeclared == \A path \in Paths : ToSet(path) \subseteq settings.trusted_proxies

\* What the LLM routes took of a client's requests in some seconds.
Taken(c, seconds) == {x \in admitted : x.client = c /\ x.at \in seconds}

\* Where the proxies of the deployment are declared, and whatever a client writes
\* into X-Forwarded-For and whichever proxies it comes through, the LLM routes
\* take at most two windows' worth of its requests in any period.
LlmAdmissionsBounded ==
  phase \notin {"off", "refused"} /\ ProxiesDeclared =>
    \A c \in Clients, t \in 0..MaxClock :
      Cardinality(Taken(c, t..(t + Window - 1))) <= 2 * settings.llm_rate_limit

LastUp(d) == IF d \in up THEN clock ELSE changed[d]
LastDown(d) == IF d \notin up THEN clock ELSE changed[d]
Recent(r, time) == time > clock - Ttl \/ time >= arrived[r]

\* An answer of the readiness route is about the last ttl seconds or the time
\* since the request came: ready means every service was up then, not ready that
\* one was down.
AnswersAreRecent ==
  [][\A r \in Requests : stage[r] \in {"queued", "probing"} =>
       /\ stage'[r] = "ready" => \A d \in Probed : Recent(r, LastUp(d))
       /\ stage'[r] = "not_ready" => \E d \in Probed : Recent(r, LastDown(d))]_vars

\* However many ask, the probes begin at least ttl apart: the provider sees a
\* bounded rate.
ProbesAreSpaced ==
  [][\A r \in Requests : stage[r] # "probing" /\ stage'[r] = "probing"
       => clock >= lastProbe + Ttl]_vars
=============================================================================
