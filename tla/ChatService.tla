---------------------------- MODULE ChatService ----------------------------
(***************************************************************************)
(* Chat turns over the session store: POST /agent/chat (api/v1/agent.py)   *)
(* and POST /agent/stream with its event source (api/v1/_stream.py).       *)
(*                                                                         *)
(* A stream has a producer task, which drives the run, puts events on an   *)
(* unbounded queue and, once it has left the run, a done marker; and a     *)
(* consumer, which polls the connection, waits for an event, yields it and *)
(* cleans up in the end.  A stream without a session_id, which saves       *)
(* nothing, is left out.                                                   *)
(***************************************************************************)
EXTENDS AgentRun

CONSTANTS
  Streams,       \* the turns made on /agent/stream
  PrincipalOf,   \* the caller of each turn
  Owner,         \* the principal a session id is signed for
  Known,         \* the sessions minted before this history
  NoSession,     \* of a turn that has none yet
  MaxEvents      \* sse_max_events

ASSUME ChatAssumption == MaxEvents \in Nat \ {0} /\ Streams \subseteq Turns

VARIABLES
  issued,          \* the session ids minted so far
  session,         \* the session of each turn
  status,          \* of each request
  toolCallsMade,   \* ChatResponse.tool_calls_made
  queue,           \* events the producer put and the consumer has not got
  sent,            \* events yielded to the client
  producer,        \* how the task that drives a stream's run is, or ended
  reader,          \* where the consumer of a stream is
  saved,           \* the turns the store has taken
  forgotten,       \* the turns the store has trimmed, evicted or expired
  rivals           \* of a turn, as the store takes it: what may yet overwrite it

requestVars == <<issued, session, status, toolCallsMade>>
streamVars == <<queue, sent, producer, reader>>
ghostVars == <<saved, forgotten, rivals>>
vars == <<sessionVars, run, requestVars, streamVars, ghostVars>>

\* StepStarted, ToolCalled and Token are all progress.
Events == {"progress", "completed", "error"}
Terminal == {"completed", "error"}
Open(t) == status[t] = "open"
Running(t) == run[t].stage \in {"request", "tool", "ended", "landed"}

TypeOK ==
  /\ SessionTypeOK /\ RunTypeOK
  /\ issued \subseteq Sessions
  /\ session \in [Turns -> Sessions \cup {NoSession}]
  /\ status \in [Turns -> {"new", "open", "ok", "forbidden", "timeout", "error", "aborted"}]
  /\ toolCallsMade \in [Turns -> Nat]
  /\ queue \in [Turns -> Seq(Events \cup {"done"})]
  /\ sent \in [Turns -> Seq(Events)]
  /\ producer \in [Turns -> {"none", "driving", "returned", "raised", "awaited"}]
  /\ reader \in [Turns -> {"none", "get", "wait", "yielded", "last", "over", "ending",
                           "closed"}]
  /\ saved \subseteq Turns /\ forgotten \subseteq Turns
  /\ rivals \in [Turns -> SUBSET Turns]

Init ==
  /\ SessionInit /\ RunInit
  /\ issued = Known
  /\ session = [t \in Turns |-> NoSession]
  /\ status = [t \in Turns |-> "new"]
  /\ toolCallsMade = [t \in Turns |-> 0]
  /\ queue = [t \in Turns |-> << >>]
  /\ sent = [t \in Turns |-> << >>]
  /\ producer = [t \in Turns |-> "none"]
  /\ reader = [t \in Turns |-> "none"]
  /\ saved = {} /\ forgotten = {}
  /\ rivals = [t \in Turns |-> {}]

-----------------------------------------------------------------------------
(* Requests and the producer's events.                                     *)

\* Mutant: the producer tells of the end of the turn before it saves it.
CompletedBeforeSave(stage) ==
  CASE stage \in {"request", "tool"} -> <<"progress">>
    [] stage = "ended" -> <<"progress", "completed">>
    [] OTHER -> << >>

\* What the generator yields, for the producer to put, as its run enters a stage.
EventsOf(stage) ==
  CASE stage \in {"request", "tool", "ended"} -> <<"progress">>
    [] stage = "saved" -> <<"completed">>
    [] stage = "unsaved" -> <<"error">>
    [] OTHER -> << >>

Emit(t) ==
  queue' = IF t \in Streams THEN [queue EXCEPT ![t] = @ \o EventsOf(run'[t].stage)]
           ELSE queue

\* Mutant: a signed session id is enough, whoever presents it.
AnyIssued(t, s) == s \in issued

\* authorize_session: the id is signed for this caller.
Authorized(t, s) == s \in issued /\ Owner[s] = PrincipalOf[t]

Start(t, s, history) ==
  /\ status' = [status EXCEPT ![t] = "open"]
  /\ session' = [session EXCEPT ![t] = s]
  /\ BeginRun(t, history)
  /\ Emit(t)
  /\ IF t \in Streams
       THEN /\ producer' = [producer EXCEPT ![t] = "driving"]
            /\ reader' = [reader EXCEPT ![t] = "get"]
       ELSE UNCHANGED <<producer, reader>>
  /\ UNCHANGED <<toolCallsMade, sent, ghostVars>>

\* A turn of an existing session.
Continue(t, s) ==
  /\ status[t] = "new" /\ Authorized(t, s)
  /\ GetHistory(s)
  /\ Start(t, s, History(s))
  /\ UNCHANGED issued

\* A chat without a session_id mints one.
StartSession(t, s) ==
  /\ t \notin Streams /\ status[t] = "new"
  /\ s \notin issued /\ Owner[s] = PrincipalOf[t]
  /\ issued' = issued \cup {s}
  /\ Start(t, s, << >>)
  /\ UNCHANGED sessionVars

Refuse(t, as) ==
  /\ status' = [status EXCEPT ![t] = as]
  /\ UNCHANGED <<sessionVars, run, issued, session, toolCallsMade, streamVars, ghostVars>>

\* 403 for a foreign id.
Forbidden(t) == status[t] = "new" /\ (\E s \in issued : ~Authorized(t, s)) /\ Refuse(t, "forbidden")

\* Redis fails to give the history: a chat answers 500, a stream, whose response
\* has started by then, is aborted.
LoadFails(t) ==
  /\ status[t] = "new" /\ redis /\ \E s \in issued : Authorized(t, s)
  /\ Refuse(t, IF t \in Streams THEN "aborted" ELSE "error")

RunStep(t) ==
  /\ Open(t)
  /\ \/ AskModel(t, t \notin Streams)
     \/ CallTool(t, t \notin Streams)
     \/ RunFails(t)
  /\ Emit(t)
  /\ UNCHANGED <<sessionVars, requestVars, sent, producer, reader, ghostVars>>

-----------------------------------------------------------------------------
(* The save of a run that ended: one step in memory, a command and its     *)
(* answer in Redis.                                                        *)

\* A chat holds its result until it answers, a stream's generator returns.
Stage(t, stage) ==
  IF t \in Streams /\ stage # "landed" THEN EndRun(t, stage)
  ELSE run' = [run EXCEPT ![t].stage = stage]

\* The turns of t's session that have read its history without t and may save.
InFlight(t) ==
  {u \in Turns \ {t} :
     /\ session[u] = session[t] /\ run[u].stage \in {"request", "tool", "ended"}
     /\ t \notin TurnsIn(run[u].messages)}

\* What a save of ms for turn t, and the evictions it makes, drop from the store.
Dropped(t, ms) ==
  (TurnsIn(ms) \ TurnsIn(TrimHistory(ms)))
    \cup UNION {TurnsIn(History(s)) : s \in {u \in Held(store) : store'[u] = NoHistory}}

Record(t, ms) ==
  /\ SaveHistory(session[t], ms)
  /\ saved' = saved \cup {t}
  /\ forgotten' = (forgotten \ TurnsIn(ms)) \cup Dropped(t, ms)
  /\ rivals' = [u \in Turns |->
       IF u = t \/ u \in forgotten \cap TurnsIn(ms)
         THEN rivals[u] \cup InFlight(u) ELSE rivals[u]]

\* Mutant: a stopped turn is saved too, with the messages it has: none.
SaveAnyTurn(t) == run[t].stage \in {"ended", "stopped"}

\* Only a completed turn is saved.
Completed(t) == run[t].stage = "ended"

Save(t) ==
  /\ Open(t) /\ Completed(t)
  /\ Record(t, run[t].messages)
  /\ Stage(t, IF redis THEN "landed" ELSE "saved")
  /\ Emit(t)
  /\ UNCHANGED <<requestVars, sent, producer, reader>>

\* Redis answers, or the call fails before or after the command took effect.
SaveReturns(t) ==
  /\ Open(t)
  /\ \/ run[t].stage = "landed" /\ Stage(t, "saved")
     \/ redis /\ run[t].stage \in {"ended", "landed"} /\ Stage(t, "unsaved")
  /\ Emit(t)
  /\ UNCHANGED <<sessionVars, requestVars, sent, producer, reader, ghostVars>>

\* The generator has nothing more to yield, or the run has raised: the producer
\* leaves Agent.iter(), which may raise too, closes the generator, puts the done
\* marker and is finished.
ProducerEnds(t) ==
  /\ producer[t] = "driving" /\ ~Running(t)
  /\ \E end \in {"returned", "raised"} :
       /\ run[t].stage \in {"stopped", "failed"} => end = "raised"
       /\ producer' = [producer EXCEPT ![t] = end]
  /\ queue' = [queue EXCEPT ![t] = Append(@, "done")]
  /\ UNCHANGED <<sessionVars, run, requestVars, sent, reader, ghostVars>>

-----------------------------------------------------------------------------
(* The answer of a chat.                                                   *)

Answer(t, as, calls) ==
  /\ status' = [status EXCEPT ![t] = as]
  /\ toolCallsMade' = [toolCallsMade EXCEPT ![t] = calls]
  /\ UNCHANGED <<sessionVars, issued, session, streamVars, ghostVars>>

\* tool_calls_made counts the calls in the messages of the result.
Reply(t) ==
  /\ t \notin Streams /\ Open(t)
  /\ \/ /\ run[t].stage \in {"saved", "stopped"}
        /\ Answer(t, "ok", Cardinality(Ids(run[t].messages, "call")))
     \/ run[t].stage \in {"unsaved", "failed"} /\ Answer(t, "error", 0)
  /\ EndRun(t, run[t].stage)

\* chat_request_timeout covers the run and not the save.
ChatTimesOut(t) ==
  /\ t \notin Streams /\ Open(t)
  /\ run[t].stage \in {"request", "tool"}
  /\ EndRun(t, "cancelled")
  /\ Answer(t, "timeout", 0)

-----------------------------------------------------------------------------
(* The consumer of a stream.                                               *)

At(t, where) == t \in Streams /\ reader[t] = where
GoTo(t, where) == reader' = [reader EXCEPT ![t] = where]
Send(t, event) == sent' = [sent EXCEPT ![t] = Append(@, event)]
ConsumerOnly == UNCHANGED <<sessionVars, run, requestVars, producer, ghostVars>>

\* The poll before the wait sees the disconnect, or the server cancels the wait.
Disconnect(t) ==
  /\ At(t, "get") \/ At(t, "wait")
  /\ GoTo(t, "ending") /\ UNCHANGED <<queue, sent>> /\ ConsumerOnly

Wait(t) ==
  /\ At(t, "get") /\ queue[t] = << >>
  /\ GoTo(t, "wait") /\ UNCHANGED <<queue, sent>> /\ ConsumerOnly

\* At the done marker the producer has ended: its exception is told.
Get(t) ==
  /\ At(t, "get") \/ At(t, "wait")
  /\ queue[t] # << >>
  /\ queue' = [queue EXCEPT ![t] = Tail(@)]
  /\ \/ Head(queue[t]) # "done" /\ Send(t, Head(queue[t])) /\ GoTo(t, "yielded")
     \/ /\ Head(queue[t]) = "done"
        /\ IF producer[t] = "raised" THEN Send(t, "error") /\ GoTo(t, "last")
           ELSE UNCHANGED sent /\ GoTo(t, "over")
  /\ ConsumerOnly

\* Mutant: a timeout goes back to the queue.
GetAgain(t) == At(t, "wait") /\ queue[t] = << >> /\ UNCHANGED vars

\* Mutant: a timeout is told, and the stream goes on.
TimeoutGoesOn(t) ==
  /\ At(t, "wait") /\ Len(sent[t]) < MaxEvents
  /\ Send(t, "error") /\ UNCHANGED <<queue, reader>> /\ ConsumerOnly

\* sse_send_timeout, which may fire in the pass of the event loop in which an
\* event was put: the event then stays on the queue, and nobody gets it.
GetTimesOut(t) ==
  /\ At(t, "wait")
  /\ Send(t, "error") /\ GoTo(t, "last") /\ UNCHANGED queue /\ ConsumerOnly

\* The client reads on: the next round, unless the cap is reached.
ReadOn(t) ==
  /\ At(t, "yielded") \/ At(t, "last")
  /\ GoTo(t, IF At(t, "last") \/ Len(sent[t]) >= MaxEvents THEN "ending" ELSE "get")
  /\ UNCHANGED <<queue, sent>> /\ ConsumerOnly

\* The client goes while the heartbeat wrapper yields: the event source below
\* it is not closed, only dropped, and its finalizer runs the cleanup later.
Leave(t) ==
  /\ At(t, "yielded") \/ At(t, "last")
  /\ GoTo(t, "ending") /\ UNCHANGED <<queue, sent>> /\ ConsumerOnly

\* Mutant: the cleanup leaves the producer to itself.
LeaveProducer(t) == UNCHANGED <<sessionVars, run, producer, ghostVars>>

\* Cancel the producer if it goes on, and await it; a save may be on its way to
\* Redis.
EndProducer(t) ==
  /\ producer' = [producer EXCEPT ![t] = "awaited"]
  /\ EndRun(t, IF Running(t) THEN "cancelled" ELSE run[t].stage)
  /\ \/ UNCHANGED <<sessionVars, ghostVars>>
     \/ redis /\ Completed(t) /\ Record(t, run[t].messages)

Cleanup(t) ==
  /\ At(t, "ending") \/ At(t, "over")
  /\ EndProducer(t)
  /\ GoTo(t, "closed")
  /\ status' = [status EXCEPT ![t] = "ok"]
  /\ queue' = [queue EXCEPT ![t] = << >>]
  /\ sent' = [sent EXCEPT ![t] = << >>]
  /\ UNCHANGED <<issued, session, toolCallsMade>>

Consume(t) ==
  \/ Disconnect(t) \/ Wait(t) \/ Get(t) \/ GetTimesOut(t)
  \/ ReadOn(t) \/ Leave(t) \/ Cleanup(t)

-----------------------------------------------------------------------------
\* Sessions expire while nothing else happens.
SessionsExpire ==
  \E gone \in SUBSET Sessions :
    /\ Expire(gone)
    /\ forgotten' = forgotten \cup UNION {TurnsIn(History(s)) : s \in gone}
    /\ UNCHANGED <<run, requestVars, streamVars, saved, rivals>>

Turn(t) ==
  \/ \E s \in Sessions : Continue(t, s) \/ StartSession(t, s)
  \/ Forbidden(t) \/ LoadFails(t)
  \/ RunStep(t) \/ Save(t) \/ SaveReturns(t) \/ ProducerEnds(t)
  \/ Reply(t) \/ ChatTimesOut(t) \/ Consume(t)

Next == SessionsExpire \/ \E t \in Turns : Turn(t)

Spec == Init /\ [][Next]_vars

\* The consumer's own timers and cleanup run, a client reads on or goes, and
\* a dropped generator is finalized; nothing is asked of the model or Redis.
FairSpec ==
  /\ Spec
  /\ \A t \in Streams :
       /\ WF_vars(Wait(t) \/ Get(t) \/ GetTimesOut(t))
       /\ WF_vars(ReadOn(t) \/ Leave(t)) /\ WF_vars(Cleanup(t))

-----------------------------------------------------------------------------
(* What the chat service promises.                                         *)

\* A turn the store has taken, or taken again after it was forgotten, is in its
\* session's history until the history is trimmed, evicted or expires, or a turn
\* that had read the history without it is saved after it: sequential turns lose
\* nothing.
TurnsAreKept ==
  \A t \in saved :
    \/ t \in TurnsIn(History(session[t])) \cup forgotten
    \/ rivals[t] \cap saved # {}

\* A stored history is within the cap, has no empty message, and holds the call
\* of every return, however often it was trimmed.
HistoryWellFormed ==
  \A s \in Held(store) :
    LET h == store[s]
    IN  /\ Len(h) <= MaxMessages
        /\ \A i \in 1..Len(h) :
             /\ h[i].part # "empty"
             /\ h[i].part = "return" =>
                  \E j \in 1..(i - 1) : h[j] = [h[i] EXCEPT !.part = "call"]

\* In memory the store keeps to max_sessions, and each session it holds has the
\* access time and the lock that eviction and cleanup find it by.
StoreWithinLimits ==
  ~redis => /\ Cardinality(Held(store)) <= MaxSessions
            /\ Held(store) \subseteq Range(lastAccess)
            /\ Range(lastAccess) = locks

\* A history holds turns of the principal its session id was signed for only.
SessionsAreOwned ==
  \A s \in Sessions : \A t \in TurnsIn(History(s)) : PrincipalOf[t] = Owner[s]

\* A chat that was stopped answers with one audit record of the reason.
StopsAreAudited ==
  \A t \in Turns \ Streams :
    status[t] = "ok" => run[t].audit = IF run[t].reason = "completed" THEN << >>
                                       ELSE <<run[t].reason>>

\* A client that is told its turn completed has it in the store, whatever
\* Redis did; a turn it was told failed may be there too.
CompletedMeansSaved ==
  \A t \in Turns :
    \/ t \notin Streams /\ status[t] = "ok" /\ run[t].reason = "completed"
    \/ "completed" \in Range(sent[t])
    => t \in saved

\* Nothing follows a terminal event but one error, of a timeout or of a producer
\* that raised while it left the run; all of it is within the cap; and a stream
\* that ended of itself has told its end, once and last: none is silent.
EndIsTold ==
  \A t \in Streams :
    /\ Len(sent[t]) <= MaxEvents
    /\ \A i, j \in 1..Len(sent[t]) :
         sent[t][i] \in Terminal /\ i < j => j = Len(sent[t]) /\ sent[t][j] = "error"
    /\ reader[t] = "over" =>
         /\ sent[t] # << >>
         /\ \A i \in 1..Len(sent[t]) : sent[t][i] \in Terminal <=> i = Len(sent[t])

\* No producer, no run and no save of its goes on behind a stream that is closed.
NoOrphanProducer ==
  \A t \in Streams : reader[t] = "closed" => ~Running(t) /\ producer[t] = "awaited"

\* A stream that was opened is closed and its producer ended, even if the model
\* never answers again or the client goes away.
StreamEnds == \A t \in Streams : (reader[t] # "none") ~> (reader[t] = "closed")

\* models/agent.py:56 says of tool_calls_made: "Number of tool calls executed
\* during this conversation turn."  Stated here of completed turns.
ToolCallsOfThisTurn ==
  \A t \in Turns \ Streams :
    status[t] = "ok" /\ run[t].reason = "completed" => toolCallsMade[t] = run[t].calls
=============================================================================
