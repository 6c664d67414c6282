----------------------------- MODULE JobStream -----------------------------
(***************************************************************************)
(* The progress of a durable job on its way to the browser: the worker's   *)
(* event sink (apps/worker/src/events.ts) appends each event to the        *)
(* history and publishes it on the job's Redis channel, both fail-soft;    *)
(* the stream route subscribes to the channel and forwards; the hook       *)
(* useJobStream collects.                                                  *)
(*                                                                         *)
(* The worker is the one of JobWorker, faults and replays included.  The   *)
(* approve route is one step here: see ApproveRoute for what it hides.     *)
(***************************************************************************)
EXTENDS JobWorker

CONSTANTS
  Browsers,    \* open pages of the job; each opens one stream
  MaxFaults    \* bound: failed appends, failed publishes, lost connections

ASSUME StreamAssumption == MaxFaults \in Nat

VARIABLES
  sink,       \* the event the worker waits for the sink with
  history,    \* events in the job_event table
  stream,     \* per browser: its stream route's Redis subscription
  wire,       \* per browser: messages on their way to its stream route
  hook,       \* per browser: the status of useJobStream
  events,     \* per browser: the events useJobStream collected
  faults,     \* faults so far
  \* history
  unsaved     \* events whose append failed

streamVars == <<sink, history, stream, wire, hook, events, faults, unsaved>>
workVars == <<storeVars, eventVars, runVars, workerVars>>
vars == <<workVars, streamVars>>

JobDone == [type |-> "completion", pos |-> JobLevel]
SinkIdle == [stage |-> "idle", event |-> JobDone]

StreamTypeOK ==
  /\ sink \in [stage : {"idle", "append", "publish"}, event : Events]
  /\ history \subseteq Events
  /\ stream \in [Browsers -> {"none", "connecting", "subscribed", "closing", "gone"}]
  /\ wire \in [Browsers -> Seq(Events)]
  /\ hook \in [Browsers -> {"idle", "open", "closed", "error", "left"}]
  /\ events \in [Browsers -> Seq(Events)]
  /\ faults \in 0..MaxFaults
  /\ unsaved \subseteq Events

StreamInit ==
  /\ sink = SinkIdle
  /\ history = {}
  /\ stream = [b \in Browsers |-> "none"]
  /\ wire = [b \in Browsers |-> << >>]
  /\ hook = [b \in Browsers |-> "idle"]
  /\ events = [b \in Browsers |-> << >>]
  /\ faults = 0
  /\ unsaved = {}

Init == StoreInit /\ EventsInit /\ EngineInit /\ WorkerInit /\ StreamInit

Fault == faults < MaxFaults /\ faults' = faults + 1

-----------------------------------------------------------------------------
\* The labels of JobWorker whose step publishes, and what it publishes.
EmitPcs == {"top", "emit", "catch", "final"}
NextEvent ==
  CASE pc = "top" /\ pos \in Positions -> [type |-> "step-start", pos |-> pos]
    [] pc = "top" /\ pos \notin Positions -> JobDone
    [] pc = "emit" -> [type |-> "completion", pos |-> pos]
    [] OTHER -> [type |-> "error", pos |-> pos]

Submit == SubmitJob /\ UNCHANGED <<storeVars, workerVars, streamVars>>

\* The worker goes on once the sink is done with the last event.
Invoke == BeginInvocation /\ sink = SinkIdle /\ UNCHANGED streamVars

Work ==
  /\ sink = SinkIdle
  /\ WorkerStep
  /\ sink' = IF pc \in EmitPcs THEN [stage |-> "append", event |-> NextEvent] ELSE sink
  /\ UNCHANGED <<history, stream, wire, hook, events, faults, unsaved>>

\* A failed statement, or a crash: the event under way is lost with it (the
\* error that ends an invocation too).
WorkFails ==
  /\ \/ DatabaseFails /\ sink = SinkIdle
     \/ WorkerCrash
     \/ pc = "idle" /\ sink # SinkIdle /\ UNCHANGED workVars
  /\ sink' = SinkIdle
  /\ UNCHANGED <<history, stream, wire, hook, events, faults, unsaved>>

Process(d) == ProcessSignal(d) /\ UNCHANGED <<storeVars, workerVars, streamVars>>
Expire(i) == ExpireWait(i) /\ UNCHANGED <<storeVars, workerVars, streamVars>>

-----------------------------------------------------------------------------
Listening(b) == stream[b] \in {"subscribed", "closing"}
Deliver(e) == [b \in Browsers |-> IF Listening(b) THEN Append(wire[b], e) ELSE wire[b]]

\* Mutant: the append is not awaited, and may be long in coming.
AppendEventUnawaited ==
  /\ sink.stage = "append"
  /\ sink' = [sink EXCEPT !.stage = "publish"]
  /\ UNCHANGED <<workVars, history, stream, wire, hook, events, faults, unsaved>>

\* First the history ...
AppendEvent ==
  /\ sink.stage = "append"
  /\ sink' = [sink EXCEPT !.stage = "publish"]
  /\ \/ history' = history \cup {sink.event} /\ UNCHANGED <<faults, unsaved>>
     \/ Fault /\ unsaved' = unsaved \cup {sink.event} /\ UNCHANGED history
  /\ UNCHANGED <<workVars, stream, wire, hook, events>>

\* ... then the channel, whatever became of the append; whoever is subscribed
\* gets it, and nobody else ever will.
PublishEvent ==
  /\ sink.stage = "publish"
  /\ sink' = SinkIdle
  /\ \/ wire' = Deliver(sink.event) /\ UNCHANGED faults
     \/ Fault /\ UNCHANGED wire
  /\ UNCHANGED <<workVars, history, stream, hook, events, unsaved>>

-----------------------------------------------------------------------------
\* GET /api/jobs/:id/stream answers at once, before it has subscribed; without
\* a job row it answers 404.
OpenStream(b) ==
  /\ hook[b] = "idle"
  /\ hook' = [hook EXCEPT ![b] = IF jobRow THEN "open" ELSE "error"]
  /\ stream' = [stream EXCEPT ![b] = IF jobRow THEN "connecting" ELSE "gone"]
  /\ UNCHANGED <<workVars, sink, history, wire, events, faults, unsaved>>

Subscribe(b) ==
  /\ stream[b] = "connecting"
  /\ stream' = [stream EXCEPT ![b] = "subscribed"]
  /\ UNCHANGED <<workVars, sink, history, wire, hook, events, faults, unsaved>>

\* connect or subscribe fails, or the web process dies: the reader throws.
StreamBreaks(b) ==
  /\ stream[b] \in {"connecting", "subscribed"}
  /\ stream' = [stream EXCEPT ![b] = "gone"]
  /\ wire' = [wire EXCEPT ![b] = << >>]
  /\ hook' = [hook EXCEPT ![b] = IF @ = "open" THEN "error" ELSE @]
  /\ UNCHANGED <<workVars, sink, history, events, faults, unsaved>>

\* The Redis connection drops and is made again; what was under way is lost.
LoseMessages(b) ==
  /\ wire[b] # << >>
  /\ Fault
  /\ wire' = [wire EXCEPT ![b] = << >>]
  /\ UNCHANGED <<workVars, sink, history, stream, hook, events, unsaved>>

\* Mutant: any completion or error is terminal.
TerminalAnyStep(e) == e.type \in {"completion", "error"}

\* isTerminalJobEvent: no stepId.
Terminal(e) == e.type \in {"completion", "error"} /\ e.pos = JobLevel

\* Mutant: a terminal event does not close the stream.
ForwardKeepsOpen(b) ==
  /\ stream[b] = "subscribed" /\ wire[b] # << >>
  /\ wire' = [wire EXCEPT ![b] = Tail(@)]
  /\ events' = [events EXCEPT ![b] = IF hook[b] = "open" THEN Append(@, Head(wire[b])) ELSE @]
  /\ UNCHANGED <<workVars, sink, history, stream, hook, faults, unsaved>>

\* The subscription's callback forwards one message and the hook collects it;
\* a terminal one closes the stream, and the reader is done.
Forward(b) ==
  /\ stream[b] = "subscribed" /\ wire[b] # << >>
  /\ wire' = [wire EXCEPT ![b] = Tail(@)]
  /\ events' = [events EXCEPT ![b] = IF hook[b] = "open" THEN Append(@, Head(wire[b])) ELSE @]
  /\ IF Terminal(Head(wire[b]))
       THEN /\ stream' = [stream EXCEPT ![b] = "closing"]
            /\ hook' = [hook EXCEPT ![b] = IF @ = "open" THEN "closed" ELSE @]
       ELSE UNCHANGED <<stream, hook>>
  /\ UNCHANGED <<workVars, sink, history, faults, unsaved>>

\* The page goes away with what it shows; the route learns of it some time
\* later.
Leave(b) ==
  /\ hook[b] = "open"
  /\ hook' = [hook EXCEPT ![b] = "left"]
  /\ events' = [events EXCEPT ![b] = << >>]
  /\ UNCHANGED <<workVars, sink, history, stream, wire, faults, unsaved>>

CancelStream(b) ==
  /\ hook[b] = "left" /\ stream[b] = "subscribed"
  /\ stream' = [stream EXCEPT ![b] = "closing"]
  /\ UNCHANGED <<workVars, sink, history, wire, hook, events, faults, unsaved>>

\* cleanup: unsubscribe and quit.  Messages that arrive before it is done find
\* the controller closed and reach nobody.
CloseStream(b) ==
  /\ stream[b] = "closing"
  /\ stream' = [stream EXCEPT ![b] = "gone"]
  /\ wire' = [wire EXCEPT ![b] = << >>]
  /\ UNCHANGED <<workVars, sink, history, hook, events, faults, unsaved>>

-----------------------------------------------------------------------------
Collected(b) == Range(events[b])

\* An operator decides a step, on one of the pages or elsewhere.  The approve
\* route, in one step: the pending row is consumed and the event sent, or it
\* answers 404 or 429 and nothing is sent.
SubmitDecision(d) ==
  /\ approvalState[d.step] = "pending"
  /\ ConsumePending({d.step})
  /\ SubmitApproval(d)
  /\ UNCHANGED <<runVars, workerVars, streamVars>>

BrowserNext(b) ==
  \/ OpenStream(b)
  \/ Subscribe(b)
  \/ StreamBreaks(b)
  \/ LoseMessages(b)
  \/ Forward(b)
  \/ Leave(b)
  \/ CancelStream(b)
  \/ CloseStream(b)

Next ==
  \/ Submit
  \/ Invoke
  \/ Work
  \/ WorkFails
  \/ \E d \in signals : Process(d)
  \/ \E i \in Positions : Expire(i)
  \/ AppendEvent
  \/ PublishEvent
  \/ \E b \in Browsers : BrowserNext(b)
  \/ \E d \in Decisions : SubmitDecision(d)

Spec == Init /\ [][Next]_vars

(***************************************************************************)
(* Fairness: that of DurableJob, and the awaits of the sink and of a       *)
(* stream that does not break come to an end.  Nothing is asked of the     *)
(* pages: they may never open, never decide and leave at any time.         *)
(***************************************************************************)
Fairness ==
  /\ WF_vars(Invoke)
  /\ WF_vars(Work)
  /\ WF_vars(\E d \in signals : Process(d))
  /\ \A i \in Positions : WF_vars(Expire(i))
  /\ WF_vars(AppendEvent)
  /\ WF_vars(PublishEvent)
  /\ \A b \in Browsers :
       /\ WF_vars(Subscribe(b))
       /\ WF_vars(Forward(b))

FairSpec == Spec /\ Fairness

-----------------------------------------------------------------------------
TypeOK == StoreTypeOK /\ EventsTypeOK /\ EngineTypeOK /\ WorkerTypeOK /\ StreamTypeOK

\* A page whose stream was closed on it (not broken) belongs to a job that has
\* executed its whole plan; the terminal event is the last it shows, although
\* a replay may publish it twice, and progress events after it.
ClosedMeansDone ==
  \A b \in Browsers :
    hook[b] = "closed" =>
      /\ \A i \in Positions : memo[i] = "done"
      /\ \A k \in 1..Len(events[b]) : events[b][k] = JobDone <=> k = Len(events[b])

\* No page shows an event that the history lacks, unless its append failed:
\* also when the worker dies between the two (createJobEventSink).
HistoryFirst == \A b \in Browsers : Collected(b) \subseteq history \cup unsaved

\* A page that subscribed before the plan was through learns of its end, unless
\* something is lost on the way or the job fails.
EndIsSeen ==
  \A b \in Browsers :
    (stream[b] = "subscribed" /\ JobDone \notin emitted) ~>
      (hook[b] # "open" \/ runState = "failed" \/ faults > 0)

-----------------------------------------------------------------------------
(* A statement of the repository that the code does not keep.              *)

\* A failed plan ends the stream of every page (the terminal event of the
\* stream route).
FailureEndsStream ==
  \A b \in Browsers :
    (stream[b] = "subscribed" /\ runState = "failed") ~> hook[b] # "open"
=============================================================================
