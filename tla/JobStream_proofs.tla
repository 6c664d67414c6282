-------------------------- MODULE JobStream_proofs --------------------------
(***************************************************************************)
(* Theorems about JobStream, for every plan, every set of pages and any    *)
(* number of lost messages and failed appends: no page is ahead of the     *)
(* history, and a page whose stream was closed on it belongs to a job that *)
(* is done.                                                                *)
(*                                                                         *)
(* Known is what the history holds or has refused; it only grows, and      *)
(* Behind says that the sink past its append, the messages under way and   *)
(* the pages hold nothing else.  Truth follows the terminal event from the *)
(* worker, which has its plan behind it then (Progress of                  *)
(* JobWorker_proofs), to the pages.                                        *)
(***************************************************************************)
EXTENDS JobStream, JobWorker_proofs, SequenceTheorems

Known == history \cup unsaved

SinkBehind ==
  /\ sink \in [stage : {"idle", "append", "publish"}, event : {sink.event}]
  /\ sink.stage = "publish" => sink.event \in Known
WireBehind == wire \in [Browsers -> Seq(Known)]
PagesBehind == events \in [Browsers -> Seq(Known)]

Behind == SinkBehind /\ WireBehind /\ PagesBehind

\* What is behind the history stays behind it as it grows.
LEMMA KnownGrows ==
  ASSUME Known \subseteq Known'
  PROVE  /\ WireBehind /\ UNCHANGED wire => WireBehind'
         /\ PagesBehind /\ UNCHANGED events => PagesBehind'
         /\ SinkBehind /\ UNCHANGED sink => SinkBehind'
<1>1. Seq(Known) \subseteq Seq(Known')
  OBVIOUS
<1> QED BY <1>1 DEF WireBehind, PagesBehind, SinkBehind

\* Dropping what one page shows, or is sent, leaves the rest behind.
LEMMA Dropped ==
  ASSUME NEW b \in Browsers, Known \subseteq Known'
  PROVE  /\ WireBehind /\ wire' = [wire EXCEPT ![b] = << >>] => WireBehind'
         /\ PagesBehind /\ events' = [events EXCEPT ![b] = << >>] => PagesBehind'
<1>1. Seq(Known) \subseteq Seq(Known') /\ << >> \in Seq(Known')
  OBVIOUS
<1> QED BY <1>1 DEF WireBehind, PagesBehind

\* Initially nothing is under way.
LEMMA InitBehind == Init => Behind
<1> SUFFICES ASSUME StreamInit  PROVE Behind
  BY DEF Init
<1>1. << >> \in Seq(Known)
  OBVIOUS
<1>2. WireBehind /\ PagesBehind
  BY <1>1 DEF StreamInit, WireBehind, PagesBehind
<1>3. SinkBehind
  BY DEF StreamInit, SinkBehind, SinkIdle
<1> QED BY <1>2, <1>3 DEF Behind

\* The append comes before the publication, so what is published is known.
LEMMA SinkStepBehind ==
  ASSUME Behind, AppendEvent \/ PublishEvent
  PROVE  Behind'
<1>1. CASE AppendEvent
  <2>1. Known \subseteq Known' /\ sink.event \in Known'
    BY <1>1 DEF AppendEvent, Known
  <2>2. sink' = [stage |-> "publish", event |-> sink.event]
    BY <1>1 DEF AppendEvent, Behind, SinkBehind
  <2>3. SinkBehind'
    BY <2>1, <2>2 DEF SinkBehind
  <2> QED BY <1>1, <2>1, <2>3, KnownGrows DEF AppendEvent, Behind
<1>2. CASE PublishEvent
  <2>1. sink.event \in Known /\ Known' = Known
    BY <1>2 DEF PublishEvent, Behind, SinkBehind, Known
  <2>2. SinkBehind'
    BY <1>2 DEF PublishEvent, SinkBehind, SinkIdle
  <2>3. Deliver(sink.event) \in [Browsers -> Seq(Known)]
    BY <2>1 DEF Deliver, Behind, WireBehind
  <2>4. WireBehind'
    <3>1. wire' = wire \/ wire' = Deliver(sink.event)
      BY <1>2 DEF PublishEvent
    <3> QED BY <2>1, <2>3, <3>1 DEF Behind, WireBehind
  <2> QED BY <1>2, <2>1, <2>2, <2>4, KnownGrows DEF PublishEvent, Behind
<1> QED BY <1>1, <1>2

\* Forwarding moves a message from the wire to the page.
LEMMA ForwardBehind ==
  ASSUME Behind, NEW b \in Browsers, Forward(b)
  PROVE  Behind'
<1>1. Known' = Known /\ UNCHANGED sink
  BY DEF Forward, Known
<1>2. /\ wire[b] \in Seq(Known) /\ wire[b] # << >>
      /\ events[b] \in Seq(Known)
  BY DEF Forward, Behind, WireBehind, PagesBehind
<1>3. Head(wire[b]) \in Known /\ Tail(wire[b]) \in Seq(Known)
  BY <1>2
<1>4. WireBehind'
  BY <1>1, <1>3 DEF Forward, Behind, WireBehind
<1>5. PagesBehind'
  <2>1. Append(events[b], Head(wire[b])) \in Seq(Known)
    BY <1>2, <1>3
  <2> QED BY <1>1, <2>1 DEF Forward, Behind, PagesBehind
<1> QED BY <1>1, <1>4, <1>5, KnownGrows DEF Behind

\* The other steps of a page touch neither the sink nor what it shows.
LEMMA BrowserBehind ==
  ASSUME Behind, NEW b \in Browsers, BrowserNext(b)
  PROVE  Behind'
<1>1. CASE Forward(b)
  BY <1>1, ForwardBehind
<1>2. CASE OpenStream(b) \/ Subscribe(b) \/ CancelStream(b)
  <2>1. Known \subseteq Known' /\ UNCHANGED <<sink, wire, events>>
    BY <1>2 DEF OpenStream, Subscribe, CancelStream, Known
  <2> QED BY <2>1, KnownGrows DEF Behind
<1>3. CASE StreamBreaks(b) \/ LoseMessages(b) \/ CloseStream(b)
  <2>1. /\ Known \subseteq Known' /\ UNCHANGED <<sink, events>>
        /\ wire' = [wire EXCEPT ![b] = << >>]
    BY <1>3 DEF StreamBreaks, LoseMessages, CloseStream, Known
  <2> QED BY <2>1, KnownGrows, Dropped DEF Behind
<1>4. CASE Leave(b)
  <2>1. /\ Known \subseteq Known' /\ UNCHANGED <<sink, wire>>
        /\ events' = [events EXCEPT ![b] = << >>]
    BY <1>4 DEF Leave, Known
  <2> QED BY <2>1, KnownGrows, Dropped DEF Behind
<1> QED BY <1>1, <1>2, <1>3, <1>4 DEF BrowserNext

\* The worker hands an event to the sink, or loses it, before the append.
LEMMA WorkBehind ==
  ASSUME Behind, Work \/ WorkFails
  PROVE  Behind'
<1>1. Known \subseteq Known' /\ UNCHANGED <<wire, events>>
  BY DEF Work, WorkFails, Known
<1>2. SinkBehind'
  <2>1. CASE sink' = sink
    BY <1>1, <2>1, KnownGrows DEF Behind
  <2>2. CASE sink' = [stage |-> "append", event |-> NextEvent]
    BY <2>2 DEF SinkBehind
  <2>3. CASE sink' = SinkIdle
    BY <2>3 DEF SinkBehind, SinkIdle
  <2> QED BY <2>1, <2>2, <2>3 DEF Work, WorkFails
<1> QED BY <1>1, <1>2, KnownGrows DEF Behind

\* Every step keeps what is under way behind the history.
LEMMA StepBehind == Behind /\ [Next]_vars => Behind'
<1> SUFFICES ASSUME Behind, [Next]_vars  PROVE Behind'
  OBVIOUS
<1>1. CASE AppendEvent \/ PublishEvent
  BY <1>1, SinkStepBehind
<1>2. CASE Work \/ WorkFails
  BY <1>2, WorkBehind
<1>3. CASE \E b \in Browsers : BrowserNext(b)
  BY <1>3, BrowserBehind
<1>4. CASE UNCHANGED streamVars
  <2>1. Known \subseteq Known' /\ UNCHANGED <<sink, wire, events>>
    BY <1>4 DEF streamVars, Known
  <2> QED BY <2>1, KnownGrows DEF Behind
<1> QED BY <1>1, <1>2, <1>3, <1>4
     DEF Next, vars, Submit, Invoke, Process, Expire, SubmitDecision

\* No page shows an event that the history neither holds nor has refused: a
\* page opened on the history alone would miss nothing that another one saw
\* (createJobEventSink awaits the append before it publishes).
THEOREM HistoryComesFirst == Spec => []HistoryFirst
<1>1. Behind => HistoryFirst
  BY DEF Behind, PagesBehind, HistoryFirst, Collected, Known, Range
<1> QED BY <1>1, InitBehind, StepBehind, PTL DEF Spec

-----------------------------------------------------------------------------
(* The type invariant, and the progress of the worker behind the sink. *)

StreamShape == WorkShape /\ StreamTypeOK

\* Events are events, a new one of the worker included.
LEMMA NextEventIsEvent ==
  ASSUME WorkShape, pc \in EmitPcs
  PROVE  /\ NextEvent \in Events
         /\ NextEvent.pos = JobLevel => NextEvent = JobDone /\ pc = "top" /\ pos = Len(Plan) + 1
<1>1. Len(Plan) \in Nat \ {0} /\ Positions = 1..Len(Plan) /\ JobLevel \notin Positions
  BY PlanShape DEF Positions, JobLevel
<1>2. pos \in 1..(Len(Plan) + 1) /\ (pc \in {"emit", "catch", "final"} => pos \in Positions)
  BY DEF WorkShape, WorkerTypeOK, InPlan, AtStep
<1>3. CASE pc = "top" /\ pos \notin Positions
  BY <1>1, <1>2, <1>3 DEF NextEvent, JobDone, Events, EventTypes
<1>4. CASE pos \in Positions
  <2>1. \E type \in EventTypes : NextEvent = [type |-> type, pos |-> pos]
    BY <1>4 DEF NextEvent, EventTypes, EmitPcs
  <2> QED BY <1>1, <1>4, <2>1 DEF Events
<1> QED BY <1>2, <1>3, <1>4 DEF EmitPcs

\* What the steps of a job do to its rows, its run and its worker.
LEMMA JobSteps ==
  ASSUME [Next]_vars
  PROVE  \/ WorkerNext
         \/ SubmitJob /\ UNCHANGED storeVars /\ UNCHANGED workerVars
         \/ (\E d : ProcessSignal(d)) /\ UNCHANGED storeVars /\ UNCHANGED workerVars
         \/ (\E i \in Positions : ExpireWait(i)) /\ UNCHANGED storeVars /\ UNCHANGED workerVars
         \/ /\ \E d \in Decisions : ConsumePending({d.step}) /\ SubmitApproval(d)
            /\ UNCHANGED runVars /\ UNCHANGED workerVars
         \/ /\ UNCHANGED storeVars /\ UNCHANGED eventVars
            /\ UNCHANGED runVars /\ UNCHANGED workerVars
BY DEF Next, Submit, Invoke, Work, WorkFails, Process, Expire, SubmitDecision, WorkerNext,
       AppendEvent, PublishEvent, BrowserNext, OpenStream, Subscribe, StreamBreaks,
       LoseMessages, Forward, Leave, CancelStream, CloseStream, vars, workVars

LEMMA WorkStep ==
  ASSUME WorkShape, Progress, [Next]_vars
  PROVE  /\ WorkShape' /\ Progress'
         /\ \A i \in Positions : memo[i] = "done" => memo'[i] = "done"
<1> USE DEF WorkShape
<1>1. CASE WorkerNext
  BY <1>1, WorkerShape, ProgressStep
<1>2. CASE ~WorkerNext
  <2>1. UNCHANGED workerVars /\ UNCHANGED memo
        /\ (runState' = "completed" => runState = "completed")
    BY <1>2, JobSteps DEF SubmitJob, ProcessSignal, ExpireWait, runVars
  <2>2. Progress'
    BY <2>1, ProgressKept DEF workerVars
  <2>3. WorkShape'
    <3>1. CASE SubmitJob /\ UNCHANGED storeVars
      BY <2>1, <3>1, EngineShape, PartsKept DEF SubmitJob
    <3>2. CASE (\E d : ProcessSignal(d)) /\ UNCHANGED storeVars
      BY <2>1, <3>2, ProcessShape, PartsKept
    <3>3. CASE (\E i \in Positions : ExpireWait(i)) /\ UNCHANGED storeVars
      BY <2>1, <3>3, EngineShape, PartsKept DEF ExpireWait
    <3>4. CASE /\ \E d \in Decisions : ConsumePending({d.step}) /\ SubmitApproval(d)
               /\ UNCHANGED runVars
      <4>1. PICK d \in Decisions : ConsumePending({d.step}) /\ SubmitApproval(d)
        BY <3>4
      <4>2. d.step \in StepIds
        BY DEF Decisions
      <4>3. StoreTypeOK'
        BY <4>1, <4>2, StoreShape
      <4>4. EventsTypeOK'
        BY <4>1, <4>2 DEF SubmitApproval, EventsTypeOK, eventVars
      <4> QED BY <2>1, <3>4, <4>3, <4>4, PartsKept
    <3>5. CASE UNCHANGED storeVars /\ UNCHANGED eventVars /\ UNCHANGED runVars
      BY <2>1, <3>5, PartsKept
    <3> QED BY <1>2, <3>1, <3>2, <3>3, <3>4, <3>5, JobSteps
  <2> QED BY <2>1, <2>2, <2>3
<1> QED BY <1>1, <1>2

-----------------------------------------------------------------------------
(* The terminal event. *)

Through == \A i \in Positions : memo[i] = "done"

\* An event without a step is the end of the plan, and the plan is through.
Tells(e) == e.pos = JobLevel => e = JobDone /\ Through

SinkTells == sink.stage # "idle" => Tells(sink.event)
WireTells == \A b \in Browsers : \A k \in 1..Len(wire[b]) : Tells(wire[b][k])
PageTells ==
  \A b \in Browsers :
    /\ hook[b] \in {"idle", "open"} =>
         \A k \in 1..Len(events[b]) : events[b][k] # JobDone
    /\ hook[b] = "closed" =>
         /\ Through
         /\ \A k \in 1..Len(events[b]) : events[b][k] = JobDone <=> k = Len(events[b])

Truth == SinkTells /\ WireTells /\ PageTells

\* The worker gives the sink an event that is true, or nothing.
LEMMA WorkTells ==
  ASSUME StreamShape, Progress, Truth, Work \/ WorkFails, Through => Through'
  PROVE  StreamTypeOK' /\ Truth'
<1> USE DEF StreamShape
<1>1. UNCHANGED <<history, stream, wire, hook, events, faults, unsaved>>
  BY DEF Work, WorkFails
<1>2. sink' \in {sink, SinkIdle} \/ (pc \in EmitPcs /\ sink' = [stage |-> "append", event |-> NextEvent])
  BY DEF Work, WorkFails
<1>3. StreamTypeOK'
  <2>1. SinkIdle \in [stage : {"idle", "append", "publish"}, event : Events]
    BY DEF SinkIdle, JobDone, Events, EventTypes
  <2> QED BY <1>1, <1>2, <2>1, NextEventIsEvent DEF StreamTypeOK
<1>4. SinkTells'
  <2>1. CASE sink' \in {sink, SinkIdle}
    BY <2>1 DEF Truth, SinkTells, SinkIdle, Tells, JobDone
  <2>2. CASE pc \in EmitPcs /\ sink' = [stage |-> "append", event |-> NextEvent]
    <3>1. Len(Plan) \in Nat /\ Positions = 1..Len(Plan)
      BY PlanShape DEF Positions
    <3>2. ASSUME NextEvent.pos = JobLevel  PROVE NextEvent = JobDone /\ Through
      <4>1. NextEvent = JobDone /\ pos = Len(Plan) + 1
        BY <2>2, <3>2, NextEventIsEvent
      <4>2. Through
        BY <3>1, <4>1 DEF Progress, Walked, InOrder, Through
      <4> QED BY <4>1, <4>2
    <3> HIDE DEF JobDone
    <3> QED BY <2>2, <3>2 DEF SinkTells, Tells, JobDone
  <2> QED BY <1>2, <2>1, <2>2
<1>5. WireTells' /\ PageTells'
  BY <1>1 DEF Truth, WireTells, PageTells, Tells, JobDone
<1> QED BY <1>3, <1>4, <1>5 DEF Truth

\* The sink passes on what it was given.
LEMMA SinkStepTells ==
  ASSUME StreamShape, Truth, AppendEvent \/ PublishEvent
  PROVE  StreamTypeOK' /\ Truth'
<1> USE DEF StreamShape, StreamTypeOK
<1>1. UNCHANGED memo /\ UNCHANGED <<stream, hook, events>>
  BY DEF AppendEvent, PublishEvent, workVars, runVars
<1>2. (Through <=> Through') /\ \A e : Tells(e) <=> Tells(e)'
  BY <1>1 DEF Through, Tells, JobDone
<1>3. PageTells'
  BY <1>1, <1>2 DEF Truth, PageTells, JobDone
<1>4. CASE AppendEvent
  <2>1. faults' \in 0..MaxFaults
    BY <1>4, StreamAssumption DEF AppendEvent, Fault
  <2>2. StreamTypeOK'
    BY <1>4, <2>1 DEF AppendEvent
  <2>3. SinkTells' /\ WireTells'
    BY <1>2, <1>4 DEF AppendEvent, Truth, SinkTells, WireTells
  <2> QED BY <1>3, <2>2, <2>3 DEF Truth
<1>5. CASE PublishEvent
  <2>1. faults' \in 0..MaxFaults
    BY <1>5, StreamAssumption DEF PublishEvent, Fault
  <2>2. sink' = SinkIdle /\ (wire' = wire \/ wire' = Deliver(sink.event)) /\ UNCHANGED <<history, unsaved>>
    BY <1>5 DEF PublishEvent
  <2>3. PICK e \in Events : e = sink.event /\ Tells(e)
    BY <1>5 DEF PublishEvent, Truth, SinkTells
  <2>4. SinkIdle \in [stage : {"idle", "append", "publish"}, event : Events]
    BY DEF SinkIdle, JobDone, Events, EventTypes
  <2>5. ASSUME NEW b \in Browsers
        PROVE  /\ wire'[b] \in Seq(Events)
               /\ \A k \in 1..Len(wire'[b]) : Tells(wire'[b][k])
    <3>1. wire[b] \in Seq(Events) /\ \A k \in 1..Len(wire[b]) : Tells(wire[b][k])
      BY DEF Truth, WireTells
    <3>2. wire'[b] = wire[b] \/ wire'[b] = Append(wire[b], e)
      BY <2>2, <2>3 DEF Deliver
    <3> HIDE DEF StreamTypeOK
    <3>3. CASE wire'[b] = Append(wire[b], e)
      <4>1. /\ Append(wire[b], e) \in Seq(Events)
            /\ Len(Append(wire[b], e)) = Len(wire[b]) + 1 /\ Len(wire[b]) \in Nat
            /\ \A k \in 1..Len(wire[b]) : Append(wire[b], e)[k] = wire[b][k]
            /\ Append(wire[b], e)[Len(wire[b]) + 1] = e
        BY <3>1, AppendProperties, LenProperties
      <4>2. \A k \in 1..Len(wire'[b]) : k \in 1..Len(wire[b]) \/ k = Len(wire[b]) + 1
        BY <3>3, <4>1
      <4> QED BY <2>3, <3>1, <3>3, <4>1, <4>2
    <3> QED BY <3>1, <3>2, <3>3
  <2>6. wire' \in [Browsers -> Seq(Events)]
    <3>1. Deliver(sink.event) = [b \in Browsers |-> Deliver(sink.event)[b]]
      BY DEF Deliver
    <3> QED BY <2>2, <2>5, <3>1
  <2>7. StreamTypeOK'
    BY <1>1, <2>1, <2>2, <2>4, <2>6
  <2>8. WireTells'
    BY <1>2, <2>5 DEF WireTells
  <2>9. SinkTells'
    BY <2>2 DEF SinkTells, SinkIdle
  <2> QED BY <1>3, <2>7, <2>8, <2>9 DEF Truth
<1> QED BY <1>4, <1>5

\* Forwarding shows the page a message; the terminal one is the last it shows.
LEMMA ForwardTells ==
  ASSUME StreamShape, Truth, NEW b \in Browsers, Forward(b)
  PROVE  StreamTypeOK' /\ Truth'
<1> USE DEF StreamShape
<1>1. UNCHANGED memo /\ UNCHANGED <<sink, history, faults, unsaved>>
  BY DEF Forward, workVars, runVars
<1>2. (Through <=> Through') /\ \A e : Tells(e) <=> Tells(e)'
  BY <1>1 DEF Through, Tells, JobDone
<1>3. PICK m : m = Head(wire[b])
  OBVIOUS
<1>4. /\ wire[b] \in Seq(Events) /\ wire[b] # << >> /\ events[b] \in Seq(Events)
      /\ \A k \in 1..Len(wire[b]) : Tells(wire[b][k])
  BY DEF Forward, StreamTypeOK, Truth, WireTells
<1>5. /\ m \in Events /\ Tells(m)
      /\ Tail(wire[b]) \in Seq(Events)
      /\ \A k \in 1..Len(Tail(wire[b])) : Tells(Tail(wire[b])[k])
  BY <1>3, <1>4 DEF Tells
<1>6. /\ Append(events[b], m) \in Seq(Events)
      /\ Len(Append(events[b], m)) = Len(events[b]) + 1 /\ Len(events[b]) \in Nat
      /\ \A k \in 1..Len(events[b]) : Append(events[b], m)[k] = events[b][k]
      /\ Append(events[b], m)[Len(events[b]) + 1] = m
  BY <1>4, <1>5, AppendProperties, LenProperties
<1>7. /\ wire' = [wire EXCEPT ![b] = Tail(wire[b])]
      /\ events' = [events EXCEPT ![b] = IF hook[b] = "open" THEN Append(events[b], m) ELSE events[b]]
      /\ \/ /\ Terminal(m) /\ stream' = [stream EXCEPT ![b] = "closing"]
            /\ hook' = [hook EXCEPT ![b] = IF hook[b] = "open" THEN "closed" ELSE hook[b]]
         \/ ~Terminal(m) /\ UNCHANGED <<stream, hook>>
  BY <1>3 DEF Forward
<1>8. StreamTypeOK'
  BY <1>1, <1>4, <1>5, <1>6, <1>7 DEF StreamTypeOK
<1>9. WireTells'
  BY <1>2, <1>5, <1>7 DEF WireTells, Truth, StreamTypeOK
<1>10. SinkTells'
  BY <1>1, <1>2 DEF SinkTells, Truth
<1>11. Terminal(m) => m = JobDone /\ Through
  BY <1>5 DEF Terminal, Tells
<1>12. m = JobDone => Terminal(m)
  BY DEF Terminal, JobDone
<1>13. PageTells'
  <2> SUFFICES ASSUME NEW p \in Browsers
               PROVE  /\ hook'[p] \in {"idle", "open"} =>
                           \A k \in 1..Len(events'[p]) : events'[p][k] # JobDone
                      /\ hook'[p] = "closed" =>
                           /\ Through
                           /\ \A k \in 1..Len(events'[p]) :
                                events'[p][k] = JobDone <=> k = Len(events'[p])
    BY <1>2 DEF PageTells, JobDone
  <2> HIDE DEF JobDone
  <2>1. CASE p # b \/ hook[b] # "open"
    <3>1. events'[p] = events[p] /\ hook'[p] = hook[p]
      BY <1>7, <2>1 DEF StreamTypeOK
    <3> QED BY <3>1 DEF Truth, PageTells
  <2>2. CASE p = b /\ hook[b] = "open"
    <3>1. events'[p] = Append(events[b], m) /\ hook'[p] = IF Terminal(m) THEN "closed" ELSE "open"
      BY <1>7, <2>2 DEF StreamTypeOK
    <3>2. \A k \in 1..Len(events[b]) : events[b][k] # JobDone
      BY <2>2 DEF Truth, PageTells
    <3>3. \A k \in 1..(Len(events[b]) + 1) : k \in 1..Len(events[b]) \/ k = Len(events[b]) + 1
      BY <1>6
    <3>4. \A k \in 1..Len(events[b]) : k # Len(events[b]) + 1
      BY <1>6
    <3> QED BY <1>6, <1>11, <1>12, <3>1, <3>2, <3>3, <3>4
  <2> QED BY <2>1, <2>2
<1> QED BY <1>8, <1>9, <1>10, <1>13 DEF Truth

\* The other steps of a page show it nothing.
LEMMA BrowserTells ==
  ASSUME StreamShape, Truth, NEW b \in Browsers, BrowserNext(b)
  PROVE  StreamTypeOK' /\ Truth'
<1> USE DEF StreamShape
<1>1. CASE Forward(b)
  BY <1>1, ForwardTells
<1>2. CASE ~Forward(b)
  <2>1. UNCHANGED memo /\ UNCHANGED <<sink, history, unsaved>>
    BY <1>2 DEF BrowserNext, OpenStream, Subscribe, StreamBreaks, LoseMessages, Leave,
                CancelStream, CloseStream, workVars, runVars
  <2>2. (Through <=> Through') /\ \A e : Tells(e) <=> Tells(e)'
    BY <2>1 DEF Through, Tells, JobDone
  <2>3. << >> \in Seq(Events) /\ Len(<< >>) = 0
    OBVIOUS
  <2>4. faults' \in 0..MaxFaults
    BY <1>2, StreamAssumption
       DEF BrowserNext, OpenStream, Subscribe, StreamBreaks, LoseMessages, Leave,
           CancelStream, CloseStream, Fault, StreamTypeOK
  <2>5. /\ wire' = wire \/ wire' = [wire EXCEPT ![b] = << >>]
        /\ events' = events \/ (events' = [events EXCEPT ![b] = << >>] /\ hook'[b] = "left")
        /\ \E st \in {"connecting", "subscribed", "closing", "gone"} :
             stream' \in {stream, [stream EXCEPT ![b] = st]}
        /\ \E h \in {"open", "error", "left"} :
             hook' = hook \/ (hook' = [hook EXCEPT ![b] = h] /\ (h = "open" => hook[b] = "idle"))
    BY <1>2 DEF BrowserNext, OpenStream, Subscribe, StreamBreaks, LoseMessages, Leave,
                CancelStream, CloseStream, StreamTypeOK
  <2>6. StreamTypeOK'
    <3>1. wire' \in [Browsers -> Seq(Events)]
      BY <2>3, <2>5 DEF StreamTypeOK
    <3>2. events' \in [Browsers -> Seq(Events)]
      BY <2>3, <2>5 DEF StreamTypeOK
    <3>3. stream' \in [Browsers -> {"none", "connecting", "subscribed", "closing", "gone"}]
      <4>1. PICK st \in {"connecting", "subscribed", "closing", "gone"} :
              stream' \in {stream, [stream EXCEPT ![b] = st]}
        BY <2>5
      <4> QED BY <4>1 DEF StreamTypeOK
    <3>4. hook' \in [Browsers -> {"idle", "open", "closed", "error", "left"}]
      <4>1. PICK h \in {"open", "error", "left"} : hook' \in {hook, [hook EXCEPT ![b] = h]}
        BY <2>5
      <4> QED BY <4>1 DEF StreamTypeOK
    <3> QED BY <2>1, <2>4, <3>1, <3>2, <3>3, <3>4 DEF StreamTypeOK
  <2>7. WireTells' /\ SinkTells'
    <3>1. \A p \in Browsers : wire'[p] = wire[p] \/ wire'[p] = << >>
      BY <2>5 DEF StreamTypeOK
    <3>2. WireTells'
      BY <2>2, <2>3, <3>1 DEF Truth, WireTells
    <3>3. SinkTells'
      BY <2>1, <2>2 DEF Truth, SinkTells
    <3> QED BY <3>2, <3>3
  <2>8. ASSUME NEW p \in Browsers
        PROVE  /\ hook'[p] \in {"idle", "open"} =>
                    hook[p] \in {"idle", "open"} /\ events'[p] = events[p]
               /\ hook'[p] = "closed" => hook[p] = "closed" /\ events'[p] = events[p]
    BY <2>5 DEF StreamTypeOK
  <2>9. PageTells'
    BY <2>2, <2>8 DEF Truth, PageTells, JobDone
  <2> QED BY <2>6, <2>7, <2>9 DEF Truth
<1> QED BY <1>1, <1>2

LEMMA TruthStep ==
  ASSUME StreamShape, Progress, Truth, [Next]_vars
  PROVE  StreamShape' /\ Progress' /\ Truth'
<1> USE DEF StreamShape
<1>1. WorkShape' /\ Progress' /\ (Through => Through')
  BY WorkStep DEF Through
<1>2. CASE Work \/ WorkFails
  BY <1>1, <1>2, WorkTells
<1>3. CASE AppendEvent \/ PublishEvent
  BY <1>1, <1>3, SinkStepTells
<1>4. CASE \E b \in Browsers : BrowserNext(b)
  BY <1>1, <1>4, BrowserTells
<1>5. CASE UNCHANGED streamVars
  <2>1. StreamTypeOK'
    BY <1>5 DEF StreamTypeOK, streamVars
  <2>2. Truth'
    BY <1>1, <1>5 DEF Truth, SinkTells, WireTells, PageTells, Tells, JobDone, streamVars
  <2> QED BY <1>1, <2>1, <2>2
<1> QED BY <1>2, <1>3, <1>4, <1>5
     DEF Next, vars, Submit, Invoke, Process, Expire, SubmitDecision

\* A terminal event, in the sink, on the wire or on a page, is of an executed plan.
THEOREM TruthInvariant == Spec => [](StreamShape /\ Progress /\ Truth)
<1>1. Init => StreamShape /\ Progress /\ Truth
  <2> SUFFICES ASSUME Init  PROVE StreamShape /\ Progress /\ Truth
    OBVIOUS
  <2>1. StoreTypeOK /\ EventsTypeOK
    BY DEF Init, StoreInit, StoreTypeOK, ApprovalStates, EventsInit, EventsTypeOK
  <2>2. EngineTypeOK
    BY EngineAssumption DEF Init, EngineInit, EngineTypeOK, RunStates
  <2>3. WorkerTypeOK /\ InPlan
    BY PlanShape DEF Init, WorkerInit, WorkerTypeOK, WorkerPcs, InPlan, AtStep
  <2>4. StreamTypeOK
    <3>1. JobDone \in Events /\ << >> \in Seq(Events)
      BY DEF JobDone, Events, EventTypes
    <3>2. 0 \in 0..MaxFaults
      BY StreamAssumption
    <3> QED BY <3>1, <3>2 DEF Init, StreamInit, StreamTypeOK, SinkIdle
  <2>5. Progress
    BY DEF Init, WorkerInit, EngineInit, Progress, InOrder, Walked, PlanThrough, Published
  <2>6. SinkTells
    BY DEF Init, StreamInit, SinkTells, SinkIdle
  <2>7. WireTells /\ PageTells
    <3>1. Len(<< >>) = 0
      OBVIOUS
    <3> QED BY <3>1 DEF Init, StreamInit, WireTells, PageTells
  <2> QED BY <2>1, <2>2, <2>3, <2>4, <2>5, <2>6, <2>7 DEF StreamShape, WorkShape, Truth
<1>2. (StreamShape /\ Progress /\ Truth) /\ [Next]_vars => (StreamShape /\ Progress /\ Truth)'
  BY TruthStep
<1> QED BY <1>1, <1>2, PTL DEF Spec

\* The rows, the run, the invocation, the sink, the streams and the pages
\* always have their types, whatever is lost on the way.
THEOREM StreamTypesHold == Spec => []TypeOK
<1>1. StreamShape => TypeOK
  BY DEF StreamShape, WorkShape, TypeOK
<1> QED BY <1>1, TruthInvariant, PTL

\* A page whose stream was closed on it belongs to a job that has executed its
\* whole plan, and the terminal event is the last it shows, however often
\* replays publish it (isTerminalJobEvent, useJobStream).
THEOREM ClosedIsDone == Spec => []ClosedMeansDone
<1>1. Truth => ClosedMeansDone
  BY DEF Truth, PageTells, ClosedMeansDone, Through
<1> QED BY <1>1, TruthInvariant, PTL
=============================================================================
