----------------------------- MODULE JobWorker -----------------------------
(***************************************************************************)
(* The job function of apps/worker: runJob (main.ts), the durable step     *)
(* runner it wraps around the engine's step port, the instrumented event   *)
(* sink, and the dispatch loop of packages/agents/src/supervisor.ts.       *)
(*                                                                         *)
(* One invocation runs at a time and walks the plan from its first step,   *)
(* over what earlier invocations left in the engine and the database; its  *)
(* local variables die with it.  Each action ends at an await.             *)
(***************************************************************************)
EXTENDS JobStepStore, DurableEngine

CONSTANTS
  GatedSteps,       \* the step ids requiresApproval flags
  GatedKinds,       \* the kinds requiresApprovalForKind flags
  GateConfigured,   \* is an approvalGate given to the step runner?
  VerifyDocuments   \* is verifyDocument configured?

ASSUME WorkerAssumption ==
  /\ GatedSteps \subseteq StepIds
  /\ GatedKinds \subseteq Kinds
  /\ GateConfigured \in BOOLEAN
  /\ VerifyDocuments \in BOOLEAN

VARIABLES
  pc,          \* the await the invocation is at; idle: no invocation
  pos,         \* the plan position dispatch is at
  handoff,     \* research positions whose citations wait for a document
  cites,       \* those handed to the task at pos
  \* history
  ran,         \* specialist calls: [pos, edit, cites]
  emitted      \* progress events given to the sink: [type, pos]

workerVars == <<pc, pos, handoff, cites, ran, emitted>>

WorkerPcs == {"idle", "insert", "top", "register", "gate", "park", "step",
              "called", "verify", "record", "emit", "return", "catch", "final"}

Calls == [pos : Positions, edit : Edits \cup {NoEdit}, cites : SUBSET Positions]
EventTypes == {"step-start", "completion", "error"}
JobLevel == 0     \* the position of an event without a stepId
Events == [type : EventTypes, pos : Positions \cup {JobLevel}]

WorkerTypeOK ==
  /\ pc \in WorkerPcs
  /\ pos \in 1..(Len(Plan) + 1)
  /\ handoff \subseteq Positions
  /\ cites \subseteq Positions
  /\ ran \subseteq Calls
  /\ emitted \subseteq Events

WorkerInit ==
  /\ pc = "idle"
  /\ pos = 1
  /\ handoff = {}
  /\ cites = {}
  /\ ran = {}
  /\ emitted = {}

-----------------------------------------------------------------------------
Kind(i) == Plan[i].kind

\* stepKindById is a Map built from the plan: the last step of an id wins.
KindById(s) ==
  Kind(CHOOSE i \in Positions :
         Step(i) = s /\ \A j \in Positions : Step(j) = s => j <= i)

RequiresApproval(s) == s \in GatedSteps \/ KindById(s) \in GatedKinds
Gated(i) == RequiresApproval(Step(i))

ConsumesHandoff(i) ==
  Kind(i) = "document-generation" /\ ~Plan[i].own /\ handoff # {}

\* Mutant: a retry forgets the edit.
ApprovedEditFirstAttempt(i) ==
  IF Gated(i) /\ attempt = 0 THEN answer[i].edit ELSE NoEdit

\* The arguments fn is called with; a step that is not gated has none.
ApprovedEdit(i) == IF Gated(i) THEN answer[i].edit ELSE NoEdit

Verified(i) == VerifyDocuments /\ Kind(i) = "document-generation"

Emit(type, i) == emitted' = emitted \cup {[type |-> type, pos |-> i]}

GoTo(label) == pc' = label
\* The locals of dispatch start afresh, and die with the invocation.
FreshLocals == pos' = 1 /\ handoff' = {} /\ cites' = {}
EndInvocation == GoTo("idle") /\ FreshLocals

-----------------------------------------------------------------------------
\* The engine invokes the function body.
BeginInvocation ==
  /\ runState = "queued"
  /\ SetRun("executing")
  /\ GoTo("insert")
  /\ FreshLocals
  /\ UNCHANGED <<ran, emitted, storeVars>>

\* await jobStore?.insert(...), on every replay.
InsertJobRow ==
  /\ pc = "insert"
  /\ InsertJob
  /\ GoTo("top")
  /\ UNCHANGED <<pos, handoff, cites, ran, emitted, runVars, eventVars>>

\* Mutant: the citations handed over are not taken off the queue.
StartStepKeepsHandoff ==
  /\ pc = "top"
  /\ pos \in Positions
  /\ cites' = IF ConsumesHandoff(pos) THEN handoff ELSE {}
  /\ Emit("step-start", pos)
  /\ GoTo(IF Gated(pos) THEN "register" ELSE "step")
  /\ UNCHANGED <<pos, handoff, ran, storeVars, runVars, eventVars>>

\* The top of the loop: hand the waiting citations over, publish step-start.
StartStep ==
  /\ pc = "top"
  /\ pos \in Positions
  /\ cites' = IF ConsumesHandoff(pos) THEN handoff ELSE {}
  /\ handoff' = IF ConsumesHandoff(pos) THEN {} ELSE handoff
  /\ Emit("step-start", pos)
  /\ GoTo(IF Gated(pos) THEN "register" ELSE "step")
  /\ UNCHANGED <<pos, ran, storeVars, runVars, eventVars>>

\* A gated step without a gate is denied (misconfigured) ...
DenyMisconfigured ==
  /\ pc = "register"
  /\ ~GateConfigured
  /\ GoTo("catch")
  /\ UNCHANGED <<pos, handoff, cites, ran, emitted, storeVars, runVars, eventVars>>

\* ... with one, its row is registered, on every replay.
RegisterStep ==
  /\ pc = "register"
  /\ GateConfigured
  /\ RegisterPending(Step(pos))
  /\ GoTo("gate")
  /\ UNCHANGED <<pos, handoff, cites, ran, emitted, runVars, eventVars>>

\* The gate has no answer yet: the body stops there and reports the wait.
AskForApproval ==
  /\ pc = "gate"
  /\ wait[pos] = "none"
  /\ GoTo("park")
  /\ UNCHANGED <<pos, handoff, cites, ran, emitted, storeVars, runVars, eventVars>>

\* The report reaches the engine, which opens the wait.
ParkRun ==
  /\ pc = "park"
  /\ OpenWait(pos)
  /\ EndInvocation
  /\ UNCHANGED <<ran, emitted, storeVars>>

\* Mutant: any answer passes.
PassGateAnyAnswer ==
  /\ pc = "gate"
  /\ \/ wait[pos] = "answered" /\ GoTo("step")
     \/ wait[pos] = "expired" /\ GoTo("catch")
  /\ UNCHANGED <<pos, handoff, cites, ran, emitted, storeVars, runVars, eventVars>>

\* Mutant: only a rejection denies the step.
PassGateExpired ==
  /\ pc = "gate"
  /\ \/ wait[pos] = "answered" /\ ~answer[pos].approve /\ GoTo("catch")
     \/ wait[pos] \in {"answered", "expired"} /\ GoTo("step")
  /\ UNCHANGED <<pos, handoff, cites, ran, emitted, storeVars, runVars, eventVars>>

\* The gate answers from its checkpoint: run the step, or deny it (rejected,
\* expired).
PassGate ==
  /\ pc = "gate"
  /\ \/ wait[pos] = "answered" /\ answer[pos].approve /\ GoTo("step")
     \/ wait[pos] = "answered" /\ ~answer[pos].approve /\ GoTo("catch")
     \/ wait[pos] = "expired" /\ GoTo("catch")
  /\ UNCHANGED <<pos, handoff, cites, ran, emitted, storeVars, runVars, eventVars>>

-----------------------------------------------------------------------------
\* Mutant: a checkpointed failure is taken for a result.
ReplayStepAnyMemo ==
  /\ pc = "step"
  /\ memo[pos] # "none"
  /\ GoTo("record")
  /\ UNCHANGED <<pos, handoff, cites, ran, emitted, storeVars, runVars, eventVars>>

\* step.run finds a checkpoint: the result again, or the failure again.
ReplayStep ==
  /\ pc = "step"
  /\ \/ memo[pos] = "done" /\ GoTo(IF Verified(pos) THEN "verify" ELSE "record")
     \/ memo[pos] = "failed" /\ GoTo("final")
  /\ UNCHANGED <<pos, handoff, cites, ran, emitted, storeVars, runVars, eventVars>>

\* Mutant: a replay calls the specialist again for what is checkpointed.
CallSpecialistAgain ==
  /\ pc = "step"
  /\ memo[pos] # "failed"
  /\ ApprovedEdit(pos) \notin BadEdits
  /\ ran' = ran \cup {[pos |-> pos, edit |-> ApprovedEdit(pos), cites |-> cites]}
  /\ GoTo("called")
  /\ UNCHANGED <<pos, handoff, cites, emitted, storeVars, runVars, eventVars>>

\* It finds none: merge the approved arguments and call the specialist.
CallSpecialist ==
  /\ pc = "step"
  /\ memo[pos] = "none"
  /\ ApprovedEdit(pos) \notin BadEdits
  /\ ran' = ran \cup {[pos |-> pos, edit |-> ApprovedEdit(pos), cites |-> cites]}
  /\ GoTo("called")
  /\ UNCHANGED <<pos, handoff, cites, emitted, storeVars, runVars, eventVars>>

\* The call returns and the engine checkpoints the result.
CheckpointResult(usage) ==
  /\ pc = "called"
  /\ usage # NoUsage => Kind(pos) = "document-generation"
  /\ Checkpoint(pos, usage)
  /\ EndInvocation
  /\ UNCHANGED <<ran, emitted, storeVars>>

\* The merged arguments do not parse, or the specialist throws.
StepThrows ==
  /\ \/ pc = "step" /\ memo[pos] = "none" /\ ApprovedEdit(pos) \in BadEdits
     \/ pc = "called"
  /\ FailStep(pos)
  /\ EndInvocation
  /\ UNCHANGED <<ran, emitted, storeVars>>

\* The mechanical check and llmVerify run outside step.run, on every replay,
\* so their verdict on one document may change.
VerifyDocument ==
  /\ pc = "verify"
  /\ GoTo("record") \/ GoTo("catch")
  /\ UNCHANGED <<pos, handoff, cites, ran, emitted, storeVars, runVars, eventVars>>

\* After the try block: queue research citations, then the first await of
\* publishing the completion, which records the usage the result reports.
RecordUsage ==
  /\ pc = "record"
  /\ handoff' = IF Kind(pos) = "rag-research" THEN handoff \cup {pos} ELSE handoff
  /\ IF memoUsage[pos] # NoUsage
       THEN RecordStepUsage(Step(pos), memoUsage[pos])
       ELSE UNCHANGED storeVars
  /\ GoTo("emit")
  /\ UNCHANGED <<pos, cites, ran, emitted, runVars, eventVars>>

CompleteStep ==
  /\ pc = "emit"
  /\ Emit("completion", pos)
  /\ pos' = pos + 1
  /\ GoTo("top")
  /\ UNCHANGED <<handoff, cites, ran, storeVars, runVars, eventVars>>

\* Past the last step: the job-level completion, then the results.
CompletePlan ==
  /\ pc = "top"
  /\ pos \notin Positions
  /\ Emit("completion", JobLevel)
  /\ GoTo("return")
  /\ UNCHANGED <<pos, handoff, cites, ran, storeVars, runVars, eventVars>>

ReturnResults ==
  /\ pc = "return"
  /\ SetRun("completed")
  /\ EndInvocation
  /\ UNCHANGED <<ran, emitted, storeVars>>

\* Mutant: the error is published and swallowed.
RethrowErrorSwallowed ==
  /\ pc \in {"catch", "final"}
  /\ Emit("error", pos)
  /\ pos' = pos + 1
  /\ GoTo("top")
  /\ UNCHANGED <<handoff, cites, ran, storeVars, runVars, eventVars>>

\* dispatch's catch: publish the error and rethrow.  A failure that step.run
\* threw is final for the engine; any other uses up an attempt.
RethrowError ==
  /\ pc \in {"catch", "final"}
  /\ Emit("error", pos)
  /\ IF pc = "final" THEN SetRun("failed") ELSE FailBody
  /\ EndInvocation
  /\ UNCHANGED <<ran, storeVars>>

-----------------------------------------------------------------------------
\* registerPending throws inside the try block, the other two statements
\* outside it.
DatabaseFails ==
  /\ \/ /\ pc \in {"insert", "record"}
        /\ pc = "record" => memoUsage[pos] # NoUsage
        /\ FailBody
        /\ EndInvocation
     \/ /\ pc = "register" /\ GateConfigured
        /\ GoTo("catch")
        /\ UNCHANGED <<pos, handoff, cites, runVars, eventVars>>
  /\ UNCHANGED <<ran, emitted, storeVars>>

\* The worker dies under the invocation, or loses the engine.
WorkerCrash ==
  /\ pc # "idle"
  /\ FailBody
  /\ EndInvocation
  /\ UNCHANGED <<ran, emitted, storeVars>>

\* The steps of an invocation that is not interrupted; a specialist either
\* returns or throws.
WorkerStep ==
  \/ InsertJobRow
  \/ StartStep
  \/ DenyMisconfigured
  \/ RegisterStep
  \/ AskForApproval
  \/ ParkRun
  \/ PassGate
  \/ ReplayStep
  \/ CallSpecialist
  \/ \E usage \in Usages \cup {NoUsage} : CheckpointResult(usage)
  \/ StepThrows
  \/ VerifyDocument
  \/ RecordUsage
  \/ CompleteStep
  \/ CompletePlan
  \/ ReturnResults
  \/ RethrowError

WorkerNext ==
  \/ BeginInvocation
  \/ WorkerStep
  \/ DatabaseFails
  \/ WorkerCrash
===========================================================================
