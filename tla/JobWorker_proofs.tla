-------------------------- MODULE JobWorker_proofs --------------------------
(***************************************************************************)
(* Lemmas about JobWorker by itself, for every plan, every set of gated    *)
(* steps and any number of retries: what one step of the worker or of the  *)
(* engine does to the types of its state and to what the worker relies on. *)
(* The systems it is a part of, DurableJob and JobStream, are proved from  *)
(* them.                                                                   *)
(***************************************************************************)
EXTENDS JobWorker, TLAPS

-----------------------------------------------------------------------------
(* Types. *)

AtStep == {"register", "gate", "park", "step", "called", "verify", "record",
           "emit", "catch", "final"}
InPlan == pc \in AtStep => pos \in Positions

WorkShape == StoreTypeOK /\ EventsTypeOK /\ EngineTypeOK /\ WorkerTypeOK /\ InPlan

\* The positions of the plan name steps.
LEMMA PlanShape ==
  /\ Len(Plan) \in Nat \ {0}
  /\ \A i \in Positions : Step(i) \in StepIds /\ i \in Nat
<1>1. Plan \in Seq(PlanSteps) /\ Plan # << >>
  BY WorkflowAssumption
<1>2. Len(Plan) \in Nat \ {0}
  BY <1>1
<1>3. ASSUME NEW i \in Positions  PROVE Step(i) \in StepIds /\ i \in Nat
  <2>1. i \in 1..Len(Plan)
    BY <1>3 DEF Positions
  <2>2. Plan[i] \in PlanSteps
    BY <1>1, <2>1
  <2> QED BY <1>2, <2>1, <2>2 DEF Step, PlanSteps
<1> QED BY <1>2, <1>3

\* A part of the state that a step leaves alone keeps its type.
LEMMA PartsKept ==
  /\ StoreTypeOK /\ UNCHANGED storeVars => StoreTypeOK'
  /\ EventsTypeOK /\ UNCHANGED eventVars => EventsTypeOK'
  /\ EngineTypeOK /\ UNCHANGED runVars => EngineTypeOK'
  /\ WorkerTypeOK /\ UNCHANGED workerVars => WorkerTypeOK'
  /\ InPlan /\ UNCHANGED workerVars => InPlan'
<1>1. StoreTypeOK /\ UNCHANGED storeVars => StoreTypeOK'
  BY DEF StoreTypeOK, storeVars
<1>2. EventsTypeOK /\ UNCHANGED eventVars => EventsTypeOK'
  BY DEF EventsTypeOK, eventVars
<1>3. EngineTypeOK /\ UNCHANGED runVars => EngineTypeOK'
  BY DEF EngineTypeOK, runVars
<1>4. WorkerTypeOK /\ UNCHANGED workerVars => WorkerTypeOK'
  BY DEF WorkerTypeOK, workerVars
<1>5. InPlan /\ UNCHANGED workerVars => InPlan'
  BY DEF InPlan, workerVars
<1> QED BY <1>1, <1>2, <1>3, <1>4, <1>5

\* The statements of the store keep the types of its rows.
LEMMA StoreShape ==
  ASSUME StoreTypeOK
  PROVE  /\ InsertJob => StoreTypeOK'
         /\ \A s \in StepIds : RegisterPending(s) => StoreTypeOK'
         /\ \A s \in StepIds, n \in Nat : RecordStepUsage(s, n) => StoreTypeOK'
         /\ \A S \in SUBSET StepIds : ConsumePending(S) => StoreTypeOK'
<1> USE DEF StoreTypeOK, ApprovalStates
<1>1. InsertJob => StoreTypeOK'
  BY DEF InsertJob
<1>2. ASSUME NEW s \in StepIds, RegisterPending(s)  PROVE StoreTypeOK'
  BY <1>2 DEF RegisterPending
<1>3. ASSUME NEW s \in StepIds, NEW n \in Nat, RecordStepUsage(s, n)
      PROVE  StoreTypeOK'
  BY <1>3 DEF RecordStepUsage
<1>4. ASSUME NEW S \in SUBSET StepIds, ConsumePending(S)  PROVE StoreTypeOK'
  BY <1>4 DEF ConsumePending
<1> QED BY <1>1, <1>2, <1>3, <1>4

\* What the engine does at the end of an invocation, when the approval window
\* closes and when an event is processed, keeps the types of the run.
LEMMA EngineShape ==
  ASSUME EngineTypeOK
  PROVE  /\ SubmitJob => EngineTypeOK'
         /\ \A i \in Positions : ExpireWait(i) => EngineTypeOK'
         /\ \A i \in Positions : OpenWait(i) => EngineTypeOK'
         /\ \A i \in Positions, usage \in Usages \cup {NoUsage} :
              Checkpoint(i, usage) => EngineTypeOK'
         /\ \A i \in Positions : FailStep(i) => EngineTypeOK'
         /\ FailBody => EngineTypeOK'
         /\ \A outcome \in RunStates : SetRun(outcome) => EngineTypeOK'
<1> USE EngineAssumption DEF EngineTypeOK, RunStates
<1>1. SubmitJob => EngineTypeOK'
  BY DEF SubmitJob
<1>2. ASSUME NEW i \in Positions, ExpireWait(i)  PROVE EngineTypeOK'
  BY <1>2 DEF ExpireWait
<1>3. ASSUME NEW i \in Positions, OpenWait(i)  PROVE EngineTypeOK'
  BY <1>3 DEF OpenWait
<1>4. ASSUME NEW i \in Positions, NEW usage \in Usages \cup {NoUsage},
             Checkpoint(i, usage)
      PROVE  EngineTypeOK'
  BY <1>4 DEF Checkpoint
<1>5. ASSUME NEW i \in Positions, FailStep(i)  PROVE EngineTypeOK'
  BY <1>5 DEF FailStep
<1>6. FailBody => EngineTypeOK'
  BY DEF FailBody
<1>7. ASSUME NEW outcome \in RunStates, SetRun(outcome)  PROVE EngineTypeOK'
  BY <1>7 DEF SetRun
<1> QED BY <1>1, <1>2, <1>3, <1>4, <1>5, <1>6, <1>7

LEMMA ProcessShape ==
  ASSUME EngineTypeOK, EventsTypeOK, NEW d, ProcessSignal(d)
  PROVE  EngineTypeOK' /\ EventsTypeOK'
<1>1. d \in Decisions
  BY DEF ProcessSignal, EventsTypeOK
<1>2. EngineTypeOK'
  BY <1>1 DEF ProcessSignal, EngineTypeOK, RunStates
<1>3. EventsTypeOK'
  BY DEF ProcessSignal, EventsTypeOK
<1> QED BY <1>2, <1>3

\* One step of the worker keeps the shape of the rows, the events, the run and
\* the invocation.
LEMMA WorkerShape ==
  ASSUME WorkShape, WorkerNext
  PROVE  WorkShape'
<1> USE DEF WorkShape
<1>1. Len(Plan) \in Nat \ {0} /\ \A i \in Positions : Step(i) \in StepIds /\ i \in Nat
  BY PlanShape
<1>2. pos \in 1..(Len(Plan) + 1) /\ (pc \in AtStep => pos \in Positions)
  BY DEF WorkerTypeOK, InPlan
\* What an action that ends the invocation leaves.
<1>3. ASSUME EndInvocation, UNCHANGED <<ran, emitted>> \/ \E i \in Positions : Emit("error", i),
             UNCHANGED ran
      PROVE  WorkerTypeOK' /\ InPlan'
  <2>1. pc' = "idle" /\ pos' = 1 /\ handoff' = {} /\ cites' = {}
    BY <1>3 DEF EndInvocation, GoTo, FreshLocals
  <2>2. emitted' \subseteq Events
    BY <1>3 DEF Emit, WorkerTypeOK, Events, EventTypes
  <2> QED BY <1>1, <1>3, <2>1, <2>2 DEF WorkerTypeOK, WorkerPcs, InPlan, AtStep
\* What an action that only moves within a step leaves.
<1>4. ASSUME pc \in AtStep, NEW label \in WorkerPcs, GoTo(label),
             UNCHANGED <<pos, handoff, cites, ran, emitted>>
      PROVE  WorkerTypeOK' /\ InPlan'
  BY <1>2, <1>4 DEF GoTo, WorkerTypeOK, InPlan, AtStep
<1>5. CASE BeginInvocation
  <2>1. UNCHANGED storeVars /\ UNCHANGED eventVars /\ SetRun("executing")
    BY <1>5 DEF BeginInvocation, SetRun
  <2>2. EngineTypeOK'
    BY <2>1, EngineShape DEF RunStates
  <2>3. WorkerTypeOK' /\ InPlan'
    BY <1>1, <1>5 DEF BeginInvocation, GoTo, FreshLocals, WorkerTypeOK, WorkerPcs,
                      InPlan, AtStep
  <2> QED BY <2>1, <2>2, <2>3, PartsKept
<1>6. CASE InsertJobRow
  <2>1. InsertJob /\ UNCHANGED runVars /\ UNCHANGED eventVars
    BY <1>6 DEF InsertJobRow
  <2>2. WorkerTypeOK' /\ InPlan'
    BY <1>6 DEF InsertJobRow, GoTo, WorkerTypeOK, WorkerPcs, InPlan, AtStep
  <2> QED BY <2>1, <2>2, PartsKept, StoreShape
<1>7. CASE StartStep
  <2>1. UNCHANGED storeVars /\ UNCHANGED runVars /\ UNCHANGED eventVars
    BY <1>7 DEF StartStep
  <2>2. pos \in Positions /\ pos' = pos /\ ran' = ran
    BY <1>7 DEF StartStep
  <2>3. handoff' \subseteq Positions /\ cites' \subseteq Positions
    BY <1>7 DEF StartStep, WorkerTypeOK
  <2>4. emitted' \subseteq Events
    BY <1>7, <2>2 DEF StartStep, Emit, WorkerTypeOK, Events, EventTypes
  <2>5. pc' \in {"register", "step"}
    BY <1>7 DEF StartStep, GoTo
  <2> QED BY <2>1, <2>2, <2>3, <2>4, <2>5, PartsKept
          DEF WorkerTypeOK, WorkerPcs, InPlan
<1>8. CASE \/ DenyMisconfigured \/ AskForApproval \/ PassGate \/ ReplayStep
           \/ VerifyDocument
  <2>1. UNCHANGED storeVars /\ UNCHANGED runVars /\ UNCHANGED eventVars
    BY <1>8 DEF DenyMisconfigured, AskForApproval, PassGate, ReplayStep, VerifyDocument
  <2>2. /\ pc \in AtStep
        /\ UNCHANGED <<pos, handoff, cites, ran, emitted>>
        /\ \E label \in WorkerPcs : GoTo(label)
    BY <1>8 DEF DenyMisconfigured, AskForApproval, PassGate, ReplayStep, VerifyDocument,
                AtStep, WorkerPcs, GoTo
  <2> QED BY <1>4, <2>1, <2>2, PartsKept
<1>9. CASE RegisterStep
  <2>1. /\ RegisterPending(Step(pos)) /\ Step(pos) \in StepIds
        /\ UNCHANGED runVars /\ UNCHANGED eventVars
    BY <1>1, <1>2, <1>9 DEF RegisterStep, AtStep
  <2>2. WorkerTypeOK' /\ InPlan'
    BY <1>4, <1>9 DEF RegisterStep, AtStep, WorkerPcs
  <2> QED BY <2>1, <2>2, PartsKept, StoreShape
<1>10. CASE ParkRun
  <2>1. OpenWait(pos) /\ pos \in Positions /\ UNCHANGED storeVars
    BY <1>2, <1>10 DEF ParkRun, AtStep
  <2>2. UNCHANGED eventVars
    BY <2>1 DEF OpenWait
  <2>3. WorkerTypeOK' /\ InPlan'
    BY <1>3, <1>10 DEF ParkRun
  <2> QED BY <2>1, <2>2, <2>3, PartsKept, EngineShape
<1>11. CASE CallSpecialist
  <2>1. UNCHANGED storeVars /\ UNCHANGED runVars /\ UNCHANGED eventVars
    BY <1>11 DEF CallSpecialist
  <2>2. pos \in Positions
    BY <1>2, <1>11 DEF CallSpecialist, AtStep
  <2>3. ApprovedEdit(pos) \in Edits \cup {NoEdit}
    BY <2>2 DEF ApprovedEdit, EngineTypeOK, Decisions, NoDecision
  <2>4. ran' \subseteq Calls
    <3>1. cites \in SUBSET Positions /\ ran \subseteq Calls
      BY DEF WorkerTypeOK
    <3>2. [pos |-> pos, edit |-> ApprovedEdit(pos), cites |-> cites] \in Calls
      BY <2>2, <2>3, <3>1 DEF Calls
    <3> QED BY <1>11, <3>1, <3>2 DEF CallSpecialist
  <2>5. pc' = "called" /\ UNCHANGED <<pos, handoff, cites, emitted>>
    BY <1>11 DEF CallSpecialist, GoTo
  <2> QED BY <2>1, <2>2, <2>4, <2>5, PartsKept DEF WorkerTypeOK, WorkerPcs, InPlan
<1>12. CASE \E usage \in Usages \cup {NoUsage} : CheckpointResult(usage)
  <2>1. PICK usage \in Usages \cup {NoUsage} : CheckpointResult(usage)
    BY <1>12
  <2>2. Checkpoint(pos, usage) /\ pos \in Positions /\ UNCHANGED storeVars
    BY <1>2, <2>1 DEF CheckpointResult, AtStep
  <2>3. UNCHANGED eventVars
    BY <2>2 DEF Checkpoint
  <2>4. WorkerTypeOK' /\ InPlan'
    BY <1>3, <2>1 DEF CheckpointResult
  <2> QED BY <2>2, <2>3, <2>4, PartsKept, EngineShape
<1>13. CASE StepThrows
  <2>1. FailStep(pos) /\ pos \in Positions /\ UNCHANGED storeVars
    BY <1>2, <1>13 DEF StepThrows, AtStep
  <2>2. UNCHANGED eventVars
    BY <2>1 DEF FailStep
  <2>3. WorkerTypeOK' /\ InPlan'
    BY <1>3, <1>13 DEF StepThrows
  <2> QED BY <2>1, <2>2, <2>3, PartsKept, EngineShape
<1>14. CASE RecordUsage
  <2>1. pos \in Positions /\ Step(pos) \in StepIds
    BY <1>1, <1>2, <1>14 DEF RecordUsage, AtStep
  <2>2. StoreTypeOK'
    <3>1. memoUsage[pos] \in Usages \cup {NoUsage}
      BY <2>1 DEF EngineTypeOK
    <3>2. memoUsage[pos] # NoUsage => memoUsage[pos] \in Nat
      BY <3>1, EngineAssumption
    <3>3. IF memoUsage[pos] # NoUsage
            THEN RecordStepUsage(Step(pos), memoUsage[pos])
            ELSE UNCHANGED storeVars
      BY <1>14 DEF RecordUsage
    <3> QED BY <2>1, <3>2, <3>3, StoreShape, PartsKept
  <2>3. UNCHANGED runVars /\ UNCHANGED eventVars
    BY <1>14 DEF RecordUsage
  <2>4. WorkerTypeOK' /\ InPlan'
    BY <1>14, <2>1 DEF RecordUsage, GoTo, WorkerTypeOK, WorkerPcs, InPlan
  <2> QED BY <2>2, <2>3, <2>4, PartsKept
<1>15. CASE CompleteStep \/ CompletePlan
  <2>1. UNCHANGED storeVars /\ UNCHANGED runVars /\ UNCHANGED eventVars
    BY <1>15 DEF CompleteStep, CompletePlan
  <2>2. emitted' \subseteq Events
    BY <1>2, <1>15 DEF CompleteStep, CompletePlan, Emit, WorkerTypeOK, Events,
                       EventTypes, AtStep
  <2>3. pos' \in 1..(Len(Plan) + 1)
    BY <1>1, <1>2, <1>15 DEF CompleteStep, CompletePlan, AtStep, Positions
  <2>4. pc' \in {"top", "return"} /\ UNCHANGED <<handoff, cites, ran>>
    BY <1>15 DEF CompleteStep, CompletePlan, GoTo
  <2> QED BY <2>1, <2>2, <2>3, <2>4, PartsKept
          DEF WorkerTypeOK, WorkerPcs, InPlan, AtStep
<1>16. CASE ReturnResults
  <2>1. SetRun("completed") /\ UNCHANGED storeVars /\ UNCHANGED eventVars
    BY <1>16 DEF ReturnResults, SetRun
  <2>2. WorkerTypeOK' /\ InPlan'
    BY <1>3, <1>16 DEF ReturnResults
  <2> QED BY <2>1, <2>2, PartsKept, EngineShape DEF RunStates
<1>17. CASE RethrowError
  <2>1. SetRun("failed") \/ FailBody
    BY <1>17 DEF RethrowError
  <2>2. UNCHANGED storeVars /\ UNCHANGED eventVars
    BY <1>17 DEF RethrowError, SetRun, FailBody
  <2>3. WorkerTypeOK' /\ InPlan'
    BY <1>2, <1>3, <1>17 DEF RethrowError, AtStep
  <2> QED BY <2>1, <2>2, <2>3, PartsKept, EngineShape DEF RunStates
<1>18. CASE WorkerCrash \/ DatabaseFails
  <2>1. UNCHANGED storeVars /\ UNCHANGED eventVars
    BY <1>18 DEF WorkerCrash, DatabaseFails, FailBody
  <2>2. CASE FailBody /\ EndInvocation
    <3>1. UNCHANGED <<ran, emitted>>
      BY <1>18 DEF WorkerCrash, DatabaseFails
    <3> QED BY <1>3, <2>1, <2>2, <3>1, PartsKept, EngineShape
  <2>3. CASE ~(FailBody /\ EndInvocation)
    <3>1. /\ pc \in AtStep /\ UNCHANGED runVars
          /\ GoTo("catch") /\ UNCHANGED <<pos, handoff, cites, ran, emitted>>
      BY <1>18, <2>3 DEF WorkerCrash, DatabaseFails, AtStep
    <3> QED BY <1>4, <2>1, <3>1, PartsKept DEF WorkerPcs
  <2> QED BY <2>2, <2>3
<1> QED BY <1>5, <1>6, <1>7, <1>8, <1>9, <1>10, <1>11, <1>12, <1>13, <1>14, <1>15,
           <1>16, <1>17, <1>18
        DEF WorkerNext, WorkerStep

-----------------------------------------------------------------------------
\* No step of the worker reopens a consumed row.
LEMMA WorkerKeepsConsumed ==
  ASSUME WorkShape, WorkerNext, NEW s \in StepIds, approvalState[s] = "consumed"
  PROVE  approvalState'[s] = "consumed"
<1> USE DEF WorkShape
<1>1. CASE RegisterStep
  BY <1>1 DEF RegisterStep, RegisterPending, StoreTypeOK
<1>2. CASE RecordUsage
  <2>1. UNCHANGED storeVars \/ RecordStepUsage(Step(pos), memoUsage[pos])
    BY <1>2 DEF RecordUsage
  <2> QED BY <2>1 DEF RecordStepUsage, StoreTypeOK, storeVars
<1>3. CASE ~RegisterStep /\ ~RecordUsage
  BY <1>3
     DEF WorkerNext, WorkerStep, BeginInvocation, InsertJobRow, InsertJob, StartStep,
         DenyMisconfigured, AskForApproval, ParkRun, PassGate, ReplayStep,
         CallSpecialist, CheckpointResult, StepThrows, VerifyDocument, CompleteStep,
         CompletePlan, ReturnResults, RethrowError, DatabaseFails, WorkerCrash,
         storeVars
<1> QED BY <1>1, <1>2, <1>3

-----------------------------------------------------------------------------
(* Progress: what has been published about the plan has been done. *)

Published(i) == [type |-> "completion", pos |-> i] \in emitted

\* A completion follows the checkpoint of its step and all earlier completions.
InOrder ==
  \A i \in Positions : Published(i) => memo[i] = "done" /\ \A j \in 1..i : Published(j)

\* An invocation has published all it has walked past; at the step it is at, it
\* has the checkpoint it needs, or knows that there is none.
Walked ==
  /\ \A j \in 1..(pos - 1) : Published(j)
  /\ pc \in {"verify", "record", "emit"} => memo[pos] = "done"
  /\ pc = "called" => memo[pos] = "none"

\* The only events without a step are the completion of the plan, and a run
\* that completed has published it.
PlanThrough ==
  /\ Published(JobLevel) => \A i \in Positions : Published(i)
  /\ pc = "return" => Published(JobLevel)
  /\ runState = "completed" => Published(JobLevel)
  /\ \A e \in emitted : e.pos = JobLevel => e.type = "completion"

Progress == InOrder /\ Walked /\ PlanThrough

\* An invocation that ends, having published at most an error, and whatever
\* happens meanwhile outside the worker, leave the progress as it is.
LEMMA ProgressKept ==
  ASSUME WorkShape, Progress,
         \A i \in Positions : memo[i] = "done" => memo'[i] = "done",
         \/ UNCHANGED emitted
         \/ \E type \in {"step-start", "error"}, i \in Positions : Emit(type, i),
         \/ pos' = 1 /\ pc' \in {"idle", "insert"}
         \/ /\ pos' = pos
            /\ pc' \in {"verify", "record", "emit", "called"} => pc' = pc /\ memo' = memo
            /\ pc' = "return" => pc = "return",
         runState' = "completed" => runState = "completed" \/ pc = "return"
  PROVE  Progress'
<1> USE DEF WorkShape, Progress
<1>1. Len(Plan) \in Nat \ {0} /\ Positions = 1..Len(Plan) /\ JobLevel \notin Positions
  BY PlanShape DEF Positions, JobLevel
<1>2. /\ \A i : Published(i) <=> Published(i)'
      /\ \A e \in emitted' : e.pos = JobLevel => e.type = "completion"
  BY <1>1 DEF Published, Emit, PlanThrough
<1>3. InOrder'
  BY <1>2 DEF InOrder
<1>4. Walked'
  BY <1>1, <1>2 DEF Walked, WorkerTypeOK
<1>5. PlanThrough'
  BY <1>2 DEF PlanThrough
<1> QED BY <1>3, <1>4, <1>5

\* A step of the worker keeps what it has published true.
LEMMA ProgressStep ==
  ASSUME WorkShape, Progress, WorkerNext
  PROVE  /\ Progress'
         /\ \A i \in Positions : memo[i] = "done" => memo'[i] = "done"
<1> USE DEF WorkShape, Progress
<1>1. Len(Plan) \in Nat \ {0} /\ Positions = 1..Len(Plan) /\ JobLevel \notin Positions
  BY PlanShape DEF Positions, JobLevel
<1>2. pos \in 1..(Len(Plan) + 1) /\ (pc \in AtStep => pos \in Positions)
  BY DEF WorkerTypeOK, InPlan
<1>3. CASE \/ InsertJobRow \/ DenyMisconfigured \/ RegisterStep \/ AskForApproval
           \/ PassGate \/ (DatabaseFails /\ pc' = "catch")
  <2>1. /\ UNCHANGED runVars /\ UNCHANGED <<pos, emitted>>
        /\ pc' \in {"top", "catch", "gate", "park", "step"}
    BY <1>3 DEF InsertJobRow, DenyMisconfigured, RegisterStep, AskForApproval, PassGate,
                DatabaseFails, EndInvocation, GoTo
  <2> QED BY <2>1, ProgressKept DEF runVars
<1>4. CASE \/ BeginInvocation \/ ParkRun \/ ReturnResults \/ WorkerCrash
           \/ (DatabaseFails /\ pc' # "catch") \/ RethrowError
  <2>1. UNCHANGED memo /\ pos' = 1 /\ pc' \in {"idle", "insert"}
    BY <1>4 DEF BeginInvocation, ParkRun, ReturnResults, WorkerCrash, DatabaseFails,
                RethrowError, EndInvocation, FreshLocals, GoTo, SetRun, OpenWait, FailBody
  <2>2. UNCHANGED emitted \/ \E i \in Positions : Emit("error", i)
    BY <1>2, <1>4 DEF BeginInvocation, ParkRun, ReturnResults, WorkerCrash,
                      DatabaseFails, RethrowError, AtStep
  <2>3. runState' = "completed" => pc = "return"
    BY <1>4 DEF BeginInvocation, ParkRun, ReturnResults, WorkerCrash, DatabaseFails,
                RethrowError, SetRun, OpenWait, FailBody, GoTo
  <2> QED BY <2>1, <2>2, <2>3, ProgressKept
<1>5. CASE ReplayStep \/ CallSpecialist \/ VerifyDocument \/ RecordUsage
  <2>1. /\ UNCHANGED runVars /\ UNCHANGED <<pos, emitted>>
        /\ pc' \in {"verify", "record", "emit"} => memo[pos] = "done"
        /\ pc' = "called" => memo[pos] = "none"
        /\ pc' # "return"
    BY <1>5 DEF ReplayStep, CallSpecialist, VerifyDocument, RecordUsage, GoTo, Walked
  <2>2. InOrder' /\ Walked' /\ PlanThrough'
    BY <2>1 DEF InOrder, Walked, PlanThrough, Published, runVars
  <2> QED BY <2>1, <2>2 DEF runVars
<1>6. CASE \E usage \in Usages \cup {NoUsage} : CheckpointResult(usage)
  <2>1. PICK usage \in Usages \cup {NoUsage} : CheckpointResult(usage)
    BY <1>6
  <2>2. \A i \in Positions : memo[i] = "done" => memo'[i] = "done"
    BY <2>1 DEF CheckpointResult, Checkpoint, EngineTypeOK
  <2>3. UNCHANGED emitted /\ pos' = 1 /\ pc' = "idle" /\ runState' = "queued"
    BY <2>1 DEF CheckpointResult, Checkpoint, EndInvocation, FreshLocals, GoTo
  <2> QED BY <2>2, <2>3, ProgressKept
<1>7. CASE StepThrows
  <2>1. memo[pos] = "none"
    BY <1>7 DEF StepThrows, Walked
  <2>2. \A i \in Positions : memo[i] = "done" => memo'[i] = "done"
    BY <1>7, <2>1 DEF StepThrows, FailStep, EngineTypeOK
  <2>3. UNCHANGED emitted /\ pos' = 1 /\ pc' = "idle" /\ runState' = "queued"
    BY <1>7 DEF StepThrows, FailStep, EndInvocation, FreshLocals, GoTo
  <2> QED BY <2>2, <2>3, ProgressKept
<1>8. CASE StartStep
  <2>1. /\ UNCHANGED runVars /\ pos \in Positions /\ pos' = pos
        /\ Emit("step-start", pos) /\ pc' \in {"register", "step"}
    BY <1>8 DEF StartStep, GoTo
  <2> QED BY <2>1, ProgressKept DEF runVars
<1>9. CASE CompleteStep
  <2>1. /\ UNCHANGED runVars /\ Emit("completion", pos) /\ pos' = pos + 1 /\ pc' = "top"
        /\ pos \in Positions /\ memo[pos] = "done"
    BY <1>2, <1>9 DEF CompleteStep, GoTo, AtStep, Walked
  <2>2. \A i : Published(i)' <=> Published(i) \/ i = pos
    BY <2>1 DEF Published, Emit
  <2>3. InOrder'
    <3> SUFFICES ASSUME NEW i \in Positions, Published(i)', NEW j \in 1..i
                 PROVE  memo'[i] = "done" /\ Published(j)'
      BY <1>1 DEF InOrder
    <3>1. CASE i = pos
      <4>1. j = pos \/ j \in 1..(pos - 1)
        BY <1>1, <2>1, <3>1
      <4> QED BY <2>1, <2>2, <3>1, <4>1 DEF Walked, runVars
    <3>2. CASE i # pos
      BY <2>1, <2>2, <3>2 DEF InOrder, runVars
    <3> QED BY <3>1, <3>2
  <2>4. Walked'
    <3>1. \A j \in 1..(pos' - 1) : j = pos \/ j \in 1..(pos - 1)
      BY <1>1, <2>1
    <3> QED BY <2>1, <2>2, <3>1 DEF Walked
  <2>5. \A e \in emitted' : e.pos = JobLevel => e.type = "completion"
    BY <2>1 DEF Emit, PlanThrough
  <2>6. PlanThrough'
    BY <1>1, <2>1, <2>2, <2>5 DEF PlanThrough, runVars
  <2> QED BY <2>1, <2>3, <2>4, <2>6 DEF runVars
<1>10. CASE CompletePlan
  <2>1. /\ UNCHANGED runVars /\ Emit("completion", JobLevel) /\ pos' = pos
        /\ pc' = "return" /\ pos = Len(Plan) + 1
    BY <1>1, <1>2, <1>10 DEF CompletePlan, GoTo
  <2>2. \A i : Published(i)' <=> Published(i) \/ i = JobLevel
    BY <2>1 DEF Published, Emit
  <2>3. \A i \in Positions : Published(i)
    BY <1>1, <2>1 DEF Walked
  <2>4. \A e \in emitted' : e.pos = JobLevel => e.type = "completion"
    BY <2>1 DEF Emit, PlanThrough
  <2>5. InOrder'
    BY <1>1, <2>1, <2>2 DEF InOrder, runVars
  <2>6. Walked' /\ PlanThrough'
    BY <2>1, <2>2, <2>3, <2>4 DEF Walked, PlanThrough
  <2> QED BY <2>1, <2>5, <2>6 DEF runVars
<1> QED BY <1>3, <1>4, <1>5, <1>6, <1>7, <1>8, <1>9, <1>10
        DEF WorkerNext, WorkerStep

-----------------------------------------------------------------------------
(* Gates: nobody gets past a gate that is not answered, and an answer is   *)
(* for good.                                                               *)

\* Every gate before position i has its answer.
PassedTo(i) == \A j \in 1..(i - 1) : Gated(j) => wait[j] = "answered"

GateWalk ==
  /\ PassedTo(pos)
  /\ pc \in {"register", "gate", "park"} => Gated(pos)
  /\ pc = "park" => wait[pos] = "none"
  /\ pc \in {"step", "called", "verify", "record", "emit"} /\ Gated(pos) =>
       wait[pos] = "answered"

\* The specialists were called with the edits the answers carry.
EditsOfAnswers ==
  \A c \in ran :
    /\ Gated(c.pos) => wait[c.pos] = "answered"
    /\ c.edit = ApprovedEdit(c.pos)

\* A row waits for a decision only at a gate that all earlier ones led to.
PendingAtGate ==
  \A s \in StepIds :
    approvalState[s] = "pending" =>
      \E i \in Positions : Step(i) = s /\ Gated(i) /\ PassedTo(i)

Gates == GateWalk /\ EditsOfAnswers /\ PendingAtGate

AnswersForGood ==
  \A i \in Positions : wait[i] = "answered" => wait'[i] = "answered" /\ answer'[i] = answer[i]

\* What was passed, called and registered behind answered gates still is.
LEMMA AnswersCarry ==
  ASSUME WorkShape, AnswersForGood
  PROVE  /\ \A i \in 1..(Len(Plan) + 1) : PassedTo(i) => PassedTo(i)'
         /\ EditsOfAnswers /\ UNCHANGED ran => EditsOfAnswers'
         /\ (/\ PendingAtGate
             /\ \A s \in StepIds : approvalState'[s] = "pending" => approvalState[s] = "pending")
            => PendingAtGate'
<1> USE DEF WorkShape
<1>1. Len(Plan) \in Nat \ {0} /\ Positions = 1..Len(Plan)
  BY PlanShape DEF Positions
<1>2. ASSUME NEW i \in 1..(Len(Plan) + 1), PassedTo(i)  PROVE PassedTo(i)'
  BY <1>1, <1>2 DEF PassedTo, AnswersForGood, Gated
<1>3. ASSUME EditsOfAnswers, UNCHANGED ran  PROVE EditsOfAnswers'
  <2>1. \A c \in ran : c.pos \in Positions
    BY DEF WorkerTypeOK, Calls
  <2> QED BY <1>3, <2>1 DEF EditsOfAnswers, AnswersForGood, ApprovedEdit, Gated
<1>4. ASSUME PendingAtGate,
             \A s \in StepIds : approvalState'[s] = "pending" => approvalState[s] = "pending"
      PROVE  PendingAtGate'
  <2>1. \A i \in Positions : i \in 1..(Len(Plan) + 1)
    BY <1>1
  <2> QED BY <1>2, <1>4, <2>1 DEF PendingAtGate, Gated
<1> QED BY <1>2, <1>3, <1>4

\* The worker opens a wait only where there was none.
LEMMA WorkerKeepsAnswers ==
  ASSUME WorkShape, GateWalk, WorkerNext
  PROVE  AnswersForGood
<1>1. \/ UNCHANGED <<wait, answer>>
      \/ ParkRun /\ wait[pos] = "none" /\ UNCHANGED answer
  BY DEF WorkerNext, WorkerStep, BeginInvocation, SetRun, InsertJobRow, StartStep,
         DenyMisconfigured, RegisterStep, AskForApproval, ParkRun, OpenWait, PassGate,
         ReplayStep, CallSpecialist, CheckpointResult, Checkpoint, StepThrows, FailStep,
         VerifyDocument, RecordUsage, CompleteStep, CompletePlan, ReturnResults,
         RethrowError, DatabaseFails, WorkerCrash, FailBody, runVars, GateWalk
<1>2. CASE ParkRun
  BY <1>1, <1>2 DEF AnswersForGood, ParkRun, OpenWait, WorkShape, EngineTypeOK
<1> QED BY <1>1, <1>2 DEF AnswersForGood

\* A step of the worker does not get past a gate without its answer.
LEMMA GatesStep ==
  ASSUME WorkShape, Gates, WorkerNext
  PROVE  Gates'
<1> USE DEF WorkShape, Gates
<1>1. Len(Plan) \in Nat \ {0} /\ Positions = 1..Len(Plan)
  BY PlanShape DEF Positions
<1>2. pos \in 1..(Len(Plan) + 1) /\ (pc \in AtStep => pos \in Positions)
  BY DEF WorkerTypeOK, InPlan
<1>3. AnswersForGood
  BY WorkerKeepsAnswers
<1>4. GateWalk'
  <2>1. CASE \/ InsertJobRow \/ StartStep \/ DenyMisconfigured \/ RegisterStep
             \/ AskForApproval \/ PassGate \/ ReplayStep \/ CallSpecialist
             \/ VerifyDocument \/ RecordUsage \/ CompletePlan
             \/ (DatabaseFails /\ pc' = "catch")
    <3>1. /\ UNCHANGED runVars /\ pos' = pos
          /\ pc' \in {"register", "gate", "park"} => Gated(pos)
          /\ pc' = "park" => wait[pos] = "none"
          /\ pc' \in {"step", "called", "verify", "record", "emit"} /\ Gated(pos) =>
               wait[pos] = "answered"
      BY <2>1 DEF InsertJobRow, StartStep, DenyMisconfigured, RegisterStep, AskForApproval,
                  PassGate, ReplayStep, CallSpecialist, VerifyDocument, RecordUsage,
                  CompletePlan, DatabaseFails, EndInvocation, GoTo, GateWalk
    <3> QED BY <3>1 DEF GateWalk, PassedTo, Gated, runVars
  <2>2. CASE \/ BeginInvocation \/ ParkRun \/ ReturnResults \/ WorkerCrash
             \/ (\E usage \in Usages \cup {NoUsage} : CheckpointResult(usage))
             \/ StepThrows \/ RethrowError
             \/ (DatabaseFails /\ pc' # "catch")
    <3>1. pos' = 1 /\ pc' \in {"idle", "insert"}
      BY <2>2 DEF BeginInvocation, ParkRun, ReturnResults, WorkerCrash, CheckpointResult,
                  StepThrows, DatabaseFails, RethrowError, EndInvocation, FreshLocals, GoTo
    <3> QED BY <3>1 DEF GateWalk, PassedTo
  <2>3. CASE CompleteStep
    <3>1. UNCHANGED runVars /\ pos' = pos + 1 /\ pc' = "top" /\ pos \in Positions
          /\ (Gated(pos) => wait[pos] = "answered")
      BY <1>2, <2>3 DEF CompleteStep, GoTo, AtStep, GateWalk
    <3>2. \A j \in 1..(pos' - 1) : j = pos \/ j \in 1..(pos - 1)
      BY <1>1, <3>1
    <3> QED BY <3>1, <3>2 DEF GateWalk, PassedTo, Gated, runVars
  <2> QED BY <2>1, <2>2, <2>3 DEF WorkerNext, WorkerStep
<1>5. EditsOfAnswers'
  <2>1. CASE CallSpecialist
    <3>1. PICK new : /\ new = [pos |-> pos, edit |-> ApprovedEdit(pos), cites |-> cites]
                     /\ ran' = ran \cup {new}
      BY <2>1 DEF CallSpecialist
    <3>2. UNCHANGED runVars /\ (Gated(pos) => wait[pos] = "answered")
      BY <2>1 DEF CallSpecialist, GateWalk
    <3> QED BY <3>1, <3>2 DEF EditsOfAnswers, ApprovedEdit, Gated, runVars
  <2>2. CASE ~CallSpecialist
    <3>1. UNCHANGED ran
      BY <2>2 DEF WorkerNext, WorkerStep, BeginInvocation, InsertJobRow, StartStep,
                  DenyMisconfigured, RegisterStep, AskForApproval, ParkRun, PassGate,
                  ReplayStep, CheckpointResult, StepThrows, VerifyDocument, RecordUsage,
                  CompleteStep, CompletePlan, ReturnResults, RethrowError, DatabaseFails,
                  WorkerCrash
    <3> QED BY <1>3, <3>1, AnswersCarry
  <2> QED BY <2>1, <2>2
<1>6. PendingAtGate'
  <2>1. CASE RegisterStep
    <3>1. /\ UNCHANGED runVars /\ pos \in Positions /\ RegisterPending(Step(pos))
          /\ PassedTo(pos) /\ Gated(pos)
      BY <1>2, <2>1 DEF RegisterStep, AtStep, GateWalk
    <3> QED BY <3>1 DEF PendingAtGate, RegisterPending, StoreTypeOK, PassedTo, Gated, runVars
  <2>2. CASE ~RegisterStep
    <3>1. \A s \in StepIds : approvalState'[s] = "pending" => approvalState[s] = "pending"
      <4>1. CASE RecordUsage
        <5>1. UNCHANGED storeVars \/ RecordStepUsage(Step(pos), memoUsage[pos])
          BY <4>1 DEF RecordUsage
        <5> QED BY <5>1 DEF RecordStepUsage, StoreTypeOK, storeVars
      <4>2. CASE ~RecordUsage
        BY <2>2, <4>2
           DEF WorkerNext, WorkerStep, BeginInvocation, InsertJobRow, InsertJob, StartStep,
               DenyMisconfigured, AskForApproval, ParkRun, PassGate, ReplayStep,
               CallSpecialist, CheckpointResult, StepThrows, VerifyDocument, CompleteStep,
               CompletePlan, ReturnResults, RethrowError, DatabaseFails, WorkerCrash,
               storeVars
      <4> QED BY <4>1, <4>2
    <3> QED BY <1>3, <3>1, AnswersCarry
  <2> QED BY <2>1, <2>2
<1> QED BY <1>4, <1>5, <1>6

-----------------------------------------------------------------------------
(* The handoff: what waits for a document, and what a document is given,   *)
(* are functions of the plan.                                              *)

TakesCitations(i) == Kind(i) = "document-generation" /\ ~Plan[i].own

\* The research steps before i with no document in between that takes them.
Queue(i) ==
  {j \in 1..(i - 1) :
     /\ Kind(j) = "rag-research"
     /\ \A m \in (j + 1)..(i - 1) : ~TakesCitations(m)}

Given(i) == IF TakesCitations(i) THEN Queue(i) ELSE {}
Left(i) == IF TakesCitations(i) THEN {} ELSE Queue(i)

Handing ==
  /\ pc \in {"idle", "insert", "top"} => handoff = Queue(pos)
  /\ pc \in {"register", "gate", "park", "step", "called", "verify", "record"} =>
       cites = Given(pos) /\ handoff = Left(pos)
  /\ pc = "emit" => handoff = Queue(pos + 1)
  /\ \A c \in ran : c.cites = Given(c.pos)

\* Nothing waits for the first step, and a step leaves the next one what it
\* did not take, with its own citations.
LEMMA QueueGrows ==
  /\ Queue(1) = {}
  /\ \A i \in Positions :
       Queue(i + 1) = IF Kind(i) = "rag-research" THEN Left(i) \cup {i} ELSE Left(i)
<1>1. Queue(1) = {}
  BY DEF Queue
<1>2. ASSUME NEW i \in Positions
      PROVE  Queue(i + 1) = IF Kind(i) = "rag-research" THEN Left(i) \cup {i} ELSE Left(i)
  <2>1. i \in Nat /\ i >= 1
    BY PlanShape DEF Positions
  <2>2. TakesCitations(i) => Kind(i) # "rag-research"
    BY DEF TakesCitations
  <2>3. /\ 1..(i + 1 - 1) = (1..(i - 1)) \cup {i}
        /\ \A j \in 1..(i - 1) : (j + 1)..(i + 1 - 1) = ((j + 1)..(i - 1)) \cup {i}
        /\ (i + 1)..(i + 1 - 1) = {}
    BY <2>1
  <2>6. \A j : j \in Queue(i + 1) <=>
                \/ j = i /\ Kind(i) = "rag-research"
                \/ j \in Queue(i) /\ ~TakesCitations(i)
    <3>1. i \notin 1..(i - 1)
      BY <2>1
    <3>2. \A j : j \in Queue(i + 1) <=>
                  /\ j \in (1..(i - 1)) \cup {i}
                  /\ Kind(j) = "rag-research"
                  /\ \A m \in (j + 1)..(i + 1 - 1) : ~TakesCitations(m)
      BY <2>3 DEF Queue
    <3>3. i \in Queue(i + 1) <=> Kind(i) = "rag-research"
      BY <2>3, <3>2
    <3>4. ASSUME NEW j \in 1..(i - 1)
          PROVE  j \in Queue(i + 1) <=> j \in Queue(i) /\ ~TakesCitations(i)
      <4>1. (\A m \in (j + 1)..(i + 1 - 1) : ~TakesCitations(m)) <=>
              (\A m \in (j + 1)..(i - 1) : ~TakesCitations(m)) /\ ~TakesCitations(i)
        <5> HIDE DEF TakesCitations
        <5> QED BY <2>3, Zenon
      <4>2. j \in Queue(i) <=>
              Kind(j) = "rag-research" /\ \A m \in (j + 1)..(i - 1) : ~TakesCitations(m)
        BY DEF Queue
      <4>3. j \in (1..(i - 1)) \cup {i}
        OBVIOUS
      <4> QED BY <3>2, <4>1, <4>2, <4>3, Zenon
    <3>5. i \notin Queue(i) /\ \A j : j \in Queue(i) => j \in 1..(i - 1)
      BY <3>1 DEF Queue
    <3>6. \A j : j \in Queue(i + 1) => j = i \/ j \in 1..(i - 1)
      BY <3>2
    <3> QED BY <3>3, <3>4, <3>5, <3>6, Zenon
  <2>4. CASE Kind(i) = "rag-research"
    <3>1. Left(i) = Queue(i)
      BY <2>2, <2>4 DEF Left
    <3> QED BY <2>2, <2>6, <2>4, <3>1
  <2>5. CASE Kind(i) # "rag-research"
    BY <2>6, <2>5 DEF Left
  <2> QED BY <2>4, <2>5
<1> QED BY <1>1, <1>2

\* A step of the worker hands over what the plan says.
LEMMA HandingStep ==
  ASSUME WorkShape, Handing, WorkerNext
  PROVE  Handing'
<1> USE DEF WorkShape
<1>1. pos \in 1..(Len(Plan) + 1) /\ (pc \in AtStep => pos \in Positions)
  BY DEF WorkerTypeOK, InPlan
<1>2. CASE StartStep
  <2>1. /\ pos \in Positions /\ pos' = pos /\ ran' = ran /\ pc' \in {"register", "step"}
        /\ handoff = Queue(pos)
        /\ cites' = (IF ConsumesHandoff(pos) THEN handoff ELSE {})
        /\ handoff' = (IF ConsumesHandoff(pos) THEN {} ELSE handoff)
    BY <1>2 DEF StartStep, GoTo, Handing
  <2>2. cites' = Given(pos) /\ handoff' = Left(pos)
    BY <2>1 DEF ConsumesHandoff, TakesCitations, Given, Left
  <2> QED BY <2>1, <2>2 DEF Handing
<1>3. CASE RecordUsage
  <2>1. /\ pos \in Positions /\ pos' = pos /\ ran' = ran /\ pc' = "emit"
        /\ handoff = Left(pos)
        /\ handoff' = (IF Kind(pos) = "rag-research" THEN handoff \cup {pos} ELSE handoff)
    BY <1>1, <1>3 DEF RecordUsage, GoTo, AtStep, Handing
  <2>2. handoff' = Queue(pos + 1)
    BY <2>1, QueueGrows
  <2> QED BY <2>1, <2>2 DEF Handing
<1>4. CASE CompleteStep
  BY <1>4 DEF CompleteStep, GoTo, Handing
<1>5. CASE CallSpecialist
  <2>1. PICK new : /\ new = [pos |-> pos, edit |-> ApprovedEdit(pos), cites |-> cites]
                   /\ ran' = ran \cup {new}
    BY <1>5 DEF CallSpecialist
  <2>2. /\ cites = Given(pos) /\ handoff = Left(pos)
        /\ pc' = "called" /\ UNCHANGED <<pos, cites, handoff>>
    BY <1>5 DEF CallSpecialist, GoTo, Handing
  <2> QED BY <2>1, <2>2 DEF Handing
<1>6. CASE \/ InsertJobRow \/ DenyMisconfigured \/ RegisterStep \/ AskForApproval
           \/ PassGate \/ ReplayStep \/ VerifyDocument \/ CompletePlan
           \/ (DatabaseFails /\ pc' = "catch")
  BY <1>6 DEF InsertJobRow, DenyMisconfigured, RegisterStep, AskForApproval, PassGate,
              ReplayStep, VerifyDocument, CompletePlan, DatabaseFails, EndInvocation, GoTo,
              Handing
<1>7. CASE \/ BeginInvocation \/ ParkRun \/ ReturnResults \/ WorkerCrash
           \/ (\E usage \in Usages \cup {NoUsage} : CheckpointResult(usage))
           \/ StepThrows \/ RethrowError
           \/ (DatabaseFails /\ pc' # "catch")
  <2>1. pos' = 1 /\ handoff' = {} /\ pc' \in {"idle", "insert"} /\ ran' = ran
    BY <1>7 DEF BeginInvocation, ParkRun, ReturnResults, WorkerCrash, CheckpointResult,
                StepThrows, DatabaseFails, RethrowError, EndInvocation, FreshLocals, GoTo
  <2> QED BY <2>1, QueueGrows DEF Handing
<1> QED BY <1>2, <1>3, <1>4, <1>5, <1>6, <1>7 DEF WorkerNext, WorkerStep
=============================================================================
