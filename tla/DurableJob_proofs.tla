------------------------- MODULE DurableJob_proofs -------------------------
(***************************************************************************)
(* Theorems about DurableJob, for every plan, every set of steps, requests *)
(* and bodies, every budget and every number of retries.                   *)
(*                                                                         *)
(* Shape is the type invariant made inductive: where the worker and the    *)
(* requests are in their code, their position indices are in range.        *)
(* Custody is why an approval cannot be forged, lost to another request or *)
(* carried over: it follows a decision from the claim of its row through   *)
(* the event and the answer of the wait to the specialist call.  Working   *)
(* is the worker's own account, of what it published, which gates it has   *)
(* passed and what it handed over, carried past the steps of everybody     *)
(* else; ClaimsOne, that a claim is of one step.  Naming and the verdicts  *)
(* are the refinement of ApprovalContract, Counted the sum of the tokens.  *)
(***************************************************************************)
EXTENDS DurableJob, ApproveRoute_proofs, JobWorker_proofs, WellFoundedInduction

-----------------------------------------------------------------------------
(* The type invariant. *)

Shape == TypeOK /\ InPlan /\ Unsent

LEMMA ShapeInit == Init => Shape
<1> SUFFICES ASSUME Init  PROVE Shape
  OBVIOUS
<1> USE DEF Init
<1>1. StoreTypeOK
  BY DEF StoreInit, StoreTypeOK, ApprovalStates
<1>2. EventsTypeOK
  BY DEF EventsInit, EventsTypeOK
<1>3. EngineTypeOK
  BY EngineAssumption DEF EngineInit, EngineTypeOK, RunStates
<1>4. RouteTypeOK
  BY DEF RouteInit, RouteTypeOK, RoutePcs
<1>5. WorkerTypeOK /\ InPlan
  BY PlanShape DEF WorkerInit, WorkerTypeOK, WorkerPcs, InPlan, AtStep
<1>6. Unsent
  BY DEF RouteInit, Unsent
<1> QED BY <1>1, <1>2, <1>3, <1>4, <1>5, <1>6 DEF Shape, TypeOK

LEMMA ShapeStep == Shape /\ [Next]_vars => Shape'
<1> SUFFICES ASSUME Shape, [Next]_vars  PROVE Shape'
  OBVIOUS
<1> USE DEF Shape, TypeOK, WorkShape
<1>1. CASE Submit
  <2>1. /\ SubmitJob /\ UNCHANGED eventVars
        /\ UNCHANGED storeVars /\ UNCHANGED routeVars /\ UNCHANGED workerVars
    BY <1>1 DEF Submit, SubmitJob
  <2> QED BY <2>1, PartsKept, RoutePartsKept, EngineShape
<1>2. CASE Route
  <2>1. RouteNext /\ UNCHANGED runVars /\ UNCHANGED workerVars
    BY <1>2 DEF Route
  <2> QED BY <2>1, RouteShape, PartsKept, RoutePartsKept
<1>3. CASE Worker
  <2>1. WorkerNext /\ UNCHANGED routeVars
    BY <1>3 DEF Worker
  <2> QED BY <2>1, WorkerShape, PartsKept, RoutePartsKept
<1>4. CASE \E d \in signals : Process(d)
  <2>1. PICK d : ProcessSignal(d)
    BY <1>4 DEF Process
  <2>2. UNCHANGED storeVars /\ UNCHANGED routeVars /\ UNCHANGED workerVars
    BY <1>4 DEF Process
  <2> QED BY <2>1, <2>2, ProcessShape, PartsKept, RoutePartsKept
<1>5. CASE \E i \in Positions : Expire(i)
  <2>1. /\ \E i \in Positions : ExpireWait(i)
        /\ UNCHANGED storeVars /\ UNCHANGED routeVars /\ UNCHANGED workerVars
    BY <1>5 DEF Expire
  <2>2. UNCHANGED eventVars
    BY <2>1 DEF ExpireWait
  <2> QED BY <2>1, <2>2, PartsKept, RoutePartsKept, EngineShape
<1>6. CASE UNCHANGED vars
  <2>1. /\ UNCHANGED storeVars /\ UNCHANGED eventVars /\ UNCHANGED runVars
        /\ UNCHANGED routeVars /\ UNCHANGED workerVars
    BY <1>6 DEF vars
  <2> QED BY <2>1, PartsKept, RoutePartsKept
<1> QED BY <1>1, <1>2, <1>3, <1>4, <1>5, <1>6 DEF Next

\* Types, with an invocation that is within the plan and senders with decisions left.
THEOREM ShapeInvariant == Spec => []Shape
BY ShapeInit, ShapeStep, PTL DEF Spec

\* The variables of the database rows, the events, the run, the requests and
\* the invocation always have their types, whatever crashes, fails or races.
THEOREM TypeCorrect == Spec => []TypeOK
<1>1. Shape => TypeOK
  BY DEF Shape
<1> QED BY <1>1, ShapeInvariant, PTL

-----------------------------------------------------------------------------
(* The custody of a decision. *)

\* d was posted by the request that consumed the row of its step in budget.
Decided(d) ==
  \E r \in Requests :
    /\ claimedBy[d.step] = r
    /\ ~OverBudget(r)
    /\ \E k \in 1..Len(Chosen(r)) : Chosen(r)[k] = d

\* Who is about to send holds all its rows, in budget, and has not answered.
SendersHoldRows ==
  \A r \in Requests :
    reqPc[r] \in {"audit", "send"} =>
      /\ ~OverBudget(r)
      /\ status[r] = 0
      /\ \A s \in Targets(r) : claimedBy[s] = r

\* Who has not claimed has not answered.
Unanswered ==
  \A r \in Requests : reqPc[r] \in {"idle", "read", "claim"} => status[r] = 0

SignalsDecided == \A d \in signals : Decided(d)

AnswersDecided ==
  \A i \in Positions :
    wait[i] = "answered" => answer[i].step = Step(i) /\ Decided(answer[i])

PastGate ==
  pc = "step" /\ Gated(pos) => wait[pos] = "answered" /\ answer[pos].approve

Custody ==
  /\ RowsHeld
  /\ SendersHoldRows
  /\ Unanswered
  /\ SignalsDecided
  /\ AnswersDecided
  /\ PastGate
  /\ ApprovedBeforeRun
  /\ RefusedNeverResumes

\* The only step that changes who holds a row, or the row of a request that
\* has a body, is one of the request itself before it is past its claim.
LEMMA HoldersFrozen ==
  ASSUME Shape, RowsHeld, [Next]_vars, NEW s \in StepIds, claimedBy[s] # NoRequest
  PROVE  /\ claimedBy[s] \in Requests
         /\ claimedBy'[s] = claimedBy[s]
         /\ body'[claimedBy[s]] = body[claimedBy[s]]
         /\ spend'[claimedBy[s]] = spend[claimedBy[s]]
<1> USE DEF Shape, TypeOK
<1>1. claimedBy[s] \in Requests
  BY DEF RouteTypeOK
<1>2. CASE UNCHANGED routeVars
  BY <1>1, <1>2 DEF routeVars
<1>3. CASE RouteNext
  BY <1>3, HoldersKept
<1> QED BY <1>2, <1>3 DEF Next, Submit, Route, Worker, Process, Expire, vars, routeVars

\* So what was decided stays decided, and what was granted stays granted.
LEMMA DecidedForGood ==
  ASSUME Shape, RowsHeld, [Next]_vars
  PROVE  /\ \A d \in Decisions : Decided(d) => Decided(d)'
         /\ \A r \in Requests, s \in StepIds, e \in Edits \cup {NoEdit} :
              Granted(r, s, e) => Granted(r, s, e)'
<1>1. ASSUME NEW r \in Requests, NEW s \in StepIds, claimedBy[s] = r
      PROVE  claimedBy'[s] = r /\ Chosen(r)' = Chosen(r) /\ (OverBudget(r)' <=> OverBudget(r))
  BY <1>1, HoldersFrozen, RouteAssumption DEF Chosen, OverBudget
<1>2. ASSUME NEW d \in Decisions, Decided(d)  PROVE Decided(d)'
  <2>1. PICK r \in Requests :
          claimedBy[d.step] = r /\ ~OverBudget(r)
          /\ \E k \in 1..Len(Chosen(r)) : Chosen(r)[k] = d
    BY <1>2 DEF Decided
  <2>2. d.step \in StepIds
    BY DEF Decisions
  <2>3. claimedBy'[d.step] = r /\ Chosen(r)' = Chosen(r) /\ ~OverBudget(r)'
    BY <1>1, <2>1, <2>2
  <2> QED BY <2>1, <2>3 DEF Decided
<1>3. ASSUME NEW r \in Requests, NEW s \in StepIds, NEW e \in Edits \cup {NoEdit},
             Granted(r, s, e)
      PROVE  Granted(r, s, e)'
  BY <1>1, <1>3 DEF Granted
<1> QED BY <1>2, <1>3

\* No statement of the store reopens a consumed row.
LEMMA ConsumedForGood ==
  ASSUME Shape, [Next]_vars, NEW s \in StepIds, approvalState[s] = "consumed"
  PROVE  approvalState'[s] = "consumed"
<1>1. WorkShape
  BY DEF Shape, TypeOK, WorkShape
<1>2. CASE RouteNext
  BY <1>2, RouteKeepsConsumed
<1>3. CASE WorkerNext
  BY <1>1, <1>3, WorkerKeepsConsumed
<1>4. CASE UNCHANGED storeVars
  BY <1>4 DEF storeVars
<1> QED BY <1>2, <1>3, <1>4 DEF Next, Submit, Route, Worker, Process, Expire, vars

-----------------------------------------------------------------------------
\* A step of the route keeps the custody of what it posts, claims and sends.
LEMMA RouteCustody ==
  ASSUME Shape, Custody, [Next]_vars, Route
  PROVE  Custody'
<1> USE DEF Shape, TypeOK, Custody
<1>1. UNCHANGED runVars /\ UNCHANGED workerVars
  BY DEF Route
<1>2. AnswersDecided'
  <2>1. \A i \in Positions : wait[i] = "answered" =>
          answer[i] \in Decisions \cup {NoDecision} /\ Step(i) \in StepIds
    BY PlanShape DEF EngineTypeOK
  <2>2. \A i \in Positions : wait[i] = "answered" => answer[i] \in Decisions
    BY <2>1, WorkflowAssumption DEF AnswersDecided, NoDecision
  <2> QED BY <1>1, <2>2, DecidedForGood DEF AnswersDecided, runVars
<1>3. PastGate'
  BY <1>1 DEF PastGate, runVars, workerVars, Gated
<1>4. ApprovedBeforeRun'
  <2>1. \A c \in ran : Step(c.pos) \in StepIds /\ c.edit \in Edits \cup {NoEdit}
    BY PlanShape DEF WorkerTypeOK, Calls
  <2> QED BY <1>1, <2>1, DecidedForGood DEF ApprovedBeforeRun, workerVars, Gated
<1>5. \A d \in signals : Decided(d)'
  BY DecidedForGood DEF SignalsDecided, EventsTypeOK
<1>6. \A s \in StepIds : claimedBy[s] # NoRequest =>
        /\ claimedBy'[s] = claimedBy[s] /\ claimedBy[s] \in Requests
        /\ approvalState'[s] = "consumed"
        /\ (OverBudget(claimedBy[s])' <=> OverBudget(claimedBy[s]))
  BY HoldersFrozen, ConsumedForGood DEF RowsHeld, OverBudget
<1>7. PICK r \in Requests :
        \/ \E b \in Bodies : RefuseUnknownJob(r, b) \/ ReceiveApproval(r, b)
        \/ RouteStep(r) \/ ClaimFails(r) \/ SendFails(r) \/ WebCrash(r)
  BY DEF Route, RouteNext
<1>8. Targets(r) \subseteq StepIds /\ Unanswered'
  <2>1. Unanswered'
    BY <1>7 DEF RouteStep, RefuseUnknownJob, ReceiveApproval, ReadSpend, ClaimMismatch,
                ClaimCommit, ClaimFails, AuditDecisions, SendDecision, SendFails, WebCrash,
                Respond, RouteTypeOK, Unanswered
  <2> QED BY <2>1, TargetsAreSteps
\* Steps that neither claim nor send.
<1>9. ASSUME UNCHANGED eventVars, UNCHANGED claimedBy,
             \/ reqPc[r] \in {"idle", "read", "claim"} /\ reqPc'[r] \notin {"audit", "send"}
             \/ /\ reqPc[r] \in {"audit", "send"}
                /\ reqPc'[r] \in {"audit", "send", "done", "crashed"}
                /\ UNCHANGED status /\ UNCHANGED body /\ UNCHANGED spend,
             \A q \in Requests \ {r} :
               reqPc'[q] = reqPc[q] /\ status'[q] = status[q]
               /\ body'[q] = body[q] /\ spend'[q] = spend[q]
      PROVE  RowsHeld' /\ SendersHoldRows' /\ SignalsDecided' /\ RefusedNeverResumes'
  <2>1. RowsHeld'
    BY <1>6, <1>9 DEF RowsHeld
  <2>2. SendersHoldRows'
    BY <1>9 DEF SendersHoldRows, Targets, Chosen, OverBudget
  <2>3. SignalsDecided'
    BY <1>5, <1>9 DEF SignalsDecided, eventVars
  <2>4. RefusedNeverResumes'
    <3> SUFFICES ASSUME NEW s \in acceptedIds
                 PROVE  \E h \in Requests :
                          /\ claimedBy'[s] = h /\ status'[h] \notin {404, 409, 429}
                          /\ ~OverBudget(h)'
      BY <1>9 DEF RefusedNeverResumes, eventVars
    <3>1. PICK h \in Requests :
            claimedBy[s] = h /\ status[h] \notin {404, 409, 429} /\ ~OverBudget(h)
      BY DEF RefusedNeverResumes
    <3>2. s \in StepIds /\ claimedBy[s] # NoRequest
      BY <3>1, RouteAssumption DEF EventsTypeOK
    <3>3. status'[h] = status[h]
      BY <1>9, <3>1, <3>2 DEF RowsHeld
    <3> QED BY <1>6, <3>1, <3>2, <3>3
  <2> QED BY <2>1, <2>2, <2>3, <2>4
<1>10. CASE \E b \in Bodies : RefuseUnknownJob(r, b) \/ ReceiveApproval(r, b)
  <2>1. PICK b \in Bodies : RefuseUnknownJob(r, b) \/ ReceiveApproval(r, b)
    BY <1>10
  <2>2. /\ UNCHANGED eventVars /\ UNCHANGED claimedBy
        /\ reqPc[r] = "idle" /\ reqPc'[r] \in {"read", "done"}
        /\ \A q \in Requests \ {r} :
             reqPc'[q] = reqPc[q] /\ status'[q] = status[q]
             /\ body'[q] = body[q] /\ spend'[q] = spend[q]
    BY <2>1 DEF RefuseUnknownJob, ReceiveApproval, Respond, RouteTypeOK
  <2> QED BY <1>2, <1>3, <1>4, <1>8, <1>9, <2>2
<1>11. CASE ReadSpend(r) \/ ClaimMismatch(r)
  <2>1. /\ UNCHANGED eventVars /\ UNCHANGED claimedBy
        /\ reqPc[r] \in {"read", "claim"} /\ reqPc'[r] \in {"claim", "done"}
        /\ \A q \in Requests \ {r} :
             reqPc'[q] = reqPc[q] /\ status'[q] = status[q]
             /\ body'[q] = body[q] /\ spend'[q] = spend[q]
    BY <1>11 DEF ReadSpend, ClaimMismatch, Respond, RouteTypeOK
  <2> QED BY <1>2, <1>3, <1>4, <1>8, <1>9, <2>1
<1>12. CASE AuditDecisions(r) \/ WebCrash(r)
  <2>1. /\ UNCHANGED <<eventVars, claimedBy, body, spend, status>>
        /\ \/ reqPc[r] = "audit" /\ reqPc'[r] = "send"
           \/ reqPc[r] \in {"read", "claim", "audit", "send"} /\ reqPc'[r] = "crashed"
        /\ \A q \in Requests \ {r} : reqPc'[q] = reqPc[q]
    BY <1>12 DEF AuditDecisions, WebCrash, RouteTypeOK
  <2> QED BY <1>2, <1>3, <1>4, <1>8, <1>9, <2>1
\* Steps that may take the rows.
<1>13. CASE ClaimCommit(r) \/ ClaimFails(r)
  <2>1. /\ UNCHANGED eventVars /\ UNCHANGED <<body, spend>>
        /\ reqPc[r] \in {"read", "claim"}
        /\ \/ reqPc'[r] = "done"
           \/ /\ reqPc'[r] = "audit" /\ status' = status
              /\ ~OverBudget(r) /\ ConsumeTargets(r)
        /\ UNCHANGED claimedBy \/ (AllPending(r) /\ ConsumeTargets(r))
        /\ \A q \in Requests \ {r} : reqPc'[q] = reqPc[q] /\ status'[q] = status[q]
    BY <1>13 DEF ClaimCommit, ClaimFails, Respond, RouteTypeOK
  <2>2. RowsHeld'
    BY <1>6, <1>8, <2>1 DEF RowsHeld, ConsumeTargets, ConsumePending, RouteTypeOK
  <2>3. SendersHoldRows'
    <3> SUFFICES ASSUME NEW q \in Requests, reqPc'[q] \in {"audit", "send"}
                 PROVE  /\ ~OverBudget(q)' /\ status'[q] = 0
                        /\ \A s \in Targets(q)' : claimedBy'[s] = q
      BY DEF SendersHoldRows
    <3>1. Targets(q)' = Targets(q) /\ (OverBudget(q)' <=> OverBudget(q))
      BY <2>1 DEF Targets, Chosen, OverBudget
    <3>2. CASE q = r
      <4>1. status[r] = 0
        BY <2>1 DEF Unanswered
      <4> QED BY <1>8, <2>1, <3>1, <3>2, <4>1 DEF ConsumeTargets
    <3>3. CASE q # r
      <4>1. Targets(q) \subseteq StepIds
        BY TargetsAreSteps
      <4> QED BY <1>6, <2>1, <3>1, <3>3, <4>1, RouteAssumption DEF SendersHoldRows
    <3> QED BY <3>2, <3>3
  <2>4. SignalsDecided'
    BY <1>5, <2>1 DEF SignalsDecided, eventVars
  <2>5. RefusedNeverResumes'
    <3> SUFFICES ASSUME NEW s \in acceptedIds
                 PROVE  \E h \in Requests :
                          /\ claimedBy'[s] = h /\ status'[h] \notin {404, 409, 429}
                          /\ ~OverBudget(h)'
      BY <2>1 DEF RefusedNeverResumes, eventVars
    <3>1. PICK h \in Requests :
            claimedBy[s] = h /\ status[h] \notin {404, 409, 429} /\ ~OverBudget(h)
      BY DEF RefusedNeverResumes
    <3>2. s \in StepIds /\ claimedBy[s] # NoRequest
      BY <3>1, RouteAssumption DEF EventsTypeOK
    <3>3. status'[h] = status[h]
      BY <2>1, <3>1, <3>2 DEF RowsHeld
    <3> QED BY <1>6, <3>1, <3>2, <3>3
  <2> QED BY <1>2, <1>3, <1>4, <1>8, <2>2, <2>3, <2>4, <2>5
\* Steps that may send a decision.
<1>14. CASE SendDecision(r) \/ SendFails(r)
  <2>0. PICK d : d = Chosen(r)[sentUpTo[r] + 1]
    OBVIOUS
  <2>1. /\ reqPc[r] = "send" /\ reqPc'[r] \in {"send", "done"}
        /\ reqPc'[r] = "send" => status'[r] = status[r]
        /\ status'[r] \in {status[r], 202, 500}
        /\ \A q \in Requests \ {r} : reqPc'[q] = reqPc[q] /\ status'[q] = status[q]
        /\ UNCHANGED <<body, spend, claimedBy>>
        /\ SubmitApproval(d) \/ UNCHANGED eventVars
    BY <1>14, <2>0 DEF SendDecision, SendFails, Respond, RouteTypeOK
  <2>2. /\ ~OverBudget(r) /\ status[r] = 0
        /\ \A s \in Targets(r) : claimedBy[s] = r
    BY <2>1 DEF SendersHoldRows
  <2>3. sentUpTo[r] + 1 \in 1..Len(Chosen(r))
    BY <2>1, TargetsAreSteps DEF RouteTypeOK, Unsent
  <2>4. d.step \in Targets(r) /\ claimedBy[d.step] = r /\ Decided(d)'
    <3>1. d.step \in Targets(r)
      BY <2>0, <2>3 DEF Targets
    <3>2. claimedBy'[d.step] = r /\ ~OverBudget(r)'
      BY <2>1, <2>2, <3>1 DEF OverBudget
    <3>3. \E k \in 1..Len(Chosen(r)') : Chosen(r)'[k] = d
      BY <2>0, <2>1, <2>3 DEF Chosen
    <3> QED BY <2>2, <3>1, <3>2, <3>3 DEF Decided
  <2>5. RowsHeld'
    BY <1>6, <2>1 DEF RowsHeld
  <2>6. SendersHoldRows'
    BY <2>1 DEF SendersHoldRows, Targets, Chosen, OverBudget
  <2>7. signals' \subseteq signals \cup {d} /\ acceptedIds' \subseteq acceptedIds \cup {d.step}
    BY <2>1 DEF SubmitApproval, eventVars
  <2>8. SignalsDecided'
    BY <1>5, <2>4, <2>7 DEF SignalsDecided
  <2>9. RefusedNeverResumes'
    <3> SUFFICES ASSUME NEW s \in acceptedIds'
                 PROVE  \E h \in Requests :
                          /\ claimedBy'[s] = h /\ status'[h] \notin {404, 409, 429}
                          /\ ~OverBudget(h)'
      BY DEF RefusedNeverResumes
    <3>1. CASE s = d.step
      BY <2>1, <2>2, <2>4, <3>1 DEF OverBudget
    <3>2. CASE s \in acceptedIds
      BY <2>1, <2>2, <3>2 DEF RefusedNeverResumes, OverBudget
    <3> QED BY <2>7, <3>1, <3>2
  <2> QED BY <1>2, <1>3, <1>4, <1>8, <2>5, <2>6, <2>8, <2>9
<1> QED BY <1>7, <1>10, <1>11, <1>12, <1>13, <1>14 DEF RouteStep

-----------------------------------------------------------------------------
\* A step that leaves the requests alone keeps what they hold; if it processes
\* an event at most, the events stay decided.
LEMMA HoldingsKept ==
  ASSUME Shape, Custody, [Next]_vars, UNCHANGED routeVars,
         signals' \subseteq signals, UNCHANGED acceptedIds
  PROVE  /\ RowsHeld' /\ SendersHoldRows' /\ Unanswered'
         /\ SignalsDecided' /\ RefusedNeverResumes'
<1> USE DEF Shape, TypeOK, Custody
<1>1. RowsHeld'
  BY ConsumedForGood DEF RowsHeld, routeVars
<1>2. SendersHoldRows' /\ Unanswered'
  BY DEF SendersHoldRows, Unanswered, OverBudget, Targets, Chosen, routeVars
<1>3. SignalsDecided'
  BY DecidedForGood DEF SignalsDecided, EventsTypeOK
<1>4. RefusedNeverResumes'
  BY DEF RefusedNeverResumes, OverBudget, routeVars
<1> QED BY <1>1, <1>2, <1>3, <1>4

\* The answers the engine keeps are decisions, of which none changes.
LEMMA AnswersKept ==
  ASSUME Shape, Custody, [Next]_vars, NEW i \in Positions, wait[i] = "answered"
  PROVE  /\ answer[i] \in Decisions
         /\ \A d \in Decisions : d = answer[i] => Decided(d)' /\ d.step = Step(i)
<1> USE DEF Shape, TypeOK, Custody
<1>1. Step(i) \in StepIds
  BY PlanShape
<1>2. answer[i].step = Step(i) /\ Decided(answer[i])
  BY DEF AnswersDecided
<1>3. answer[i] \in Decisions
  BY <1>1, <1>2, WorkflowAssumption DEF EngineTypeOK, NoDecision
<1> QED BY <1>2, <1>3, DecidedForGood

\* A step of the worker runs a gated step only behind its answered gate.
LEMMA WorkerCustody ==
  ASSUME Shape, Custody, [Next]_vars, Worker
  PROVE  Custody'
<1> USE DEF Shape, TypeOK, Custody
<1>1. UNCHANGED routeVars /\ WorkerNext
  BY DEF Worker
<1>2. UNCHANGED eventVars
  BY <1>1 DEF WorkerNext, WorkerStep, BeginInvocation, SetRun, InsertJobRow, StartStep,
              DenyMisconfigured, RegisterStep, AskForApproval, ParkRun, OpenWait, PassGate,
              ReplayStep, CallSpecialist, CheckpointResult, Checkpoint, StepThrows, FailStep,
              VerifyDocument, RecordUsage, CompleteStep, CompletePlan, ReturnResults,
              RethrowError, DatabaseFails, WorkerCrash, FailBody
<1>3. RowsHeld' /\ SendersHoldRows' /\ Unanswered' /\ SignalsDecided' /\ RefusedNeverResumes'
  BY <1>1, <1>2, HoldingsKept DEF eventVars
<1>4. UNCHANGED answer /\ (UNCHANGED wait \/ wait' = [wait EXCEPT ![pos] = "open"])
  BY <1>1 DEF WorkerNext, WorkerStep, BeginInvocation, SetRun, InsertJobRow, StartStep,
              DenyMisconfigured, RegisterStep, AskForApproval, ParkRun, OpenWait, PassGate,
              ReplayStep, CallSpecialist, CheckpointResult, Checkpoint, StepThrows, FailStep,
              VerifyDocument, RecordUsage, CompleteStep, CompletePlan, ReturnResults,
              RethrowError, DatabaseFails, WorkerCrash, FailBody, runVars
<1>5. AnswersDecided'
  <2> SUFFICES ASSUME NEW i \in Positions, wait'[i] = "answered"
               PROVE  answer'[i].step = Step(i) /\ Decided(answer[i])'
    BY DEF AnswersDecided
  <2>1. wait[i] = "answered" /\ answer'[i] = answer[i]
    BY <1>4 DEF EngineTypeOK
  <2>2. PICK d \in Decisions : d = answer[i]
    BY <2>1, AnswersKept
  <2>3. d = answer'[i] /\ Decided(d)' /\ d.step = Step(i)
    BY <2>1, <2>2, AnswersKept
  <2> QED BY <2>3
<1>6. PastGate'
  <2>1. CASE pc' # "step"
    BY <2>1 DEF PastGate
  <2>2. CASE pc' = "step"
    <3>1. \/ StartStep \/ PassGate
      BY <1>1, <2>2
         DEF WorkerNext, WorkerStep, BeginInvocation, InsertJobRow, DenyMisconfigured,
             RegisterStep, AskForApproval, ParkRun, ReplayStep, CallSpecialist,
             CheckpointResult, StepThrows, VerifyDocument, RecordUsage, CompleteStep,
             CompletePlan, ReturnResults, RethrowError, DatabaseFails, WorkerCrash,
             EndInvocation, GoTo
    <3>2. CASE StartStep
      <4>1. ~Gated(pos) /\ pos' = pos
        BY <2>2, <3>2 DEF StartStep, GoTo
      <4> QED BY <4>1 DEF PastGate, Gated
    <3>3. CASE PassGate
      <4>1. wait[pos] = "answered" /\ answer[pos].approve /\ pos' = pos /\ UNCHANGED runVars
        BY <2>2, <3>3 DEF PassGate, GoTo
      <4> QED BY <4>1 DEF PastGate, runVars
    <3> QED BY <3>1, <3>2, <3>3
  <2> QED BY <2>1, <2>2
<1>7. ApprovedBeforeRun'
  <2>1. \A c \in ran : Step(c.pos) \in StepIds /\ c.edit \in Edits \cup {NoEdit}
    BY PlanShape DEF WorkerTypeOK, Calls
  <2>2. \A c \in ran : Gated(c.pos) =>
          \E r \in Requests : Granted(r, Step(c.pos), c.edit)'
    BY <2>1, DecidedForGood DEF ApprovedBeforeRun
  <2>3. CASE UNCHANGED ran
    BY <2>2, <2>3 DEF ApprovedBeforeRun, Gated
  <2>4. CASE CallSpecialist
    <3>1. PICK new : /\ new = [pos |-> pos, edit |-> ApprovedEdit(pos), cites |-> cites]
                     /\ ran' = ran \cup {new}
      BY <2>4 DEF CallSpecialist
    <3>2. ASSUME Gated(new.pos)
          PROVE  \E r \in Requests : Granted(r, Step(new.pos), new.edit)'
      <4>1. /\ pos \in Positions /\ wait[pos] = "answered" /\ answer[pos].approve
            /\ new.pos = pos /\ new.edit = answer[pos].edit
        BY <2>4, <3>1, <3>2 DEF CallSpecialist, InPlan, AtStep, PastGate, ApprovedEdit
      <4>2. PICK p \in Positions : p = pos
        BY <4>1
      <4>3. PICK d \in Decisions : d = answer[p]
        BY <4>1, <4>2, AnswersKept
      <4>4. Decided(d)' /\ d.step = Step(p)
        BY <4>1, <4>2, <4>3, AnswersKept
      <4>5. d = [step |-> Step(p), approve |-> TRUE, edit |-> new.edit]
        BY <4>1, <4>2, <4>3, <4>4 DEF Decisions
      <4>6. \E r \in Requests : Granted(r, Step(p), new.edit)'
        BY <4>4, <4>5 DEF Decided, Granted
      <4> QED BY <4>1, <4>2, <4>6
    <3> QED BY <2>2, <3>1, <3>2 DEF ApprovedBeforeRun, Gated
  <2>5. UNCHANGED ran \/ CallSpecialist
    BY <1>1 DEF WorkerNext, WorkerStep, BeginInvocation, InsertJobRow, StartStep,
                DenyMisconfigured, RegisterStep, AskForApproval, ParkRun, PassGate,
                ReplayStep, CheckpointResult, StepThrows, VerifyDocument, RecordUsage,
                CompleteStep, CompletePlan, ReturnResults, RethrowError, DatabaseFails,
                WorkerCrash
  <2> QED BY <2>3, <2>4, <2>5
<1> QED BY <1>3, <1>5, <1>6, <1>7

\* An event is processed for the step its decision names, an expiry answers
\* nothing.
LEMMA EngineCustody ==
  ASSUME Shape, Custody, [Next]_vars,
         Submit \/ (\E d \in signals : Process(d)) \/ (\E i \in Positions : Expire(i))
                \/ UNCHANGED vars
  PROVE  Custody'
<1> USE DEF Shape, TypeOK, Custody
<1>1. /\ UNCHANGED routeVars /\ UNCHANGED workerVars
      /\ signals' \subseteq signals /\ UNCHANGED acceptedIds
  BY DEF Submit, SubmitJob, Process, ProcessSignal, Expire, ExpireWait, vars, eventVars
<1>2. RowsHeld' /\ SendersHoldRows' /\ Unanswered' /\ SignalsDecided' /\ RefusedNeverResumes'
  BY <1>1, HoldingsKept
<1>3. ASSUME NEW i \in Positions
      PROVE  \/ wait'[i] = wait[i] /\ answer'[i] = answer[i]
             \/ wait[i] = "open" /\ wait'[i] # "answered"
             \/ wait[i] = "open" /\ answer'[i] \in signals /\ Step(i) = answer'[i].step
  BY DEF Submit, SubmitJob, Process, ProcessSignal, Expire, ExpireWait, vars, runVars,
         EngineTypeOK
<1>4. AnswersDecided'
  <2> SUFFICES ASSUME NEW i \in Positions, wait'[i] = "answered"
               PROVE  answer'[i].step = Step(i) /\ Decided(answer[i])'
    BY DEF AnswersDecided
  <2>1. PICK d : d = answer'[i]
    OBVIOUS
  <2>2. CASE wait[i] = "answered"
    <3>1. d = answer[i] /\ d \in Decisions
      BY <1>3, <2>1, <2>2, AnswersKept
    <3>2. Decided(d)' /\ d.step = Step(i)
      BY <2>2, <3>1, AnswersKept
    <3> QED BY <2>1, <3>2
  <2>3. CASE wait[i] # "answered"
    <3>1. d \in signals /\ Step(i) = d.step
      BY <1>3, <2>1, <2>3
    <3>2. Decided(d)'
      BY <3>1, DecidedForGood DEF SignalsDecided, EventsTypeOK
    <3> QED BY <2>1, <3>1, <3>2
  <2> QED BY <2>2, <2>3
<1>5. PastGate'
  BY <1>1, <1>3 DEF PastGate, InPlan, AtStep, workerVars, Gated
<1>6. ApprovedBeforeRun'
  <2>1. \A c \in ran : Step(c.pos) \in StepIds /\ c.edit \in Edits \cup {NoEdit}
    BY PlanShape DEF WorkerTypeOK, Calls
  <2> QED BY <1>1, <2>1, DecidedForGood DEF ApprovedBeforeRun, workerVars, Gated
<1> QED BY <1>2, <1>4, <1>5, <1>6

-----------------------------------------------------------------------------
LEMMA CustodyInit == Init => Custody
<1> SUFFICES ASSUME Init  PROVE Custody
  OBVIOUS
<1>1. RowsHeld /\ SendersHoldRows /\ Unanswered
  BY DEF Init, RouteInit, RowsHeld, SendersHoldRows, Unanswered
<1>2. SignalsDecided /\ AnswersDecided /\ RefusedNeverResumes
  BY DEF Init, EventsInit, EngineInit, SignalsDecided, AnswersDecided, RefusedNeverResumes
<1>3. PastGate /\ ApprovedBeforeRun
  BY DEF Init, WorkerInit, PastGate, ApprovedBeforeRun
<1> QED BY <1>1, <1>2, <1>3 DEF Custody

LEMMA CustodyStep == Shape /\ Custody /\ [Next]_vars => Custody'
<1> SUFFICES ASSUME Shape, Custody, [Next]_vars  PROVE Custody'
  OBVIOUS
<1>1. CASE Route
  BY <1>1, RouteCustody
<1>2. CASE Worker
  BY <1>2, WorkerCustody
<1>3. CASE \/ Submit \/ (\E d \in signals : Process(d))
           \/ (\E i \in Positions : Expire(i)) \/ UNCHANGED vars
  BY <1>3, EngineCustody
<1> QED BY <1>1, <1>2, <1>3 DEF Next

\* A decision passes from the row over the event and the wait to the call unchanged.
THEOREM CustodyInvariant == Spec => []Custody
<1>1. Init => Custody
  BY CustodyInit
<1>2. Shape /\ Custody /\ [Next]_vars => Custody'
  BY CustodyStep
<1> QED BY <1>1, <1>2, ShapeInvariant, PTL DEF Spec

\* A gated specialist call carries exactly the arguments of an approval that
\* consumed the row of its step within budget, in every invocation, retry and
\* replay (createDurableStepRunner and the approve route together).
THEOREM ApprovalIsSafe == Spec => []ApprovedBeforeRun
<1>1. Custody => ApprovedBeforeRun
  BY DEF Custody
<1> QED BY <1>1, CustodyInvariant, PTL

\* A request that was refused, over budget included, never had an event
\* accepted, so no wait is resumed by it.
THEOREM RefusalIsFinal == Spec => []RefusedNeverResumes
<1>1. Custody => RefusedNeverResumes
  BY DEF Custody
<1> QED BY <1>1, CustodyInvariant, PTL

\* A consumed row stays consumed and in the hands of the request that took it
\* (the conditional UPDATE of claimPending, ON CONFLICT DO NOTHING of
\* registerPending).
THEOREM ConsumedForEver == Spec => ConsumeOnce
<1>1. Shape /\ Custody /\ [Next]_vars =>
        [\A s \in StepIds :
           /\ approvalState[s] = "consumed" => approvalState'[s] = "consumed"
           /\ claimedBy[s] # NoRequest => claimedBy'[s] = claimedBy[s]]_vars
  BY HoldersFrozen, ConsumedForGood DEF Custody
<1> QED BY <1>1, ShapeInvariant, CustodyInvariant, PTL DEF Spec, ConsumeOnce

-----------------------------------------------------------------------------
(* What the worker relies on, with the requests and the engine around it:  *)
(* Working joins the invariants JobWorker_proofs follows a step of the     *)
(* worker through.                                                         *)

Working == Progress /\ Gates /\ Handing

\* The requests and the engine leave the invocation alone; they open no gate
\* that has an answer and register no row.
LEMMA OutsideTheWorker ==
  ASSUME Shape, GateWalk, [Next]_vars, ~Worker
  PROVE  /\ UNCHANGED workerVars /\ UNCHANGED memo
         /\ runState' = "completed" => runState = "completed"
         /\ AnswersForGood /\ GateWalk'
         /\ \A s \in StepIds : approvalState'[s] = "pending" => approvalState[s] = "pending"
<1> USE DEF Shape, TypeOK
<1>1. UNCHANGED workerVars /\ UNCHANGED memo
  BY DEF Next, Submit, SubmitJob, Route, Process, ProcessSignal, Expire, ExpireWait, vars,
         runVars
<1>2. runState' = "completed" => runState = "completed"
  BY DEF Next, Submit, SubmitJob, Route, Process, ProcessSignal, Expire, ExpireWait, vars,
         runVars
<1>3. \A i \in Positions : wait[i] # "open" => wait'[i] = wait[i] /\ answer'[i] = answer[i]
  BY DEF Next, Submit, SubmitJob, Route, Process, ProcessSignal, Expire, ExpireWait, vars,
         runVars, EngineTypeOK
<1>4. AnswersForGood
  BY <1>3 DEF AnswersForGood
<1>5. GateWalk'
  <2>1. PassedTo(pos)'
    BY <1>1, <1>4, AnswersCarry DEF WorkShape, WorkerTypeOK, GateWalk, workerVars, PassedTo, Gated
  <2>2. pc = "park" => pos \in Positions
    BY DEF InPlan, AtStep
  <2>3. pc \in {"step", "called", "verify", "record", "emit"} => pos \in Positions
    BY DEF InPlan, AtStep
  <2> QED BY <1>1, <1>3, <2>1, <2>2, <2>3 DEF GateWalk, workerVars, Gated
<1>6. \A s \in StepIds : approvalState'[s] = "pending" => approvalState[s] = "pending"
  <2>1. UNCHANGED approvalState \/ \E r \in Requests : ConsumePending(Targets(r))
    BY DEF Next, Submit, Route, Process, Expire, vars, storeVars, RouteNext, RouteStep,
           RefuseUnknownJob, ReceiveApproval, ReadSpend, ClaimMismatch, ClaimCommit,
           ClaimFails, ConsumeTargets, AuditDecisions, SendDecision, SendFails, WebCrash
  <2> QED BY <2>1 DEF ConsumePending
<1> QED BY <1>1, <1>2, <1>4, <1>5, <1>6

LEMMA WorkingStep == Shape /\ Working /\ [Next]_vars => Working'
<1> SUFFICES ASSUME Shape, Working, [Next]_vars  PROVE Working'
  OBVIOUS
<1>1. WorkShape
  BY DEF Shape, TypeOK, WorkShape
<1>2. CASE Worker
  <2>1. WorkerNext
    BY <1>2 DEF Worker
  <2> QED BY <1>1, <2>1, ProgressStep, GatesStep, HandingStep DEF Working
<1>3. CASE ~Worker
  <2>1. /\ UNCHANGED workerVars /\ UNCHANGED memo /\ AnswersForGood /\ GateWalk'
        /\ runState' = "completed" => runState = "completed"
        /\ \A s \in StepIds : approvalState'[s] = "pending" => approvalState[s] = "pending"
    BY <1>3, OutsideTheWorker DEF Working, Gates
  <2>2. UNCHANGED <<pc, pos, handoff, ran, emitted, cites>>
    BY <2>1 DEF workerVars
  <2>3. Progress'
    BY <1>1, <2>1, <2>2, ProgressKept DEF Working
  <2>4. Gates'
    BY <1>1, <2>1, <2>2, AnswersCarry DEF Working, Gates
  <2>5. Handing'
    BY <2>2 DEF Working, Handing
  <2> QED BY <2>3, <2>4, <2>5 DEF Working
<1> QED BY <1>2, <1>3

\* What holds of the worker's own steps holds with requests and engine around it.
THEOREM WorkingInvariant == Spec => []Working
<1>1. Init => Working
  <2> SUFFICES ASSUME Init  PROVE Working
    OBVIOUS
  <2>1. pc = "idle" /\ pos = 1 /\ handoff = {} /\ ran = {} /\ emitted = {}
        /\ runState = "none" /\ \A s \in StepIds : approvalState[s] = "absent"
    BY DEF Init, WorkerInit, EngineInit, StoreInit
  <2>2. Progress
    BY <2>1 DEF Progress, InOrder, Walked, PlanThrough, Published
  <2>3. Gates
    BY <2>1 DEF Gates, GateWalk, PassedTo, EditsOfAnswers, PendingAtGate
  <2>4. Handing
    BY <2>1, QueueGrows DEF Handing
  <2> QED BY <2>2, <2>3, <2>4 DEF Working
<1>2. Shape /\ Working /\ [Next]_vars => Working'
  BY WorkingStep
<1> QED BY <1>1, <1>2, ShapeInvariant, PTL DEF Spec

\* The stream of progress events tells the truth across crashes and replays:
\* a completion follows its checkpoint and all earlier completions, the one of
\* the job follows them all, and a completed run has published it (dispatch).
THEOREM ProgressIsTrue == Spec => []ProgressIsTruthful
<1>1. Shape /\ Working => ProgressIsTruthful
  <2> SUFFICES ASSUME Working  PROVE ProgressIsTruthful
    OBVIOUS
  <2>1. \A i \in Completed : i \in Positions /\ Published(i)
    BY DEF Completed, Published
  <2>2. ASSUME NEW i \in Completed  PROVE memo[i] = "done" /\ 1..i \subseteq Completed
    <3>1. Len(Plan) \in Nat /\ i \in 1..Len(Plan)
      BY <2>1, PlanShape DEF Positions
    <3>2. \A j \in 1..i : j \in Positions /\ Published(j)
      BY <2>1, <3>1 DEF Working, Progress, InOrder, Positions
    <3> QED BY <2>1, <3>2 DEF Working, Progress, InOrder, Completed, Published
  <2>3. Published(JobLevel) => Completed = Positions
    BY DEF Working, Progress, PlanThrough, Completed, Published
  <2> QED BY <2>2, <2>3 DEF ProgressIsTruthful, Working, Progress, PlanThrough, Published
<1> QED BY <1>1, ShapeInvariant, WorkingInvariant, PTL

\* What was published stays as it was checkpointed, and is not done again.
LEMMA PublishedKept ==
  ASSUME Shape, Working, [Next]_vars, NEW i \in Completed
  PROVE  memo'[i] = memo[i] /\ memoUsage'[i] = memoUsage[i] /\ ~(pc' = "called" /\ pos' = i)
<1>1. i \in Positions /\ memo[i] = "done"
  BY DEF Completed, Published, Working, Progress, InOrder
<1>2. pc = "called" => memo[pos] = "none"
  BY DEF Working, Progress, Walked
<1>3. EngineTypeOK /\ (pc \in AtStep => pos \in Positions)
  BY DEF Shape, TypeOK, InPlan
<1>4. CASE ~Worker
  <2>1. UNCHANGED workerVars /\ UNCHANGED memo
    BY <1>4, OutsideTheWorker DEF Working, Gates
  <2>2. UNCHANGED memoUsage
    BY <1>4 DEF Next, Submit, SubmitJob, Route, Process, ProcessSignal, Expire, ExpireWait,
                vars, runVars
  <2> QED BY <1>1, <1>2, <2>1, <2>2 DEF workerVars
<1>5. CASE Worker
  <2>1. \/ CallSpecialist
        \/ \E usage \in Usages \cup {NoUsage} : CheckpointResult(usage)
        \/ StepThrows
        \/ UNCHANGED <<memo, memoUsage>> /\ pc' # "called"
    BY <1>5 DEF Worker, WorkerNext, WorkerStep, BeginInvocation, InsertJobRow, StartStep,
                DenyMisconfigured, RegisterStep, AskForApproval, ParkRun, PassGate, ReplayStep,
                VerifyDocument, RecordUsage, CompleteStep, CompletePlan, ReturnResults,
                RethrowError, DatabaseFails, WorkerCrash, GoTo, EndInvocation, runVars,
                SetRun, FailBody, OpenWait
  <2>2. CASE CallSpecialist
    BY <1>1, <2>2 DEF CallSpecialist, runVars
  <2>3. ASSUME NEW usage, CheckpointResult(usage)
        PROVE  memo'[i] = memo[i] /\ memoUsage'[i] = memoUsage[i] /\ pc' # "called"
    BY <1>1, <1>2, <1>3, <2>3
       DEF CheckpointResult, Checkpoint, EndInvocation, GoTo, EngineTypeOK, AtStep
  <2>4. CASE StepThrows
    <3>1. memo[pos] = "none" /\ pos \in Positions
      BY <1>2, <1>3, <2>4 DEF StepThrows, AtStep
    <3> QED BY <1>1, <1>3, <2>4, <3>1 DEF StepThrows, FailStep, EndInvocation, GoTo, EngineTypeOK
  <2> QED BY <2>1, <2>2, <2>3, <2>4
<1> QED BY <1>4, <1>5

\* The result of a step whose completion was published is final: no replay calls its
\* specialist again or changes the checkpoint, even of a document that is then
\* rejected and of a job that fails (dispatch, outside and inside step.run).
THEOREM PublishedIsFinal == Spec => PublishedWorkStands
<1>1. Shape /\ Working /\ [Next]_vars =>
        [\A i \in Completed :
           /\ memo'[i] = memo[i] /\ memoUsage'[i] = memoUsage[i]
           /\ ~(pc' = "called" /\ pos' = i)]_vars
  BY PublishedKept
<1> QED BY <1>1, ShapeInvariant, WorkingInvariant, PTL DEF Spec, PublishedWorkStands

\* A document gets the citations of the research steps the plan puts in front
\* of it and no earlier document took, in every replay (handoffCitations).
THEOREM HandoffIsExact == Spec => []HandoffExact
<1>1. Working => HandoffExact
  BY DEF Working, Handing, HandoffExact, Given, Queue, TakesCitations, TakesHandoff
<1> QED BY <1>1, WorkingInvariant, PTL

\* However often a specialist is called for a position, after whatever crash or
\* failure, it is called with the same arguments and citations.
THEOREM ReplayIsDeterministic == Spec => []ReplaysSameInput
<1>1. Shape /\ Working => ReplaysSameInput
  <2> SUFFICES ASSUME Shape, Working, NEW c \in ran, NEW d \in ran, c.pos = d.pos
               PROVE  c = d
    BY DEF ReplaysSameInput
  <2>1. c \in Calls /\ d \in Calls
    BY DEF Shape, TypeOK, WorkerTypeOK
  <2>2. c.edit = d.edit /\ c.cites = d.cites
    BY DEF Working, Gates, EditsOfAnswers, Handing
  <2> QED BY <2>1, <2>2 DEF Calls
<1> QED BY <1>1, ShapeInvariant, WorkingInvariant, PTL

-----------------------------------------------------------------------------
(* One step waits at a time. *)

\* A row waits at a gate all of whose predecessors are answered, hence claimed:
\* two rows cannot wait.
LEMMA OnePending ==
  ASSUME Shape, Custody, Working
  PROVE  /\ \A s, t \in PendingAmong(StepIds) : s = t
         /\ IsFiniteSet(PendingAmong(StepIds))
         /\ Cardinality(PendingAmong(StepIds)) <= 1
<1> USE DEF Shape, TypeOK
<1>1. ASSUME NEW i \in Positions, NEW j \in Positions, i < j, PassedTo(j), Gated(i)
      PROVE  approvalState[Step(i)] = "consumed"
  <2>1. i \in 1..(j - 1)
    BY <1>1, PlanShape DEF Positions
  <2>2. wait[i] = "answered"
    BY <1>1, <2>1 DEF PassedTo
  <2>3. answer[i].step = Step(i) /\ Decided(answer[i])
    BY <2>2 DEF Custody, AnswersDecided
  <2>4. Step(i) \in StepIds /\ claimedBy[Step(i)] # NoRequest
    BY <2>3, PlanShape, RouteAssumption DEF Decided
  <2> QED BY <2>4 DEF Custody, RowsHeld
<1>2. ASSUME NEW s \in PendingAmong(StepIds), NEW t \in PendingAmong(StepIds)
      PROVE  s = t
  <2>1. s \in StepIds /\ t \in StepIds /\ approvalState[s] = "pending"
        /\ approvalState[t] = "pending"
    BY DEF PendingAmong
  <2>2. PICK i \in Positions : Step(i) = s /\ Gated(i) /\ PassedTo(i)
    BY <2>1 DEF Working, Gates, PendingAtGate
  <2>3. PICK j \in Positions : Step(j) = t /\ Gated(j) /\ PassedTo(j)
    BY <2>1 DEF Working, Gates, PendingAtGate
  <2>4. ~(i < j) /\ ~(j < i)
    BY <1>1, <2>1, <2>2, <2>3
  <2>5. i = j
    BY <2>4, PlanShape
  <2> QED BY <2>2, <2>3, <2>5
<1>3. PendingAmong(StepIds) = {} \/ \E s : PendingAmong(StepIds) = {s}
  BY <1>2
<1>4. IsFiniteSet(PendingAmong(StepIds)) /\ Cardinality(PendingAmong(StepIds)) \in {0, 1}
  <2>1. CASE PendingAmong(StepIds) = {}
    BY <2>1, FS_EmptySet
  <2>2. CASE \E s : PendingAmong(StepIds) = {s}
    <3>1. PICK s : PendingAmong(StepIds) = {s}
      BY <2>2
    <3>2. IsFiniteSet({s}) /\ Cardinality({s}) = 1
      BY FS_Singleton
    <3> QED BY <3>1, <3>2
  <2> QED BY <1>3, <2>1, <2>2
<1> QED BY <1>2, <1>4

\* So a request that gets past its claim decides one step.
ClaimsOne ==
  \A r \in Requests :
    reqPc[r] \in {"audit", "send"} \/ status[r] = 202 => Len(Chosen(r)) = 1

LEMMA ClaimsOneStep ==
  ASSUME Shape, Custody, Working, ClaimsOne, [Next]_vars
  PROVE  ClaimsOne'
<1> USE DEF Shape, TypeOK
<1>1. CASE UNCHANGED routeVars
  BY <1>1 DEF ClaimsOne, Chosen, routeVars
<1>2. CASE RouteNext
  <2>1. PICK r \in Requests :
          \/ \E b \in Bodies : RefuseUnknownJob(r, b) \/ ReceiveApproval(r, b)
          \/ RouteStep(r) \/ ClaimFails(r) \/ SendFails(r) \/ WebCrash(r)
    BY <1>2 DEF RouteNext
  <2>2. \A q \in Requests \ {r} :
          reqPc'[q] = reqPc[q] /\ status'[q] = status[q] /\ body'[q] = body[q]
    BY <2>1 DEF RouteStep, RefuseUnknownJob, ReceiveApproval, ReadSpend, ClaimMismatch,
                ClaimCommit, ClaimFails, AuditDecisions, SendDecision, SendFails, WebCrash,
                Respond, RouteTypeOK
  <2>3. ASSUME reqPc'[r] \in {"audit", "send"} \/ status'[r] = 202
        PROVE  Len(Chosen(r)') = 1
    <3>1. reqPc[r] \in {"idle", "read", "claim"} => status[r] = 0
      BY DEF Custody, Unanswered
    <3>2. body'[r] = body[r]
          /\ \/ reqPc[r] \in {"audit", "send"} \/ status[r] = 202
             \/ reqPc[r] = "claim" /\ AllPending(r)
      BY <2>1, <2>3, <3>1
         DEF RouteStep, RefuseUnknownJob, ReceiveApproval, ReadSpend, ClaimMismatch,
             ClaimCommit, ClaimFails, AuditDecisions, SendDecision, SendFails, WebCrash,
             Respond, RouteTypeOK
    <3>3. CASE reqPc[r] = "claim" /\ AllPending(r)
      <4>1. Targets(r) \subseteq StepIds /\ Len(Chosen(r)) \in Nat
        BY TargetsAreSteps
      <4>2. PendingAmong(Targets(r)) \in SUBSET PendingAmong(StepIds)
        BY <4>1 DEF PendingAmong
      <4>3. /\ Cardinality(PendingAmong(Targets(r))) <= Cardinality(PendingAmong(StepIds))
            /\ Cardinality(PendingAmong(StepIds)) \in Nat
            /\ Cardinality(PendingAmong(StepIds)) <= 1
        BY <4>2, OnePending, FS_Subset, FS_CardinalityType
      <4>4. Len(Chosen(r)) = Cardinality(PendingAmong(Targets(r)))
        BY <3>3 DEF AllPending
      <4>5. sentUpTo[r] \in Nat /\ sentUpTo[r] < Len(Chosen(r))
        BY <3>3 DEF RouteTypeOK, Unsent
      <4>6. Len(Chosen(r)) = 1
        BY <4>1, <4>3, <4>4, <4>5
      <4> QED BY <3>2, <4>6 DEF Chosen
    <3> QED BY <3>2, <3>3 DEF ClaimsOne, Chosen
  <2> QED BY <2>2, <2>3 DEF ClaimsOne, Chosen
<1> QED BY <1>1, <1>2 DEF Next, Submit, Route, Worker, Process, Expire, vars, routeVars

\* Dispatch is sequential and a denied step ends the run, so at most one row is
\* pending and no set of two decisions is ever claimed, whatever is posted.
THEOREM StepsComeOneByOne == Spec => []OneStepAtATime
<1>1. Init => ClaimsOne
  BY DEF Init, RouteInit, ClaimsOne
<1>2. Shape /\ Custody /\ Working /\ ClaimsOne /\ [Next]_vars => ClaimsOne'
  BY ClaimsOneStep
<1>3. Shape /\ Custody /\ Working /\ ClaimsOne => OneStepAtATime
  BY OnePending DEF ClaimsOne, OneStepAtATime
<1> QED BY <1>1, <1>2, <1>3, ShapeInvariant, CustodyInvariant, WorkingInvariant, PTL DEF Spec

-----------------------------------------------------------------------------
(* The refinement of ApprovalContract: the step of the contract that       *)
(* decides is the commit of a claim, the step that executes is a           *)
(* specialist call, and every other step of the route, the worker and the  *)
(* engine is invisible to it.  A request that holds a row named its step,  *)
(* and named it once.                                                      *)

BodiesChecked ==
  \A r \in Requests :
    reqPc[r] \in {"read", "claim"} => ~HasDuplicateTarget(body[r])

HoldersNamed ==
  \A s \in StepIds :
    claimedBy[s] # NoRequest =>
      /\ s \in Targets(claimedBy[s])
      /\ ~HasDuplicateTarget(body[claimedBy[s]])

Naming == BodiesChecked /\ HoldersNamed

LEMMA NamingStep ==
  ASSUME Shape, Custody, Naming, [Next]_vars
  PROVE  Naming'
<1> USE DEF Shape, TypeOK, Custody, Naming
<1>1. CASE UNCHANGED routeVars
  BY <1>1 DEF routeVars, BodiesChecked, HoldersNamed, Targets, Chosen
<1>2. CASE RouteNext
  <2>1. PICK r \in Requests :
          \/ \E b \in Bodies : RefuseUnknownJob(r, b) \/ ReceiveApproval(r, b)
          \/ RouteStep(r) \/ ClaimFails(r) \/ SendFails(r) \/ WebCrash(r)
    BY <1>2 DEF RouteNext
  <2>2. \A q \in Requests \ {r} : reqPc'[q] = reqPc[q] /\ body'[q] = body[q]
    BY <2>1 DEF RouteStep, RefuseUnknownJob, ReceiveApproval, ReadSpend, ClaimMismatch,
                ClaimCommit, ClaimFails, AuditDecisions, SendDecision, SendFails, WebCrash,
                Respond, RouteTypeOK
  <2>3. reqPc'[r] \in {"read", "claim"} => ~HasDuplicateTarget(body'[r])
    BY <2>1 DEF RouteStep, RefuseUnknownJob, ReceiveApproval, ReadSpend, ClaimMismatch,
                ClaimCommit, ClaimFails, AuditDecisions, SendDecision, SendFails, WebCrash,
                Respond, RouteTypeOK, BodiesChecked
  <2>4. BodiesChecked'
    BY <2>2, <2>3 DEF BodiesChecked
  <2>5. ASSUME NEW s \in StepIds, claimedBy'[s] # NoRequest
        PROVE  /\ s \in Targets(claimedBy[s])'
               /\ ~HasDuplicateTarget(body'[claimedBy'[s]])
    <3>1. CASE claimedBy[s] # NoRequest
      <4>1. /\ claimedBy[s] \in Requests /\ claimedBy'[s] = claimedBy[s]
            /\ body'[claimedBy[s]] = body[claimedBy[s]]
        BY <3>1, HoldersFrozen
      <4> QED BY <3>1, <4>1 DEF HoldersNamed, Targets, Chosen
    <3>2. CASE claimedBy[s] = NoRequest
      <4>1. /\ reqPc[r] = "claim" /\ ConsumeTargets(r) /\ UNCHANGED body
        BY <2>1, <2>5, <3>2
           DEF RouteStep, RefuseUnknownJob, ReceiveApproval, ReadSpend, ClaimMismatch,
               ClaimCommit, ClaimFails, AuditDecisions, SendDecision, SendFails, WebCrash
      <4>2. s \in Targets(r) /\ claimedBy'[s] = r
        BY <2>5, <3>2, <4>1 DEF ConsumeTargets
      <4> QED BY <4>1, <4>2 DEF BodiesChecked, Targets, Chosen
    <3> QED BY <3>1, <3>2
  <2>6. HoldersNamed'
    BY <2>5 DEF HoldersNamed
  <2> QED BY <2>4, <2>6
<1> QED BY <1>1, <1>2 DEF Next, Submit, Route, Worker, Process, Expire, vars, routeVars

\* Requests past the duplicate check name each step once; a holder names its row.
THEOREM NamingInvariant == Spec => []Naming
<1>1. Init => Naming
  BY DEF Init, RouteInit, Naming, BodiesChecked, HoldersNamed
<1>2. Shape /\ Custody /\ Naming /\ [Next]_vars => Naming'
  BY NamingStep
<1> QED BY <1>1, <1>2, ShapeInvariant, CustodyInvariant, PTL DEF Spec

-----------------------------------------------------------------------------
(* The verdict a step has in the contract. *)

\* The decision a holder posted for a step is the one its verdict is read from.
LEMMA OneDecisionPerStep ==
  ASSUME Shape, Naming, NEW s \in StepIds, claimedBy[s] # NoRequest,
         NEW k \in 1..Len(Chosen(claimedBy[s])), Chosen(claimedBy[s])[k].step = s
  PROVE  k = CHOOSE j \in 1..Len(Chosen(claimedBy[s])) : Chosen(claimedBy[s])[j].step = s
<1> DEFINE ds == Chosen(claimedBy[s])
           c == CHOOSE j \in 1..Len(ds) : ds[j].step = s
<1>1. claimedBy[s] \in Requests
  BY DEF Shape, TypeOK, RouteTypeOK
<1>2. Len(ds) \in Nat
  BY <1>1, TargetsAreSteps DEF Shape, TypeOK
<1>3. c \in 1..Len(ds) /\ ds[c].step = s
  <2>1. k \in 1..Len(ds) /\ ds[k].step = s
    OBVIOUS
  <2> HIDE DEF ds
  <2> QED BY <2>1
<1>4. \A i, j \in 1..Len(ds) : i < j => ds[i].step # ds[j].step
  BY DEF Naming, HoldersNamed, HasDuplicateTarget, Chosen
<1> HIDE DEF ds, c
<1>5. k \in 1..Len(ds) /\ ds[k].step = s
  BY DEF ds
<1>6. k = c
  BY <1>2, <1>3, <1>4, <1>5
<1> QED BY <1>6 DEF c, ds

\* A verdict is a verdict of the contract, and what is granted is approved.
LEMMA VerdictShape ==
  ASSUME Shape, Naming, NEW s \in StepIds
  PROVE  /\ VerdictOf(s) \in Contract!Verdicts \cup {Contract!Undecided}
         /\ claimedBy[s] = NoRequest => VerdictOf(s) = Contract!Undecided
         /\ \A r \in Requests, e \in Edits \cup {NoEdit} :
              Granted(r, s, e) => VerdictOf(s) = [kind |-> "approved", edit |-> e]
<1> DEFINE h == claimedBy[s]
<1>1. CASE claimedBy[s] = NoRequest
  BY <1>1, RouteAssumption DEF VerdictOf, Contract!Undecided, Granted
<1>2. CASE claimedBy[s] # NoRequest
  <2>1. h \in Requests
    BY <1>2 DEF Shape, TypeOK, RouteTypeOK
  <2>2. PICK k \in 1..Len(Chosen(h)) : Chosen(h)[k].step = s
    BY <1>2 DEF Naming, HoldersNamed, Targets
  <2>3. k = CHOOSE j \in 1..Len(Chosen(h)) : Chosen(h)[j].step = s
    BY <1>2, <2>2, OneDecisionPerStep
  <2>4. Chosen(h)[k] \in Decisions
    BY <2>1, <2>2, TargetsAreSteps DEF Shape, TypeOK
  <2>5. VerdictOf(s) = IF Chosen(h)[k].approve /\ ~OverBudget(h)
                         THEN [kind |-> "approved", edit |-> Chosen(h)[k].edit]
                         ELSE [kind |-> "refused", edit |-> NoEdit]
    BY <1>2, <2>3 DEF VerdictOf
  <2>6. Chosen(h)[k].edit \in Edits \cup {NoEdit}
    BY <2>4 DEF Decisions
  <2>7. VerdictOf(s) \in Contract!Verdicts \cup {Contract!Undecided}
    BY <2>5, <2>6 DEF Contract!Verdicts
  <2>8. ASSUME NEW r \in Requests, NEW e \in Edits \cup {NoEdit}, Granted(r, s, e)
        PROVE  VerdictOf(s) = [kind |-> "approved", edit |-> e]
    <3>1. r = h /\ ~OverBudget(h)
      BY <2>8 DEF Granted
    <3>2. PICK j \in 1..Len(Chosen(h)) :
            Chosen(h)[j] = [step |-> s, approve |-> TRUE, edit |-> e]
      BY <2>8, <3>1 DEF Granted
    <3>3. j = CHOOSE i \in 1..Len(Chosen(h)) : Chosen(h)[i].step = s
      BY <1>2, <3>2, OneDecisionPerStep
    <3> QED BY <2>3, <2>5, <3>1, <3>2, <3>3
  <2> QED BY <1>2, <2>7, <2>8
<1> QED BY <1>1, <1>2

\* A verdict that is given is never given again.
LEMMA VerdictKept ==
  ASSUME Shape, Custody, Naming, [Next]_vars, NEW s \in StepIds,
         VerdictOf(s) # Contract!Undecided
  PROVE  VerdictOf(s)' = VerdictOf(s)
<1>1. claimedBy[s] # NoRequest
  BY VerdictShape
<1>2. PICK h \in Requests : claimedBy[s] = h
  BY <1>1 DEF Shape, TypeOK, RouteTypeOK
<1>3. claimedBy'[s] = h /\ body'[h] = body[h] /\ spend'[h] = spend[h]
  BY <1>1, <1>2, HoldersFrozen DEF Custody
<1>4. Chosen(h)' = Chosen(h) /\ (OverBudget(h)' <=> OverBudget(h))
  BY <1>3 DEF Chosen, OverBudget
<1> QED BY <1>2, <1>3, <1>4 DEF VerdictOf

-----------------------------------------------------------------------------
LEMMA ContractInit == Init => Contract!Init
<1> SUFFICES ASSUME Init  PROVE Contract!Init
  OBVIOUS
<1>1. \A s \in StepIds : VerdictOf(s) = Contract!Undecided
  BY DEF Init, RouteInit, VerdictOf, Contract!Undecided
<1>2. {<<Step(c.pos), c.edit>> : c \in ran} = {}
  BY DEF Init, WorkerInit
<1> QED BY <1>1, <1>2 DEF Contract!Init

\* Every step decides some steps, perhaps none, or executes one.
LEMMA ContractStep ==
  Shape /\ Shape' /\ Custody /\ Custody' /\ Naming /\ Naming' /\ [Next]_vars
    => [Contract!Next]_(Contract!vars)
<1> SUFFICES ASSUME Shape, Shape', Custody, Custody', Naming, Naming', [Next]_vars
             PROVE  Contract!Next
  BY DEF Contract!vars
<1> USE DEF Shape, TypeOK
<1>1. UNCHANGED ran \/ (CallSpecialist /\ UNCHANGED routeVars)
  BY DEF Next, Submit, Route, Worker, Process, Expire, vars, workerVars,
         WorkerNext, WorkerStep, BeginInvocation, InsertJobRow, StartStep,
         DenyMisconfigured, RegisterStep, AskForApproval, ParkRun, PassGate, ReplayStep,
         CheckpointResult, StepThrows, VerifyDocument, RecordUsage, CompleteStep,
         CompletePlan, ReturnResults, RethrowError, DatabaseFails, WorkerCrash
<1>2. CASE UNCHANGED ran
  <2>1. \A s \in StepIds : VerdictOf(s)' \in Contract!Verdicts \cup {Contract!Undecided}
    <3> SUFFICES ASSUME NEW s \in StepIds
                 PROVE  VerdictOf(s)' \in Contract!Verdicts \cup {Contract!Undecided}
      OBVIOUS
    <3>1. (VerdictOf(s) \in Contract!Verdicts \cup {Contract!Undecided})'
      BY VerdictShape, PTL
    <3> QED BY <3>1 DEF Contract!Verdicts, Contract!Undecided
  <2>2. \A s \in StepIds :
          VerdictOf(s) # Contract!Undecided => VerdictOf(s)' = VerdictOf(s)
    BY VerdictKept
  <2> QED BY <1>2, <2>1, <2>2 DEF Contract!Next, Contract!Decide
<1>3. CASE CallSpecialist /\ UNCHANGED routeVars
  <2>1. PICK p \in Positions : p = pos
    BY <1>3 DEF CallSpecialist, InPlan, AtStep
  <2>2. PICK e \in Edits \cup {NoEdit} :
          /\ e = ApprovedEdit(p)
          /\ \E new : new.pos = p /\ new.edit = e /\ ran' = ran \cup {new}
    <3>1. ApprovedEdit(p) \in Edits \cup {NoEdit}
      BY <2>1 DEF ApprovedEdit, EngineTypeOK, Decisions, NoDecision
    <3>2. PICK new : new = [pos |-> p, edit |-> ApprovedEdit(p), cites |-> cites]
      OBVIOUS
    <3>3. new.pos = p /\ new.edit = ApprovedEdit(p) /\ ran' = ran \cup {new}
      BY <1>3, <2>1, <3>2 DEF CallSpecialist
    <3> QED BY <3>1, <3>3
  <2>3. Step(p) \in StepIds
    BY PlanShape
  <2>4. \A s \in StepIds : VerdictOf(s)' = VerdictOf(s)
    BY <1>3 DEF VerdictOf, Chosen, OverBudget, routeVars
  <2>5. {<<Step(c.pos), c.edit>> : c \in ran'} =
          {<<Step(c.pos), c.edit>> : c \in ran} \cup {<<Step(p), e>>}
    BY <2>2
  <2>6. ASSUME RequiresApproval(Step(p))
        PROVE  VerdictOf(Step(p)) = [kind |-> "approved", edit |-> e]
    <3>1. PICK new \in ran' : new.pos = p /\ new.edit = e
      BY <2>2
    <3>2. \E r \in Requests : Granted(r, Step(p), e)'
      BY <2>6, <3>1 DEF Custody, ApprovedBeforeRun, Gated
    <3>3. \E r \in Requests : Granted(r, Step(p), e)
      BY <1>3, <3>2 DEF Granted, Chosen, OverBudget, routeVars
    <3> QED BY <2>3, <3>3, VerdictShape
  <2>7. ~RequiresApproval(Step(p)) => e = NoEdit
    BY <2>2 DEF ApprovedEdit, Gated
  <2>8. Contract!Execute(Step(p), e)
    BY <2>3, <2>4, <2>5, <2>6, <2>7 DEF Contract!Execute
  <2> QED BY <2>3, <2>8 DEF Contract!Next
<1> QED BY <1>1, <1>2, <1>3

\* The approval machinery keeps its contract: at most one verdict for a gated
\* step, for good, and executions only under an approving one and with its
\* arguments (createDurableStepRunner, claimPending, submitApproval and the
\* engine together).
THEOREM JobImplementsContract == Spec => ImplementsContract
<1>1. Init => Contract!Init
  BY ContractInit
<1>2. Shape /\ Shape' /\ Custody /\ Custody' /\ Naming /\ Naming' /\ [Next]_vars
        => [Contract!Next]_(Contract!vars)
  BY ContractStep
<1> QED BY <1>1, <1>2, ShapeInvariant, CustodyInvariant, NamingInvariant, PTL
        DEF Spec, ImplementsContract, Contract!Spec

-----------------------------------------------------------------------------
(* Sums over finite sets, by induction on their size.                      *)

\* A set of numbers has a least one.
LEMMA LeastNumber ==
  ASSUME NEW S \in SUBSET Nat, S # {}
  PROVE  \E x \in S : \A y \in S : x <= y
<1>1. \E x \in S : \A y \in S : ~ (<<y, x>> \in OpToRel(<, Nat))
  BY NatLessThanWellFounded, WFMin
<1>2. \A i, j \in Nat : i < j => <<i, j>> \in OpToRel(<, Nat)
  BY Zenon DEF OpToRel
<1>3. PICK x \in S : \A y \in S : ~ (<<y, x>> \in OpToRel(<, Nat))
  BY <1>1
<1>4. \A y \in S : y \in Nat /\ x \in Nat /\ ~ (y < x)
  BY <1>2, <1>3, Zenon
<1> QED BY <1>4

\* A set of subsets of a finite S has them all when it has {} and, with all the
\* sets one element smaller than T, T itself.
LEMMA SubsetsOneByOne ==
  ASSUME NEW S, IsFiniteSet(S), NEW P, {} \in P,
         \A T \in SUBSET S : T # {} /\ (\A x \in T : T \ {x} \in P) => T \in P
  PROVE  \A T \in SUBSET S : T \in P
<1> SUFFICES ASSUME \E T \in SUBSET S : T \notin P  PROVE FALSE
  OBVIOUS
<1> DEFINE Sizes == {n \in Nat : \E T \in SUBSET S : T \notin P /\ Cardinality(T) = n}
<1>1. \A T \in SUBSET S : IsFiniteSet(T) /\ Cardinality(T) \in Nat
  BY FS_Subset, FS_CardinalityType
<1>2. Sizes \in SUBSET Nat /\ Sizes # {}
  BY <1>1
<1>3. PICK n \in Sizes : \A m \in Sizes : n <= m
  <2> HIDE DEF Sizes
  <2> QED BY <1>2, LeastNumber
<1>4. PICK T \in SUBSET S : T \notin P /\ Cardinality(T) = n
  BY <1>3
<1>5. ASSUME NEW x \in T  PROVE T \ {x} \in P
  <2>1. T \ {x} \in SUBSET S /\ Cardinality(T \ {x}) = n - 1 /\ n \in Nat /\ n - 1 \in Nat
    <3>1. IsFiniteSet(T)
      BY <1>1, <1>4
    <3>2. Cardinality(T \ {x}) = Cardinality(T) - 1
      BY <3>1, FS_RemoveElement
    <3>3. T \ {x} \in SUBSET S
      BY <1>4
    <3> QED BY <1>1, <1>4, <3>2, <3>3
  <2>2. n - 1 \notin Sizes
    BY <1>3, <2>1
  <2> QED BY <2>1, <2>2
<1> QED BY <1>4, <1>5

-----------------------------------------------------------------------------
\* What SumFunctionOnSet makes of a set, given what it made of smaller ones.
SumStep(f, g, T) ==
  IF T = {} THEN 0
  ELSE f[CHOOSE x \in T : TRUE] + g[T \ {CHOOSE x \in T : TRUE}]
Sums(f, S, g) == g = [T \in SUBSET S |-> SumStep(f, g, T)]

\* The recursive function of the definition exists.
LEMMA SumDefined ==
  ASSUME NEW S, IsFiniteSet(S), NEW f
  PROVE  \E g : Sums(f, S, g) /\ SumFunctionOnSet(f, S) = g[S]
<1> DEFINE Small(n) == {T \in SUBSET S : Cardinality(T) <= n}
           Fits(n) == \E g : g = [T \in Small(n) |-> SumStep(f, g, T)]
<1>1. \A T \in SUBSET S : IsFiniteSet(T) /\ Cardinality(T) \in Nat
  BY FS_Subset, FS_CardinalityType
<1>2. Fits(0)
  <2>1. \A T \in Small(0) : T = {}
    BY <1>1, FS_EmptySet
  <2> DEFINE z == [T \in Small(0) |-> 0]
  <2>2. z = [T \in Small(0) |-> SumStep(f, z, T)]
    BY <2>1 DEF SumStep
  <2> QED BY <2>2
<1>3. ASSUME NEW n \in Nat, Fits(n)  PROVE Fits(n + 1)
  <2>1. PICK g : g = [T \in Small(n) |-> SumStep(f, g, T)]
    BY <1>3
  <2> DEFINE h == [T \in Small(n + 1) |-> SumStep(f, g, T)]
  <2>2. \A T \in Small(n) : T \in Small(n + 1) /\ h[T] = g[T]
    <3> SUFFICES ASSUME NEW T \in Small(n) PROVE T \in Small(n + 1) /\ h[T] = g[T]
      OBVIOUS
    <3>1. T \in Small(n + 1)
      BY <1>1
    <3>2. g[T] = SumStep(f, g, T)
      BY <2>1
    <3> QED BY <3>1, <3>2
  <2>3. ASSUME NEW T \in Small(n + 1)  PROVE SumStep(f, g, T) = SumStep(f, h, T)
    <3>1. CASE T = {}
      BY <3>1 DEF SumStep
    <3>2. CASE T # {}
      <4>1. PICK x : x = CHOOSE y \in T : TRUE
        OBVIOUS
      <4>2. x \in T
        BY <3>2, <4>1
      <4>3. T \ {x} \in Small(n)
        BY <1>1, <4>2, FS_RemoveElement
      <4>4. h[T \ {x}] = g[T \ {x}]
        BY <2>2, <4>3
      <4> HIDE DEF h
      <4> QED BY <4>1, <4>4 DEF SumStep
    <3> QED BY <3>1, <3>2
  <2>4. h = [T \in Small(n + 1) |-> SumStep(f, h, T)]
    BY <2>3
  <2> QED BY <2>4
<1>4. Fits(Cardinality(S))
  <2> DEFINE Unfit == {n \in Nat : ~ Fits(n)}
  <2> HIDE DEF Fits
  <2> SUFFICES ASSUME Unfit # {}  PROVE FALSE
    BY <1>1
  <2>1. PICK n \in Unfit : \A m \in Unfit : n <= m
    <3>1. Unfit \in SUBSET Nat
      OBVIOUS
    <3> HIDE DEF Unfit
    <3> QED BY <3>1, LeastNumber
  <2>2. n \in Nat /\ n # 0
    BY <1>2, <2>1
  <2>3. n - 1 \in Nat /\ n - 1 \notin Unfit
    BY <2>1, <2>2
  <2>4. Fits((n - 1) + 1)
    BY <1>3, <2>3
  <2> QED BY <2>1, <2>2, <2>4
<1>5. Small(Cardinality(S)) = SUBSET S
  BY <1>1, FS_Subset
<1>6. \E g : Sums(f, S, g)
  BY <1>4, <1>5 DEF Sums
<1> DEFINE c == CHOOSE g : Sums(f, S, g)
<1>7. Sums(f, S, c)
  BY <1>6
<1>8. SumFunctionOnSet(f, S) = c[S]
  BY DEF SumFunctionOnSet, FoldFunctionOnSet, MapThenFoldSet, Sums, SumStep
<1> QED BY <1>7, <1>8

\* And there is but one, whatever set it goes up to.
LEMMA SumUnique ==
  ASSUME NEW S, IsFiniteSet(S), NEW R \in SUBSET S, NEW f, NEW g, Sums(f, S, g)
  PROVE  SumFunctionOnSet(f, R) = g[R]
<1>1. IsFiniteSet(R)
  BY FS_Subset
<1>2. PICK h : Sums(f, R, h) /\ SumFunctionOnSet(f, R) = h[R]
  BY <1>1, SumDefined
<1> DEFINE P == {T \in SUBSET R : g[T] = h[T]}
<1>3. \A T \in SUBSET R : h[T] = SumStep(f, h, T) /\ g[T] = SumStep(f, g, T)
  <2>1. \A T \in SUBSET R : h[T] = SumStep(f, h, T)
    BY <1>2 DEF Sums
  <2>2. \A T \in SUBSET S : g[T] = SumStep(f, g, T)
    BY DEF Sums
  <2> QED BY <2>1, <2>2
<1>4. {} \in P
  BY <1>3 DEF SumStep
<1>5. ASSUME NEW T \in SUBSET R, T # {}, \A x \in T : T \ {x} \in P  PROVE T \in P
  <2>1. PICK x : x = CHOOSE y \in T : TRUE
    OBVIOUS
  <2>2. x \in T
    BY <1>5, <2>1
  <2>3. g[T \ {x}] = h[T \ {x}]
    BY <1>5, <2>2
  <2>4. g[T] = f[x] + g[T \ {x}] /\ h[T] = f[x] + h[T \ {x}]
    BY <1>3, <1>5, <2>1 DEF SumStep
  <2> QED BY <2>3, <2>4
<1>6. R \in P
  <2> HIDE DEF P
  <2> QED BY <1>1, <1>4, <1>5, SubsetsOneByOne
<1> QED BY <1>2, <1>6

LEMMA SumEmpty == ASSUME NEW f PROVE SumFunctionOnSet(f, {}) = 0
<1>1. PICK g : Sums(f, {}, g) /\ SumFunctionOnSet(f, {}) = g[{}]
  BY SumDefined, FS_EmptySet
<1> QED BY <1>1 DEF Sums, SumStep

\* A sum of natural numbers is one, and takes its terms in any order.
LEMMA SumTakes ==
  ASSUME NEW S, IsFiniteSet(S), NEW f \in [S -> Nat]
  PROVE  \A T \in SUBSET S :
           /\ SumFunctionOnSet(f, T) \in Nat
           /\ \A x \in T : SumFunctionOnSet(f, T) = f[x] + SumFunctionOnSet(f, T \ {x})
<1>1. PICK g : Sums(f, S, g)
  BY SumDefined
<1>2. \A T \in SUBSET S : SumFunctionOnSet(f, T) = g[T] /\ g[T] = SumStep(f, g, T)
  <2>1. \A T \in SUBSET S : SumFunctionOnSet(f, T) = g[T]
    BY <1>1, SumUnique
  <2>2. \A T \in SUBSET S : g[T] = SumStep(f, g, T)
    BY <1>1 DEF Sums
  <2> QED BY <2>1, <2>2
<1>3. \A T \in SUBSET S : g[T] \in Nat
  <2> DEFINE P == {T \in SUBSET S : g[T] \in Nat}
  <2>1. {} \in P
    <3>1. g[{}] = SumStep(f, g, {})
      BY <1>2
    <3>2. g[{}] = 0
      BY <3>1 DEF SumStep
    <3> QED BY <3>2
  <2>2. ASSUME NEW T \in SUBSET S, T # {}, \A x \in T : T \ {x} \in P  PROVE T \in P
    <3>1. PICK c : c = CHOOSE y \in T : TRUE
      OBVIOUS
    <3>2. c \in T
      BY <2>2, <3>1
    <3>3. g[T] = f[c] + g[T \ {c}]
      BY <1>2, <2>2, <3>1 DEF SumStep
    <3> QED BY <2>2, <3>2, <3>3
  <2>3. \A T \in SUBSET S : T \in P
    <3> HIDE DEF P
    <3> QED BY <2>1, <2>2, SubsetsOneByOne
  <2> QED BY <2>3
<1>4. \A T \in SUBSET S : \A x \in T : g[T] = f[x] + g[T \ {x}]
  <2> DEFINE P == {T \in SUBSET S : \A x \in T : g[T] = f[x] + g[T \ {x}]}
  <2>1. {} \in P
    OBVIOUS
  <2>2. ASSUME NEW T \in SUBSET S, T # {}, \A x \in T : T \ {x} \in P  PROVE T \in P
    <3>1. PICK c : c = CHOOSE y \in T : TRUE
      OBVIOUS
    <3>2. c \in T
      BY <2>2, <3>1
    <3>3. g[T] = f[c] + g[T \ {c}]
      BY <1>2, <2>2, <3>1 DEF SumStep
    <3>4. ASSUME NEW x \in T, x # c  PROVE g[T] = f[x] + g[T \ {x}]
      <4>1. c \in T \ {x} /\ x \in T \ {c}
        BY <3>2, <3>4
      <4>2. PICK R \in SUBSET S : R = (T \ {c}) \ {x} /\ R = (T \ {x}) \ {c}
        OBVIOUS
      <4>3. g[T \ {c}] = f[x] + g[R] /\ g[T \ {x}] = f[c] + g[R]
        BY <2>2, <3>2, <4>1, <4>2
      <4>4. g[R] \in Nat /\ f[x] \in Nat /\ f[c] \in Nat
        BY <1>3, <3>2
      <4> QED BY <3>3, <4>3, <4>4
    <3> QED BY <3>3, <3>4
  <2>3. \A T \in SUBSET S : T \in P
    <3> HIDE DEF P
    <3> QED BY <2>1, <2>2, SubsetsOneByOne
  <2> QED BY <2>3
<1> QED BY <1>2, <1>3, <1>4

\* A sum does not grow when each of its terms other than 0 is put against one of
\* another sum that is as large, and no two against the same.
LEMMA SumInto ==
  ASSUME NEW S, IsFiniteSet(S), NEW f \in [S -> Nat],
         NEW T, IsFiniteSet(T), NEW g \in [T -> Nat],
         NEW h \in [{x \in S : f[x] # 0} -> T],
         \A x, y \in {z \in S : f[z] # 0} : x # y => h[x] # h[y],
         \A x \in {z \in S : f[z] # 0} : f[x] <= g[h[x]]
  PROVE  SumFunctionOnSet(f, S) <= SumFunctionOnSet(g, T)
<1> DEFINE Terms(R) == {x \in R : f[x] # 0}
           Met(R) == {h[x] : x \in Terms(R)}
           P == {R \in SUBSET S : \A Q \in SUBSET T :
                   Met(R) \subseteq Q => SumFunctionOnSet(f, R) <= SumFunctionOnSet(g, Q)}
<1>1. \A Q \in SUBSET T : SumFunctionOnSet(g, Q) \in Nat
  BY SumTakes
<1>2. {} \in P
  BY <1>1, SumEmpty
<1>3. ASSUME NEW R \in SUBSET S, R # {}, \A x \in R : R \ {x} \in P  PROVE R \in P
  <2> SUFFICES ASSUME NEW Q \in SUBSET T, Met(R) \subseteq Q
               PROVE  SumFunctionOnSet(f, R) <= SumFunctionOnSet(g, Q)
    BY Zenon
  <2>1. PICK x \in R : TRUE
    BY <1>3
  <2>2. SumFunctionOnSet(f, R) = f[x] + SumFunctionOnSet(f, R \ {x})
    BY <2>1, SumTakes
  <2>3. SumFunctionOnSet(f, R \ {x}) \in Nat /\ f[x] \in Nat
    BY SumTakes
  <2>4. R \ {x} \in P
    BY <1>3
  <2>5. CASE f[x] = 0
    <3>1. Met(R \ {x}) \subseteq Q
      OBVIOUS
    <3>2. SumFunctionOnSet(f, R \ {x}) <= SumFunctionOnSet(g, Q)
      BY <2>4, <3>1
    <3> QED BY <2>2, <2>3, <2>5, <3>2
  <2>6. CASE f[x] # 0
    <3>1. h[x] \in Q /\ f[x] <= g[h[x]] /\ g[h[x]] \in Nat
      BY <2>6
    <3>2. Met(R \ {x}) \subseteq Q \ {h[x]}
      BY <2>6
    <3>3. SumFunctionOnSet(f, R \ {x}) <= SumFunctionOnSet(g, Q \ {h[x]})
      BY <2>4, <3>2
    <3>4. /\ SumFunctionOnSet(g, Q) = g[h[x]] + SumFunctionOnSet(g, Q \ {h[x]})
          /\ SumFunctionOnSet(g, Q \ {h[x]}) \in Nat
      BY <3>1, SumTakes
    <3> QED BY <2>2, <2>3, <3>1, <3>3, <3>4
  <2> QED BY <2>5, <2>6
<1>4. S \in P
  <2> HIDE DEF P
  <2> QED BY <1>2, <1>3, SubsetsOneByOne
<1>5. Met(S) \subseteq T
  OBVIOUS
<1> QED BY <1>4, <1>5

-----------------------------------------------------------------------------
(* The token sum.                                                          *)

\* The ids of a plan are its own: with an id twice the later step's count
\* replaces the earlier one's.
DistinctSteps == \A i, j \in Positions : Step(i) = Step(j) => i = j

\* A row holds nothing yet or the count of the result of its step, and holds
\* that before the completion of the step is out.
Counted ==
  /\ \A i \in Positions : stepTokens[Step(i)] \in {0, Usage(i)}
  /\ \A i \in Positions :
       Published(i) \/ (pc = "emit" /\ i = pos) => stepTokens[Step(i)] = Usage(i)
  /\ \A s \in StepIds : stepTokens[s] # 0 => \E i \in Positions : Step(i) = s

LEMMA UsageShape ==
  ASSUME Shape, NEW i \in Positions
  PROVE  Usage(i) \in Nat /\ (memo[i] # "done" => Usage(i) = 0)
BY EngineAssumption DEF Shape, TypeOK, EngineTypeOK, Usage

\* A step that leaves the rows, publishes no completion of a step and changes no
\* result keeps the count.
LEMMA CountedKept ==
  ASSUME Shape, Counted, UNCHANGED stepTokens,
         \A i \in Positions : Usage(i)' = Usage(i),
         \A i \in Positions : Published(i)' => Published(i),
         pc' = "emit" => pc = "emit" /\ pos' = pos
  PROVE  Counted'
BY DEF Counted

LEMMA CountedStep ==
  ASSUME Shape, Working, DistinctSteps, Counted, [Next]_vars
  PROVE  Counted'
<1> USE DEF Shape, TypeOK
<1>1. Len(Plan) \in Nat \ {0} /\ Positions = 1..Len(Plan) /\ JobLevel \notin Positions
  BY PlanShape DEF Positions, JobLevel
<1>2. \A i \in Positions : Step(i) \in StepIds
  BY PlanShape
<1>3. pc \in AtStep => pos \in Positions
  BY DEF InPlan
<1>4. CASE ~Worker
  <2>1. GateWalk
    BY DEF Working, Gates
  <2>2. UNCHANGED workerVars /\ UNCHANGED memo
    BY <1>4, <2>1, OutsideTheWorker
  <2>3. UNCHANGED memoUsage /\ UNCHANGED stepTokens
    BY <1>4 DEF Next, Submit, SubmitJob, Process, ProcessSignal, Expire, ExpireWait, vars,
             runVars, storeVars, Route, RouteNext, RouteStep,
             RefuseUnknownJob, ReceiveApproval, ReadSpend, ClaimMismatch, ClaimCommit,
             ClaimFails, ConsumeTargets, ConsumePending, AuditDecisions, SendDecision,
             SendFails, WebCrash
  <2> QED BY <2>2, <2>3, CountedKept DEF workerVars, Usage, Published
<1>5. CASE Worker /\ RecordUsage
  <2>1. /\ pc = "record" /\ pc' = "emit" /\ pos' = pos /\ pos \in Positions
        /\ UNCHANGED emitted /\ UNCHANGED memo /\ UNCHANGED memoUsage /\ memo[pos] = "done"
    BY <1>3, <1>5 DEF RecordUsage, GoTo, AtStep, runVars, Working, Progress, Walked
  <2>2. \A i \in Positions : Usage(i)' = Usage(i) /\ Usage(i) \in Nat
    BY <2>1, UsageShape DEF Usage
  <2>3. /\ stepTokens'[Step(pos)] = Usage(pos)
        /\ \A s \in StepIds \ {Step(pos)} : stepTokens'[s] = stepTokens[s]
    <3>1. CASE memoUsage[pos] = NoUsage
      <4>1. Usage(pos) = 0 /\ UNCHANGED stepTokens
        BY <1>5, <3>1 DEF RecordUsage, storeVars, Usage
      <4>2. stepTokens[Step(pos)] \in {0, Usage(pos)}
        BY <2>1 DEF Counted
      <4> QED BY <4>1, <4>2
    <3>2. CASE memoUsage[pos] # NoUsage
      <4>1. Usage(pos) = memoUsage[pos]
        BY <2>1, <3>2 DEF Usage
      <4>2. stepTokens' = [stepTokens EXCEPT ![Step(pos)] = memoUsage[pos]]
        BY <1>5, <3>2 DEF RecordUsage, RecordStepUsage
      <4>3. Step(pos) \in StepIds /\ DOMAIN stepTokens = StepIds
        BY <1>2, <2>1 DEF StoreTypeOK
      <4> QED BY <4>1, <4>2, <4>3
    <3> QED BY <3>1, <3>2
  <2>4. \A i \in Positions : i # pos => stepTokens'[Step(i)] = stepTokens[Step(i)]
    BY <1>2, <2>1, <2>3 DEF DistinctSteps
  <2>5. \A i \in Positions : Published(i)' <=> Published(i)
    BY <2>1 DEF Published
  <2>6. \A i \in Positions : stepTokens'[Step(i)] \in {0, Usage(i)'}
    BY <2>2, <2>3, <2>4 DEF Counted
  <2>7. \A i \in Positions :
          Published(i)' \/ (pc' = "emit" /\ i = pos') => stepTokens'[Step(i)] = Usage(i)'
    BY <2>1, <2>2, <2>3, <2>4, <2>5 DEF Counted
  <2>8. \A s \in StepIds : stepTokens'[s] # 0 => \E i \in Positions : Step(i) = s
    BY <2>1, <2>3 DEF Counted
  <2> QED BY <2>6, <2>7, <2>8 DEF Counted
<1>6. CASE Worker /\ CompleteStep
  <2>1. /\ pc = "emit" /\ pc' = "top" /\ Emit("completion", pos)
        /\ UNCHANGED stepTokens /\ UNCHANGED memo /\ UNCHANGED memoUsage
    BY <1>6 DEF CompleteStep, GoTo, storeVars, runVars
  <2>2. \A i \in Positions : Published(i)' => Published(i) \/ i = pos
    BY <2>1 DEF Published, Emit
  <2>3. \A i \in Positions : Usage(i)' = Usage(i)
    BY <2>1 DEF Usage
  <2> QED BY <2>1, <2>2, <2>3 DEF Counted
<1>7. CASE Worker /\ \E usage \in Usages \cup {NoUsage} : CheckpointResult(usage)
  <2>1. PICK usage \in Usages \cup {NoUsage} : CheckpointResult(usage)
    BY <1>7
  <2>2. /\ pc = "called" /\ pc' = "idle" /\ memo[pos] = "none" /\ pos \in Positions
        /\ UNCHANGED emitted /\ UNCHANGED stepTokens
    BY <1>3, <2>1 DEF CheckpointResult, EndInvocation, GoTo, storeVars, AtStep, Working,
                      Progress, Walked
  <2>3. \A i \in Positions : i # pos => Usage(i)' = Usage(i)
    BY <2>1 DEF CheckpointResult, Checkpoint, Usage, EngineTypeOK
  <2>4. Usage(pos) = 0 /\ ~Published(pos)
    BY <2>2 DEF Usage, Working, Progress, InOrder
  <2>5. stepTokens[Step(pos)] = 0
    BY <2>2, <2>4 DEF Counted
  <2>6. \A i \in Positions : Published(i)' <=> Published(i)
    BY <2>2 DEF Published
  <2>7. \A i \in Positions : stepTokens'[Step(i)] \in {0, Usage(i)'}
    BY <2>2, <2>3, <2>5 DEF Counted
  <2>8. \A i \in Positions :
          Published(i)' \/ (pc' = "emit" /\ i = pos') => stepTokens'[Step(i)] = Usage(i)'
    BY <2>2, <2>3, <2>4, <2>6 DEF Counted
  <2>9. \A s \in StepIds : stepTokens'[s] # 0 => \E i \in Positions : Step(i) = s
    BY <2>2 DEF Counted
  <2> QED BY <2>7, <2>8, <2>9 DEF Counted
<1>8. CASE Worker /\ StepThrows
  <2>1. memo[pos] = "none" /\ pos \in Positions
    BY <1>3, <1>8 DEF StepThrows, AtStep, Working, Progress, Walked
  <2>2. UNCHANGED memoUsage /\ UNCHANGED stepTokens /\ UNCHANGED emitted /\ pc' = "idle"
    BY <1>8 DEF StepThrows, FailStep, EndInvocation, GoTo, storeVars
  <2>3. memo' = memo \/ memo' = [memo EXCEPT ![pos] = "failed"]
    BY <1>8 DEF StepThrows, FailStep
  <2>4. \A i \in Positions : Usage(i)' = Usage(i)
    BY <2>1, <2>2, <2>3 DEF Usage, EngineTypeOK
  <2> QED BY <2>2, <2>4, CountedKept DEF Published
<1>9. CASE Worker /\ CompletePlan
  <2>1. /\ pc' = "return" /\ Emit("completion", JobLevel)
        /\ UNCHANGED stepTokens /\ UNCHANGED memo /\ UNCHANGED memoUsage
    BY <1>9 DEF CompletePlan, GoTo, storeVars, runVars
  <2>2. \A i \in Positions : Published(i)' => Published(i)
    BY <1>1, <2>1 DEF Published, Emit
  <2> QED BY <2>1, <2>2, CountedKept DEF Usage
<1>10. CASE Worker /\ (StartStep \/ RethrowError)
  <2>1. /\ pc' # "emit" /\ (Emit("step-start", pos) \/ Emit("error", pos))
        /\ UNCHANGED stepTokens /\ UNCHANGED memo /\ UNCHANGED memoUsage
    BY <1>10 DEF StartStep, RethrowError, GoTo, EndInvocation, SetRun, FailBody, storeVars,
                 runVars
  <2>2. \A i \in Positions : Published(i)' => Published(i)
    BY <2>1 DEF Published, Emit
  <2> QED BY <2>1, <2>2, CountedKept DEF Usage
<1>11. CASE Worker /\ (\/ BeginInvocation \/ InsertJobRow \/ DenyMisconfigured \/ RegisterStep
                       \/ AskForApproval \/ ParkRun \/ PassGate \/ ReplayStep
                       \/ CallSpecialist \/ VerifyDocument \/ ReturnResults \/ DatabaseFails
                       \/ WorkerCrash)
  <2>1. /\ pc' # "emit" /\ UNCHANGED emitted
        /\ UNCHANGED stepTokens /\ UNCHANGED memo /\ UNCHANGED memoUsage
    BY <1>11 DEF BeginInvocation, InsertJobRow, InsertJob, DenyMisconfigured, RegisterStep,
                 RegisterPending, AskForApproval, ParkRun, OpenWait, PassGate, ReplayStep,
                 CallSpecialist, VerifyDocument, ReturnResults, DatabaseFails, WorkerCrash,
                 GoTo, EndInvocation, SetRun, FailBody, storeVars, runVars
  <2> QED BY <2>1, CountedKept DEF Usage, Published
<1> QED BY <1>4, <1>5, <1>6, <1>7, <1>8, <1>9, <1>10, <1>11
        DEF Worker, WorkerNext, WorkerStep

\* A row holds the token count of its step's result, or nothing yet.
THEOREM CountedInvariant == ASSUME DistinctSteps PROVE Spec => []Counted
<1>1. Init => Counted
  <2> SUFFICES ASSUME Init  PROVE Counted
    OBVIOUS
  <2>1. pc = "idle" /\ emitted = {} /\ \A s \in StepIds : stepTokens[s] = 0
    BY DEF Init, WorkerInit, StoreInit
  <2>2. \A i \in Positions : Step(i) \in StepIds
    BY PlanShape
  <2> QED BY <2>1, <2>2 DEF Counted, Published
<1>2. Shape /\ Working /\ Counted /\ [Next]_vars => Counted'
  BY CountedStep
<1> QED BY <1>1, <1>2, ShapeInvariant, WorkingInvariant, PTL DEF Spec

\* What the budget is judged by has every completed step in full and none twice,
\* however often its completion is replayed, if the ids of the plan are its own
\* (recordStepUsage sets the count of a row, it does not add to it).
THEOREM SpendingIsExact == ASSUME DistinctSteps, IsFiniteSet(StepIds) PROVE Spec => []SpendIsExact
<1>1. Shape /\ Counted => SpendIsExact
  <2> SUFFICES ASSUME Shape, Counted  PROVE SpendIsExact
    OBVIOUS
  <2>1. Len(Plan) \in Nat /\ Positions = 1..Len(Plan)
    BY PlanShape DEF Positions
  <2>2. IsFiniteSet(Positions) /\ IsFiniteSet(Completed)
    <3>1. IsFiniteSet(Positions)
      BY <2>1, FS_Interval
    <3>2. Completed \subseteq Positions
      BY DEF Completed
    <3> QED BY <3>1, <3>2, FS_Subset
  <2>3. \A i \in Positions : Step(i) \in StepIds /\ Usage(i) \in Nat
    BY PlanShape, UsageShape
  <2>4. stepTokens \in [StepIds -> Nat]
    BY DEF Shape, TypeOK, StoreTypeOK
  <2>5. Spent = SumFunctionOnSet(stepTokens, StepIds)
    BY <2>4 DEF Spent, SumFunction
  <2> DEFINE of(S) == [i \in S |-> Usage(i)]
  <2>6. \A S : UsageOver(S) = SumFunctionOnSet(of(S), S)
    BY DEF UsageOver, SumFunction
  <2>7. UsageOver(Completed) <= Spent
    <3> DEFINE f == of(Completed)
               h == [i \in {j \in Completed : f[j] # 0} |-> Step(i)]
    <3>1. f \in [Completed -> Nat]
      BY <2>3 DEF Completed
    <3>2. h \in [{j \in Completed : f[j] # 0} -> StepIds]
      BY <2>3 DEF Completed
    <3>3. \A x, y \in {z \in Completed : f[z] # 0} : x # y => h[x] # h[y]
      BY DEF DistinctSteps, Completed
    <3>4. \A x \in {z \in Completed : f[z] # 0} : f[x] <= stepTokens[h[x]]
      <4> SUFFICES ASSUME NEW x \in Completed  PROVE Usage(x) <= stepTokens[Step(x)]
        OBVIOUS
      <4>1. x \in Positions /\ Published(x)
        BY DEF Completed, Published
      <4>2. stepTokens[Step(x)] = Usage(x) /\ Usage(x) \in Nat
        BY <2>3, <4>1 DEF Counted
      <4> QED BY <4>2
    <3> HIDE DEF f, h
    <3>5. SumFunctionOnSet(f, Completed) <= SumFunctionOnSet(stepTokens, StepIds)
      BY <2>2, <2>4, <3>1, <3>2, <3>3, <3>4, SumInto
    <3> QED BY <2>5, <2>6, <3>5 DEF f
  <2>8. Spent <= UsageOver(Positions)
    <3> DEFINE g == of(Positions)
               Full == {s \in StepIds : stepTokens[s] # 0}
               h == [s \in Full |-> CHOOSE i \in Positions : Step(i) = s]
    <3>1. g \in [Positions -> Nat]
      BY <2>3
    <3>2. \A s \in Full : h[s] \in Positions /\ Step(h[s]) = s
      BY DEF Counted
    <3>3. h \in [Full -> Positions]
      BY <3>2
    <3>4. \A x, y \in Full : x # y => h[x] # h[y]
      BY <3>2
    <3>5. \A s \in Full : stepTokens[s] <= g[h[s]]
      <4> SUFFICES ASSUME NEW s \in Full  PROVE stepTokens[s] <= Usage(h[s])
        BY <3>2
      <4>1. stepTokens[Step(h[s])] = Usage(h[s])
        BY <3>2 DEF Counted
      <4>2. Usage(h[s]) \in Nat
        BY <2>3, <3>2
      <4>3. Step(h[s]) = s
        BY <3>2
      <4> HIDE DEF h
      <4> QED BY <4>1, <4>2, <4>3
    <3> HIDE DEF g, h
    <3>6. SumFunctionOnSet(stepTokens, StepIds) <= SumFunctionOnSet(g, Positions)
      BY <2>2, <2>4, <3>1, <3>3, <3>4, <3>5, SumInto
    <3> QED BY <2>5, <2>6, <3>6 DEF g
  <2> QED BY <2>7, <2>8 DEF SpendIsExact
<1> QED BY <1>1, ShapeInvariant, CountedInvariant, PTL
=============================================================================
