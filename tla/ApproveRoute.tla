--------------------------- MODULE ApproveRoute ---------------------------
(***************************************************************************)
(* POST /api/jobs/:id/approve, the route by which an operator decides the  *)
(* pending steps of a job, with the helpers of apps/web/src/lib/approvals. *)
(* A request is one call of the handler: it reads, claims, audits and then *)
(* sends its decisions one by one, and other requests, the worker and the  *)
(* engine move between any two of its awaits.  A request may also die      *)
(* there with the process that serves it.                                  *)
(*                                                                         *)
(* The callers modelled are those authorizeJobAccess lets through once the *)
(* job has an ownership row.                                               *)
(***************************************************************************)
EXTENDS JobStepStore, ApprovalEvents

CONSTANTS
  Requests,      \* calls of the route
  NoRequest,     \* the claimant of a row nobody claimed
  Bodies,        \* the bodies a caller may post: [form, decisions]
  TokenBudget    \* JOB_TOKEN_BUDGET

\* approvalRequestSchema: the single form holds one decision, the set form
\* at least one.
ASSUME RouteAssumption ==
  /\ NoRequest \notin Requests
  /\ TokenBudget \in Nat
  /\ Bodies \subseteq [form : {"single", "set"}, decisions : Seq(Decisions)]
  /\ \A b \in Bodies : Len(b.decisions) >= 1
  /\ \A b \in Bodies : b.form = "single" => Len(b.decisions) = 1

VARIABLES
  reqPc,       \* where each request is in the handler
  body,        \* its parsed, normalised body
  spend,       \* the token sum its claim transaction read
  sentUpTo,    \* how many of its decisions it has sent
  status,      \* its HTTP answer, 0 before it has one
  auditLog,    \* approval:decision rows of the audit log: <<request, step>>
  \* history
  claimedBy    \* per step: the request whose claim consumed its row

routeVars == <<reqPc, body, spend, sentUpTo, status, auditLog, claimedBy>>

NoBody == [form |-> "set", decisions |-> << >>]

RoutePcs == {"idle", "read", "claim", "audit", "send", "done", "crashed"}

RouteTypeOK ==
  /\ reqPc \in [Requests -> RoutePcs]
  /\ body \in [Requests -> Bodies \cup {NoBody}]
  /\ DOMAIN spend = Requests     \* what Spent returns: see SpendIsExact
  /\ sentUpTo \in [Requests -> Nat]
  /\ status \in [Requests -> {0, 202, 404, 409, 429, 500}]
  /\ auditLog \subseteq Requests \X StepIds
  /\ claimedBy \in [StepIds -> Requests \cup {NoRequest}]

RouteInit ==
  /\ reqPc = [r \in Requests |-> "idle"]
  /\ body = [r \in Requests |-> NoBody]
  /\ spend = [r \in Requests |-> 0]
  /\ sentUpTo = [r \in Requests |-> 0]
  /\ status = [r \in Requests |-> 0]
  /\ auditLog = {}
  /\ claimedBy = [s \in StepIds |-> NoRequest]

Chosen(r) == body[r].decisions
Targets(r) == {Chosen(r)[k].step : k \in 1..Len(Chosen(r))}

\* findDuplicateTarget: a set that names a step twice.
HasDuplicateTarget(b) ==
  \E j, k \in 1..Len(b.decisions) :
    j < k /\ b.decisions[j].step = b.decisions[k].step

\* The sum the claim read leaves nothing of the job's budget.
OverBudget(r) == spend[r] >= TokenBudget

\* The UPDATE of the claim matched as many rows as there are decisions.
AllPending(r) == Cardinality(PendingAmong(Targets(r))) = Len(Chosen(r))

ConsumeTargets(r) ==
  /\ ConsumePending(Targets(r))
  /\ claimedBy' = [s \in StepIds |-> IF s \in Targets(r) THEN r ELSE claimedBy[s]]

Respond(r, code) ==
  /\ reqPc' = [reqPc EXCEPT ![r] = "done"]
  /\ status' = [status EXCEPT ![r] = code]

-----------------------------------------------------------------------------
\* authorizeJobAccess finds no job row yet.
RefuseUnknownJob(r, b) ==
  /\ reqPc[r] = "idle"
  /\ ~jobRow
  /\ Respond(r, 404)
  /\ body' = [body EXCEPT ![r] = b]
  /\ UNCHANGED <<spend, sentUpTo, auditLog, claimedBy, storeVars, eventVars>>

\* Parse, normalise, reject a set that names a step twice.
ReceiveApproval(r, b) ==
  /\ reqPc[r] = "idle"
  /\ jobRow
  /\ body' = [body EXCEPT ![r] = b]
  /\ IF HasDuplicateTarget(b)
       THEN Respond(r, 409)
       ELSE /\ reqPc' = [reqPc EXCEPT ![r] = "read"]
            /\ UNCHANGED status
  /\ UNCHANGED <<spend, sentUpTo, auditLog, claimedBy, storeVars, eventVars>>

\* The claim transaction reads the token sum ...
ReadSpend(r) ==
  /\ reqPc[r] = "read"
  /\ spend' = [spend EXCEPT ![r] = Spent]
  /\ reqPc' = [reqPc EXCEPT ![r] = "claim"]
  /\ UNCHANGED <<body, sentUpTo, status, auditLog, claimedBy, storeVars, eventVars>>

\* Mutant: the rows that matched stay consumed when others did not.
ClaimMismatchKeepsRows(r) ==
  LET matched == PendingAmong(Targets(r)) IN
  /\ reqPc[r] = "claim"
  /\ ~AllPending(r)
  /\ ConsumePending(matched)
  /\ claimedBy' = [s \in StepIds |-> IF s \in matched THEN r ELSE claimedBy[s]]
  /\ Respond(r, IF body[r].form = "single" THEN 404 ELSE 409)
  /\ UNCHANGED <<body, spend, sentUpTo, auditLog, eventVars>>

\* ... and updates the rows.  Fewer rows than decisions: rolled back, and the
\* caller learns only that the target is not available.
ClaimMismatch(r) ==
  /\ reqPc[r] = "claim"
  /\ ~AllPending(r)
  /\ Respond(r, IF body[r].form = "single" THEN 404 ELSE 409)
  /\ UNCHANGED <<body, spend, sentUpTo, auditLog, claimedBy, storeVars, eventVars>>

\* Mutant: the budget is not consulted.
ClaimCommitAnyBudget(r) ==
  /\ reqPc[r] = "claim"
  /\ AllPending(r)
  /\ ConsumeTargets(r)
  /\ reqPc' = [reqPc EXCEPT ![r] = "audit"]
  /\ UNCHANGED <<body, spend, sentUpTo, status, auditLog, eventVars>>

\* The rows matched and the transaction commits.  The budget is judged after
\* that: a caller over budget is refused, and its rows stay consumed.
ClaimCommit(r) ==
  /\ reqPc[r] = "claim"
  /\ AllPending(r)
  /\ ConsumeTargets(r)
  /\ IF OverBudget(r)
       THEN Respond(r, 429)
       ELSE /\ reqPc' = [reqPc EXCEPT ![r] = "audit"]
            /\ UNCHANGED status
  /\ UNCHANGED <<body, spend, sentUpTo, auditLog, eventVars>>

\* The database fails under the transaction: rolled back, or committed with
\* the acknowledgement lost.
ClaimFails(r) ==
  /\ reqPc[r] \in {"read", "claim"}
  /\ \/ UNCHANGED <<claimedBy, storeVars>>
     \/ reqPc[r] = "claim" /\ AllPending(r) /\ ConsumeTargets(r)
  /\ Respond(r, 500)
  /\ UNCHANGED <<body, spend, sentUpTo, auditLog, eventVars>>

\* recordApprovalDecisions is fail-soft, one decision at a time: whichever
\* rows the sink takes, the request goes on.
AuditDecisions(r) ==
  /\ reqPc[r] = "audit"
  /\ \E taken \in SUBSET Targets(r) : auditLog' = auditLog \cup ({r} \X taken)
  /\ reqPc' = [reqPc EXCEPT ![r] = "send"]
  /\ UNCHANGED <<body, spend, sentUpTo, status, claimedBy, storeVars, eventVars>>

\* One turn of the submit loop; the last one answers 202.
SendDecision(r) ==
  LET k == sentUpTo[r] + 1 IN
  /\ reqPc[r] = "send"
  /\ SubmitApproval(Chosen(r)[k])
  /\ sentUpTo' = [sentUpTo EXCEPT ![r] = k]
  /\ IF k = Len(Chosen(r))
       THEN Respond(r, 202)
       ELSE UNCHANGED <<reqPc, status>>
  /\ UNCHANGED <<body, spend, auditLog, claimedBy, storeVars>>

\* A send throws, before or after the engine took the event: 500, and the
\* rest of the set is never sent.
SendFails(r) ==
  LET d == Chosen(r)[sentUpTo[r] + 1] IN
  /\ reqPc[r] = "send"
  /\ SubmitApproval(d) \/ UNCHANGED eventVars
  /\ Respond(r, 500)
  /\ UNCHANGED <<body, spend, sentUpTo, auditLog, claimedBy, storeVars>>

\* The web process dies under the request.
WebCrash(r) ==
  /\ reqPc[r] \in {"read", "claim", "audit", "send"}
  /\ reqPc' = [reqPc EXCEPT ![r] = "crashed"]
  /\ UNCHANGED <<body, spend, sentUpTo, status, auditLog, claimedBy, storeVars, eventVars>>

\* The steps of the handler, without its faults.
RouteStep(r) ==
  \/ ReadSpend(r)
  \/ ClaimMismatch(r)
  \/ ClaimCommit(r)
  \/ AuditDecisions(r)
  \/ SendDecision(r)

RouteNext ==
  \E r \in Requests :
    \/ \E b \in Bodies : RefuseUnknownJob(r, b) \/ ReceiveApproval(r, b)
    \/ RouteStep(r)
    \/ ClaimFails(r)
    \/ SendFails(r)
    \/ WebCrash(r)
===========================================================================
