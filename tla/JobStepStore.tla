--------------------------- MODULE JobStepStore ---------------------------
(***************************************************************************)
(* The rows Postgres keeps for one durable job: the `job` ownership row    *)
(* and the `job_step` rows (apps/worker/src/stores.ts over                 *)
(* packages/db/src/schema.ts).  Each operator below is one statement or    *)
(* one committed transaction of the store; who calls it, and what happens  *)
(* between two calls, is the business of the modules that extend this one. *)
(***************************************************************************)
EXTENDS Workflow, Functions, FiniteSets

VARIABLES
  jobRow,           \* has the ownership row of the job been inserted?
  approvalState,    \* per step: absent (no row), null, pending, consumed
  stepTokens        \* per step: the total_tokens column

storeVars == <<jobRow, approvalState, stepTokens>>

ApprovalStates == {"absent", "null", "pending", "consumed"}

StoreTypeOK ==
  /\ jobRow \in BOOLEAN
  /\ approvalState \in [StepIds -> ApprovalStates]
  /\ stepTokens \in [StepIds -> Nat]

StoreInit ==
  /\ jobRow = FALSE
  /\ approvalState = [s \in StepIds |-> "absent"]
  /\ stepTokens = [s \in StepIds |-> 0]

\* INSERT ... ON CONFLICT (id) DO NOTHING.
InsertJob ==
  /\ jobRow' = TRUE
  /\ UNCHANGED <<approvalState, stepTokens>>

\* Mutant: the conflict clause overwrites the row.
RegisterPendingUpsert(s) ==
  /\ approvalState' = [approvalState EXCEPT ![s] = "pending"]
  /\ UNCHANGED <<jobRow, stepTokens>>

\* INSERT ... ON CONFLICT DO NOTHING: only an absent row becomes pending, so
\* a replay of the function body never reopens a consumed step.
RegisterPending(s) ==
  /\ approvalState' =
       [approvalState EXCEPT ![s] = IF @ = "absent" THEN "pending" ELSE @]
  /\ UNCHANGED <<jobRow, stepTokens>>

\* Mutant: the count is added to the row instead of replacing it.
RecordStepUsageIncrement(s, tokens) ==
  /\ stepTokens' = [stepTokens EXCEPT ![s] = @ + tokens]
  /\ UNCHANGED <<jobRow, approvalState>>

\* Upsert of the absolute count; a row it creates has no approval state.
RecordStepUsage(s, tokens) ==
  /\ stepTokens' = [stepTokens EXCEPT ![s] = tokens]
  /\ approvalState' =
       [approvalState EXCEPT ![s] = IF @ = "absent" THEN "null" ELSE @]
  /\ UNCHANGED jobRow

\* The first statement of claimPending: sum(total_tokens) over the job.
Spent == SumFunction(stepTokens)

\* The rows the conditional UPDATE of claimPending matches.
PendingAmong(S) == {s \in S : approvalState[s] = "pending"}

\* A claim commits only when every requested row matched; ClaimMismatchError
\* rolls any other transaction back.
ConsumePending(S) ==
  /\ approvalState' =
       [s \in StepIds |-> IF s \in S THEN "consumed" ELSE approvalState[s]]
  /\ UNCHANGED <<jobRow, stepTokens>>
===========================================================================
