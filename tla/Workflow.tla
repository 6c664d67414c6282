----------------------------- MODULE Workflow -----------------------------
(***************************************************************************)
(* The wire contract the web tier, the worker and the engine share         *)
(* (packages/schemas/src/workflows.ts): the supervisor plan of one job and *)
(* the approval decisions an operator may send about its steps.            *)
(***************************************************************************)
EXTENDS Naturals, Sequences

CONSTANTS
  StepIds,     \* the step ids that exist (uuids in the code)
  Plan,        \* the plan: a sequence of [step, kind, own]
  Edits,       \* the edited arguments an operator may send
  BadEdits,    \* those of them that specialistInputSchema rejects
  NoEdit,      \* an approval that leaves the arguments alone
  NoStep       \* names no step: the null decision carries it

Kinds == {"rag-research", "document-generation", "data-processing"}

\* `own` tells whether a document-generation task carries its own citations.
PlanSteps == [step : StepIds, kind : Kinds, own : BOOLEAN]

\* workflowStepSchema does not ask the step ids of a plan to be distinct, and
\* neither does this assumption.
ASSUME WorkflowAssumption ==
  /\ Plan \in Seq(PlanSteps)
  /\ Plan # << >>
  /\ BadEdits \subseteq Edits
  /\ NoEdit \notin Edits
  /\ NoStep \notin StepIds

Positions == 1..Len(Plan)
Step(i) == Plan[i].step

Decisions == [step : StepIds, approve : BOOLEAN, edit : Edits \cup {NoEdit}]
NoDecision == [step |-> NoStep, approve |-> FALSE, edit |-> NoEdit]
===========================================================================
