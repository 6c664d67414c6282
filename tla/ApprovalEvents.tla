-------------------------- MODULE ApprovalEvents --------------------------
(***************************************************************************)
(* The `job/approval` events between the web tier and the durable engine:  *)
(* submitApproval of apps/worker/src/main.ts, and the part of the engine   *)
(* (Inngest, not in the repository) that it relies on.  An event carries   *)
(* the id `<jobId>:<stepId>`; the engine drops a second event with the     *)
(* same id, and processes an accepted one some time later.                 *)
(***************************************************************************)
EXTENDS Workflow

VARIABLES
  acceptedIds,   \* event ids the engine has seen (one job: the step is enough)
  signals        \* accepted events the engine has not processed yet

eventVars == <<acceptedIds, signals>>

EventsTypeOK ==
  /\ acceptedIds \subseteq StepIds
  /\ signals \subseteq Decisions

EventsInit ==
  /\ acceptedIds = {}
  /\ signals = {}

\* engine.send({name: APPROVAL_EVENT, data: d, id: jobId:stepId}).
SubmitApproval(d) ==
  IF d.step \in acceptedIds
    THEN UNCHANGED eventVars
    ELSE /\ acceptedIds' = acceptedIds \cup {d.step}
         /\ signals' = signals \cup {d}
===========================================================================
