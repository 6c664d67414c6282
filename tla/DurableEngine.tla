--------------------------- MODULE DurableEngine ---------------------------
(***************************************************************************)
(* What the worker relies on of the durable engine (Inngest; not in the    *)
(* repository), for one run of the job function that apps/worker registers *)
(* with JOB_FUNCTION_CONFIG:                                               *)
(*                                                                         *)
(*   - the function body is invoked again from its first line after every  *)
(*     checkpoint, every resumed wait and every failure;                   *)
(*   - a step.run whose result is checkpointed is answered from the        *)
(*     checkpoint; one that is not is executed, at least once;             *)
(*   - a waitForEvent sees only the events the engine processes while the  *)
(*     wait is open, and is answered from its checkpoint afterwards;       *)
(*   - a failed attempt is repeated `retries` times; the budget is counted *)
(*     afresh once the run has made progress.                              *)
(*                                                                         *)
(* Waits and checkpoints belong to a position of the plan: the engine      *)
(* numbers the occurrences of a step id that a body uses twice.            *)
(***************************************************************************)
EXTENDS ApprovalEvents

CONSTANTS
  Retries,     \* JOB_FUNCTION_CONFIG.retries
  Usages,      \* token counts a document-generation result may report
  NoUsage      \* a result without usage

ASSUME EngineAssumption ==
  /\ Retries \in Nat
  /\ Usages \subseteq Nat
  /\ NoUsage \notin Nat

VARIABLES
  runState,    \* the life of the run
  attempt,     \* failed attempts since the run last made progress
  wait,        \* per position: the state of its approval wait
  answer,      \* per position: the decision its wait was resumed with
  memo,        \* per position: the checkpoint of its step.run
  memoUsage    \* per position: the usage in the checkpointed result

runVars == <<runState, attempt, wait, answer, memo, memoUsage>>

RunStates == {"none", "queued", "executing", "suspended", "completed", "failed"}

EngineTypeOK ==
  /\ runState \in RunStates
  /\ attempt \in 0..Retries
  /\ wait \in [Positions -> {"none", "open", "answered", "expired"}]
  /\ answer \in [Positions -> Decisions \cup {NoDecision}]
  /\ memo \in [Positions -> {"none", "done", "failed"}]
  /\ memoUsage \in [Positions -> Usages \cup {NoUsage}]

EngineInit ==
  /\ runState = "none"
  /\ attempt = 0
  /\ wait = [i \in Positions |-> "none"]
  /\ answer = [i \in Positions |-> NoDecision]
  /\ memo = [i \in Positions |-> "none"]
  /\ memoUsage = [i \in Positions |-> NoUsage]

Terminated == runState \in {"completed", "failed"}

-----------------------------------------------------------------------------
\* submitJob: the event carries the job id, so a repeated submission is the
\* same event and starts nothing.
SubmitJob ==
  /\ runState = "none"
  /\ runState' = "queued"
  /\ UNCHANGED <<attempt, wait, answer, memo, memoUsage, eventVars>>

\* An accepted approval event is processed: it resumes the open wait it
\* matches, and is gone if no wait is open for it.
ProcessSignal(d) ==
  /\ d \in signals
  /\ signals' = signals \ {d}
  /\ \/ \E i \in Positions :
          /\ wait[i] = "open" /\ Step(i) = d.step
          /\ wait' = [wait EXCEPT ![i] = "answered"]
          /\ answer' = [answer EXCEPT ![i] = d]
          /\ runState' = "queued"
     \/ /\ ~ \E i \in Positions : wait[i] = "open" /\ Step(i) = d.step
        /\ UNCHANGED <<wait, answer, runState>>
  /\ UNCHANGED <<acceptedIds, attempt, memo, memoUsage>>

\* Mutant: a wait whose approval event was accepted is left open for it.
ExpireWaitUnlessAccepted(i) ==
  /\ wait[i] = "open" /\ Step(i) \notin acceptedIds
  /\ wait' = [wait EXCEPT ![i] = "expired"]
  /\ runState' = "queued"
  /\ UNCHANGED <<attempt, answer, memo, memoUsage, eventVars>>

\* The approval window closes: the wait resumes with null.
ExpireWait(i) ==
  /\ wait[i] = "open"
  /\ wait' = [wait EXCEPT ![i] = "expired"]
  /\ runState' = "queued"
  /\ UNCHANGED <<attempt, answer, memo, memoUsage, eventVars>>

-----------------------------------------------------------------------------
\* How an invocation ends, as the engine sees it; each leaves the events alone.

OpenWait(i) ==
  /\ wait' = [wait EXCEPT ![i] = "open"]
  /\ runState' = "suspended"
  /\ attempt' = 0
  /\ UNCHANGED <<answer, memo, memoUsage, eventVars>>

Checkpoint(i, usage) ==
  /\ memo' = [memo EXCEPT ![i] = "done"]
  /\ memoUsage' = [memoUsage EXCEPT ![i] = usage]
  /\ runState' = "queued"
  /\ attempt' = 0
  /\ UNCHANGED <<wait, answer, eventVars>>

\* A step.run attempt failed; out of retries, the failure is checkpointed and
\* thrown at the step the next time the body reaches it.
FailStep(i) ==
  /\ runState' = "queued"
  /\ IF attempt < Retries
       THEN attempt' = attempt + 1 /\ UNCHANGED memo
       ELSE attempt' = 0 /\ memo' = [memo EXCEPT ![i] = "failed"]
  /\ UNCHANGED <<wait, answer, memoUsage, eventVars>>

\* Mutant: one attempt too many.
FailBodyOffByOne ==
  /\ IF attempt <= Retries
       THEN attempt' = attempt + 1 /\ runState' = "queued"
       ELSE runState' = "failed" /\ UNCHANGED attempt
  /\ UNCHANGED <<wait, answer, memo, memoUsage, eventVars>>

\* The body itself threw, or its process died.
FailBody ==
  /\ IF attempt < Retries
       THEN attempt' = attempt + 1 /\ runState' = "queued"
       ELSE runState' = "failed" /\ UNCHANGED attempt
  /\ UNCHANGED <<wait, answer, memo, memoUsage, eventVars>>

SetRun(outcome) ==
  /\ runState' = outcome
  /\ UNCHANGED <<attempt, wait, answer, memo, memoUsage, eventVars>>
===========================================================================
