---------------------------- MODULE DurableJob ----------------------------
(***************************************************************************)
(* One durable job end to end: operators call the approve route, the       *)
(* worker replays the job function, the database and the engine keep what  *)
(* survives them, and each may fail between any two steps of the others.   *)
(***************************************************************************)
EXTENDS ApproveRoute, JobWorker

vars == <<storeVars, eventVars, runVars, routeVars, workerVars>>

Init ==
  /\ StoreInit
  /\ EventsInit
  /\ EngineInit
  /\ RouteInit
  /\ WorkerInit

Submit == SubmitJob /\ UNCHANGED <<storeVars, routeVars, workerVars>>
Route == RouteNext /\ UNCHANGED <<runVars, workerVars>>
Worker == WorkerNext /\ UNCHANGED routeVars
Process(d) == ProcessSignal(d) /\ UNCHANGED <<storeVars, routeVars, workerVars>>
Expire(i) == ExpireWait(i) /\ UNCHANGED <<storeVars, routeVars, workerVars>>

Next ==
  \/ Submit
  \/ Route
  \/ Worker
  \/ \E d \in signals : Process(d)
  \/ \E i \in Positions : Expire(i)

Spec == Init /\ [][Next]_vars

(***************************************************************************)
(* Fairness.  The engine invokes a queued run, processes accepted events   *)
(* and closes a wait after its 7 days; a worker that is not interrupted    *)
(* gets on (the awaits of an invocation return or throw).  Nothing is      *)
(* asked of the operators, and a fault needs no fairness: there are at     *)
(* most `retries` of them between two steps of progress.                   *)
(***************************************************************************)
Fairness ==
  /\ WF_vars(BeginInvocation /\ UNCHANGED routeVars)
  /\ WF_vars(WorkerStep /\ UNCHANGED routeVars)
  /\ WF_vars(\E d \in signals : Process(d))
  /\ \A i \in Positions : WF_vars(Expire(i))

FairSpec == Spec /\ Fairness

-----------------------------------------------------------------------------
TypeOK ==
  /\ StoreTypeOK
  /\ EventsTypeOK
  /\ EngineTypeOK
  /\ RouteTypeOK
  /\ WorkerTypeOK

\* r consumed the row of s, within budget, and decided s so.
Granted(r, s, edit) ==
  /\ claimedBy[s] = r
  /\ ~OverBudget(r)
  /\ \E k \in 1..Len(Chosen(r)) :
       Chosen(r)[k] = [step |-> s, approve |-> TRUE, edit |-> edit]

\* A specialist call for a gated step, in whichever invocation, retry or
\* replay, carries exactly the arguments of an approval that consumed the
\* row of that step within budget (createDurableStepRunner, fail-closed).
ApprovedBeforeRun ==
  \A c \in ran :
    Gated(c.pos) => \E r \in Requests : Granted(r, Step(c.pos), c.edit)

\* Every call for a position, first or repeated after a crash or a failure,
\* gets the same arguments and the same handed-over citations: dispatch
\* rebuilds them from checkpoints only.
ReplaysSameInput == \A c, d \in ran : c.pos = d.pos => c = d

\* The citations of a research step reach at most one document, the first
\* later one without citations of its own, and none of those queued by then
\* is missing (the handoffCitations reset in dispatch).
TakesHandoff(i) == Kind(i) = "document-generation" /\ ~Plan[i].own
HandoffExact ==
  \A c \in ran :
    c.cites = {j \in 1..(c.pos - 1) :
                 /\ Kind(j) = "rag-research" /\ TakesHandoff(c.pos)
                 /\ \A m \in (j + 1)..(c.pos - 1) : ~TakesHandoff(m)}

\* A consumed row is never pending again, and never changes hands: one
\* request decides a step, whatever is posted, replayed or retried later.
ConsumeOnce ==
  [][\A s \in StepIds :
       /\ approvalState[s] = "consumed" => approvalState'[s] = "consumed"
       /\ claimedBy[s] # NoRequest => claimedBy'[s] = claimedBy[s]]_vars

\* A decision of a refused request (unknown, duplicate or taken target, over
\* budget, failed transaction) never becomes an approval event, although a
\* request over budget did consume the row: an accepted event was sent by the
\* request that claimed its step.
RefusedNeverResumes ==
  \A s \in acceptedIds :
    \E r \in Requests :
      /\ claimedBy[s] = r
      /\ status[r] \notin {404, 409, 429}
      /\ ~OverBudget(r)

Usage(i) == IF memo[i] = "done" /\ memoUsage[i] # NoUsage THEN memoUsage[i] ELSE 0
UsageOver(S) == SumFunction([i \in S |-> Usage(i)])
Completed == {i \in Positions : [type |-> "completion", pos |-> i] \in emitted}

\* The token sum the budget is judged by counts every completed step in full
\* and none twice, however often its completion was replayed.
SpendIsExact ==
  /\ UsageOver(Completed) <= Spent
  /\ Spent <= UsageOver(Positions)

\* Dispatch is sequential and a denied step ends the run, so at most one row
\* is pending: a decision set of two steps is never claimed.
OneStepAtATime ==
  /\ Cardinality(PendingAmong(StepIds)) <= 1
  /\ \A r \in Requests : status[r] = 202 => Len(Chosen(r)) = 1

\* The progress stream tells the truth across replays: a completion follows
\* the checkpoint of that step and the completions of all earlier ones, the
\* job-level one follows them all, and a completed run has published it.
ProgressIsTruthful ==
  /\ \A i \in Completed : memo[i] = "done" /\ 1..i \subseteq Completed
  /\ [type |-> "completion", pos |-> JobLevel] \in emitted => Completed = Positions
  /\ runState = "completed" => [type |-> "completion", pos |-> JobLevel] \in emitted

\* Work whose completion was published is final: whatever a later replay makes of
\* the document (its verification runs again), and although the job may fail yet,
\* the checkpoint of that step never changes and its specialist is not called again.
PublishedWorkStands ==
  [][\A i \in Completed :
       /\ memo'[i] = memo[i] /\ memoUsage'[i] = memoUsage[i]
       /\ ~(pc' = "called" /\ pos' = i)]_vars

\* No path hangs in silence: a submitted job ends, even when a request
\* consumed a row and died before it sent the decision (the accepted residual
\* risk of specs/007-cross-repo-adoption-closeout/plan.md).
JobTerminates == runState = "queued" ~> Terminated

-----------------------------------------------------------------------------
(* The approval machinery implements ApprovalContract: a step is decided   *)
(* by the commit of the claim that consumes its row.                       *)

VerdictOf(s) ==
  LET r == claimedBy[s] IN
  IF r = NoRequest THEN [kind |-> "undecided", edit |-> NoEdit]
  ELSE LET k == CHOOSE k \in 1..Len(Chosen(r)) : Chosen(r)[k].step = s
           d == Chosen(r)[k] IN
       IF d.approve /\ ~OverBudget(r)
         THEN [kind |-> "approved", edit |-> d.edit]
         ELSE [kind |-> "refused", edit |-> NoEdit]

Contract == INSTANCE ApprovalContract WITH
  GatedIds <- {s \in StepIds : RequiresApproval(s)},
  Edits <- Edits \cup {NoEdit},
  verdict <- [s \in StepIds |-> VerdictOf(s)],
  executed <- {<<Step(c.pos), c.edit>> : c \in ran}

\* Every behaviour of the job is one the contract allows.
ImplementsContract == Contract!Spec

-----------------------------------------------------------------------------
(* Statements of the repository that the code does not keep; each is the   *)
(* property of a run that finds the counterexample.                        *)

\* An approval event accepted for a live run resumes the wait it names
\* (submitApproval, apps/worker/src/main.ts).
ApprovalReachesWait ==
  [][\A d \in signals \ signals' :
       Terminated \/ \E i \in Positions : wait'[i] = "answered" /\ answer'[i] = d]_vars

\* A step whose kind is flagged runs only when approved
\* (requiresApprovalForKind, apps/worker/src/main.ts).
FlaggedKindIsApproved ==
  \A c \in ran :
    Kind(c.pos) \in GatedKinds =>
      \E r \in Requests : Granted(r, Step(c.pos), c.edit)
===========================================================================
