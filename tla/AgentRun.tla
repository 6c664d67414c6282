------------------------------ MODULE AgentRun ------------------------------
(***************************************************************************)
(* A guarded run of the chat agent (agents/guardrails.py): the loop of     *)
(* pydantic-ai, external, with its UsageLimits, around _GuardedToolset,    *)
(* which stops a call once the token budget is spent.  No caller passes an *)
(* allow-list or an approval hook.  A reply holds one part; one without    *)
(* parts makes the loop ask again.                                         *)
(***************************************************************************)
EXTENDS SessionStore

CONSTANTS
  RequestLimit,    \* usage_request_limit
  TokenLimit,      \* usage_total_tokens_limit
  ToolCallLimit,   \* usage_tool_calls_limit
  Costs            \* the tokens a model call may use

ASSUME RunAssumption ==
  RequestLimit \in Nat /\ TokenLimit \in Nat /\ ToolCallLimit \in Nat /\ Costs \subseteq Nat

VARIABLE run   \* the agent run of each turn

StopReasons == {"none", "completed", "max_iterations", "budget_exceeded"}
Stages == {"none", "request", "tool", "ended", "landed", "saved", "unsaved",
           "stopped", "failed", "cancelled"}

RunTypeOK ==
  run \in [Turns -> [stage : Stages, messages : Seq(Messages), reason : StopReasons,
                     audit : Seq(StopReasons), requests : Nat, tokens : Nat, calls : Nat]]

NewRun == [stage |-> "none", messages |-> << >>, reason |-> "none", audit |-> << >>,
           requests |-> 0, tokens |-> 0, calls |-> 0]

RunInit == run = [t \in Turns |-> NewRun]

Message(t, part, n) == [turn |-> t, part |-> part, n |-> n]

\* The run starts from the history and the new prompt.
BeginRun(t, history) ==
  run' = [run EXCEPT ![t].stage = "request",
                     ![t].messages = Append(history, Message(t, "prompt", 0))]

\* The messages and the usage of a run go with it.
Released(r, stage) ==
  [r EXCEPT !.stage = stage, !.messages = << >>, !.requests = 0, !.tokens = 0]

\* GuardedResult of a run that was stopped: a reason and the audit, no messages.
Stopped(r, reason, records) ==
  [Released(r, "stopped") EXCEPT !.reason = reason, !.audit = @ \o records]

\* Mutant: a native limit stops the run without a record.
ExceededUnrecorded(t, reason, audited) == run' = [run EXCEPT ![t] = Stopped(@, reason, << >>)]

\* UsageLimitExceeded: run_guarded records it, Agent.iter() of a stream does not.
Exceeded(t, reason, audited) ==
  run' = [run EXCEPT ![t] = Stopped(@, reason, IF audited THEN <<reason>> ELSE << >>)]

\* _GuardedToolset.call_tool refuses the call and records it.
Refused(t) == run' = [run EXCEPT ![t] = Stopped(@, "budget_exceeded", <<"budget_exceeded">>)]

\* The stage a reply leads to.
StageAfter == [text |-> "ended", call |-> "tool", empty |-> "request"]

Answered(r, t, part, cost) ==
  [r EXCEPT !.stage = StageAfter[part],
            !.reason = IF part = "text" THEN "completed" ELSE @,
            !.messages = Append(@, Message(t, part, r.requests)),
            !.requests = @ + 1,
            !.tokens = @ + cost]

AskModel(t, audited) ==
  /\ run[t].stage = "request"
  /\ IF run[t].requests >= RequestLimit
       THEN Exceeded(t, "max_iterations", audited)
       ELSE \E cost \in Costs, part \in {"text", "call", "empty"} :
              IF run[t].tokens + cost > TokenLimit
                THEN Exceeded(t, "budget_exceeded", audited)
                ELSE run' = [run EXCEPT ![t] = Answered(@, t, part, cost)]

CallTool(t, audited) ==
  /\ run[t].stage = "tool"
  /\ IF run[t].calls >= ToolCallLimit THEN Exceeded(t, "max_iterations", audited)
     ELSE IF run[t].tokens >= TokenLimit THEN Refused(t)
     ELSE run' = [run EXCEPT
                    ![t].stage = "request",
                    ![t].calls = @ + 1,
                    ![t].messages = Append(@, Message(t, "return", run[t].requests - 1))]

EndRun(t, stage) == run' = [run EXCEPT ![t] = Released(@, stage)]

\* The model or a tool raises.
RunFails(t) == run[t].stage \in {"request", "tool"} /\ EndRun(t, "failed")
=============================================================================
