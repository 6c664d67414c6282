-------------------------- MODULE ApprovalContract --------------------------
(***************************************************************************)
(* What the approval machinery of a durable job promises, without the      *)
(* route, the rows, the events, the waits and the replays that keep it: a  *)
(* gated step gets at most one verdict, for good; it is executed only      *)
(* under an approving verdict, and with the arguments that verdict names.  *)
(***************************************************************************)
CONSTANTS
  StepIds,    \* the steps of the job
  GatedIds,      \* those that need a verdict
  Edits,      \* the arguments a verdict may name, NoEdit among them
  NoEdit

Verdicts == [kind : {"approved"}, edit : Edits]
              \cup {[kind |-> "refused", edit |-> NoEdit]}
Undecided == [kind |-> "undecided", edit |-> NoEdit]

VARIABLES
  verdict,     \* per step
  executed     \* executions: <<step, arguments>>

vars == <<verdict, executed>>

TypeOK ==
  /\ verdict \in [StepIds -> Verdicts \cup {Undecided}]
  /\ executed \subseteq StepIds \X Edits

Init ==
  /\ verdict = [s \in StepIds |-> Undecided]
  /\ executed = {}

\* One decision set settles the steps it names, all of them open until then.
Decide ==
  /\ verdict' \in [StepIds -> Verdicts \cup {Undecided}]
  /\ \A s \in StepIds : verdict[s] # Undecided => verdict'[s] = verdict[s]
  /\ UNCHANGED executed

Execute(s, e) ==
  /\ s \in GatedIds => verdict[s] = [kind |-> "approved", edit |-> e]
  /\ s \notin GatedIds => e = NoEdit
  /\ executed' = executed \cup {<<s, e>>}
  /\ UNCHANGED verdict

Next == Decide \/ \E s \in StepIds, e \in Edits : Execute(s, e)

Spec == Init /\ [][Next]_vars
=============================================================================
