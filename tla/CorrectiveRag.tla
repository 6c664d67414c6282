---------------------------- MODULE CorrectiveRag ----------------------------
(***************************************************************************)
(* One run of CorrectiveRAGWorkflow (corrective_rag.py, rag_llm.py): search,*)
(* evaluate, search again with a wider k, synthesize.  A language model     *)
(* call ends with an answer, or with the caller's fallback after a timeout, *)
(* a permanent error or the last transient one; texts are abstract.         *)
(***************************************************************************)
EXTENDS VectorStore

CONSTANTS
  MaxRetries,    \* max_retries of each request
  InitialK,      \* rag_initial_k
  WidenedK,      \* rag_widened_k
  MaxAttempts,   \* llm_retry_max_attempts
  NoAnswer

ASSUME RagAssumption ==
  /\ MaxRetries \in [Requests -> 1..10]
  /\ InitialK \in Nat \ {0}
  /\ WidenedK \in Nat \ {0}
  /\ MaxAttempts \in Nat \ {0}

VARIABLES
  run,          \* where the run a request has started is
  searchCount,  \* state.search_count
  retrieved,    \* state.retrieved_hit_ids
  attempt,      \* of the model call under way
  found,        \* context_found of the SynthesizeEvent
  answer        \* the result of the StopEvent

runVars == <<run, searchCount, retrieved, attempt, found, answer>>

\* A result; its context_found and search_count are read off the stopped run.
Answers == [citations : SUBSET Hit, saw : SUBSET Ingests]

RunTypeOK ==
  /\ run \in [Requests -> {"none", "search", "evaluate", "synthesize", "stop", "raised"}]
  /\ searchCount \in [Requests -> Nat]
  /\ retrieved \in [Requests -> SUBSET (Nat \cup {NoOrdinal})]
  /\ attempt \in [Requests -> 0..MaxAttempts]
  /\ found \in [Requests -> BOOLEAN]
  /\ answer \in [Requests -> Answers \cup {NoAnswer}]

RunInit ==
  /\ run = [r \in Requests |-> "none"]
  /\ searchCount = [r \in Requests |-> 0]
  /\ retrieved = [r \in Requests |-> {}]
  /\ attempt = [r \in Requests |-> 0]
  /\ found = [r \in Requests |-> FALSE]
  /\ answer = [r \in Requests |-> NoAnswer]

-----------------------------------------------------------------------------
\* The search step up to its first await: on the StartEvent, and again.
StartRun(r) ==
  /\ run' = [run EXCEPT ![r] = "search"]
  /\ searchCount' = [searchCount EXCEPT ![r] = 1]
  /\ StartScan(r)
  /\ UNCHANGED <<retrieved, attempt, found, answer>>

SearchAgain(r) ==
  /\ run' = [run EXCEPT ![r] = "search"]
  /\ searchCount' = [searchCount EXCEPT ![r] = @ + 1]
  /\ StartScan(r)
  /\ UNCHANGED <<found>>

TopKOf(r) == IF searchCount[r] = 1 THEN InitialK ELSE WidenedK

Search(r) ==
  /\ run[r] = "search"
  /\ SearchStep(r, TopKOf(r))
  /\ UNCHANGED <<ingestVars, runVars>>

Ids(hs) == {h.ordinal : h \in hs}

Stop(r, cited, ok) ==
  /\ run' = [run EXCEPT ![r] = "stop"]
  /\ answer' = [answer EXCEPT ![r] = [citations |-> cited, saw |-> saw[r]]]
  /\ found' = [found EXCEPT ![r] = ok]

\* The hits are there.  None: no model is asked.
Evaluate(r) ==
  /\ run[r] = "search" /\ scan[r] = "none"
  /\ retrieved' = [retrieved EXCEPT ![r] = @ \cup Ids(hits[r])]
  /\ \/ /\ hits[r] = {}
        /\ Stop(r, {}, FALSE)
        /\ UNCHANGED attempt
     \/ /\ hits[r] # {}
        /\ run' = [run EXCEPT ![r] = "evaluate"]
        /\ attempt' = [attempt EXCEPT ![r] = 1]
        /\ UNCHANGED <<answer, found>>
  /\ UNCHANGED <<storeVars, ingestVars, scanVars, searchCount>>

\* A call's own variables end with it.
EndCall(r) == attempt' = [attempt EXCEPT ![r] = 0]

\* Mutant: one attempt too many.
AttemptsLeftOffByOne(r) == attempt[r] <= MaxAttempts

AttemptsLeft(r) == attempt[r] < MaxAttempts

\* _run_agent_with_retry: a transient failure with attempts left.
RetryCall(r) ==
  /\ run[r] \in {"evaluate", "synthesize"}
  /\ AttemptsLeft(r)
  /\ attempt' = [attempt EXCEPT ![r] = @ + 1]
  /\ UNCHANGED <<storeVars, ingestVars, scanVars, run, searchCount, retrieved, found, answer>>

StartSynthesis(r, ok) ==
  /\ found' = [found EXCEPT ![r] = ok]
  /\ run' = [run EXCEPT ![r] = "synthesize"]
  /\ attempt' = [attempt EXCEPT ![r] = 1]
  /\ UNCHANGED <<searchCount, scanVars>>

\* Mutant: one search too many.
SearchesLeftOffByOne(r) == searchCount[r] <= MaxRetries[r]

SearchesLeft(r) == searchCount[r] < MaxRetries[r]

\* The verdict: the model's, or insufficient as the fallback.
Verdict(r, sufficient) ==
  /\ run[r] = "evaluate"
  /\ \/ sufficient /\ StartSynthesis(r, TRUE)
     \/ ~sufficient /\ SearchesLeft(r) /\ SearchAgain(r) /\ EndCall(r)
     \/ ~sufficient /\ ~SearchesLeft(r) /\ StartSynthesis(r, FALSE)
  /\ UNCHANGED <<storeVars, ingestVars, retrieved, answer>>

\* _truncate_hits: the hits in order of score, up to the prompt's budget, and
\* at least the first.
Truncated(hs) == (SUBSET hs) \ {{}}

\* validate_citations.
CitationsValid(r, cited) == cited # {} /\ Ids(cited) \subseteq retrieved[r]

\* The text: the model's, or an apology as the fallback.
Synthesize(r) ==
  /\ run[r] = "synthesize"
  /\ \E cited \in Truncated(hits[r]) :
       IF CitationsValid(r, cited)
         THEN Stop(r, cited, found[r])
         ELSE run' = [run EXCEPT ![r] = "raised"] /\ UNCHANGED <<found, answer>>
  /\ EndCall(r)
  /\ UNCHANGED <<storeVars, ingestVars, scanVars, searchCount, retrieved>>

\* The store raises, or the workflow engine's own timeout does.
RunRaises(r) ==
  /\ run[r] \in {"search", "evaluate", "synthesize"}
  /\ run' = [run EXCEPT ![r] = "raised"]
  /\ UNCHANGED <<storeVars, ingestVars, scanVars, searchCount, retrieved, attempt, found, answer>>

RunStep(r) ==
  \/ Search(r)
  \/ Evaluate(r)
  \/ RetryCall(r)
  \/ \E sufficient \in BOOLEAN : Verdict(r, sufficient)
  \/ Synthesize(r)
  \/ RunRaises(r)

\* The run is over, or its task was cancelled: nobody reads its state again.
ForgetRun(r) ==
  /\ run' = [run EXCEPT ![r] = "none"]
  /\ searchCount' = [searchCount EXCEPT ![r] = 0]
  /\ retrieved' = [retrieved EXCEPT ![r] = {}]
  /\ attempt' = [attempt EXCEPT ![r] = 0]
  /\ found' = [found EXCEPT ![r] = FALSE]
  /\ scan' = [scan EXCEPT ![r] = "none"]
  /\ snapshot' = [snapshot EXCEPT ![r] = NoSnapshot]
  /\ hits' = [hits EXCEPT ![r] = {}]
  /\ saw' = [saw EXCEPT ![r] = {}]
=============================================================================
