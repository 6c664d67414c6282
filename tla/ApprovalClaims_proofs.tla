----------------------- MODULE ApprovalClaims_proofs -----------------------
(***************************************************************************)
(* Theorems about ApprovalClaims, for every set of steps and requests, any *)
(* overlapping decision sets and any budget: a set is consumed whole or    *)
(* not at all, and the engine is told what was decided.                    *)
(*                                                                         *)
(* Claims makes the two properties inductive: a request that has not       *)
(* claimed holds nothing and has not answered, and a row is held exactly   *)
(* when it is consumed, by a request past its claim.                       *)
(***************************************************************************)
EXTENDS ApprovalClaims, ApproveRoute_proofs

Shape == TypeOK /\ Unsent

\* Who has not claimed holds no row and has not answered.
NothingYet ==
  \A r \in Requests :
    reqPc[r] \in {"idle", "read", "claim"} => ClaimedNone(r) /\ status[r] = 0

Claims == RowsHeld /\ NothingYet /\ ClaimIsAllOrNothing /\ EventsMatchClaims

LEMMA ClaimsInit == Init => Shape /\ Claims
<1> SUFFICES ASSUME Init  PROVE Shape /\ Claims
  OBVIOUS
<1> USE DEF Init
<1>1. StoreTypeOK /\ EventsTypeOK /\ RouteTypeOK /\ used \subseteq StepIds
  BY DEF StoreInit, StoreTypeOK, ApprovalStates, EventsInit, EventsTypeOK, RouteInit,
         RouteTypeOK, RoutePcs
<1>2. Unsent
  BY DEF RouteInit, Unsent
<1>3. RowsHeld
  BY DEF RouteInit, RowsHeld
<1>4. \A r \in Requests : ClaimedNone(r) /\ status[r] = 0 /\ reqPc[r] = "idle"
  BY RouteAssumption DEF RouteInit, ClaimedNone
<1>5. EventsMatchClaims
  BY DEF EventsInit, StoreInit, RouteInit, EventsMatchClaims
<1> QED BY <1>1, <1>2, <1>3, <1>4, <1>5
        DEF Shape, TypeOK, Claims, NothingYet, ClaimIsAllOrNothing

\* The worker's statements leave the requests and their rows alone.
LEMMA WriterStep ==
  ASSUME Shape, Claims,
         \/ AnyInsert
         \/ \E s \in StepIds : AnyRegister(s) \/ \E n \in Usages : AnyUsage(s, n)
         \/ UNCHANGED vars
  PROVE  Shape' /\ Claims'
<1> USE DEF Shape, TypeOK
<1>1. /\ UNCHANGED eventVars /\ UNCHANGED routeVars
      /\ \A s \in StepIds : approvalState'[s] = "consumed" <=> approvalState[s] = "consumed"
      /\ StoreTypeOK' /\ used' \subseteq StepIds
  <2>1. CASE AnyInsert \/ UNCHANGED vars
    BY <2>1 DEF AnyInsert, InsertJob, vars, storeVars, StoreTypeOK
  <2>2. CASE \E s \in StepIds : AnyRegister(s)
    <3>1. PICK s \in StepIds : AnyRegister(s)
      BY <2>2
    <3> QED BY <3>1 DEF AnyRegister, RegisterPending, StoreTypeOK, ApprovalStates
  <2>3. CASE \E s \in StepIds : \E n \in Usages : AnyUsage(s, n)
    <3>1. PICK s \in StepIds, n \in Usages : AnyUsage(s, n)
      BY <2>3
    <3> QED BY <3>1, ClaimsAssumption DEF AnyUsage, RecordStepUsage, StoreTypeOK, ApprovalStates
  <2> QED BY <2>1, <2>2, <2>3
<1>2. Shape'
  BY <1>1, RoutePartsKept
<1>3. RowsHeld'
  BY <1>1 DEF Claims, RowsHeld, routeVars
<1>4. NothingYet' /\ ClaimIsAllOrNothing'
  BY <1>1 DEF Claims, NothingYet, ClaimIsAllOrNothing, ClaimedWhole, ClaimedNone, Targets,
              Chosen, routeVars
<1>5. EventsMatchClaims'
  BY <1>1 DEF Claims, EventsMatchClaims, Chosen, routeVars, eventVars
<1> QED BY <1>2, <1>3, <1>4, <1>5 DEF Claims

\* A step of the route, seen from the requests it is not a step of.
LEMMA OthersKept ==
  ASSUME Shape, Claims, RouteNext,
         NEW r \in Requests,
         \/ \E b \in Bodies : RefuseUnknownJob(r, b) \/ ReceiveApproval(r, b)
         \/ RouteStep(r) \/ ClaimFails(r) \/ SendFails(r) \/ WebCrash(r),
         NEW q \in Requests, q # r
  PROVE  /\ reqPc'[q] = reqPc[q] /\ status'[q] = status[q] /\ body'[q] = body[q]
         /\ ClaimedWhole(q) => ClaimedWhole(q)'
         /\ ClaimedNone(q) => ClaimedNone(q)'
<1> USE DEF Shape, TypeOK
<1>1. reqPc'[q] = reqPc[q] /\ status'[q] = status[q] /\ body'[q] = body[q]
  BY DEF RouteStep, RefuseUnknownJob, ReceiveApproval, ReadSpend, ClaimMismatch,
         ClaimCommit, ClaimFails, AuditDecisions, SendDecision, SendFails, WebCrash,
         Respond, RouteTypeOK
<1>2. UNCHANGED claimedBy \/ ConsumeTargets(r)
  BY DEF RouteStep, RefuseUnknownJob, ReceiveApproval, ReadSpend, ClaimMismatch,
         ClaimCommit, ClaimFails, AuditDecisions, SendDecision, SendFails, WebCrash
<1>3. ClaimedNone(q) => ClaimedNone(q)'
  BY <1>2 DEF ClaimedNone, ConsumeTargets
<1>4. ClaimedWhole(q) => ClaimedWhole(q)'
  <2>1. Targets(q) \subseteq StepIds /\ Targets(q)' = Targets(q)
    BY <1>1, TargetsAreSteps DEF Targets, Chosen
  <2>2. \A s \in StepIds : claimedBy[s] = q => claimedBy'[s] = q
    BY HoldersKept, RouteAssumption DEF Claims
  <2> QED BY <2>1, <2>2 DEF ClaimedWhole
<1> QED BY <1>1, <1>3, <1>4

\* What becomes of the claim and the answer of the request whose step it is.
LEMMA OwnStep ==
  ASSUME Shape, Claims, NEW r \in Requests,
         \/ \E b \in Bodies : RefuseUnknownJob(r, b) \/ ReceiveApproval(r, b)
         \/ RouteStep(r) \/ ClaimFails(r) \/ SendFails(r) \/ WebCrash(r)
  PROVE  /\ reqPc'[r] \in {"idle", "read", "claim"} => ClaimedNone(r)' /\ status'[r] = 0
         /\ ClaimedWhole(r)' \/ ClaimedNone(r)'
         /\ status'[r] \in {202, 429} \/ reqPc'[r] \in {"audit", "send"} => ClaimedWhole(r)'
         /\ status'[r] \in {404, 409} => ClaimedNone(r)'
<1> USE DEF Shape, TypeOK
<1>1. /\ reqPc[r] \in {"idle", "read", "claim"} => ClaimedNone(r) /\ status[r] = 0
      /\ ClaimedWhole(r) \/ ClaimedNone(r)
      /\ status[r] \in {202, 429} \/ reqPc[r] \in {"audit", "send"} => ClaimedWhole(r)
      /\ status[r] \in {404, 409} => ClaimedNone(r)
  BY DEF Claims, NothingYet, ClaimIsAllOrNothing
<1>2. UNCHANGED claimedBy => ClaimedNone(r)' = ClaimedNone(r)
  BY DEF ClaimedNone
<1>3. UNCHANGED claimedBy /\ body'[r] = body[r] => ClaimedWhole(r)' = ClaimedWhole(r)
  BY DEF ClaimedWhole, Targets, Chosen
<1>4. CASE \E b \in Bodies : RefuseUnknownJob(r, b) \/ ReceiveApproval(r, b)
  <2>1. /\ UNCHANGED claimedBy /\ reqPc[r] = "idle" /\ reqPc'[r] \in {"read", "done"}
        /\ reqPc'[r] = "read" => status'[r] = status[r]
        /\ status'[r] \in {status[r], 404, 409}
    BY <1>4 DEF RefuseUnknownJob, ReceiveApproval, Respond, RouteTypeOK
  <2> QED BY <1>1, <1>2, <2>1
<1>5. CASE ReadSpend(r) \/ ClaimMismatch(r)
  <2>1. /\ UNCHANGED claimedBy /\ reqPc[r] \in {"read", "claim"}
        /\ \/ reqPc'[r] = "claim" /\ status'[r] = status[r]
           \/ reqPc'[r] = "done" /\ status'[r] \in {404, 409}
    BY <1>5 DEF ReadSpend, ClaimMismatch, Respond, RouteTypeOK
  <2> QED BY <1>1, <1>2, <2>1
<1>6. CASE ClaimCommit(r) \/ ClaimFails(r)
  <2>1. /\ UNCHANGED body /\ reqPc[r] \in {"read", "claim"}
        /\ \/ /\ ConsumeTargets(r)
              /\ \/ reqPc'[r] = "audit" /\ status'[r] = status[r]
                 \/ reqPc'[r] = "done" /\ status'[r] \in {429, 500}
           \/ UNCHANGED claimedBy /\ reqPc'[r] = "done" /\ status'[r] = 500
    BY <1>6 DEF ClaimCommit, ClaimFails, Respond, RouteTypeOK
  <2>2. ConsumeTargets(r) => ClaimedWhole(r)'
    <3>1. Targets(r) \subseteq StepIds /\ Targets(r)' = Targets(r)
      BY <2>1, TargetsAreSteps DEF Targets, Chosen
    <3> QED BY <3>1 DEF ClaimedWhole, ConsumeTargets
  <2> QED BY <1>1, <1>2, <2>1, <2>2
<1>7. CASE AuditDecisions(r) \/ SendDecision(r) \/ SendFails(r)
  <2>1. /\ UNCHANGED <<claimedBy, body>> /\ reqPc[r] \in {"audit", "send"}
        /\ \/ reqPc'[r] = "send" /\ status'[r] = status[r]
           \/ reqPc'[r] = "done" /\ status'[r] \in {202, 500}
    BY <1>7 DEF AuditDecisions, SendDecision, SendFails, Respond, RouteTypeOK
  <2> QED BY <1>1, <1>2, <1>3, <2>1
<1>8. CASE WebCrash(r)
  <2>1. UNCHANGED <<claimedBy, body, status>> /\ reqPc'[r] = "crashed"
    BY <1>8 DEF WebCrash, RouteTypeOK
  <2> QED BY <1>1, <1>2, <1>3, <2>1
<1> QED BY <1>4, <1>5, <1>6, <1>7, <1>8 DEF RouteStep

\* A step of the route tells the engine nothing but what a holder decided.
LEMMA EventsStep ==
  ASSUME Shape, Claims, RouteNext
  PROVE  RowsHeld' /\ EventsMatchClaims'
<1> USE DEF Shape, TypeOK
<1>1. PICK r \in Requests :
        \/ \E b \in Bodies : RefuseUnknownJob(r, b) \/ ReceiveApproval(r, b)
        \/ RouteStep(r) \/ ClaimFails(r) \/ SendFails(r) \/ WebCrash(r)
  BY DEF RouteNext
<1>2. Targets(r) \subseteq StepIds /\ Len(Chosen(r)) \in Nat
  BY TargetsAreSteps
\* Rows change state and hands together.
<1>3. /\ \/ UNCHANGED claimedBy /\ UNCHANGED approvalState
         \/ ConsumeTargets(r) /\ reqPc'[r] \in {"audit", "done"}
      /\ reqPc[r] \in {"audit", "send", "done", "crashed"} =>
           reqPc'[r] \in {"audit", "send", "done", "crashed"}
      /\ \A q \in Requests \ {r} : reqPc'[q] = reqPc[q]
  BY <1>1 DEF RouteStep, RefuseUnknownJob, ReceiveApproval, ReadSpend, ClaimMismatch,
              ClaimCommit, ClaimFails, AuditDecisions, SendDecision, SendFails, WebCrash,
              Respond, RouteTypeOK, storeVars
<1>4. \A s \in StepIds : approvalState'[s] = "consumed" <=> claimedBy'[s] # NoRequest
  BY <1>3, RouteAssumption DEF Claims, EventsMatchClaims, ConsumeTargets, ConsumePending
<1>5. RowsHeld'
  BY <1>3, <1>4 DEF Claims, RowsHeld, ConsumeTargets, RouteTypeOK
<1>6. \A q \in Requests : sentUpTo'[q] \in Nat /\ sentUpTo[q] \in Nat /\ sentUpTo'[q] >= sentUpTo[q]
  <2>1. \/ UNCHANGED sentUpTo
        \/ sentUpTo' = [sentUpTo EXCEPT ![r] = sentUpTo[r] + 1]
    BY <1>1 DEF RouteStep, RefuseUnknownJob, ReceiveApproval, ReadSpend, ClaimMismatch,
                ClaimCommit, ClaimFails, AuditDecisions, SendDecision, SendFails, WebCrash
  <2> QED BY <2>1 DEF RouteTypeOK
<1>7. ASSUME NEW d \in signals
      PROVE  \E q \in Requests :
               claimedBy'[d.step] = q /\ \E k \in 1..sentUpTo'[q] + 1 :
                 k <= Len(Chosen(q)') /\ Chosen(q)'[k] = d
  <2>1. d.step \in StepIds
    BY DEF EventsTypeOK, Decisions
  <2>2. PICK q \in Requests :
          claimedBy[d.step] = q /\ \E k \in 1..sentUpTo[q] + 1 :
            k <= Len(Chosen(q)) /\ Chosen(q)[k] = d
    BY DEF Claims, EventsMatchClaims
  <2>3. PICK k \in 1..sentUpTo[q] + 1 : k <= Len(Chosen(q)) /\ Chosen(q)[k] = d
    BY <2>2
  <2>4. claimedBy'[d.step] = q /\ Chosen(q)' = Chosen(q)
    BY <2>1, <2>2, HoldersKept, RouteAssumption DEF Claims, Chosen
  <2>5. k \in 1..sentUpTo'[q] + 1
    BY <1>6, <2>3
  <2> QED BY <2>3, <2>4, <2>5
<1>8. CASE UNCHANGED signals
  BY <1>4, <1>5, <1>7, <1>8 DEF EventsMatchClaims
<1>9. CASE SendDecision(r) \/ SendFails(r)
  <2>1. PICK k : k = sentUpTo[r] + 1
    OBVIOUS
  <2>2. PICK d : d = Chosen(r)[k]
    OBVIOUS
  <2>3. /\ reqPc[r] = "send" /\ signals' \subseteq signals \cup {d}
        /\ UNCHANGED <<body, claimedBy>>
    BY <1>9, <2>1, <2>2 DEF SendDecision, SendFails, SubmitApproval, eventVars
  <2>4. k \in 1..Len(Chosen(r)) /\ k \in 1..sentUpTo'[r] + 1
    BY <1>2, <1>6, <2>1, <2>3 DEF RouteTypeOK, Unsent
  <2>5. claimedBy'[d.step] = r /\ Chosen(r)' = Chosen(r)
    BY <2>2, <2>3, <2>4 DEF Claims, ClaimIsAllOrNothing, ClaimedWhole, Targets, Chosen
  <2>6. k <= Len(Chosen(r)')
    BY <1>2, <2>4, <2>5
  <2> QED BY <1>4, <1>5, <1>7, <2>2, <2>3, <2>4, <2>5, <2>6 DEF EventsMatchClaims
<1> QED BY <1>1, <1>8, <1>9
        DEF RouteStep, RefuseUnknownJob, ReceiveApproval, ReadSpend, ClaimMismatch,
            ClaimCommit, ClaimFails, AuditDecisions, WebCrash, eventVars

LEMMA ClaimsStep == Shape /\ Claims /\ [Next]_vars => Shape' /\ Claims'
<1> SUFFICES ASSUME Shape, Claims, [Next]_vars  PROVE Shape' /\ Claims'
  OBVIOUS
<1>1. CASE RouteNext /\ UNCHANGED used
  <2>1. Shape'
    BY <1>1, RouteShape DEF Shape, TypeOK
  <2>2. PICK r \in Requests :
          \/ \E b \in Bodies : RefuseUnknownJob(r, b) \/ ReceiveApproval(r, b)
          \/ RouteStep(r) \/ ClaimFails(r) \/ SendFails(r) \/ WebCrash(r)
    BY <1>1 DEF RouteNext
  <2>3. ASSUME NEW q \in Requests
        PROVE  /\ reqPc'[q] \in {"idle", "read", "claim"} => ClaimedNone(q)' /\ status'[q] = 0
               /\ ClaimedWhole(q)' \/ ClaimedNone(q)'
               /\ status'[q] \in {202, 429} \/ reqPc'[q] \in {"audit", "send"} => ClaimedWhole(q)'
               /\ status'[q] \in {404, 409} => ClaimedNone(q)'
    <3>1. CASE q = r
      BY <2>2, <3>1, OwnStep
    <3>2. CASE q # r
      <4>1. /\ reqPc'[q] = reqPc[q] /\ status'[q] = status[q]
            /\ ClaimedWhole(q) => ClaimedWhole(q)'
            /\ ClaimedNone(q) => ClaimedNone(q)'
        BY <1>1, <2>2, <3>2, OthersKept
      <4> QED BY <4>1 DEF Claims, NothingYet, ClaimIsAllOrNothing
    <3> QED BY <3>1, <3>2
  <2>4. NothingYet' /\ ClaimIsAllOrNothing'
    BY <2>3 DEF NothingYet, ClaimIsAllOrNothing
  <2> QED BY <1>1, <2>1, <2>4, EventsStep DEF Claims
<1>2. CASE \/ AnyInsert
           \/ \E s \in StepIds : AnyRegister(s) \/ \E n \in Usages : AnyUsage(s, n)
           \/ UNCHANGED vars
  BY <1>2, WriterStep
<1> QED BY <1>1, <1>2 DEF Next

\* Rows are held by those who claimed them, whole sets at a time.
THEOREM ClaimsInvariant == Spec => [](Shape /\ Claims)
<1>1. Init => Shape /\ Claims
  BY ClaimsInit
<1>2. (Shape /\ Claims) /\ [Next]_vars => (Shape /\ Claims)'
  BY ClaimsStep
<1> QED BY <1>1, <1>2, PTL DEF Spec

\* A decision set is consumed whole or not at all, also when sets overlap and
\* race, and the answer tells which (claimPending, ClaimMismatchError).
THEOREM ClaimsAreAtomic == Spec => []ClaimIsAllOrNothing
<1>1. Claims => ClaimIsAllOrNothing
  BY DEF Claims
<1> QED BY <1>1, ClaimsInvariant, PTL

\* What the engine is told of a step is the decision of the one request that
\* consumed its row, and every consumed row has such a request.
THEOREM EventsTellClaims == Spec => []EventsMatchClaims
<1>1. Claims => EventsMatchClaims
  BY DEF Claims
<1> QED BY <1>1, ClaimsInvariant, PTL
============================================================================
