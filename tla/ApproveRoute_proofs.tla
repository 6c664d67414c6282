------------------------ MODULE ApproveRoute_proofs ------------------------
(***************************************************************************)
(* Lemmas about ApproveRoute by itself, for every set of requests and      *)
(* bodies and every budget: what one step of the route does to the types   *)
(* of its state, to the rows and to who holds them.  The systems the route *)
(* is a part of, ApprovalClaims and DurableJob, are proved from them.      *)
(***************************************************************************)
EXTENDS ApproveRoute, FiniteSetTheorems, TLAPS

Unsent ==
  \A r \in Requests :
    /\ reqPc[r] = "idle" => sentUpTo[r] = 0
    /\ reqPc[r] \in {"read", "claim", "audit", "send"} =>
         sentUpTo[r] < Len(Chosen(r))

\* Every body, the empty one of an idle request included, is a sequence of
\* decisions.
LEMMA BodyShape ==
  ASSUME NEW b \in Bodies \cup {NoBody}
  PROVE  /\ b.form \in {"single", "set"}
         /\ b.decisions \in Seq(Decisions)
         /\ Len(b.decisions) \in Nat
<1>1. CASE b \in Bodies
  BY <1>1, RouteAssumption
<1>2. CASE b = NoBody
  BY <1>2 DEF NoBody
<1> QED BY <1>1, <1>2

\* The targets of a request are steps.
LEMMA TargetsAreSteps ==
  ASSUME RouteTypeOK, NEW r \in Requests
  PROVE  /\ Chosen(r) \in Seq(Decisions)
         /\ Len(Chosen(r)) \in Nat
         /\ Targets(r) \subseteq StepIds
<1>1. body[r] \in Bodies \cup {NoBody}
  BY DEF RouteTypeOK
<1>2. Chosen(r) \in Seq(Decisions) /\ Len(Chosen(r)) \in Nat
  BY <1>1, BodyShape DEF Chosen
<1>3. ASSUME NEW k \in 1..Len(Chosen(r))  PROVE Chosen(r)[k].step \in StepIds
  <2>1. Chosen(r)[k] \in Decisions
    BY <1>2, <1>3
  <2> QED BY <2>1 DEF Decisions
<1> QED BY <1>2, <1>3 DEF Targets

\* A part of the state that a step leaves alone keeps its type.
LEMMA RoutePartsKept ==
  /\ StoreTypeOK /\ UNCHANGED storeVars => StoreTypeOK'
  /\ EventsTypeOK /\ UNCHANGED eventVars => EventsTypeOK'
  /\ RouteTypeOK /\ UNCHANGED routeVars => RouteTypeOK'
  /\ Unsent /\ UNCHANGED routeVars => Unsent'
<1>1. StoreTypeOK /\ UNCHANGED storeVars => StoreTypeOK'
  BY DEF StoreTypeOK, storeVars
<1>2. EventsTypeOK /\ UNCHANGED eventVars => EventsTypeOK'
  BY DEF EventsTypeOK, eventVars
<1>3. RouteTypeOK /\ UNCHANGED routeVars => RouteTypeOK'
  BY DEF RouteTypeOK, routeVars
<1>4. Unsent /\ UNCHANGED routeVars => Unsent'
  BY DEF Unsent, routeVars, Chosen
<1> QED BY <1>1, <1>2, <1>3, <1>4

\* A claim keeps the types of the rows.
LEMMA ConsumeShape ==
  StoreTypeOK => \A S \in SUBSET StepIds : ConsumePending(S) => StoreTypeOK'
BY DEF StoreTypeOK, ApprovalStates, ConsumePending

\* Sending a decision keeps the types of the events.
LEMMA EventsShape ==
  EventsTypeOK => \A d \in Decisions : SubmitApproval(d) => EventsTypeOK'
<1> SUFFICES ASSUME EventsTypeOK, NEW d \in Decisions, SubmitApproval(d)
             PROVE  EventsTypeOK'
  OBVIOUS
<1>1. d.step \in StepIds
  BY DEF Decisions
<1> QED BY <1>1 DEF EventsTypeOK, SubmitApproval, eventVars

\* One step of the route keeps the shape of the route, the rows and the events.
LEMMA RouteShape ==
  ASSUME StoreTypeOK, EventsTypeOK, RouteTypeOK, Unsent, RouteNext
  PROVE  StoreTypeOK' /\ EventsTypeOK' /\ RouteTypeOK' /\ Unsent'
<1>1. PICK r \in Requests :
        \/ \E b \in Bodies : RefuseUnknownJob(r, b) \/ ReceiveApproval(r, b)
        \/ ReadSpend(r) \/ ClaimMismatch(r) \/ ClaimCommit(r)
        \/ AuditDecisions(r) \/ SendDecision(r)
        \/ ClaimFails(r) \/ SendFails(r) \/ WebCrash(r)
  BY DEF RouteNext, RouteStep
<1>2. /\ Chosen(r) \in Seq(Decisions)
      /\ Len(Chosen(r)) \in Nat
      /\ Targets(r) \in SUBSET StepIds
  BY TargetsAreSteps
<1>3. CASE \E b \in Bodies : RefuseUnknownJob(r, b) \/ ReceiveApproval(r, b)
  <2>1. PICK b \in Bodies : RefuseUnknownJob(r, b) \/ ReceiveApproval(r, b)
    BY <1>3
  <2>2. Len(b.decisions) \in Nat /\ Len(b.decisions) >= 1
    BY BodyShape, RouteAssumption
  <2>3. UNCHANGED storeVars /\ UNCHANGED eventVars
    BY <2>1 DEF RefuseUnknownJob, ReceiveApproval
  <2>4. RouteTypeOK'
    BY <2>1 DEF RefuseUnknownJob, ReceiveApproval, Respond, RouteTypeOK, RoutePcs
  <2>5. ASSUME NEW q \in Requests
        PROVE  /\ reqPc'[q] = "idle" => sentUpTo'[q] = 0
               /\ reqPc'[q] \in {"read", "claim", "audit", "send"} =>
                    sentUpTo'[q] < Len(body'[q].decisions)
    <3>1. UNCHANGED sentUpTo /\ reqPc[r] = "idle" /\ body' = [body EXCEPT ![r] = b]
      BY <2>1 DEF RefuseUnknownJob, ReceiveApproval
    <3>2. CASE q = r
      <4>1. sentUpTo'[q] = 0 /\ body'[q] = b
        BY <3>1, <3>2 DEF RouteTypeOK, Unsent
      <4> QED BY <2>2, <4>1
    <3>3. CASE q # r
      <4>1. reqPc'[q] = reqPc[q]
        BY <2>1, <3>3 DEF RefuseUnknownJob, ReceiveApproval, Respond, RouteTypeOK
      <4>2. body'[q] = body[q]
        BY <3>1, <3>3 DEF RouteTypeOK
      <4> QED BY <3>1, <4>1, <4>2 DEF Unsent, Chosen
    <3> QED BY <3>2, <3>3
  <2>6. Unsent'
    BY <2>5 DEF Unsent, Chosen
  <2> QED BY <2>3, <2>4, <2>6, RoutePartsKept
<1>4. CASE ReadSpend(r)
  <2>1. UNCHANGED storeVars /\ UNCHANGED eventVars
    BY <1>4 DEF ReadSpend
  <2>2. RouteTypeOK'
    BY <1>4 DEF ReadSpend, RouteTypeOK, RoutePcs
  <2>3. Unsent'
    BY <1>4 DEF ReadSpend, RouteTypeOK, RoutePcs, Unsent, Chosen
  <2> QED BY <2>1, <2>2, <2>3, RoutePartsKept
<1>5. CASE ClaimMismatch(r)
  <2>1. UNCHANGED storeVars /\ UNCHANGED eventVars
    BY <1>5 DEF ClaimMismatch
  <2>2. RouteTypeOK'
    BY <1>5 DEF ClaimMismatch, Respond, RouteTypeOK, RoutePcs
  <2>3. Unsent'
    BY <1>5 DEF ClaimMismatch, Respond, RouteTypeOK, RoutePcs, Unsent, Chosen
  <2> QED BY <2>1, <2>2, <2>3, RoutePartsKept
<1>6. CASE ClaimCommit(r)
  <2>1. UNCHANGED eventVars /\ ConsumePending(Targets(r))
    BY <1>6 DEF ClaimCommit, ConsumeTargets
  <2>2. RouteTypeOK'
    BY <1>6 DEF ClaimCommit, ConsumeTargets, Respond, RouteTypeOK, RoutePcs
  <2>3. Unsent'
    BY <1>6 DEF ClaimCommit, Respond, RouteTypeOK, RoutePcs, Unsent, Chosen
  <2> QED BY <1>2, <2>1, <2>2, <2>3, RoutePartsKept, ConsumeShape
<1>7. CASE AuditDecisions(r)
  <2>1. UNCHANGED storeVars /\ UNCHANGED eventVars
    BY <1>7 DEF AuditDecisions
  <2>2. auditLog' \subseteq Requests \X StepIds
    <3>1. PICK taken \in SUBSET Targets(r) :
            auditLog' = auditLog \cup ({r} \X taken)
      BY <1>7 DEF AuditDecisions
    <3>2. {r} \X taken \subseteq Requests \X StepIds
      BY <1>2
    <3> QED BY <3>1, <3>2 DEF RouteTypeOK
  <2>3. RouteTypeOK'
    BY <1>7, <2>2 DEF AuditDecisions, RouteTypeOK, RoutePcs
  <2>4. Unsent'
    BY <1>7 DEF AuditDecisions, RouteTypeOK, RoutePcs, Unsent, Chosen
  <2> QED BY <2>1, <2>3, <2>4, RoutePartsKept
<1>8. CASE SendDecision(r) \/ SendFails(r)
  <2> DEFINE next == sentUpTo[r] + 1
  <2>1. reqPc[r] = "send" /\ sentUpTo[r] \in Nat /\ sentUpTo[r] < Len(Chosen(r))
    BY <1>8 DEF SendDecision, SendFails, RouteTypeOK, Unsent
  <2>2. next \in 1..Len(Chosen(r))
    BY <1>2, <2>1
  <2>3. Chosen(r)[next] \in Decisions
    BY <1>2, <2>2
  <2>4. SubmitApproval(Chosen(r)[next]) \/ UNCHANGED eventVars
    BY <1>8 DEF SendDecision, SendFails
  <2>5. EventsTypeOK'
    <3> HIDE DEF next
    <3> QED BY <2>3, <2>4, EventsShape, RoutePartsKept
  <2>6. UNCHANGED storeVars
    BY <1>8 DEF SendDecision, SendFails
  <2>7. RouteTypeOK'
    <3>1. CASE SendDecision(r)
      <4>1. sentUpTo' = [sentUpTo EXCEPT ![r] = next] /\ next \in Nat
        BY <2>1, <3>1 DEF SendDecision
      <4>2. \/ Respond(r, 202)
            \/ UNCHANGED <<reqPc, status>>
        BY <3>1 DEF SendDecision
      <4>3. UNCHANGED <<body, spend, auditLog, claimedBy>>
        BY <3>1 DEF SendDecision
      <4> HIDE DEF next
      <4> QED BY <4>1, <4>2, <4>3 DEF Respond, RouteTypeOK, RoutePcs
    <3>2. CASE SendFails(r)
      BY <3>2 DEF SendFails, Respond, RouteTypeOK, RoutePcs
    <3> QED BY <1>8, <3>1, <3>2
  <2>8. Unsent'
    BY <1>2, <1>8, <2>1
       DEF SendDecision, SendFails, Respond, RouteTypeOK, RoutePcs, Unsent, Chosen
  <2> QED BY <2>5, <2>6, <2>7, <2>8, RoutePartsKept
<1>9. CASE ClaimFails(r)
  <2>1. StoreTypeOK'
    <3>1. UNCHANGED storeVars \/ ConsumePending(Targets(r))
      BY <1>9 DEF ClaimFails, ConsumeTargets
    <3> QED BY <1>2, <3>1, RoutePartsKept, ConsumeShape
  <2>2. UNCHANGED eventVars
    BY <1>9 DEF ClaimFails
  <2>3. RouteTypeOK'
    BY <1>9 DEF ClaimFails, ConsumeTargets, Respond, RouteTypeOK, RoutePcs
  <2>4. Unsent'
    BY <1>9 DEF ClaimFails, Respond, RouteTypeOK, RoutePcs, Unsent, Chosen
  <2> QED BY <2>1, <2>2, <2>3, <2>4, RoutePartsKept
<1>10. CASE WebCrash(r)
  <2>1. UNCHANGED storeVars /\ UNCHANGED eventVars
    BY <1>10 DEF WebCrash
  <2>2. RouteTypeOK'
    BY <1>10 DEF WebCrash, RouteTypeOK, RoutePcs
  <2>3. Unsent'
    BY <1>10 DEF WebCrash, RouteTypeOK, RoutePcs, Unsent, Chosen
  <2> QED BY <2>1, <2>2, <2>3, RoutePartsKept
<1> QED BY <1>1, <1>3, <1>4, <1>5, <1>6, <1>7, <1>8, <1>9, <1>10

-----------------------------------------------------------------------------
\* Who holds a row is past its claim, and the row stays consumed.
RowsHeld ==
  \A s \in StepIds :
    claimedBy[s] # NoRequest =>
      /\ approvalState[s] = "consumed"
      /\ reqPc[claimedBy[s]] \in {"audit", "send", "done", "crashed"}

\* As many pending rows as decisions means that every target is pending.
LEMMA AllPendingMeansAll ==
  ASSUME RouteTypeOK, NEW r \in Requests, AllPending(r)
  PROVE  \A s \in Targets(r) : approvalState[s] = "pending"
<1> DEFINE n == Len(Chosen(r))
           T == Targets(r)
           P == PendingAmong(T)
           f == [k \in 1..n |-> Chosen(r)[k].step]
<1>1. n \in Nat
  BY TargetsAreSteps
<1>2. IsFiniteSet(1..n) /\ Cardinality(1..n) = n
  <2> HIDE DEF n
  <2>1. 1 \in Int /\ n \in Int
    BY <1>1
  <2>2. IsFiniteSet(1..n) /\ Cardinality(1..n) = IF 1 > n THEN 0 ELSE n - 1 + 1
    BY <2>1, FS_Interval
  <2> QED BY <1>1, <2>2
<1>3. f \in Surjection(1..n, T)
  BY DEF Surjection, Targets
<1>4. IsFiniteSet(T) /\ Cardinality(T) <= n
  <2> HIDE DEF f, T
  <2> QED BY <1>2, <1>3, FS_Surjection
<1>5. P \in SUBSET T
  BY DEF PendingAmong
<1>6. Cardinality(P) = n
  BY DEF AllPending
<1>7. Cardinality(P) <= Cardinality(T) /\ (Cardinality(T) = Cardinality(P) => T = P)
  <2> HIDE DEF P, T
  <2> QED BY <1>4, <1>5, FS_Subset
<1>8. Cardinality(T) \in Nat
  BY <1>4, FS_CardinalityType
<1>9. T = P
  BY <1>1, <1>4, <1>6, <1>7, <1>8
<1> QED BY <1>9 DEF PendingAmong

\* The only step of the route that changes who holds a row, or the row of a
\* request that has a body, is one of the request itself before it is past its
\* claim.
LEMMA HoldersKept ==
  ASSUME RouteTypeOK, RowsHeld, RouteNext, NEW s \in StepIds, claimedBy[s] # NoRequest
  PROVE  /\ claimedBy[s] \in Requests
         /\ claimedBy'[s] = claimedBy[s]
         /\ body'[claimedBy[s]] = body[claimedBy[s]]
         /\ spend'[claimedBy[s]] = spend[claimedBy[s]]
<1> DEFINE h == claimedBy[s]
<1>1. h \in Requests /\ approvalState[s] = "consumed"
      /\ reqPc[h] \in {"audit", "send", "done", "crashed"}
  BY DEF RouteTypeOK, RowsHeld
<1>2. PICK r \in Requests :
        \/ \E b \in Bodies : RefuseUnknownJob(r, b) \/ ReceiveApproval(r, b)
        \/ RouteStep(r) \/ ClaimFails(r) \/ SendFails(r) \/ WebCrash(r)
  BY DEF RouteNext
<1>3. CASE \E b \in Bodies : RefuseUnknownJob(r, b) \/ ReceiveApproval(r, b)
  <2>1. PICK b \in Bodies : RefuseUnknownJob(r, b) \/ ReceiveApproval(r, b)
    BY <1>3
  <2>2. reqPc[r] = "idle" /\ body' = [body EXCEPT ![r] = b]
        /\ UNCHANGED <<spend, claimedBy>>
    BY <2>1 DEF RefuseUnknownJob, ReceiveApproval
  <2> QED BY <1>1, <2>2 DEF RouteTypeOK
<1>4. CASE ReadSpend(r)
  <2>1. reqPc[r] = "read" /\ spend' = [spend EXCEPT ![r] = Spent]
        /\ UNCHANGED <<body, claimedBy>>
    BY <1>4 DEF ReadSpend
  <2> QED BY <1>1, <2>1 DEF RouteTypeOK
<1>5. CASE ClaimCommit(r) \/ ClaimFails(r)
  <2>1. UNCHANGED <<body, spend>>
        /\ (UNCHANGED claimedBy \/ (AllPending(r) /\ ConsumeTargets(r)))
    BY <1>5 DEF ClaimCommit, ClaimFails
  <2>2. AllPending(r) => s \notin Targets(r)
    BY <1>1, AllPendingMeansAll
  <2> QED BY <1>1, <2>1, <2>2 DEF ConsumeTargets
<1>6. CASE \/ ClaimMismatch(r) \/ AuditDecisions(r) \/ SendDecision(r)
           \/ SendFails(r) \/ WebCrash(r)
  <2>1. UNCHANGED <<body, spend, claimedBy>>
    BY <1>6 DEF ClaimMismatch, AuditDecisions, SendDecision, SendFails, WebCrash
  <2> QED BY <1>1, <2>1
<1> QED BY <1>2, <1>3, <1>4, <1>5, <1>6 DEF RouteStep

\* No step of the route reopens a consumed row.
LEMMA RouteKeepsConsumed ==
  ASSUME RouteNext, NEW s \in StepIds, approvalState[s] = "consumed"
  PROVE  approvalState'[s] = "consumed"
<1>1. UNCHANGED approvalState \/ \E r \in Requests : ConsumePending(Targets(r))
  BY DEF RouteNext, RouteStep, RefuseUnknownJob, ReceiveApproval, ReadSpend,
         ClaimMismatch, ClaimCommit, ClaimFails, ConsumeTargets,
         AuditDecisions, SendDecision, SendFails, WebCrash, storeVars
<1> QED BY <1>1 DEF ConsumePending
============================================================================
