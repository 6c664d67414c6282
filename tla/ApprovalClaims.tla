--------------------------- MODULE ApprovalClaims ---------------------------
(***************************************************************************)
(* The approve route and the job_step table by themselves, in front of a   *)
(* worker that may register any step and record any usage at any time.     *)
(* DurableJob's worker has one pending step at a time; the store and the   *)
(* route promise more, for decision sets over several pending steps.       *)
(***************************************************************************)
EXTENDS ApproveRoute

CONSTANT Usages    \* token counts the worker may record

ASSUME ClaimsAssumption == Usages \subseteq Nat

VARIABLE used      \* the steps whose usage was recorded (bounds the writes)

vars == <<storeVars, eventVars, routeVars, used>>

Init ==
  /\ StoreInit
  /\ EventsInit
  /\ RouteInit
  /\ used = {}

AnyInsert == ~jobRow /\ InsertJob /\ UNCHANGED <<eventVars, routeVars, used>>

AnyRegister(s) == RegisterPending(s) /\ UNCHANGED <<eventVars, routeVars, used>>

AnyUsage(s, n) ==
  /\ s \notin used
  /\ used' = used \cup {s}
  /\ RecordStepUsage(s, n)
  /\ UNCHANGED <<eventVars, routeVars>>

Next ==
  \/ AnyInsert
  \/ \E s \in StepIds : AnyRegister(s) \/ \E n \in Usages : AnyUsage(s, n)
  \/ RouteNext /\ UNCHANGED used

Spec == Init /\ [][Next]_vars

TypeOK == StoreTypeOK /\ EventsTypeOK /\ RouteTypeOK /\ used \subseteq StepIds

ClaimedWhole(r) == \A s \in Targets(r) : claimedBy[s] = r
ClaimedNone(r) == \A s \in StepIds : claimedBy[s] # r

\* A decision set is consumed whole or not at all, also when sets overlap and
\* race, and the answer tells which: 202 and 429 kept the rows, 404 and 409
\* took none.  After a 500 or a crash it is still one of the two.
ClaimIsAllOrNothing ==
  \A r \in Requests :
    /\ ClaimedWhole(r) \/ ClaimedNone(r)
    /\ status[r] \in {202, 429} \/ reqPc[r] \in {"audit", "send"} => ClaimedWhole(r)
    /\ status[r] \in {404, 409} => ClaimedNone(r)

\* What the engine is told of a step is the decision of the one request that
\* consumed its row, and a row without a claimant was never consumed.
EventsMatchClaims ==
  /\ \A d \in signals :
       \E r \in Requests :
         claimedBy[d.step] = r /\ \E k \in 1..sentUpTo[r] + 1 :
           k <= Len(Chosen(r)) /\ Chosen(r)[k] = d
  /\ \A s \in StepIds : approvalState[s] = "consumed" <=> claimedBy[s] # NoRequest
=============================================================================
