-------------------------- MODULE RequestLifecycle --------------------------
(***************************************************************************)
(* What the intake service promises of one request, whatever the handlers  *)
(* do in between: only a draft's payload changes, submitting derives the   *)
(* risk from the payload that is submitted, every other change of status   *)
(* is a row of the workflow table (so a decision is final).                 *)
(***************************************************************************)
EXTENDS Workflow

CONSTANTS Payloads, ValidPayloads, RiskOf, NoRisk

VARIABLES status, payload, risk

vars == <<status, payload, risk>>

Init == status = "draft" /\ payload \in Payloads /\ risk = NoRisk

Edit ==
  /\ status = "draft"
  /\ payload' \in Payloads
  /\ UNCHANGED <<status, risk>>

\* From a draft, and again from ready_for_review: wherever the table lets some
\* role reach `submitted`.
Submit ==
  /\ \E role \in Role : "submitted" \in Allowed(status, role)
  /\ payload \in ValidPayloads
  /\ status' = "submitted"
  /\ risk' = RiskOf[payload]
  /\ UNCHANGED payload

Move ==
  /\ \E role \in Role : status' \in Allowed(status, role)
  /\ UNCHANGED <<payload, risk>>

Next == Edit \/ Submit \/ Move

Spec == Init /\ [][Next]_vars
=============================================================================
