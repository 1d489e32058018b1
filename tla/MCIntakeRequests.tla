-------------------------- MODULE MCIntakeRequests --------------------------
(***************************************************************************)
(* One request of a requester, a reviewer and an admin; two valid payloads *)
(* of different risk and one that submit refuses.                          *)
(***************************************************************************)
EXTENDS IntakeRequests

MCUsers == {"own", "rev", "adm"}

MCRoleOf == [u \in MCUsers |->
  CASE u = "own" -> "requester" [] u = "rev" -> "reviewer" [] OTHER -> "admin"]

MCRiskOf == [p \in {"p1", "p2"} |-> IF p = "p1" THEN "low" ELSE "high"]

\* The default policy, one that requires a run, one that forbids overriding.
MCPolicies ==
  { DefaultPolicy,
    [require |-> TRUE, block |-> TRUE, override |-> TRUE],
    [require |-> FALSE, block |-> TRUE, override |-> FALSE] }

OnlyDefaultPolicy == {DefaultPolicy}

\* Not between a commit and its event.
Elsewhere == Steps \ {"event"}
=============================================================================
