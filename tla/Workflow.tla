------------------------------ MODULE Workflow ------------------------------
(***************************************************************************)
(* Roles, request statuses and the table of allowed transitions            *)
(* (backend/app/domain/enums.py, services/workflow_service.py).            *)
(***************************************************************************)

Role == {"requester", "reviewer", "architect", "admin"}

PrivilegedRole == {"reviewer", "architect", "admin"}

RequestStatus == {"draft", "submitted", "ready_for_review", "under_review",
                  "approved", "rejected"}

Decided == {"approved", "rejected"}

\* The rows of the table for the requester's side of the workflow.
RequesterRow(status, role) ==
  CASE status = "draft" /\ role \in {"requester", "admin"} -> {"submitted"}
    [] status = "submitted" /\ role \in {"requester", "admin"} -> {"ready_for_review"}
    [] status = "ready_for_review" /\ role \in {"requester", "admin"} -> {"submitted"}
    [] OTHER -> {}

ReviewActions == {"under_review", "approved", "rejected"}

\* ALLOWED_TRANSITIONS: the loop over the privileged roles adds the review
\* actions to the `submitted` row, and puts them in place of whatever the
\* `ready_for_review` row held.
Allowed(status, role) ==
  CASE role \in PrivilegedRole /\ status = "submitted" ->
         RequesterRow(status, role) \cup ReviewActions
    [] role \in PrivilegedRole /\ status = "ready_for_review" -> ReviewActions
    [] role \in PrivilegedRole /\ status = "under_review" -> Decided
    [] OTHER -> RequesterRow(status, role)
=============================================================================
