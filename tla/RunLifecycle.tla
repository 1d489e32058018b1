---------------------------- MODULE RunLifecycle ----------------------------
(***************************************************************************)
(* What the validation runner promises of a run to whoever reads its row,  *)
(* as the approval gate does: the verdict of its steps or an error, once,  *)
(* and a verdict that only an error takes back.  ValidationRunner keeps    *)
(* the promise; IntakeRequests relies on it.                               *)
(***************************************************************************)
EXTENDS Aggregation

\* A run without an end, and one that ended in an error; their impact is not
\* looked at.
Open == [status |-> "queued", impact |-> "none"]
Errored == [status |-> "error", impact |-> "none"]

Verdicts == {Clean, Warned, Blocked}

\* What the gate can tell of a row.
Shows(row) ==
  CASE row.status \in CompletedStatus -> [status |-> row.status, impact |-> row.impact]
    [] row.status = "error" -> Errored
    [] OTHER -> Open

MayBecome(before, after) ==
  \/ before = Open /\ after \in Verdicts \cup {Errored}
  \/ before \in Verdicts /\ after = Errored
=============================================================================
