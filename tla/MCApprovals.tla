---------------------------- MODULE MCApprovals ----------------------------
(***************************************************************************)
(* One request of a requester and a reviewer, while a run and two policies *)
(* change.                                                                 *)
(***************************************************************************)
EXTENDS MCIntakeRequests, Approvals, TLC

TwoUsers == {"own", "rev"}

TwoRoles == [u \in TwoUsers |-> MCRoleOf[u]]

OneRisk == [p \in {"p1"} |-> "low"]

\* Both want a run; one lets it pass however it ended.  A call that reads that one
\* and then a run that fails meanwhile finds the gate open that never was.
TwoPolicies == [require : {TRUE}, block : BOOLEAN, override : {TRUE}]
\* No call is told from another by its slot.
SlotSymmetry == Permutations(Slots)
=============================================================================
