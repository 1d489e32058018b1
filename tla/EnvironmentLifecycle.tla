------------------------ MODULE EnvironmentLifecycle ------------------------
(***************************************************************************)
(* What provisioning promises about the validation environments of one     *)
(* request: a new one only while none is active, a worker that finishes    *)
(* once, and a teardown that is final.                                     *)
(***************************************************************************)
EXTENDS Naturals, Sequences

VARIABLE status    \* the status of each environment, oldest first

EnvStatus == {"provisioning", "ready", "failed", "torn_down"}

Active == {"provisioning", "ready"}

Init == status = <<>>

Request ==
  /\ \A e \in DOMAIN status : status[e] \notin Active
  /\ status' = Append(status, "provisioning")

Finish(e) ==
  /\ status[e] = "provisioning"
  /\ \E end \in {"ready", "failed"} : status' = [status EXCEPT ![e] = end]

TearDown(e) == status' = [status EXCEPT ![e] = "torn_down"]

Next == Request \/ \E e \in DOMAIN status : Finish(e) \/ TearDown(e)

Spec == Init /\ [][Next]_status
=============================================================================
