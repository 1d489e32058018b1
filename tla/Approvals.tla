----------------------------- MODULE Approvals -----------------------------
(***************************************************************************)
(* Approvals beside everything else: the gate's two queries and the commit *)
(* of the approval are steps apart, and runs end and admins set policies   *)
(* meanwhile.  A history variable keeps what was true during each call.    *)
(***************************************************************************)
EXTENDS IntakeRequests

VARIABLE
  watch   \* of each call in progress: the policies that were in effect since it
          \* began, whether all of them have blocked all along, and the length
          \* that the history had when it began

approvalVars == <<vars, watch>>

BeginWatch == [policies |-> {policy}, shut |-> GateBlocked, since |-> Len(log)]

\* A policy that was in effect may have been read: it counts from then on.
GoOnWatching(c) ==
  LET policies == watch[c].policies \cup {policy'}
  IN [policies |-> policies,
      shut |-> watch[c].shut /\ \A p \in policies : BlockedUnder(p)',
      since |-> watch[c].since]

Watch == watch' = [c \in Slots |-> IF Busy(c) THEN GoOnWatching(c) ELSE BeginWatch']

ApprovalsInit == Init /\ watch = [c \in Slots |-> BeginWatch]

ApprovalsNext == Next /\ Watch

ApprovalsSpec == ApprovalsInit /\ [][ApprovalsNext]_approvalVars

-----------------------------------------------------------------------------
(* Properties. *)

\* An approval that the gate could not have let pass is a recorded override, in
\* any interleaving and however early the process stops: if no policy of the
\* call's time lets the runs of that moment or of a later one pass, this user's
\* override was committed to the history during the call and before the approval
\* (request_service.py _enforce_validation_gate).  That does not keep an approval
\* from a gate that opens and closes during the call, nor from one that opens only
\* for an old policy and a new run: those do happen.
ApprovalIsAccountedFor ==
  [][\A c \in Slots :
       /\ At(c, "commit") /\ calls'[c].step = "event" /\ calls[c].target = "approved"
       /\ watch[c].shut
       => \E k \in DOMAIN log :
            k > watch[c].since /\ log[k].kind = "override_used" /\ log[k].by = calls[c].user
    ]_approvalVars
=============================================================================
