--------------------------- MODULE IntakeRequests ---------------------------
(***************************************************************************)
(* One intake request and the handlers that change it                      *)
(* (services/request_service.py, api/requests.py), with the approval gate  *)
(* (services/validation_approval_service.py), the policy it reads and the  *)
(* validation runs it looks at.                                            *)
(*                                                                         *)
(* FastAPI runs these synchronous handlers in a thread pool, each with a   *)
(* database session of its own.  A handler reads the request once, checks, *)
(* and commits later; an UPDATE carries the changed columns and no version *)
(* check.  So a call is a record that moves through its reads and commits, *)
(* and other calls, runs and policy changes come in between -- unless      *)
(* Serial says that each call has the database for itself.                 *)
(***************************************************************************)
EXTENDS Naturals, Sequences, FiniteSets, Workflow, RunLifecycle

CONSTANTS
  Users, Owner, RoleOf,         \* RoleOf \in [Users -> Role]
  Payloads, ValidPayloads,      \* those submit's two validations accept
  RiskOf, NoRisk,               \* RiskOf: ValidPayloads -> risk levels
  Policies,                     \* the validation policies admins may set
  Slots,                        \* calls that may be in progress at once
  MaxCalls, MaxRuns,            \* bounds on calls and validation runs
  Serial,
  StopsAt                       \* the process may stop while each call in progress
                                \* stands at one of these steps

ASSUME UserAssumption == Owner \in Users /\ RoleOf \in [Users -> Role]
ASSUME PayloadAssumption ==
  /\ ValidPayloads \subseteq Payloads
  /\ DOMAIN RiskOf = ValidPayloads
  /\ \A p \in ValidPayloads : RiskOf[p] # NoRisk

Policy == [require : BOOLEAN, block : BOOLEAN, override : BOOLEAN]

\* _DEFAULTS, the policy before any admin sets one.
DefaultPolicy == [require |-> FALSE, block |-> TRUE, override |-> TRUE]

ASSUME PolicyAssumption == Policies \subseteq Policy
ASSUME BoundAssumption == MaxCalls \in Nat /\ MaxRuns \in Nat
                          /\ Serial \in BOOLEAN

VARIABLES
  req,      \* the intake_requests row: [status, payload, risk]
  policy,   \* the effective validation policy
  runs,     \* the request's validation runs, oldest first: [status, impact]
  log,      \* the request's history
  calls,    \* the calls in progress
  started   \* calls started so far

vars == <<req, policy, runs, log, calls, started>>

Risks == {RiskOf[p] : p \in ValidPayloads} \cup {NoRisk}

\* What an approving call says about overriding a blocked gate.
Overrides == {"none", "blank", "reason"}

Steps == {"idle", "gate", "latest", "blocked", "override", "commit", "event", "risk", "replied"}

ASSUME StopAssumption == StopsAt \subseteq Steps

Ops == {"update", "submit", "status"}

Replies == {"none", "ok", "forbidden", "conflict", "not_allowed", "invalid",
            "gate_blocked", "override_disabled", "reason_required"}

Call == [step : Steps, op : Ops, user : Users, target : RequestStatus,
         override : Overrides, payload : Payloads, risk : Risks,
         seen : RequestStatus, policy : Policy, overrode : BOOLEAN, reply : Replies]

Events == {"updated", "submitted", "risk_evaluated", "status_changed",
           "approval_blocked", "override_used"}

LogEntry == [kind : Events, from : RequestStatus, to : RequestStatus, by : Users]

TypeOK ==
  /\ req \in [status : RequestStatus, payload : Payloads, risk : Risks]
  /\ policy \in Policy
  /\ runs \in Seq([status : RunStatus, impact : ApprovalImpact])
  /\ log \in Seq(LogEntry)
  /\ calls \in [Slots -> Call]
  /\ started \in Nat

IdleCall(p) ==
  [step |-> "idle", op |-> "update", user |-> Owner, target |-> "draft",
   override |-> "none", payload |-> p, risk |-> NoRisk, seen |-> "draft",
   policy |-> DefaultPolicy, overrode |-> FALSE, reply |-> "none"]

-----------------------------------------------------------------------------
\* create_draft has saved the row; the policy is whatever admins last set.
Init ==
  /\ \E p \in Payloads :
       /\ req = [status |-> "draft", payload |-> p, risk |-> NoRisk]
       /\ calls = [c \in Slots |-> IdleCall(p)]
  /\ policy \in Policies
  /\ runs = <<>>
  /\ log = <<>>
  /\ started = 0

Busy(c) == calls[c].step \notin {"idle", "replied"}

Quiet == \A c \in Slots : ~Busy(c)

OwnsOrPrivileged(u) == u = Owner \/ RoleOf[u] \in PrivilegedRole

\* Mistaken: update_draft does not look at the status.
UpdateRefusalOwnerOnly(u) == IF u # Owner THEN "forbidden" ELSE "none"

\* Each refusal is the first of the handler's checks that fails.
UpdateRefusal(u) ==
  CASE u # Owner -> "forbidden"
    [] u = Owner /\ req.status # "draft" -> "conflict"
    [] OTHER -> "none"

SubmitRefusal(u) ==
  CASE u # Owner -> "forbidden"
    [] u = Owner /\ "submitted" \notin Allowed(req.status, RoleOf[u]) -> "not_allowed"
    [] u = Owner /\ "submitted" \in Allowed(req.status, RoleOf[u])
         /\ req.payload \notin ValidPayloads -> "invalid"
    [] OTHER -> "none"

OwnerOnly == {<<"submitted", "ready_for_review">>, <<"ready_for_review", "submitted">>}

StatusRefusal(u, target) ==
  LET mayMark == <<req.status, target>> \in OwnerOnly => u = Owner \/ RoleOf[u] = "admin" IN
  CASE ~OwnsOrPrivileged(u) \/ ~mayMark -> "forbidden"
    [] OwnsOrPrivileged(u) /\ mayMark /\ target \notin Allowed(req.status, RoleOf[u]) ->
         "not_allowed"
    [] OTHER -> "none"

\* A call reads the request and checks it; `first` is where an admitted call
\* goes on.
Admit(c, call, refusal, first) ==
  /\ calls[c].step = "idle"
  /\ started < MaxCalls
  /\ Serial => Quiet
  /\ started' = started + 1
  /\ calls' = [calls EXCEPT ![c] =
       IF refusal = "none" THEN [call EXCEPT !.step = first, !.seen = req.status]
       ELSE [call EXCEPT !.step = "replied", !.seen = req.status, !.reply = refusal]]
  /\ UNCHANGED <<req, policy, runs, log>>

StartUpdate(c, u, p) ==
  Admit(c, [IdleCall(p) EXCEPT !.op = "update", !.user = u], UpdateRefusal(u), "commit")

\* submit derives the risk from the payload it read.
StartSubmit(c, u) ==
  LET call == [IdleCall(req.payload) EXCEPT !.op = "submit", !.user = u,
                                            !.target = "submitted"]
  IN Admit(c, IF SubmitRefusal(u) = "none" THEN [call EXCEPT !.risk = RiskOf[req.payload]]
              ELSE call,
           SubmitRefusal(u), "commit")

StartChangeStatus(c, u, target, override) ==
  /\ override # "none" => target = "approved"
  /\ Admit(c, [IdleCall(req.payload) EXCEPT !.op = "status", !.user = u, !.target = target,
                                            !.override = override],
           StatusRefusal(u, target),
           IF target = "approved" THEN "gate" ELSE "commit")

-----------------------------------------------------------------------------
(* The approval gate. *)

\* The run with the highest id, whatever its status.
HasCompletedLatest == runs # <<>> /\ runs[Len(runs)].status \in CompletedStatus

BlockedUnder(p) ==
  \/ p.require /\ ~HasCompletedLatest
  \/ HasCompletedLatest /\ p.block /\ runs[Len(runs)].impact = "blocked"

GateBlocked == BlockedUnder(policy)

At(c, step) == calls[c].step = step

Goto(c, step) == calls' = [calls EXCEPT ![c].step = step]

Reply(c, code) == calls' = [calls EXCEPT ![c].step = "replied", ![c].reply = code]

\* The gate takes two queries, the policy's first.
ReadPolicy(c) ==
  /\ At(c, "gate")
  /\ calls' = [calls EXCEPT ![c].step = "latest", ![c].policy = policy]
  /\ UNCHANGED <<req, policy, runs, log, started>>

GateOpens(c) == ~BlockedUnder(calls[c].policy)

\* Mistaken: an override opens the gate and leaves no trace.
EvaluateGateSilently(c) ==
  /\ At(c, "latest")
  /\ \/ GateOpens(c) /\ Goto(c, "commit")
     \/ ~GateOpens(c) /\ calls[c].override = "none" /\ Goto(c, "blocked")
     \/ ~GateOpens(c) /\ calls[c].override # "none" /\ ~calls[c].policy.override
          /\ Reply(c, "override_disabled")
     \/ ~GateOpens(c) /\ calls[c].override # "none" /\ calls[c].policy.override
          /\ Goto(c, "commit")
  /\ UNCHANGED <<req, policy, runs, log, started>>

EvaluateGate(c) ==
  /\ At(c, "latest")
  /\ \/ GateOpens(c) /\ Goto(c, "commit")
     \/ ~GateOpens(c) /\ calls[c].override = "none" /\ Goto(c, "blocked")
     \/ ~GateOpens(c) /\ calls[c].override # "none" /\ ~calls[c].policy.override
          /\ Reply(c, "override_disabled")
     \/ ~GateOpens(c) /\ calls[c].override = "blank" /\ calls[c].policy.override
          /\ Reply(c, "reason_required")
     \/ ~GateOpens(c) /\ calls[c].override = "reason" /\ calls[c].policy.override
          /\ Goto(c, "override")
  /\ UNCHANGED <<req, policy, runs, log, started>>

Entry(c, kind, from, to) == [kind |-> kind, from |-> from, to |-> to, by |-> calls[c].user]

RecordBlocked(c) ==
  /\ At(c, "blocked")
  /\ log' = Append(log, Entry(c, "approval_blocked", calls[c].seen, calls[c].seen))
  /\ Reply(c, "gate_blocked")
  /\ UNCHANGED <<req, policy, runs, started>>

\* Mistaken: the event waits until the approval is done.
RecordOverrideLater(c) ==
  /\ At(c, "override")
  /\ calls' = [calls EXCEPT ![c].step = "commit", ![c].overrode = TRUE]
  /\ UNCHANGED <<req, policy, runs, log, started>>

RecordOverride(c) ==
  /\ At(c, "override")
  /\ log' = Append(log, Entry(c, "override_used", calls[c].seen, calls[c].seen))
  /\ calls' = [calls EXCEPT ![c].step = "commit", ![c].overrode = TRUE]
  /\ UNCHANGED <<req, policy, runs, started>>

-----------------------------------------------------------------------------
(* The commits. *)

CommitUpdate(c) ==
  /\ At(c, "commit") /\ calls[c].op = "update"
  /\ req' = [req EXCEPT !.payload = calls[c].payload]
  /\ Goto(c, "event")
  /\ UNCHANGED <<policy, runs, log, started>>

CommitSubmit(c) ==
  /\ At(c, "commit") /\ calls[c].op = "submit"
  /\ req' = [req EXCEPT !.status = "submitted", !.risk = calls[c].risk]
  /\ Goto(c, "event")
  /\ UNCHANGED <<policy, runs, log, started>>

\* Mistaken: from_status is taken after the assignment.
CommitStatusLateFrom(c) ==
  /\ At(c, "commit") /\ calls[c].op = "status"
  /\ req' = [req EXCEPT !.status = calls[c].target]
  /\ calls' = [calls EXCEPT ![c].step = "event", ![c].seen = calls[c].target]
  /\ UNCHANGED <<policy, runs, log, started>>

\* `from_status = req.status`: the status read at the start, unless the commit
\* of an override event has expired the row, which is then read again.
CommitStatus(c) ==
  /\ At(c, "commit") /\ calls[c].op = "status"
  /\ req' = [req EXCEPT !.status = calls[c].target]
  /\ calls' = [calls EXCEPT ![c].step = "event",
                            ![c].seen = IF calls[c].overrode THEN req.status ELSE @]
  /\ UNCHANGED <<policy, runs, log, started>>

\* Mistaken: the event is named after the operation.
EventOfOperation(op) == op

EventOf(op) ==
  CASE op = "update" -> "updated" [] op = "submit" -> "submitted" [] OTHER -> "status_changed"

\* Mistaken: the ends of the transition are swapped.
RecordEventSwapped(c) ==
  /\ At(c, "event")
  /\ log' = Append(log,
       Entry(c, EventOf(calls[c].op),
             IF calls[c].op = "update" THEN calls[c].seen ELSE calls[c].target,
             calls[c].seen))
  /\ IF calls[c].op = "submit" THEN Goto(c, "risk") ELSE Reply(c, "ok")
  /\ UNCHANGED <<req, policy, runs, started>>

\* The event names the status the call saw and, for a transition, its target.
RecordEvent(c) ==
  /\ At(c, "event")
  /\ log' = Append(log,
       Entry(c, EventOf(calls[c].op), calls[c].seen,
             IF calls[c].op = "update" THEN calls[c].seen ELSE calls[c].target))
  /\ IF calls[c].op = "submit" THEN Goto(c, "risk") ELSE Reply(c, "ok")
  /\ UNCHANGED <<req, policy, runs, started>>

RecordRisk(c) ==
  /\ At(c, "risk")
  /\ log' = Append(log, Entry(c, "risk_evaluated", calls[c].target, calls[c].target))
  /\ Reply(c, "ok")
  /\ UNCHANGED <<req, policy, runs, started>>

\* The client has its answer; the slot is free.
Return(c) ==
  /\ At(c, "replied")
  /\ calls' = [calls EXCEPT ![c] = IdleCall(calls[c].payload)]
  /\ UNCHANGED <<req, policy, runs, log, started>>

Handler(c) ==
  \/ \E u \in Users :
       \/ \E p \in Payloads : StartUpdate(c, u, p)
       \/ StartSubmit(c, u)
       \/ \E target \in RequestStatus, o \in Overrides : StartChangeStatus(c, u, target, o)
  \/ ReadPolicy(c) \/ EvaluateGate(c) \/ RecordBlocked(c) \/ RecordOverride(c)
  \/ CommitUpdate(c) \/ CommitSubmit(c) \/ CommitStatus(c)
  \/ RecordEvent(c) \/ RecordRisk(c)
  \/ Return(c)

-----------------------------------------------------------------------------
(* What the gate reads is written elsewhere, as RunLifecycle has it. *)

\* start_run looks at the environment, not at the request's status.
StartRun ==
  /\ Serial => Quiet
  /\ Len(runs) < MaxRuns
  /\ runs' = Append(runs, Open)
  /\ UNCHANGED <<req, policy, log, calls, started>>

ChangeRun(i) ==
  /\ Serial => Quiet
  /\ \E after \in Verdicts \cup {Errored} :
       MayBecome(runs[i], after) /\ runs' = [runs EXCEPT ![i] = after]
  /\ UNCHANGED <<req, policy, log, calls, started>>

SetPolicy ==
  /\ Serial => Quiet
  /\ policy' \in Policies
  /\ UNCHANGED <<req, runs, log, calls, started>>

\* The process stops: calls in progress end where they are.
Crash ==
  /\ ~Quiet
  /\ \A c \in Slots : Busy(c) => calls[c].step \in StopsAt
  /\ calls' = [c \in Slots |-> IdleCall(calls[c].payload)]
  /\ UNCHANGED <<req, policy, runs, log, started>>

Environment == StartRun \/ (\E i \in DOMAIN runs : ChangeRun(i)) \/ SetPolicy \/ Crash

Next == (\E c \in Slots : Handler(c)) \/ Environment

Spec == Init /\ [][Next]_vars

-----------------------------------------------------------------------------
(* Properties *)

Transitions == {k \in DOMAIN log : log[k].kind \in {"submitted", "status_changed"}}

\* With one call at a time, what the multi-step handlers do to the row is what
\* the lifecycle promises: edits only of drafts, risk derived from the payload
\* that is submitted, transitions from the table (request_service.py).
Lifecycle == INSTANCE RequestLifecycle
             WITH status <- req.status, payload <- req.payload, risk <- req.risk

ImplementsLifecycle == Lifecycle!Spec

\* The history tells the row's story when no call is in progress, also after a stop
\* of the process, unless it fell between a commit and its event: its
\* transitions form a chain from `draft` to the row's status
\* (README: "every status transition is recorded").
HistoryExplainsStatus ==
  Quiet =>
    /\ \A k \in Transitions :
         LET earlier == {j \in Transitions : j < k} IN
         log[k].from = IF earlier = {} THEN "draft"
                       ELSE log[CHOOSE j \in earlier : \A i \in earlier : i <= j].to
    /\ req.status = IF Transitions = {} THEN "draft"
                    ELSE log[CHOOSE k \in Transitions : \A j \in Transitions : j <= k].to

\* What a caller was told is done is on record, whatever other calls and a
\* crash do: the event of an acknowledged call names it and its target
\* (each handler answers after the event's commit).
AcknowledgedIsRecorded ==
  \A c \in Slots :
    calls[c].reply = "ok" =>
      \E k \in DOMAIN log :
        /\ log[k].kind = EventOf(calls[c].op) /\ log[k].by = calls[c].user
        /\ calls[c].op # "update" => log[k].to = calls[c].target

\* An approval takes effect only while the gate is open, or by a call that
\* recorded an override (request_service.py _enforce_validation_gate, read in
\* one step and acted on in a later one).
ApprovalRespectsGate ==
  [][req.status' = "approved" /\ req.status # "approved" =>
       \/ ~GateBlocked
       \/ \E c \in Slots : calls[c].step = "commit" /\ calls'[c].step = "event"
                           /\ calls[c].overrode]_vars

\* Every request that is past the draft passed submit's checks, and its risk
\* is that of the payload reviewers see (README: "every submitted request gets"
\* a risk classification).
SubmittedHasRisk ==
  req.status # "draft" => req.payload \in ValidPayloads /\ req.risk = RiskOf[req.payload]
=============================================================================
