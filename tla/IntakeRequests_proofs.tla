----------------------- MODULE IntakeRequests_proofs -----------------------
(***************************************************************************)
(* For every set of users, payloads, policies and slots: the request       *)
(* handlers keep their types; what callers are told is in the history, and *)
(* an approval that no policy of its time let pass is a recorded override, *)
(* under any concurrency; and, when each call has the database for itself, *)
(* they implement the request lifecycle, approve only through the gate,    *)
(* and leave a history that explains the status.                           *)
(***************************************************************************)
EXTENDS Approvals, TLAPS

RunRow == [status : RunStatus, impact : ApprovalImpact]

LEMMA RoleType == \A u \in Users : RoleOf[u] \in Role
BY UserAssumption DEF UserAssumption

LEMMA RiskType == \A p \in ValidPayloads : RiskOf[p] \in Risks
BY DEF Risks

LEMMA IdleCallType == \A p \in Payloads : IdleCall(p) \in Call
BY UserAssumption
DEF UserAssumption, IdleCall, Call, Steps, Ops, Overrides, Replies, Risks, RequestStatus,
    Policy, DefaultPolicy

LEMMA RefusalTypes ==
  /\ \A u \in Users : UpdateRefusal(u) \in Replies /\ SubmitRefusal(u) \in Replies
  /\ \A u \in Users, t \in RequestStatus : StatusRefusal(u, t) \in Replies
BY DEF UpdateRefusal, SubmitRefusal, StatusRefusal, Replies

\* A slot's call moves on, and keeps its type.
LEMMA MoveType ==
  ASSUME calls \in [Slots -> Call], NEW c \in Slots, NEW step \in Steps
  PROVE  /\ Goto(c, step) => calls' \in [Slots -> Call]
         /\ \A code \in Replies : Reply(c, code) => calls' \in [Slots -> Call]
<1>1. [calls[c] EXCEPT !.step = step] \in Call
  BY DEF Call
<1>2. ASSUME NEW code \in Replies PROVE [calls[c] EXCEPT !.step = "replied", !.reply = code] \in Call
  BY DEF Call, Steps
<1>3. QED
  BY <1>1, <1>2 DEF Goto, Reply

LEMMA AdmitType ==
  ASSUME TypeOK, NEW c \in Slots, NEW call \in Call, NEW refusal \in Replies,
         NEW first \in Steps, Admit(c, call, refusal, first)
  PROVE  TypeOK'
<1>1. [call EXCEPT !.step = first, !.seen = req.status] \in Call
  BY DEF TypeOK, Call
<1>2. [call EXCEPT !.step = "replied", !.seen = req.status, !.reply = refusal] \in Call
  BY DEF TypeOK, Call, Steps
<1>3. calls' \in [Slots -> Call]
  BY <1>1, <1>2 DEF TypeOK, Admit
<1>4. QED
  BY <1>3 DEF TypeOK, Admit

LEMMA RequestTypeStep == TypeOK /\ [Next]_vars => TypeOK'
<1> SUFFICES ASSUME TypeOK, [Next]_vars PROVE TypeOK'
  OBVIOUS
<1>1. ASSUME NEW c \in Slots, NEW u \in Users, NEW p \in Payloads, StartUpdate(c, u, p)
      PROVE  TypeOK'
  <2>1. [IdleCall(p) EXCEPT !.op = "update", !.user = u] \in Call
    <3>1. IdleCall(p) \in Call /\ "update" \in Ops
      BY IdleCallType DEF Ops
    <3>2. QED
      BY <3>1 DEF Call
  <2>2. UpdateRefusal(u) \in Replies /\ "commit" \in Steps
    BY RefusalTypes DEF Steps
  <2>3. QED
    BY <1>1, <2>1, <2>2, AdmitType DEF StartUpdate
<1>2. ASSUME NEW c \in Slots, NEW u \in Users, StartSubmit(c, u)
      PROVE  TypeOK'
  <2> DEFINE call == [IdleCall(req.payload) EXCEPT !.op = "submit", !.user = u,
                                                   !.target = "submitted"]
             rated == [call EXCEPT !.risk = RiskOf[req.payload]]
  <2>1. call \in Call
    <3>1. IdleCall(req.payload) \in Call /\ "submit" \in Ops /\ "submitted" \in RequestStatus
      BY IdleCallType DEF TypeOK, Ops, RequestStatus
    <3>2. QED
      BY <3>1 DEF Call
  <2>2. SubmitRefusal(u) = "none" => req.payload \in ValidPayloads
    BY DEF SubmitRefusal
  <2>3. SubmitRefusal(u) = "none" => rated \in Call
    BY <2>1, <2>2, RiskType DEF Call
  <2>4. SubmitRefusal(u) \in Replies /\ "commit" \in Steps
    BY RefusalTypes DEF Steps
  <2>5. Admit(c, IF SubmitRefusal(u) = "none" THEN rated ELSE call, SubmitRefusal(u), "commit")
    BY <1>2 DEF StartSubmit
  <2> HIDE DEF call, rated
  <2>6. (IF SubmitRefusal(u) = "none" THEN rated ELSE call) \in Call
    BY <2>1, <2>3
  <2>7. QED
    BY <2>4, <2>5, <2>6, AdmitType
<1>3. ASSUME NEW c \in Slots, NEW u \in Users, NEW target \in RequestStatus,
             NEW o \in Overrides, StartChangeStatus(c, u, target, o)
      PROVE  TypeOK'
  <2> DEFINE call == [IdleCall(req.payload) EXCEPT !.op = "status", !.user = u,
                                                   !.target = target, !.override = o]
             first == IF target = "approved" THEN "gate" ELSE "commit"
  <2>1. call \in Call
    <3>1. IdleCall(req.payload) \in Call /\ "status" \in Ops
      BY IdleCallType DEF TypeOK, Ops
    <3>2. QED
      BY <3>1 DEF Call
  <2>2. StatusRefusal(u, target) \in Replies /\ first \in Steps
    BY RefusalTypes DEF Steps
  <2>3. Admit(c, call, StatusRefusal(u, target), first)
    BY <1>3 DEF StartChangeStatus
  <2> HIDE DEF call, first
  <2>4. QED
    BY <2>1, <2>2, <2>3, AdmitType
<1>16. ASSUME NEW c \in Slots, ReadPolicy(c) PROVE TypeOK'
  <2>1. [calls[c] EXCEPT !.step = "latest", !.policy = policy] \in Call
    BY DEF TypeOK, Call, Steps
  <2>2. QED
    BY <1>16, <2>1 DEF ReadPolicy, TypeOK
<1>4. ASSUME NEW c \in Slots, EvaluateGate(c) PROVE TypeOK'
  BY <1>4, MoveType DEF EvaluateGate, TypeOK, Steps, Replies
<1>5. ASSUME NEW c \in Slots, RecordBlocked(c) PROVE TypeOK'
  <2>1. Entry(c, "approval_blocked", calls[c].seen, calls[c].seen) \in LogEntry
    BY DEF TypeOK, Entry, LogEntry, Events, Call
  <2>2. QED
    BY <1>5, <2>1, MoveType DEF RecordBlocked, TypeOK, Steps, Replies
<1>6. ASSUME NEW c \in Slots, RecordOverride(c) PROVE TypeOK'
  <2>1. Entry(c, "override_used", calls[c].seen, calls[c].seen) \in LogEntry
    BY DEF TypeOK, Entry, LogEntry, Events, Call
  <2>2. [calls[c] EXCEPT !.step = "commit", !.overrode = TRUE] \in Call
    BY DEF TypeOK, Call, Steps
  <2>3. QED
    BY <1>6, <2>1, <2>2 DEF RecordOverride, TypeOK
<1>7. ASSUME NEW c \in Slots, CommitUpdate(c) \/ CommitSubmit(c) \/ CommitStatus(c)
      PROVE  TypeOK'
  <2>0. calls[c] \in Call /\ "event" \in Steps
    BY DEF TypeOK, Steps
  <2>1. req' \in [status : RequestStatus, payload : Payloads, risk : Risks]
    BY <1>7, <2>0 DEF CommitUpdate, CommitSubmit, CommitStatus, TypeOK, Call, RequestStatus
  <2>2. \A s \in RequestStatus : [calls[c] EXCEPT !.step = "event", !.seen = s] \in Call
    BY <2>0 DEF Call
  <2>3. CASE CommitUpdate(c) \/ CommitSubmit(c)
    BY <2>1, <2>3, MoveType DEF CommitUpdate, CommitSubmit, TypeOK, Steps
  <2>4. CASE CommitStatus(c)
    <3>1. PICK s \in RequestStatus :
            calls' = [calls EXCEPT ![c] = [calls[c] EXCEPT !.step = "event", !.seen = s]]
      BY <2>0, <2>4 DEF CommitStatus, TypeOK, Call
    <3>2. calls' \in [Slots -> Call]
      BY <2>2, <3>1 DEF TypeOK
    <3>3. QED
      BY <2>1, <2>4, <3>2 DEF CommitStatus, TypeOK
  <2>5. QED
    BY <1>7, <2>3, <2>4
<1>8. ASSUME NEW c \in Slots, RecordEvent(c) PROVE TypeOK'
  <2>1. Entry(c, EventOf(calls[c].op), calls[c].seen,
              IF calls[c].op = "update" THEN calls[c].seen ELSE calls[c].target) \in LogEntry
    BY DEF TypeOK, Entry, EventOf, LogEntry, Events, Call
  <2>2. QED
    BY <1>8, <2>1, MoveType DEF RecordEvent, TypeOK, Steps, Replies
<1>9. ASSUME NEW c \in Slots, RecordRisk(c) PROVE TypeOK'
  <2>1. Entry(c, "risk_evaluated", calls[c].target, calls[c].target) \in LogEntry
    BY DEF TypeOK, Entry, LogEntry, Events, Call
  <2>2. QED
    BY <1>9, <2>1, MoveType DEF RecordRisk, TypeOK, Steps, Replies
<1>10. ASSUME NEW c \in Slots, Return(c) PROVE TypeOK'
  <2>1. IdleCall(calls[c].payload) \in Call
    BY IdleCallType DEF TypeOK, Call
  <2>2. QED
    BY <1>10, <2>1 DEF Return, TypeOK
<1>11. CASE StartRun
  BY <1>11 DEF StartRun, Open, TypeOK, RunStatus, ApprovalImpact
<1>12. ASSUME NEW i \in DOMAIN runs, ChangeRun(i) PROVE TypeOK'
  <2>1. Verdicts \cup {Errored} \subseteq RunRow
    BY DEF Verdicts, Errored, Clean, Warned, Blocked, RunRow, RunStatus, ApprovalImpact
  <2>2. PICK end \in RunRow : runs' = [runs EXCEPT ![i] = end]
    BY <1>12, <2>1 DEF ChangeRun
  <2>3. runs' \in Seq(RunRow)
    BY <2>2 DEF TypeOK, RunRow
  <2>4. QED
    BY <1>12, <2>3 DEF ChangeRun, TypeOK, RunRow
<1>13. CASE SetPolicy
  BY <1>13, PolicyAssumption DEF PolicyAssumption, SetPolicy, TypeOK
<1>14. CASE Crash
  <2>1. \A c \in Slots : IdleCall(calls[c].payload) \in Call
    BY IdleCallType DEF TypeOK, Call
  <2>2. QED
    BY <1>14, <2>1 DEF Crash, TypeOK
<1>15. CASE UNCHANGED vars
  BY <1>15 DEF vars, TypeOK
<1>17. QED
  BY <1>16, <1>1, <1>2, <1>3, <1>4, <1>5, <1>6, <1>7, <1>8, <1>9, <1>10, <1>11, <1>12, <1>13,
     <1>14, <1>15 DEF Next, Handler, Environment

LEMMA InitType == Init => TypeOK
<1> SUFFICES ASSUME Init PROVE TypeOK
  OBVIOUS
<1>1. PICK p \in Payloads :
        /\ req = [status |-> "draft", payload |-> p, risk |-> NoRisk]
        /\ calls = [c \in Slots |-> IdleCall(p)]
  BY DEF Init
<1>2. calls \in [Slots -> Call]
  BY <1>1, IdleCallType
<1>3. req \in [status : RequestStatus, payload : Payloads, risk : Risks]
  BY <1>1 DEF RequestStatus, Risks
<1>4. QED
  BY <1>2, <1>3, PolicyAssumption DEF PolicyAssumption, Init, TypeOK

\* The handlers' rows, logs and calls keep their types, under any concurrency.
THEOREM RequestsTypeCorrect == Spec => []TypeOK
BY InitType, RequestTypeStep, PTL DEF Spec

-----------------------------------------------------------------------------
(* One call at a time. *)

OneBusy == \A c, d \in Slots : Busy(c) /\ Busy(d) => c = d

\* What a call checked still holds when it commits.
CheckStands(c) ==
  calls[c].step \in {"gate", "latest", "blocked", "override", "commit"} =>
    /\ calls[c].seen = req.status
    /\ calls[c].step = "latest" => calls[c].policy = policy
    /\ calls[c].op = "update" => req.status = "draft"
    /\ calls[c].op = "submit" =>
         /\ req.payload \in ValidPayloads
         /\ calls[c].risk = RiskOf[req.payload]
         /\ \E role \in Role : "submitted" \in Allowed(req.status, role)
    /\ calls[c].op = "status" => \E role \in Role : calls[c].target \in Allowed(req.status, role)
    /\ calls[c].op = "status" /\ calls[c].target = "approved" /\ calls[c].step = "commit" =>
         ~GateBlocked \/ calls[c].overrode

SerialInv == TypeOK /\ OneBusy /\ \A c \in Slots : CheckStands(c)

LEMMA AdmitSerial ==
  ASSUME SerialInv, Serial, NEW c \in Slots, NEW call \in Call, NEW refusal \in Replies,
         NEW first \in Steps, Admit(c, call, refusal, first),
         refusal = "none" =>
           /\ first \in {"gate", "commit"}
           /\ call.op = "update" => req.status = "draft"
           /\ call.op = "submit" =>
                /\ req.payload \in ValidPayloads
                /\ call.risk = RiskOf[req.payload]
                /\ \E role \in Role : "submitted" \in Allowed(req.status, role)
           /\ call.op = "status" => \E role \in Role : call.target \in Allowed(req.status, role)
           /\ call.op = "status" /\ call.target = "approved" => first = "gate"
  PROVE  OneBusy' /\ \A d \in Slots : CheckStands(d)'
<1>1. /\ \A d \in Slots : ~Busy(d)
      /\ UNCHANGED <<req, policy, runs>>
      /\ calls \in [Slots -> Call]
  BY DEF Admit, Quiet, SerialInv, TypeOK
<1>2. \A d \in Slots : d # c => calls'[d] = calls[d]
  BY <1>1 DEF Admit
<1>3. CASE refusal = "none"
  <2>1. calls'[c] = [call EXCEPT !.step = first, !.seen = req.status]
    BY <1>1, <1>3 DEF Admit
  <2>2. CheckStands(c)'
    BY <1>1, <1>3, <2>1 DEF CheckStands, Call, GateBlocked, BlockedUnder, HasCompletedLatest
  <2>3. \A d \in Slots : d # c => ~Busy(d)' /\ CheckStands(d)'
    BY <1>1, <1>2 DEF Busy, CheckStands
  <2>4. QED
    BY <2>2, <2>3 DEF OneBusy
<1>4. CASE refusal # "none"
  <2>1. calls'[c] = [call EXCEPT !.step = "replied", !.seen = req.status, !.reply = refusal]
    BY <1>1, <1>4 DEF Admit
  <2>2. calls'[c].step = "replied"
    BY <2>1 DEF Call
  <2>3. \A d \in Slots : ~Busy(d)' /\ CheckStands(d)'
    BY <1>1, <1>2, <2>2 DEF Busy, CheckStands
  <2>4. QED
    BY <2>3 DEF OneBusy
<1>5. QED
  BY <1>3, <1>4

\* A step of the one busy call: no other call is between its check and its
\* commit, so only this call's facts are to be shown.
LEMMA BusySerial ==
  ASSUME SerialInv, NEW c \in Slots, Busy(c), CheckStands(c)',
         \A d \in Slots : d # c => calls'[d] = calls[d]
  PROVE  OneBusy' /\ \A d \in Slots : CheckStands(d)'
<1>1. \A d \in Slots : d # c => ~Busy(d)
  BY DEF SerialInv, OneBusy
<1>2. \A d \in Slots : d # c => ~Busy(d)' /\ CheckStands(d)'
  BY <1>1 DEF Busy, CheckStands
<1>3. QED
  BY <1>2 DEF OneBusy

LEMMA SerialStep == Serial /\ SerialInv /\ [Next]_vars => SerialInv'
<1> SUFFICES ASSUME Serial, SerialInv, [Next]_vars
             PROVE  OneBusy' /\ \A d \in Slots : CheckStands(d)'
  BY RequestTypeStep DEF SerialInv
<1>0. TypeOK /\ OneBusy /\ (\A d \in Slots : CheckStands(d)) /\ calls \in [Slots -> Call]
  BY DEF SerialInv, TypeOK
<1>1. ASSUME NEW c \in Slots, NEW u \in Users, NEW p \in Payloads, StartUpdate(c, u, p)
      PROVE  OneBusy' /\ \A d \in Slots : CheckStands(d)'
  <2> DEFINE call == [IdleCall(p) EXCEPT !.op = "update", !.user = u]
  <2>1. call \in Call /\ call.op = "update"
    <3>1. IdleCall(p) \in Call /\ "update" \in Ops
      BY IdleCallType DEF Ops
    <3>2. QED
      BY <3>1 DEF Call
  <2>2. UpdateRefusal(u) \in Replies /\ "commit" \in Steps
    BY RefusalTypes DEF Steps
  <2>3. UpdateRefusal(u) = "none" => req.status = "draft"
    BY DEF UpdateRefusal
  <2>4. Admit(c, call, UpdateRefusal(u), "commit")
    BY <1>1 DEF StartUpdate
  <2> HIDE DEF call
  <2>5. QED
    BY <2>1, <2>2, <2>3, <2>4, AdmitSerial
<1>2. ASSUME NEW c \in Slots, NEW u \in Users, StartSubmit(c, u)
      PROVE  OneBusy' /\ \A d \in Slots : CheckStands(d)'
  <2> DEFINE call == [IdleCall(req.payload) EXCEPT !.op = "submit", !.user = u,
                                                   !.target = "submitted"]
             rated == [call EXCEPT !.risk = RiskOf[req.payload]]
             sent == IF SubmitRefusal(u) = "none" THEN rated ELSE call
  <2>1. call \in Call /\ call.op = "submit"
    <3>1. /\ IdleCall(req.payload) \in Call /\ "submit" \in Ops
          /\ "submitted" \in RequestStatus
      BY <1>0, IdleCallType DEF TypeOK, Ops, RequestStatus
    <3>2. QED
      BY <3>1 DEF Call
  <2>2. SubmitRefusal(u) = "none" =>
          /\ req.payload \in ValidPayloads
          /\ \E role \in Role : "submitted" \in Allowed(req.status, role)
    BY RoleType DEF SubmitRefusal
  <2>3. SubmitRefusal(u) = "none" =>
          rated \in Call /\ rated.op = "submit" /\ rated.risk = RiskOf[req.payload]
    BY <2>1, <2>2, RiskType DEF Call
  <2>4. SubmitRefusal(u) \in Replies /\ "commit" \in Steps
    BY RefusalTypes DEF Steps
  <2>5. Admit(c, sent, SubmitRefusal(u), "commit")
    BY <1>2 DEF StartSubmit
  <2> HIDE DEF call, rated
  <2>6. sent \in Call /\ sent.op = "submit"
    BY <2>1, <2>3
  <2>7. SubmitRefusal(u) = "none" => sent.risk = RiskOf[req.payload]
    BY <2>3
  <2> HIDE DEF sent
  <2>8. QED
    BY <2>2, <2>4, <2>5, <2>6, <2>7, AdmitSerial
<1>3. ASSUME NEW c \in Slots, NEW u \in Users, NEW target \in RequestStatus,
             NEW o \in Overrides, StartChangeStatus(c, u, target, o)
      PROVE  OneBusy' /\ \A d \in Slots : CheckStands(d)'
  <2> DEFINE call == [IdleCall(req.payload) EXCEPT !.op = "status", !.user = u,
                                                   !.target = target, !.override = o]
             first == IF target = "approved" THEN "gate" ELSE "commit"
  <2>1. call \in Call /\ call.op = "status" /\ call.target = target
    <3>1. IdleCall(req.payload) \in Call /\ "status" \in Ops
      BY <1>0, IdleCallType DEF TypeOK, Ops
    <3>2. QED
      BY <3>1 DEF Call
  <2>2. StatusRefusal(u, target) \in Replies /\ first \in Steps
    BY RefusalTypes DEF Steps
  <2>3. StatusRefusal(u, target) = "none" =>
          \E role \in Role : target \in Allowed(req.status, role)
    <3>1. StatusRefusal(u, target) = "none" => target \in Allowed(req.status, RoleOf[u])
      BY DEF StatusRefusal
    <3>2. QED
      BY <3>1, RoleType
  <2>4. Admit(c, call, StatusRefusal(u, target), first)
    BY <1>3 DEF StartChangeStatus
  <2>5. first \in {"gate", "commit"} /\ (target = "approved" => first = "gate")
    OBVIOUS
  <2> HIDE DEF call, first
  <2>6. QED
    BY <2>1, <2>2, <2>3, <2>4, <2>5, AdmitSerial
<1>11. ASSUME NEW c \in Slots, ReadPolicy(c)
      PROVE  OneBusy' /\ \A d \in Slots : CheckStands(d)'
  <2>1. /\ Busy(c) /\ calls[c] \in Call
        /\ \A d \in Slots : d # c => calls'[d] = calls[d]
        /\ UNCHANGED <<req, policy, runs>>
        /\ calls'[c] = [calls[c] EXCEPT !.step = "latest", !.policy = policy]
    BY <1>0, <1>11 DEF ReadPolicy, At, Busy
  <2>2. CheckStands(c)'
    BY <1>0, <1>11, <2>1 DEF CheckStands, ReadPolicy, At, Call
  <2>3. QED
    BY <2>1, <2>2, BusySerial
<1>4. ASSUME NEW c \in Slots, EvaluateGate(c)
      PROVE  OneBusy' /\ \A d \in Slots : CheckStands(d)'
  <2>1. /\ Busy(c) /\ calls[c] \in Call
        /\ \A d \in Slots : d # c => calls'[d] = calls[d]
        /\ UNCHANGED <<req, policy, runs>>
    BY <1>0, <1>4 DEF EvaluateGate, At, Busy, Goto, Reply
  <2>2. \/ ~GateBlocked /\ calls'[c] = [calls[c] EXCEPT !.step = "commit"]
        \/ calls'[c] = [calls[c] EXCEPT !.step = "blocked"]
        \/ calls'[c] = [calls[c] EXCEPT !.step = "override"]
        \/ calls'[c].step = "replied"
    <3>1. \A code : Reply(c, code) => calls'[c].step = "replied"
      BY <1>0, <2>1 DEF Reply, Call
    <3>2. \A step : Goto(c, step) => calls'[c] = [calls[c] EXCEPT !.step = step]
      BY <1>0 DEF Goto
    <3>3. GateOpens(c) => ~GateBlocked
      BY <1>0, <1>4 DEF EvaluateGate, At, CheckStands, GateOpens, GateBlocked
    <3>4. QED
      BY <1>4, <3>1, <3>2, <3>3 DEF EvaluateGate
  <2>3. CheckStands(c)'
    BY <1>0, <1>4, <2>1, <2>2
    DEF CheckStands, EvaluateGate, At, Call, GateBlocked, BlockedUnder, HasCompletedLatest
  <2>4. QED
    BY <2>1, <2>3, BusySerial
<1>5. ASSUME NEW c \in Slots, RecordOverride(c)
      PROVE  OneBusy' /\ \A d \in Slots : CheckStands(d)'
  <2>1. /\ Busy(c) /\ calls[c] \in Call
        /\ \A d \in Slots : d # c => calls'[d] = calls[d]
        /\ UNCHANGED <<req, policy, runs>>
        /\ calls'[c] = [calls[c] EXCEPT !.step = "commit", !.overrode = TRUE]
    BY <1>0, <1>5 DEF RecordOverride, At, Busy
  <2>2. CheckStands(c)'
    BY <1>0, <1>5, <2>1 DEF CheckStands, RecordOverride, At, Call
  <2>3. QED
    BY <2>1, <2>2, BusySerial
<1>6. ASSUME NEW c \in Slots,
             \/ RecordBlocked(c) \/ CommitUpdate(c) \/ CommitSubmit(c) \/ CommitStatus(c)
             \/ RecordEvent(c) \/ RecordRisk(c)
      PROVE  OneBusy' /\ \A d \in Slots : CheckStands(d)'
  <2>1. /\ Busy(c) /\ calls[c] \in Call
        /\ \A d \in Slots : d # c => calls'[d] = calls[d]
    BY <1>0, <1>6
    DEF RecordBlocked, CommitUpdate, CommitSubmit, CommitStatus, RecordEvent, RecordRisk,
        At, Busy, Goto, Reply
  <2>2. calls'[c].step \in {"event", "risk", "replied"}
    BY <1>0, <1>6, <2>1
    DEF RecordBlocked, CommitUpdate, CommitSubmit, CommitStatus, RecordEvent, RecordRisk,
        Goto, Reply, Call
  <2>3. CheckStands(c)'
    BY <2>2 DEF CheckStands
  <2>4. QED
    BY <2>1, <2>3, BusySerial
<1>7. ASSUME NEW c \in Slots, Return(c)
      PROVE  OneBusy' /\ \A d \in Slots : CheckStands(d)'
  <2>1. calls'[c].step = "idle" /\ UNCHANGED <<req, policy, runs>>
    BY <1>0, <1>7 DEF Return, IdleCall
  <2>2. \A d \in Slots : d # c => calls'[d] = calls[d]
    BY <1>0, <1>7 DEF Return
  <2>3. QED
    BY <1>0, <2>1, <2>2
    DEF OneBusy, Busy, CheckStands, GateBlocked, BlockedUnder, HasCompletedLatest
<1>8. CASE StartRun \/ (\E i \in DOMAIN runs : ChangeRun(i)) \/ SetPolicy
  <2>1. Quiet /\ UNCHANGED <<req, calls>>
    BY <1>8 DEF StartRun, ChangeRun, SetPolicy
  <2>2. QED
    BY <2>1 DEF OneBusy, Busy, Quiet, CheckStands
<1>9. CASE Crash
  <2>1. \A d \in Slots : calls'[d].step = "idle"
    BY <1>9 DEF Crash, IdleCall
  <2>2. QED
    BY <2>1 DEF OneBusy, Busy, CheckStands
<1>10. CASE UNCHANGED vars
  BY <1>0, <1>10 DEF vars, OneBusy, Busy, CheckStands, GateBlocked, BlockedUnder,
        HasCompletedLatest
<1>12. QED
  BY <1>11, <1>1, <1>2, <1>3, <1>4, <1>5, <1>6, <1>7, <1>8, <1>9, <1>10
  DEF Next, Handler, Environment

LEMMA SerialInvHolds == Serial => (Spec => []SerialInv)
<1>1. Init => OneBusy /\ \A c \in Slots : CheckStands(c)
  <2> SUFFICES ASSUME Init PROVE \A c \in Slots : ~Busy(c) /\ CheckStands(c)
    BY DEF OneBusy
  <2>1. \A c \in Slots : calls[c].step = "idle"
    BY DEF Init, IdleCall
  <2>2. QED
    BY <2>1 DEF Busy, CheckStands
<1>2. Serial /\ SerialInv /\ [Next]_vars => SerialInv'
  BY SerialStep
<1>3. SUFFICES ASSUME Serial PROVE Spec => []SerialInv
  OBVIOUS
<1>4. TypeOK /\ OneBusy /\ (\A c \in Slots : CheckStands(c)) => SerialInv
  BY DEF SerialInv
<1>5. SerialInv /\ [Next]_vars => SerialInv'
  BY <1>2, <1>3
<1>6. QED
  BY <1>1, <1>4, <1>5, RequestsTypeCorrect, PTL DEF Spec

LEMMA SameTable == \A status, role : Lifecycle!Allowed(status, role) = Allowed(status, role)
BY DEF Allowed, Lifecycle!Allowed, RequesterRow, Lifecycle!RequesterRow, PrivilegedRole,
   Lifecycle!PrivilegedRole, ReviewActions, Lifecycle!ReviewActions, Decided, Lifecycle!Decided

\* Only the three commits write the request's row.
LEMMA OnlyCommitsWrite ==
  [Next]_vars => \/ \E c \in Slots : CommitUpdate(c) \/ CommitSubmit(c) \/ CommitStatus(c)
                 \/ req' = req
<1>1. ASSUME NEW c \in Slots, Handler(c)
      PROVE  CommitUpdate(c) \/ CommitSubmit(c) \/ CommitStatus(c) \/ req' = req
  <2>1. \A call, refusal, first : Admit(c, call, refusal, first) => req' = req
    BY DEF Admit
  <2>2. (\E u \in Users : \/ \E p \in Payloads : StartUpdate(c, u, p)
                         \/ StartSubmit(c, u)
                         \/ \E target \in RequestStatus, o \in Overrides :
                              StartChangeStatus(c, u, target, o)) => req' = req
    BY <2>1, Zenon DEF StartUpdate, StartSubmit, StartChangeStatus
  <2>3. ReadPolicy(c) \/ EvaluateGate(c) \/ RecordBlocked(c) \/ RecordOverride(c)
          \/ RecordEvent(c) \/ RecordRisk(c) \/ Return(c) => req' = req
    BY DEF ReadPolicy, EvaluateGate, RecordBlocked, RecordOverride, RecordEvent, RecordRisk, Return
  <2>4. QED
    BY <1>1, <2>2, <2>3, Zenon DEF Handler
<1>2. Environment \/ UNCHANGED vars => req' = req
  BY DEF Environment, StartRun, ChangeRun, SetPolicy, Crash, vars
<1>3. QED
  BY <1>1, <1>2, Zenon DEF Next

LEMMA LifecycleStep == SerialInv /\ [Next]_vars => [Lifecycle!Next]_(Lifecycle!vars)
<1> SUFFICES ASSUME SerialInv, [Next]_vars PROVE Lifecycle!Next \/ UNCHANGED Lifecycle!vars
  OBVIOUS
<1>0. TypeOK /\ \A c \in Slots : CheckStands(c) /\ calls[c] \in Call
  BY DEF SerialInv, TypeOK
<1>1. ASSUME NEW c \in Slots, CommitUpdate(c) PROVE Lifecycle!Edit
  <2>1. req.status = "draft" /\ calls[c].payload \in Payloads
    BY <1>0, <1>1 DEF CommitUpdate, At, CheckStands, Call
  <2>2. QED
    BY <1>0, <1>1, <2>1 DEF CommitUpdate, TypeOK, Lifecycle!Edit
<1>2. ASSUME NEW c \in Slots, CommitSubmit(c) PROVE Lifecycle!Submit
  <2>1. /\ req.payload \in ValidPayloads
        /\ calls[c].risk = RiskOf[req.payload]
        /\ \E role \in Lifecycle!Role : "submitted" \in Lifecycle!Allowed(req.status, role)
    BY <1>0, <1>2, SameTable DEF CommitSubmit, At, CheckStands, Role, Lifecycle!Role
  <2>2. QED
    BY <1>0, <1>2, <2>1 DEF CommitSubmit, TypeOK, Lifecycle!Submit
<1>3. ASSUME NEW c \in Slots, CommitStatus(c) PROVE Lifecycle!Move
  <2>1. \E role \in Lifecycle!Role : calls[c].target \in Lifecycle!Allowed(req.status, role)
    BY <1>0, <1>3, SameTable DEF CommitStatus, At, CheckStands, Role, Lifecycle!Role
  <2>2. QED
    BY <1>0, <1>3, <2>1 DEF CommitStatus, TypeOK, Lifecycle!Move
<1>4. ASSUME UNCHANGED req PROVE UNCHANGED Lifecycle!vars
  BY <1>4 DEF Lifecycle!vars
<1>5. QED
  BY <1>1, <1>2, <1>3, <1>4, OnlyCommitsWrite, Zenon DEF Lifecycle!Next

\* Where each call has the database for itself, the handlers, for all their
\* reads, commits and crashes, implement the lifecycle of a request.
THEOREM SerialImplementsLifecycle == Serial => (Spec => ImplementsLifecycle)
<1>1. Init => Lifecycle!Init
  BY DEF Init, Lifecycle!Init
<1>2. SUFFICES ASSUME Serial PROVE Spec => ImplementsLifecycle
  OBVIOUS
<1>3. Spec => []SerialInv
  BY <1>2, SerialInvHolds
<1>4. QED
  BY <1>1, <1>3, LifecycleStep, PTL DEF Spec, ImplementsLifecycle, Lifecycle!Spec

\* Where each call has the database for itself, a request becomes approved
\* only through an open gate or by a call whose override is in the history.
THEOREM SerialApprovalRespectsGate == Serial => (Spec => ApprovalRespectsGate)
<1> DEFINE Respects ==
      req'.status = "approved" /\ req.status # "approved" =>
        \/ ~GateBlocked
        \/ \E c \in Slots : calls[c].step = "commit" /\ calls'[c].step = "event"
                            /\ calls[c].overrode
<1>1. SerialInv /\ [Next]_vars => Respects
  <2> SUFFICES ASSUME SerialInv, [Next]_vars,
                      req'.status = "approved", req.status # "approved"
               PROVE  \/ ~GateBlocked
                      \/ \E c \in Slots : calls[c].step = "commit" /\ calls'[c].step = "event"
                                          /\ calls[c].overrode
    OBVIOUS
  <2>0. TypeOK /\ \A c \in Slots : CheckStands(c) /\ calls[c] \in Call
    BY DEF SerialInv, TypeOK
  <2>1. ASSUME NEW c \in Slots, CommitStatus(c)
        PROVE  \/ ~GateBlocked
               \/ \E d \in Slots : calls[d].step = "commit" /\ calls'[d].step = "event"
                                   /\ calls[d].overrode
    <3>1. calls[c].target = "approved"
      BY <2>0, <2>1 DEF CommitStatus, TypeOK
    <3>2. ~GateBlocked \/ calls[c].overrode
      BY <2>0, <2>1, <3>1 DEF CommitStatus, At, CheckStands
    <3>3. calls[c].step = "commit" /\ calls'[c].step = "event"
      BY <2>0, <2>1 DEF CommitStatus, At, TypeOK, Call
    <3>4. QED
      BY <3>2, <3>3
  <2>2. ASSUME NEW c \in Slots, CommitUpdate(c) \/ CommitSubmit(c) PROVE FALSE
    BY <2>0, <2>2 DEF CommitUpdate, CommitSubmit, TypeOK
  <2>3. \/ \E c \in Slots : CommitStatus(c) \/ CommitUpdate(c) \/ CommitSubmit(c)
        \/ UNCHANGED req
    BY OnlyCommitsWrite
  <2>4. QED
    BY <2>1, <2>2, <2>3
<1>2. SUFFICES ASSUME Serial PROVE Spec => ApprovalRespectsGate
  OBVIOUS
<1>3. Spec => []SerialInv
  BY <1>2, SerialInvHolds
<1>4. Respects => [req.status' = "approved" /\ req.status # "approved" =>
                    \/ ~GateBlocked
                    \/ \E c \in Slots : calls[c].step = "commit" /\ calls'[c].step = "event"
                                        /\ calls[c].overrode]_vars
  OBVIOUS
<1> HIDE DEF Respects
<1>5. QED
  BY <1>1, <1>3, <1>4, PTL DEF Spec, ApprovalRespectsGate

-----------------------------------------------------------------------------
(* What the history holds, under any concurrency and with a process that   *)
(* may stop: the log only grows, and a call goes on after its event.       *)

Recorded(c) ==
  \E k \in DOMAIN log :
    /\ log[k].kind = EventOf(calls[c].op) /\ log[k].by = calls[c].user
    /\ calls[c].op # "update" => log[k].to = calls[c].target

\* A call that has answered, or has only its risk to record, has its event.
Told(c) == calls[c].step = "risk" \/ calls[c].reply = "ok" => Recorded(c)

RecordInv == TypeOK /\ \A c \in Slots : Told(c)

LogGrows == DOMAIN log \subseteq DOMAIN log' /\ \A k \in DOMAIN log : log'[k] = log[k]

\* A call that keeps what it is, and says no more than before.
LEMMA CallKept ==
  ASSUME NEW c, Told(c), LogGrows,
         calls'[c].op = calls[c].op, calls'[c].user = calls[c].user,
         calls'[c].target = calls[c].target,
         calls'[c].step = "risk" \/ calls'[c].reply = "ok" =>
           calls[c].step = "risk" \/ calls[c].reply = "ok"
  PROVE  Told(c)'
BY DEF Told, Recorded, LogGrows

\* A call that says nothing yet.
LEMMA CallFresh ==
  ASSUME NEW c, calls'[c].step # "risk", calls'[c].reply # "ok"
  PROVE  Told(c)'
BY DEF Told

LEMMA AppendGrows ==
  ASSUME TypeOK, NEW e, log' = Append(log, e)
  PROVE  LogGrows /\ Len(log) + 1 \in DOMAIN log' /\ log'[Len(log) + 1] = e
         /\ DOMAIN log' = DOMAIN log \cup {Len(log) + 1} /\ DOMAIN log = 1..Len(log) /\ Len(log) \in Nat
<1>1. log \in Seq(LogEntry)
  BY DEF TypeOK
<1> HIDE DEF LogEntry
<1> QED BY <1>1 DEF LogGrows

LEMMA AdmitRecord ==
  ASSUME RecordInv, NEW c \in Slots, NEW call \in Call, NEW refusal, NEW first,
         Admit(c, call, refusal, first), first # "risk", refusal # "ok",
         call.reply = "none"
  PROVE  LogGrows /\ Told(c)' /\ \A d \in Slots \ {c} : calls'[d] = calls[d]
<1>1. UNCHANGED log /\ calls \in [Slots -> Call]
  BY DEF Admit, RecordInv, TypeOK
<1>2. /\ calls'[c] = IF refusal = "none" THEN [call EXCEPT !.step = first, !.seen = req.status]
                     ELSE [call EXCEPT !.step = "replied", !.seen = req.status, !.reply = refusal]
      /\ \A d \in Slots \ {c} : calls'[d] = calls[d]
  BY <1>1 DEF Admit
<1>3. calls'[c].step # "risk" /\ calls'[c].reply # "ok"
  BY <1>2 DEF Call
<1> QED BY <1>1, <1>2, <1>3, CallFresh DEF LogGrows

LEMMA RefusalsSayNo ==
  \A u, t : UpdateRefusal(u) # "ok" /\ SubmitRefusal(u) # "ok" /\ StatusRefusal(u, t) # "ok"
BY DEF UpdateRefusal, SubmitRefusal, StatusRefusal

LEMMA IdleSaysNothing ==
  \A p : IdleCall(p).step = "idle" /\ IdleCall(p).reply = "none"
BY DEF IdleCall

LEMMA HandlerRecord ==
  ASSUME RecordInv, NEW c \in Slots, Handler(c)
  PROVE  LogGrows /\ Told(c)' /\ \A d \in Slots \ {c} : calls'[d] = calls[d]
<1>0. TypeOK /\ calls \in [Slots -> Call] /\ calls[c] \in Call /\ Told(c)
  BY DEF RecordInv, TypeOK
<1>1. ASSUME NEW u \in Users, NEW p \in Payloads, StartUpdate(c, u, p)
      PROVE  LogGrows /\ Told(c)' /\ \A d \in Slots \ {c} : calls'[d] = calls[d]
  <2> DEFINE call == [IdleCall(p) EXCEPT !.op = "update", !.user = u]
  <2>1. IdleCall(p) \in Call /\ "update" \in Ops
    BY IdleCallType DEF Ops
  <2>2. call \in Call /\ call.reply = "none"
    BY <2>1, IdleSaysNothing DEF Call
  <2>3. Admit(c, call, UpdateRefusal(u), "commit")
    BY <1>1 DEF StartUpdate
  <2> HIDE DEF call
  <2> QED BY <2>2, <2>3, AdmitRecord, RefusalsSayNo
<1>2. ASSUME NEW u \in Users, StartSubmit(c, u)
      PROVE  LogGrows /\ Told(c)' /\ \A d \in Slots \ {c} : calls'[d] = calls[d]
  <2> DEFINE call == [IdleCall(req.payload) EXCEPT !.op = "submit", !.user = u,
                                                   !.target = "submitted"]
             sent == IF SubmitRefusal(u) = "none" THEN [call EXCEPT !.risk = RiskOf[req.payload]]
                     ELSE call
  <2>1. /\ IdleCall(req.payload) \in Call /\ "submit" \in Ops
        /\ "submitted" \in RequestStatus
    BY <1>0, IdleCallType DEF TypeOK, Ops, RequestStatus
  <2>2. call \in Call /\ call.reply = "none"
    BY <2>1, IdleSaysNothing DEF Call
  <2>3. SubmitRefusal(u) = "none" => RiskOf[req.payload] \in Risks
    BY RiskType DEF SubmitRefusal
  <2>4. Admit(c, sent, SubmitRefusal(u), "commit")
    BY <1>2 DEF StartSubmit
  <2> HIDE DEF call
  <2>5. sent \in Call /\ sent.reply = "none"
    BY <2>2, <2>3 DEF Call
  <2> HIDE DEF sent
  <2> QED BY <2>4, <2>5, AdmitRecord, RefusalsSayNo
<1>3. ASSUME NEW u \in Users, NEW target \in RequestStatus, NEW o \in Overrides,
             StartChangeStatus(c, u, target, o)
      PROVE  LogGrows /\ Told(c)' /\ \A d \in Slots \ {c} : calls'[d] = calls[d]
  <2> DEFINE call == [IdleCall(req.payload) EXCEPT !.op = "status", !.user = u,
                                                   !.target = target, !.override = o]
             first == IF target = "approved" THEN "gate" ELSE "commit"
  <2>1. IdleCall(req.payload) \in Call /\ "status" \in Ops
    BY <1>0, IdleCallType DEF TypeOK, Ops
  <2>2. call \in Call /\ call.reply = "none"
    BY <2>1, IdleSaysNothing DEF Call
  <2>3. Admit(c, call, StatusRefusal(u, target), first) /\ first # "risk"
    BY <1>3 DEF StartChangeStatus
  <2> HIDE DEF call, first
  <2> QED BY <2>2, <2>3, AdmitRecord, RefusalsSayNo
<1>4. ASSUME ReadPolicy(c) \/ EvaluateGate(c) \/ RecordBlocked(c)
      PROVE  LogGrows /\ Told(c)' /\ \A d \in Slots \ {c} : calls'[d] = calls[d]
  <2>1. \/ \E step \in {"commit", "blocked", "override"} : Goto(c, step)
        \/ \E code \in {"override_disabled", "reason_required", "gate_blocked"} : Reply(c, code)
        \/ calls' = [calls EXCEPT ![c].step = "latest", ![c].policy = policy]
    BY <1>4 DEF ReadPolicy, EvaluateGate, RecordBlocked
  <2>2. /\ calls'[c].op = calls[c].op /\ calls'[c].user = calls[c].user
        /\ calls'[c].target = calls[c].target
        /\ calls'[c].step # "risk" /\ (calls'[c].reply = "ok" => calls[c].reply = "ok")
        /\ \A d \in Slots \ {c} : calls'[d] = calls[d]
    BY <1>0, <2>1 DEF Goto, Reply, Call
  <2>3. LogGrows
    <3>1. CASE ReadPolicy(c) \/ EvaluateGate(c)
      BY <3>1 DEF ReadPolicy, EvaluateGate, LogGrows
    <3>2. CASE RecordBlocked(c)
      BY <1>0, <3>2, AppendGrows DEF RecordBlocked
    <3> QED BY <1>4, <3>1, <3>2
  <2> QED BY <1>0, <2>2, <2>3, CallKept
<1>5. ASSUME RecordOverride(c)
      PROVE  LogGrows /\ Told(c)' /\ \A d \in Slots \ {c} : calls'[d] = calls[d]
  <2>1. /\ calls'[c] = [calls[c] EXCEPT !.step = "commit", !.overrode = TRUE]
        /\ \A d \in Slots \ {c} : calls'[d] = calls[d]
    BY <1>0, <1>5 DEF RecordOverride
  <2>2. /\ calls'[c].op = calls[c].op /\ calls'[c].user = calls[c].user
        /\ calls'[c].target = calls[c].target /\ calls'[c].step = "commit"
        /\ calls'[c].reply = calls[c].reply
    BY <1>0, <2>1 DEF Call
  <2>3. /\ LogGrows /\ Len(log) + 1 \in DOMAIN log'
        /\ log'[Len(log) + 1] = Entry(c, "override_used", calls[c].seen, calls[c].seen)
    BY <1>0, <1>5, AppendGrows DEF RecordOverride
  <2>4. Told(c)'
    BY <1>0, <2>2, <2>3 DEF Told, Recorded, LogGrows
  <2> QED BY <2>1, <2>3, <2>4
<1>6. ASSUME CommitUpdate(c) \/ CommitSubmit(c) \/ CommitStatus(c)
      PROVE  LogGrows /\ Told(c)' /\ \A d \in Slots \ {c} : calls'[d] = calls[d]
  <2>1. LogGrows
    BY <1>6 DEF CommitUpdate, CommitSubmit, CommitStatus, LogGrows
  <2>2. /\ calls'[c].op = calls[c].op /\ calls'[c].user = calls[c].user
        /\ calls'[c].target = calls[c].target
        /\ calls'[c].step = "event" /\ calls'[c].reply = calls[c].reply
        /\ \A d \in Slots \ {c} : calls'[d] = calls[d]
    BY <1>0, <1>6 DEF CommitUpdate, CommitSubmit, CommitStatus, Goto, Call
  <2> QED BY <1>0, <2>1, <2>2, CallKept
<1>7. ASSUME RecordEvent(c)
      PROVE  LogGrows /\ Told(c)' /\ \A d \in Slots \ {c} : calls'[d] = calls[d]
  <2>1. Goto(c, "risk") \/ Reply(c, "ok")
    BY <1>7 DEF RecordEvent
  <2>2. /\ calls'[c].op = calls[c].op /\ calls'[c].user = calls[c].user
        /\ calls'[c].target = calls[c].target
        /\ \A d \in Slots \ {c} : calls'[d] = calls[d]
    BY <1>0, <2>1 DEF Goto, Reply, Call
  <2>3. /\ LogGrows /\ Len(log) + 1 \in DOMAIN log'
        /\ log'[Len(log) + 1] = Entry(c, EventOf(calls[c].op), calls[c].seen,
              IF calls[c].op = "update" THEN calls[c].seen ELSE calls[c].target)
    BY <1>0, <1>7, AppendGrows DEF RecordEvent
  <2>4. Recorded(c)'
    BY <2>2, <2>3 DEF Recorded, Entry
  <2> QED BY <2>2, <2>3, <2>4 DEF Told
<1>8. ASSUME RecordRisk(c)
      PROVE  LogGrows /\ Told(c)' /\ \A d \in Slots \ {c} : calls'[d] = calls[d]
  <2>1. /\ calls'[c].op = calls[c].op /\ calls'[c].user = calls[c].user
        /\ calls'[c].target = calls[c].target
        /\ calls[c].step = "risk"
        /\ \A d \in Slots \ {c} : calls'[d] = calls[d]
    BY <1>0, <1>8 DEF RecordRisk, At, Reply, Call
  <2>2. LogGrows
    BY <1>0, <1>8, AppendGrows DEF RecordRisk
  <2> QED BY <1>0, <2>1, <2>2, CallKept
<1>9. ASSUME Return(c)
      PROVE  LogGrows /\ Told(c)' /\ \A d \in Slots \ {c} : calls'[d] = calls[d]
  <2>1. /\ calls'[c] = IdleCall(calls[c].payload) /\ UNCHANGED log
        /\ \A d \in Slots \ {c} : calls'[d] = calls[d]
    BY <1>0, <1>9 DEF Return
  <2>2. calls'[c].step = "idle" /\ calls'[c].reply = "none"
    BY <2>1, IdleSaysNothing
  <2> QED BY <2>1, <2>2, CallFresh DEF LogGrows
<1> QED BY <1>1, <1>2, <1>3, <1>4, <1>5, <1>6, <1>7, <1>8, <1>9 DEF Handler

LEMMA RecordStep == RecordInv /\ [Next]_vars => RecordInv'
<1> SUFFICES ASSUME RecordInv, [Next]_vars PROVE \A c \in Slots : Told(c)'
  BY RequestTypeStep DEF RecordInv
<1>1. ASSUME NEW c \in Slots, Handler(c), NEW d \in Slots PROVE Told(d)'
  <2>1. CASE d = c
    BY <1>1, <2>1, HandlerRecord
  <2>2. CASE d # c
    <3>1. LogGrows /\ calls'[d] = calls[d] /\ Told(d)
      BY <1>1, <2>2, HandlerRecord DEF RecordInv
    <3> QED BY <3>1, CallKept
  <2> QED BY <2>1, <2>2
<1>2. ASSUME StartRun \/ (\E i \in DOMAIN runs : ChangeRun(i)) \/ SetPolicy \/ UNCHANGED vars, NEW d \in Slots
      PROVE  Told(d)'
  <2>1. UNCHANGED <<log, calls>>
    BY <1>2 DEF StartRun, ChangeRun, SetPolicy, vars
  <2> QED BY <2>1 DEF RecordInv, Told, Recorded
<1>3. ASSUME Crash, NEW d \in Slots PROVE Told(d)'
  <2>1. calls'[d].step = "idle" /\ calls'[d].reply = "none"
    BY <1>3, IdleSaysNothing DEF Crash
  <2> QED BY <2>1, CallFresh
<1> QED BY <1>1, <1>2, <1>3 DEF Next, Environment

LEMMA RecordInvHolds == Spec => []RecordInv
<1>1. Init => \A c \in Slots : Told(c)
  <2> SUFFICES ASSUME Init, NEW c \in Slots PROVE Told(c)
    OBVIOUS
  <2>1. calls[c].step = "idle" /\ calls[c].reply = "none"
    BY IdleSaysNothing DEF Init
  <2> QED BY <2>1 DEF Told
<1>2. TypeOK /\ (\A c \in Slots : Told(c)) => RecordInv
  BY DEF RecordInv
<1> QED BY <1>1, <1>2, RecordStep, RequestsTypeCorrect, PTL DEF Spec

\* For every number of overlapping calls, and if the process stops: what a
\* caller was told is done is in the history (each handler's record_event
\* before its return).
THEOREM CallersAreToldTheTruth == Spec => []AcknowledgedIsRecorded
<1>1. RecordInv => AcknowledgedIsRecorded
  BY DEF RecordInv, Told, Recorded, AcknowledgedIsRecorded
<1> QED BY <1>1, RecordInvHolds, PTL

-----------------------------------------------------------------------------
(* Approvals: what a call's watch says is so, whatever the other calls,    *)
(* the runs and the admins do, and a policy that was read is among those   *)
(* of the call's time.                                                     *)

\* The override of this call's user is in the history, and not from before.
OverrideFound(c) ==
  \E k \in DOMAIN log :
    k > watch[c].since /\ log[k].kind = "override_used" /\ log[k].by = calls[c].user

Watched(c) ==
  /\ Busy(c) => watch[c].since <= Len(log)
  /\ calls[c].step \in {"gate", "latest"} => calls[c].overrode = FALSE
  /\ calls[c].step = "latest" => calls[c].policy \in watch[c].policies
  /\ calls[c].step = "commit" /\ calls[c].target = "approved" /\ watch[c].shut => calls[c].overrode
  /\ calls[c].step = "commit" /\ calls[c].overrode => OverrideFound(c)

Watches == [policies : SUBSET Policy, shut : BOOLEAN, since : Nat]

WatchInv == TypeOK /\ watch \in [Slots -> Watches] /\ \A c \in Slots : Watched(c)

LEMMA BlockedType == \A p \in Policy : BlockedUnder(p) \in BOOLEAN
BY DEF BlockedUnder, HasCompletedLatest, Policy

LEMMA WatchType ==
  ASSUME TypeOK, TypeOK', watch \in [Slots -> Watches], Watch
  PROVE  /\ watch' \in [Slots -> Watches]
         /\ \A c \in Slots : IF Busy(c) THEN watch'[c] = GoOnWatching(c) ELSE watch'[c] = BeginWatch'
<1>1. \A c \in Slots : watch'[c] = IF Busy(c) THEN GoOnWatching(c) ELSE BeginWatch'
  BY DEF Watch
<1>2. BeginWatch' \in Watches
  <2>1. policy' \in Policy /\ Len(log') \in Nat /\ {policy'} \in SUBSET Policy
    BY DEF TypeOK
  <2>2. GateBlocked' \in BOOLEAN
    BY <2>1 DEF GateBlocked, BlockedUnder, HasCompletedLatest, Policy
  <2> QED BY <2>1, <2>2 DEF BeginWatch, Watches
<1>3. ASSUME NEW c \in Slots PROVE GoOnWatching(c) \in Watches
  <2>1. watch[c] \in Watches /\ policy' \in Policy
    BY DEF TypeOK
  <2> QED BY <2>1 DEF GoOnWatching, Watches
<1> QED BY <1>1, <1>2, <1>3 DEF Watch

\* A call that goes on, or ends, without passing the gate.
LEMMA WatchedKept ==
  ASSUME WatchInv, TypeOK', Watch, LogGrows, NEW c \in Slots, Busy(c),
         \/ calls'[c] = calls[c]
         \/ calls'[c].step \notin {"gate", "latest", "commit"}
  PROVE  Watched(c)'
<1>1. /\ watch[c] \in Watches /\ watch'[c] = GoOnWatching(c)
      /\ watch[c].since <= Len(log) /\ Watched(c)
  BY WatchType DEF WatchInv, Watched
<1>2. /\ watch'[c].since = watch[c].since
      /\ watch'[c].shut => watch[c].shut
      /\ watch[c].policies \subseteq watch'[c].policies
  BY <1>1 DEF GoOnWatching, Watches
<1>3. Len(log) <= Len(log') /\ Len(log) \in Nat /\ Len(log') \in Nat /\ watch[c].since \in Nat
  <2>1. /\ DOMAIN log = 1..Len(log) /\ DOMAIN log' = 1..Len(log')
        /\ Len(log) \in Nat /\ Len(log') \in Nat
    BY DEF WatchInv, TypeOK
  <2>2. Len(log) # 0 => Len(log) \in DOMAIN log'
    BY <2>1 DEF LogGrows
  <2> QED BY <1>1, <2>1, <2>2 DEF Watches
<1>4. CASE calls'[c] = calls[c]
  <2>1. ASSUME OverrideFound(c) PROVE OverrideFound(c)'
    <3>1. PICK k \in DOMAIN log :
            k > watch[c].since /\ log[k].kind = "override_used" /\ log[k].by = calls[c].user
      BY <2>1 DEF OverrideFound
    <3>2. k \in DOMAIN log' /\ log'[k] = log[k]
      BY DEF LogGrows
    <3>3. k > watch'[c].since /\ log'[k].kind = "override_used" /\ log'[k].by = calls'[c].user
      BY <1>2, <1>4, <3>1, <3>2
    <3> QED BY <3>2, <3>3 DEF OverrideFound
  <2>2. watch'[c].since <= Len(log')
    BY <1>1, <1>2, <1>3
  <2> QED BY <1>1, <1>2, <1>4, <2>1, <2>2 DEF Watched
<1>5. CASE calls'[c].step \notin {"gate", "latest", "commit"}
  <2>1. watch'[c].since <= Len(log')
    BY <1>1, <1>2, <1>3
  <2> QED BY <1>5, <2>1 DEF Watched
<1> QED BY <1>4, <1>5

\* A call that was not in progress.
LEMMA WatchedAnew ==
  ASSUME WatchInv, TypeOK', Watch, NEW c \in Slots, ~Busy(c),
         calls'[c].step # "latest",
         calls'[c].step = "gate" => calls'[c].overrode = FALSE,
         calls'[c].step = "commit" => calls'[c].target # "approved" /\ calls'[c].overrode = FALSE
  PROVE  Watched(c)'
<1>1. watch'[c].since = Len(log') /\ Len(log') \in Nat
  BY WatchType DEF WatchInv, BeginWatch, TypeOK
<1> QED BY <1>1 DEF Watched

LEMMA AdmitWatched ==
  ASSUME WatchInv, TypeOK', Watch, NEW c \in Slots, NEW call \in Call, NEW refusal, NEW first,
         Admit(c, call, refusal, first), first \in {"gate", "commit"}, call.overrode = FALSE,
         call.target = "approved" => first = "gate"
  PROVE  Watched(c)'
<1>1. calls \in [Slots -> Call] /\ ~Busy(c)
  BY DEF Admit, WatchInv, TypeOK, Busy
<1>2. calls'[c] = IF refusal = "none" THEN [call EXCEPT !.step = first, !.seen = req.status]
                  ELSE [call EXCEPT !.step = "replied", !.seen = req.status, !.reply = refusal]
  BY <1>1 DEF Admit
<1>3. /\ calls'[c].step \in {"gate", "commit", "replied"} /\ calls'[c].overrode = FALSE
      /\ calls'[c].step = "commit" => calls'[c].target # "approved"
  BY <1>2 DEF Call
<1> QED BY <1>1, <1>3, WatchedAnew

LEMMA HandlerWatched ==
  ASSUME WatchInv, TypeOK', Watch, LogGrows, NEW c \in Slots, Handler(c)
  PROVE  Watched(c)'
<1>0. TypeOK /\ calls \in [Slots -> Call] /\ calls[c] \in Call /\ Watched(c)
  BY DEF WatchInv, TypeOK
<1>1. \A p \in Payloads : IdleCall(p) \in Call /\ IdleCall(p).overrode = FALSE
                          /\ IdleCall(p).target = "draft"
  BY IdleCallType DEF IdleCall
<1>2. ASSUME NEW u \in Users, NEW p \in Payloads, StartUpdate(c, u, p) PROVE Watched(c)'
  <2> DEFINE call == [IdleCall(p) EXCEPT !.op = "update", !.user = u]
  <2>0. IdleCall(p) \in Call /\ IdleCall(p).overrode = FALSE /\ IdleCall(p).target = "draft"
        /\ "update" \in Ops
    BY <1>1 DEF Ops
  <2>1. call \in Call /\ call.overrode = FALSE /\ call.target = "draft"
    BY <2>0 DEF Call
  <2>2. Admit(c, call, UpdateRefusal(u), "commit")
    BY <1>2 DEF StartUpdate
  <2> HIDE DEF call
  <2> QED BY <2>1, <2>2, AdmitWatched
<1>3. ASSUME NEW u \in Users, StartSubmit(c, u) PROVE Watched(c)'
  <2> DEFINE call == [IdleCall(req.payload) EXCEPT !.op = "submit", !.user = u,
                                                   !.target = "submitted"]
             sent == IF SubmitRefusal(u) = "none" THEN [call EXCEPT !.risk = RiskOf[req.payload]]
                     ELSE call
  <2>1. /\ IdleCall(req.payload) \in Call /\ "submit" \in Ops
        /\ "submitted" \in RequestStatus /\ IdleCall(req.payload).overrode = FALSE
    BY <1>0, <1>1 DEF TypeOK, Ops, RequestStatus
  <2>2. call \in Call /\ call.target = "submitted" /\ call.overrode = FALSE
    BY <2>1 DEF Call
  <2>3. SubmitRefusal(u) = "none" => RiskOf[req.payload] \in Risks
    BY RiskType DEF SubmitRefusal
  <2>4. Admit(c, sent, SubmitRefusal(u), "commit")
    BY <1>3 DEF StartSubmit
  <2> HIDE DEF call
  <2>5. sent \in Call /\ sent.target = "submitted" /\ sent.overrode = FALSE
    BY <2>2, <2>3 DEF Call
  <2> HIDE DEF sent
  <2> QED BY <2>4, <2>5, AdmitWatched
<1>4. ASSUME NEW u \in Users, NEW target \in RequestStatus, NEW o \in Overrides,
             StartChangeStatus(c, u, target, o)
      PROVE  Watched(c)'
  <2> DEFINE call == [IdleCall(req.payload) EXCEPT !.op = "status", !.user = u,
                                                   !.target = target, !.override = o]
             first == IF target = "approved" THEN "gate" ELSE "commit"
  <2>1. /\ IdleCall(req.payload) \in Call /\ "status" \in Ops
        /\ IdleCall(req.payload).overrode = FALSE
    BY <1>0, <1>1 DEF TypeOK, Ops
  <2>2. call \in Call /\ call.target = target /\ call.overrode = FALSE
    BY <2>1 DEF Call
  <2>3. /\ Admit(c, call, StatusRefusal(u, target), first)
        /\ first \in {"gate", "commit"} /\ (target = "approved" => first = "gate")
    BY <1>4 DEF StartChangeStatus
  <2> HIDE DEF call, first
  <2> QED BY <2>2, <2>3, AdmitWatched
<1>5. ASSUME ReadPolicy(c) PROVE Watched(c)'
  <2>1. /\ Busy(c) /\ UNCHANGED <<policy, log>>
        /\ calls'[c] = [calls[c] EXCEPT !.step = "latest", !.policy = policy]
    BY <1>0, <1>5 DEF ReadPolicy, At, Busy
  <2>2. calls'[c].step = "latest" /\ calls'[c].policy = policy
    BY <1>0, <2>1 DEF Call
  <2>3. watch'[c] = GoOnWatching(c) /\ watch[c].since <= Len(log) /\ calls[c].overrode = FALSE
    BY <1>0, <1>5, <2>1, WatchType DEF WatchInv, Watched, ReadPolicy, At
  <2>4. watch'[c].since = watch[c].since /\ policy \in watch'[c].policies
    BY <2>1, <2>3 DEF GoOnWatching
  <2>5. calls'[c].overrode = FALSE
    BY <1>0, <2>1, <2>3 DEF Call
  <2> QED BY <2>1, <2>2, <2>3, <2>4, <2>5 DEF Watched
<1>6. ASSUME EvaluateGate(c) PROVE Watched(c)'
  <2>1. /\ Busy(c) /\ calls[c].step = "latest" /\ UNCHANGED <<policy, runs, log>>
    BY <1>6 DEF EvaluateGate, At, Busy
  <2>2. CASE GateOpens(c) /\ Goto(c, "commit")
    <3>1. calls'[c] = [calls[c] EXCEPT !.step = "commit"]
      BY <1>0, <2>2 DEF Goto
    <3>2. /\ calls'[c].step = "commit" /\ calls'[c].overrode = calls[c].overrode
      BY <1>0, <3>1 DEF Call
    <3>3. calls[c].policy \in watch[c].policies
      BY <1>0, <2>1 DEF Watched
    <3>4. ~BlockedUnder(calls[c].policy)
      BY <2>2 DEF GateOpens
    <3>5. watch'[c] = GoOnWatching(c)
      BY <1>0, <2>1, WatchType DEF WatchInv
    <3>6. PICK p \in watch[c].policies : p = calls[c].policy /\ ~BlockedUnder(p)
      BY <3>3, <3>4
    <3>7. ~BlockedUnder(p)'
      BY <2>1, <3>6 DEF BlockedUnder, HasCompletedLatest
    <3>8. watch'[c].shut = FALSE /\ watch'[c].since = watch[c].since
      <4> DEFINE known == watch[c].policies \cup {policy'}
      <4>1. p \in known
        OBVIOUS
      <4>2. ~(watch[c].shut /\ \A q \in known : BlockedUnder(q)')
        BY <3>7, <4>1
      <4> DEFINE shut == watch[c].shut /\ \A q \in known : BlockedUnder(q)'
      <4>3. watch'[c] = [policies |-> known, shut |-> shut, since |-> watch[c].since]
        BY <3>5 DEF GoOnWatching
      <4>4. shut = FALSE
        BY <4>2
      <4> HIDE DEF known, shut
      <4> QED BY <4>3, <4>4
    <3>9. calls'[c].overrode = FALSE /\ watch[c].since <= Len(log)
      BY <1>0, <2>1, <3>2 DEF Watched
    <3> QED BY <2>1, <3>2, <3>8, <3>9 DEF Watched
  <2>3. CASE calls'[c].step \notin {"gate", "latest", "commit"}
    BY <2>1, <2>3, WatchedKept
  <2>4. \/ GateOpens(c) /\ Goto(c, "commit")
        \/ \E step \in {"blocked", "override"} : Goto(c, step)
        \/ \E code : Reply(c, code)
    BY <1>6 DEF EvaluateGate
  <2>5. (\E step \in {"blocked", "override"} : Goto(c, step)) \/ (\E code : Reply(c, code))
          => calls'[c].step \notin {"gate", "latest", "commit"}
    BY <1>0 DEF Goto, Reply, Call
  <2> QED BY <2>2, <2>3, <2>4, <2>5
<1>7. ASSUME RecordOverride(c) PROVE Watched(c)'
  <2>1. /\ Busy(c) /\ calls'[c] = [calls[c] EXCEPT !.step = "commit", !.overrode = TRUE]
        /\ log' = Append(log, Entry(c, "override_used", calls[c].seen, calls[c].seen))
    BY <1>0, <1>7 DEF RecordOverride, At, Busy
  <2>2. calls'[c].step = "commit" /\ calls'[c].overrode = TRUE /\ calls'[c].user = calls[c].user
    BY <1>0, <2>1 DEF Call
  <2>3. /\ Len(log) + 1 \in DOMAIN log'
        /\ log'[Len(log) + 1] = Entry(c, "override_used", calls[c].seen, calls[c].seen)
        /\ Len(log) \in Nat
    BY <1>0, <2>1, AppendGrows
  <2>4. watch[c].since <= Len(log) /\ watch[c].since \in Nat /\ watch'[c].since = watch[c].since
    <3>1. watch'[c] = GoOnWatching(c) /\ watch[c] \in Watches /\ watch[c].since <= Len(log)
      BY <1>0, <2>1, WatchType DEF WatchInv, Watched
    <3> QED BY <3>1 DEF GoOnWatching, Watches
  <2>5. OverrideFound(c)'
    <3>1. Len(log) + 1 > watch'[c].since
      BY <2>3, <2>4
    <3> QED BY <2>2, <2>3, <3>1 DEF OverrideFound, Entry
  <2>6. watch'[c].since <= Len(log')
    <3>1. DOMAIN log' = 1..Len(log') /\ Len(log') \in Nat
      BY DEF TypeOK
    <3> QED BY <2>3, <2>4, <3>1
  <2> QED BY <2>2, <2>5, <2>6 DEF Watched
<1>8. ASSUME \/ RecordBlocked(c) \/ CommitUpdate(c) \/ CommitSubmit(c) \/ CommitStatus(c)
             \/ RecordEvent(c) \/ RecordRisk(c)
      PROVE  Watched(c)'
  <2>1. Busy(c)
    BY <1>8 DEF RecordBlocked, CommitUpdate, CommitSubmit, CommitStatus, RecordEvent, RecordRisk,
                At, Busy
  <2>2. calls'[c].step \notin {"gate", "latest", "commit"}
    BY <1>0, <1>8 DEF RecordBlocked, CommitUpdate, CommitSubmit, CommitStatus, RecordEvent,
                      RecordRisk, Goto, Reply, Call
  <2> QED BY <2>1, <2>2, WatchedKept
<1>9. ASSUME Return(c) PROVE Watched(c)'
  <2>1. ~Busy(c) /\ calls'[c].step = "idle"
    BY <1>0, <1>9, IdleSaysNothing DEF Return, At, Busy
  <2> QED BY <2>1, WatchedAnew
<1> QED BY <1>2, <1>3, <1>4, <1>5, <1>6, <1>7, <1>8, <1>9 DEF Handler

LEMMA WatchStep == RecordInv /\ WatchInv /\ [ApprovalsNext]_approvalVars => WatchInv'
<1> SUFFICES ASSUME RecordInv, WatchInv, [ApprovalsNext]_approvalVars PROVE WatchInv'
  OBVIOUS
<1>1. CASE UNCHANGED approvalVars
  BY <1>1 DEF approvalVars, vars, WatchInv, TypeOK, Watched, Busy, OverrideFound
<1>2. CASE ApprovalsNext
  <2>1. Next /\ Watch /\ TypeOK /\ TypeOK'
    BY <1>2, RequestTypeStep DEF ApprovalsNext, WatchInv
  <2>2. watch' \in [Slots -> Watches]
    BY <2>1, WatchType DEF WatchInv
  <2>3. ASSUME NEW c \in Slots, Handler(c), NEW d \in Slots PROVE Watched(d)'
    <3>1. LogGrows /\ \A o \in Slots \ {c} : calls'[o] = calls[o]
      BY <2>3, HandlerRecord
    <3>2. CASE d = c
      BY <2>1, <2>3, <3>1, <3>2, HandlerWatched
    <3>3. CASE d # c /\ Busy(d)
      BY <2>1, <3>1, <3>3, WatchedKept
    <3>4. CASE d # c /\ ~Busy(d)
      BY <2>1, <3>1, <3>4, WatchedAnew DEF Busy
    <3> QED BY <3>2, <3>3, <3>4
  <2>4. ASSUME StartRun \/ (\E i \in DOMAIN runs : ChangeRun(i)) \/ SetPolicy, NEW d \in Slots
        PROVE  Watched(d)'
    <3>1. UNCHANGED <<log, calls>>
      BY <2>4 DEF StartRun, ChangeRun, SetPolicy
    <3>2. LogGrows
      BY <3>1 DEF LogGrows
    <3> QED BY <2>1, <3>1, <3>2, WatchedKept, WatchedAnew DEF Busy
  <2>5. ASSUME Crash, NEW d \in Slots PROVE Watched(d)'
    <3>1. calls'[d].step = "idle" /\ LogGrows
      BY <2>5, IdleSaysNothing DEF Crash, LogGrows
    <3> QED BY <2>1, <3>1, WatchedKept, WatchedAnew
  <2>6. \A d \in Slots : Watched(d)'
    BY <2>1, <2>3, <2>4, <2>5 DEF Next, Environment
  <2> QED BY <2>1, <2>2, <2>6 DEF WatchInv
<1> QED BY <1>1, <1>2

\* For every number of overlapping calls, every run and change of the policy, and
\* if the process stops: an approval that no policy of its time let pass has its
\* override in the history, from this call's time (_enforce_validation_gate).
THEOREM ApprovalsAreAccountedFor == ApprovalsSpec => ApprovalIsAccountedFor
<1> DEFINE Accounted ==
      \A c \in Slots :
        /\ At(c, "commit") /\ calls'[c].step = "event" /\ calls[c].target = "approved"
        /\ watch[c].shut
        => \E k \in DOMAIN log :
             k > watch[c].since /\ log[k].kind = "override_used" /\ log[k].by = calls[c].user
<1>1. ApprovalsInit => Init /\ WatchInv
  <2> SUFFICES ASSUME ApprovalsInit PROVE WatchInv
    BY DEF ApprovalsInit
  <2>1. TypeOK /\ \A c \in Slots : calls[c].step = "idle"
    BY InitType, IdleSaysNothing DEF ApprovalsInit, Init
  <2>2. BeginWatch \in Watches
    <3>1. policy \in Policy /\ Len(log) \in Nat
      BY <2>1 DEF TypeOK
    <3>2. GateBlocked \in BOOLEAN
      BY <3>1, BlockedType DEF GateBlocked
    <3> QED BY <3>1, <3>2 DEF BeginWatch, Watches
  <2>3. watch \in [Slots -> Watches]
    BY <2>2 DEF ApprovalsInit
  <2> QED BY <2>1, <2>3 DEF WatchInv, Watched, Busy
<1>2. [ApprovalsNext]_approvalVars => [Next]_vars
  BY DEF ApprovalsNext, approvalVars, vars
<1>3. WatchInv => Accounted
  BY DEF WatchInv, Watched, OverrideFound, At
<1>4. Accounted => [\A c \in Slots :
       /\ At(c, "commit") /\ calls'[c].step = "event" /\ calls[c].target = "approved"
       /\ watch[c].shut
       => \E k \in DOMAIN log :
            k > watch[c].since /\ log[k].kind = "override_used" /\ log[k].by = calls[c].user
    ]_approvalVars
  OBVIOUS
<1> HIDE DEF Accounted
<1>5. ApprovalsSpec => Spec
  BY <1>1, <1>2, PTL DEF ApprovalsSpec, Spec
<1>6. ApprovalsSpec => []WatchInv
  BY <1>1, <1>5, RecordInvHolds, WatchStep, PTL DEF ApprovalsSpec
<1> QED BY <1>3, <1>4, <1>6, PTL DEF ApprovalIsAccountedFor

-----------------------------------------------------------------------------
(* Where calls have the database for themselves and the process does not   *)
(* stop, the history explains the status: it stands at the status of the   *)
(* row, or at the one that the call about to write its event has seen.     *)

\* The call has changed the status and not yet recorded the change.
Pending(c) == calls[c].step = "event" /\ calls[c].op # "update"

\* The last of the entries S leads to status s; none lead to the draft.
LeadsTo(S, s) ==
  IF S = {} THEN s = "draft"
  ELSE \E j \in S : (\A i \in S : i <= j) /\ log[j].to = s

Before(k) == {j \in Transitions : j < k}

Chained == \A k \in Transitions : LeadsTo(Before(k), log[k].from)

SubmitTarget ==
  \A c \in Slots : Busy(c) /\ calls[c].op = "submit" => calls[c].target = "submitted"

InStep ==
  /\ (\A c \in Slots : ~Pending(c)) => LeadsTo(Transitions, req.status)
  /\ \A c \in Slots : Pending(c) =>
       LeadsTo(Transitions, calls[c].seen) /\ calls[c].target = req.status

ExplainInv == SerialInv /\ RecordInv /\ SubmitTarget /\ Chained /\ InStep

\* The entry that leads somewhere is the one CHOOSE finds.
LEMMA LastIsChosen ==
  ASSUME NEW S \in SUBSET Nat, NEW s, LeadsTo(S, s)
  PROVE  s = IF S = {} THEN "draft" ELSE log[CHOOSE j \in S : \A i \in S : i <= j].to
<1> DEFINE last == CHOOSE j \in S : \A i \in S : i <= j
<1>1. CASE S = {}
  BY <1>1 DEF LeadsTo
<1>2. CASE S # {}
  <2>1. PICK k \in S : (\A i \in S : i <= k) /\ log[k].to = s
    BY <1>2 DEF LeadsTo
  <2>2. last \in S /\ \A i \in S : i <= last
    BY <2>1
  <2> HIDE DEF last
  <2>3. last \in Nat /\ k \in Nat /\ last <= k /\ k <= last
    BY <2>1, <2>2
  <2>4. last = k
    BY <2>3
  <2>5. s = IF S = {} THEN "draft" ELSE log[last].to
    BY <1>2, <2>1, <2>4
  <2> QED BY <2>5 DEF last
<1> QED BY <1>1, <1>2

LEMMA ExplainEnds == ExplainInv => HistoryExplainsStatus
<1> SUFFICES ASSUME ExplainInv, Quiet
             PROVE  /\ \A k \in Transitions :
                         LET earlier == {j \in Transitions : j < k} IN
                         log[k].from = IF earlier = {} THEN "draft"
                           ELSE log[CHOOSE j \in earlier : \A i \in earlier : i <= j].to
                    /\ req.status = IF Transitions = {} THEN "draft"
                         ELSE log[CHOOSE k \in Transitions : \A j \in Transitions : j <= k].to
  BY Zenon DEF HistoryExplainsStatus
<1>1. Transitions \subseteq Nat
  <2>1. log \in Seq(LogEntry)
    BY DEF ExplainInv, SerialInv, TypeOK
  <2> HIDE DEF LogEntry
  <2> QED BY <2>1 DEF Transitions
<1>2. LeadsTo(Transitions, req.status)
  BY DEF Quiet, Busy, ExplainInv, InStep, Pending
<1>3. ASSUME NEW k \in Transitions
      PROVE  LET earlier == {j \in Transitions : j < k} IN
             log[k].from = IF earlier = {} THEN "draft"
               ELSE log[CHOOSE j \in earlier : \A i \in earlier : i <= j].to
  <2>1. LeadsTo(Before(k), log[k].from) /\ Before(k) \in SUBSET Nat
    BY <1>1 DEF ExplainInv, Chained, Before
  <2> QED BY <2>1, LastIsChosen DEF Before
<1> QED BY <1>1, <1>2, <1>3, LastIsChosen

\* A step that records no transition leaves the chain as it is.
LEMMA ChainKept ==
  ASSUME TypeOK, LogGrows, Transitions' = Transitions
  PROVE  /\ Chained => Chained'
         /\ \A s : LeadsTo(Transitions, s) => LeadsTo(Transitions, s)'
<1>1. \A k \in Transitions : k \in DOMAIN log /\ log'[k] = log[k]
  BY DEF Transitions, LogGrows
<1>2. \A S, s : S \subseteq Transitions /\ LeadsTo(S, s) => LeadsTo(S, s)'
  BY <1>1 DEF LeadsTo
<1>3. ASSUME Chained, NEW k \in Transitions PROVE LeadsTo(Before(k), log[k].from)'
  <2>1. Before(k)' = Before(k) /\ Before(k) \subseteq Transitions
    BY DEF Before
  <2>2. PICK S : S = Before(k)
    OBVIOUS
  <2>3. PICK s : s = log[k].from
    OBVIOUS
  <2>4. LeadsTo(S, s)'
    BY <1>2, <1>3, <2>1, <2>2, <2>3 DEF Chained
  <2> QED BY <1>1, <2>1, <2>2, <2>3, <2>4 DEF LeadsTo
<1>4. ASSUME NEW s, LeadsTo(Transitions, s) PROVE LeadsTo(Transitions, s)'
  BY <1>1, <1>4 DEF LeadsTo
<1> QED BY <1>3, <1>4 DEF Chained

\* What of the log a step of the call changes.
LEMMA LogSteps ==
  ASSUME TypeOK, NEW c \in Slots, Handler(c), ~(RecordEvent(c) /\ calls[c].op # "update")
  PROVE  Transitions' = Transitions
<1>1. CASE \/ RecordBlocked(c) \/ RecordOverride(c) \/ RecordRisk(c)
           \/ RecordEvent(c) /\ calls[c].op = "update"
  <2>1. PICK e : /\ log' = Append(log, e)
                 /\ e.kind \in {"approval_blocked", "override_used", "risk_evaluated", "updated"}
    BY <1>1 DEF RecordBlocked, RecordOverride, RecordRisk, RecordEvent, Entry, EventOf
  <2>2. /\ DOMAIN log' = DOMAIN log \cup {Len(log) + 1} /\ log'[Len(log) + 1] = e
        /\ Len(log) + 1 \notin DOMAIN log /\ \A k \in DOMAIN log : log'[k] = log[k]
    <3> HIDE DEF LogEntry
    <3> QED BY <2>1, AppendGrows DEF LogGrows
  <2> QED BY <2>1, <2>2 DEF Transitions
<1>2. CASE UNCHANGED log
  BY <1>2 DEF Transitions
<1> QED
  BY <1>1, <1>2, TypeOK
  DEF Handler, StartUpdate, StartSubmit, StartChangeStatus, Admit, ReadPolicy, EvaluateGate, CommitUpdate,
      CommitSubmit, CommitStatus, Return, TypeOK, Call, Ops

\* The event of a change of status is the next link of the chain.
LEMMA ChainGrows ==
  ASSUME TypeOK, Chained, NEW c \in Slots, RecordEvent(c), Pending(c),
         LeadsTo(Transitions, calls[c].seen)
  PROVE  Chained' /\ LeadsTo(Transitions, calls[c].target)'
<1> SUFFICES Chained' /\ \E n \in Transitions' : (\A i \in Transitions' : i <= n)
                                                /\ log'[n].to = calls[c].target
             /\ calls'[c].target = calls[c].target
  BY DEF LeadsTo
<1>1. PICK n : n = Len(log) + 1
  OBVIOUS
<1>2. PICK e : e = Entry(c, EventOf(calls[c].op), calls[c].seen, calls[c].target)
  OBVIOUS
<1>3. /\ log' = Append(log, e) /\ e.from = calls[c].seen /\ e.to = calls[c].target
      /\ e.kind \in {"submitted", "status_changed"}
  BY <1>2 DEF RecordEvent, Pending, Entry, EventOf
<1>4. /\ LogGrows /\ log'[n] = e /\ n \in Nat
      /\ DOMAIN log' = DOMAIN log \cup {n} /\ DOMAIN log = 1..(n - 1)
  <2> HIDE DEF LogEntry
  <2> QED BY <1>1, <1>3, AppendGrows
<1>5. Transitions' = Transitions \cup {n} /\ Transitions \subseteq 1..(n - 1)
  BY <1>3, <1>4 DEF Transitions, LogGrows
<1>6. calls'[c].target = calls[c].target
  BY DEF RecordEvent, Goto, Reply, TypeOK, Call
<1>7. \A k \in Transitions : log'[k] = log[k]
  BY <1>4, <1>5 DEF LogGrows, Transitions
<1>8. \A S, s : S \subseteq Transitions /\ LeadsTo(S, s) => LeadsTo(S, s)'
  BY <1>7 DEF LeadsTo
<1>9. ASSUME NEW k \in Transitions PROVE LeadsTo(Before(k), log[k].from)'
  <2>1. Before(k)' = Before(k) /\ Before(k) \subseteq Transitions
    BY <1>4, <1>5 DEF Before
  <2>2. PICK S : S = Before(k)
    OBVIOUS
  <2>3. PICK s : s = log[k].from
    OBVIOUS
  <2>4. LeadsTo(S, s)'
    BY <1>8, <2>1, <2>2, <2>3 DEF Chained
  <2> QED BY <1>7, <2>1, <2>2, <2>3, <2>4 DEF LeadsTo
<1>10. LeadsTo(Before(n), log[n].from)'
  <2>1. Before(n)' = Transitions
    <3>1. \A j \in Transitions : j < n
      BY <1>4, <1>5
    <3>2. ~(n < n)
      BY <1>4
    <3> QED BY <1>5, <3>1, <3>2 DEF Before
  <2>2. PICK S : S = Transitions
    OBVIOUS
  <2>3. PICK s : s = calls[c].seen
    OBVIOUS
  <2>4. LeadsTo(S, s)'
    BY <1>8, <2>2, <2>3
  <2> QED BY <1>3, <1>4, <2>1, <2>2, <2>3, <2>4 DEF LeadsTo
<1>11. Chained'
  BY <1>5, <1>9, <1>10 DEF Chained
<1> QED BY <1>3, <1>4, <1>5, <1>6, <1>11

\* How a call's own step moves it, as far as its events and target go.
LEMMA CallMoves ==
  ASSUME TypeOK, SubmitTarget, NEW c \in Slots, Handler(c)
  PROVE  /\ Busy(c)' /\ calls'[c].op = "submit" => calls'[c].target = "submitted"
         /\ Pending(c)' => CommitSubmit(c) \/ CommitStatus(c)
<1>0. calls \in [Slots -> Call] /\ calls[c] \in Call
  BY DEF TypeOK
<1>1. ASSUME NEW u \in Users, NEW p \in Payloads, StartUpdate(c, u, p)
      PROVE  calls'[c].op = "update"
  <2> DEFINE call == [IdleCall(p) EXCEPT !.op = "update", !.user = u]
  <2>1. IdleCall(p) \in Call /\ "update" \in Ops
    BY IdleCallType DEF Ops
  <2>2. call \in Call /\ call.op = "update"
    BY <2>1 DEF Call
  <2>3. Admit(c, call, UpdateRefusal(u), "commit")
    BY <1>1 DEF StartUpdate
  <2> HIDE DEF call
  <2> QED BY <1>0, <2>2, <2>3 DEF Admit, Call
<1>2. ASSUME NEW u \in Users, StartSubmit(c, u)
      PROVE  calls'[c].target = "submitted" /\ calls'[c].step # "event"
  <2> DEFINE call == [IdleCall(req.payload) EXCEPT !.op = "submit", !.user = u,
                                                   !.target = "submitted"]
             sent == IF SubmitRefusal(u) = "none" THEN [call EXCEPT !.risk = RiskOf[req.payload]]
                     ELSE call
  <2>1. /\ IdleCall(req.payload) \in Call /\ "submit" \in Ops
        /\ "submitted" \in RequestStatus
    BY <1>0, IdleCallType DEF TypeOK, Ops, RequestStatus
  <2>2. call \in Call /\ call.target = "submitted"
    BY <2>1 DEF Call
  <2>3. SubmitRefusal(u) = "none" => RiskOf[req.payload] \in Risks
    BY RiskType DEF SubmitRefusal
  <2>4. Admit(c, sent, SubmitRefusal(u), "commit")
    BY <1>2 DEF StartSubmit
  <2> HIDE DEF call
  <2>5. sent \in Call /\ sent.target = "submitted"
    BY <2>2, <2>3 DEF Call
  <2> HIDE DEF sent
  <2> QED BY <1>0, <2>4, <2>5 DEF Admit, Call
<1>3. ASSUME NEW u \in Users, NEW target \in RequestStatus, NEW o \in Overrides,
             StartChangeStatus(c, u, target, o)
      PROVE  calls'[c].op = "status" /\ calls'[c].step # "event"
  <2> DEFINE call == [IdleCall(req.payload) EXCEPT !.op = "status", !.user = u,
                                                   !.target = target, !.override = o]
             first == IF target = "approved" THEN "gate" ELSE "commit"
  <2>1. IdleCall(req.payload) \in Call /\ "status" \in Ops
    BY <1>0, IdleCallType DEF TypeOK, Ops
  <2>2. call \in Call /\ call.op = "status"
    BY <2>1 DEF Call
  <2>3. Admit(c, call, StatusRefusal(u, target), first) /\ first # "event"
    BY <1>3 DEF StartChangeStatus
  <2> HIDE DEF call, first
  <2> QED BY <1>0, <2>2, <2>3 DEF Admit, Call
<1>4. ASSUME \/ ReadPolicy(c) \/ EvaluateGate(c) \/ RecordBlocked(c) \/ RecordOverride(c)
             \/ RecordEvent(c) \/ RecordRisk(c)
      PROVE  /\ calls'[c].op = calls[c].op /\ calls'[c].target = calls[c].target
             /\ calls'[c].step # "event" /\ Busy(c)
  <2>1. Busy(c)
    BY <1>4 DEF ReadPolicy, EvaluateGate, RecordBlocked, RecordOverride, RecordEvent, RecordRisk,
                At, Busy
  <2>2. \/ \E step \in {"commit", "blocked", "override", "risk"} : Goto(c, step)
        \/ \E code \in Replies : Reply(c, code)
        \/ calls' = [calls EXCEPT ![c].step = "commit", ![c].overrode = TRUE]
        \/ calls' = [calls EXCEPT ![c].step = "latest", ![c].policy = policy]
    BY <1>4 DEF ReadPolicy, EvaluateGate, RecordBlocked, RecordOverride, RecordEvent, RecordRisk,
                Replies
  <2> QED BY <1>0, <2>1, <2>2 DEF Goto, Reply, Call
<1>5. ASSUME CommitUpdate(c) \/ CommitSubmit(c) \/ CommitStatus(c)
      PROVE  /\ calls'[c].op = calls[c].op /\ calls'[c].target = calls[c].target /\ Busy(c)
             /\ CommitUpdate(c) => calls[c].op = "update"
  <2>1. Busy(c)
    BY <1>5 DEF CommitUpdate, CommitSubmit, CommitStatus, At, Busy
  <2>2. calls'[c].op = calls[c].op /\ calls'[c].target = calls[c].target
    BY <1>0, <1>5 DEF CommitUpdate, CommitSubmit, CommitStatus, Goto, Call
  <2> QED BY <2>1, <2>2 DEF CommitUpdate
<1>6. ASSUME Return(c) PROVE calls'[c].step = "idle"
  BY <1>0, <1>6, IdleSaysNothing DEF Return
<1> QED
  BY <1>1, <1>2, <1>3, <1>4, <1>5, <1>6 DEF Handler, Busy, Pending, SubmitTarget

LEMMA ExplainStep == Serial /\ "event" \notin StopsAt /\ ExplainInv /\ [Next]_vars => ExplainInv'
<1> SUFFICES ASSUME Serial, "event" \notin StopsAt, ExplainInv, [Next]_vars
             PROVE  SubmitTarget' /\ Chained' /\ InStep'
  BY SerialStep, RecordStep DEF ExplainInv
<1>0. TypeOK /\ OneBusy /\ RecordInv /\ SubmitTarget /\ Chained /\ InStep
      /\ \A d \in Slots : CheckStands(d)
  BY DEF ExplainInv, SerialInv
<1>1. ASSUME NEW c \in Slots, Handler(c) PROVE SubmitTarget' /\ Chained' /\ InStep'
  <2>1. LogGrows /\ \A d \in Slots \ {c} : calls'[d] = calls[d]
    BY <1>0, <1>1, HandlerRecord
  <2>2. SubmitTarget'
    BY <1>0, <1>1, <2>1, CallMoves DEF SubmitTarget, Busy
  <2>3. \A d \in Slots \ {c} : Pending(d)' <=> Pending(d)
    BY <2>1 DEF Pending
  <2>4. Busy(c) => \A d \in Slots \ {c} : ~Pending(d)
    BY <1>0 DEF OneBusy, Busy, Pending
  <2>5. CASE RecordEvent(c) /\ calls[c].op # "update"
    <3>1. Pending(c) /\ LeadsTo(Transitions, calls[c].seen) /\ calls[c].target = req.status
      BY <1>0, <2>5 DEF RecordEvent, At, Pending, InStep
    <3>2. Chained' /\ LeadsTo(Transitions, calls[c].target)'
      BY <1>0, <2>5, <3>1, ChainGrows
    <3>3. calls'[c].target = calls[c].target /\ req' = req
      BY <1>0, <2>5 DEF RecordEvent, Goto, Reply, TypeOK, Call
    <3>4. \A d \in Slots : ~Pending(d)'
      <4>1. ~Pending(c)'
        BY <1>0, <1>1, <2>5, CallMoves DEF RecordEvent, At, CommitSubmit, CommitStatus
      <4> QED BY <2>3, <2>4, <3>1, <4>1 DEF Busy, Pending
    <3> QED BY <2>2, <3>1, <3>2, <3>3, <3>4 DEF InStep
  <2>6. CASE ~(RecordEvent(c) /\ calls[c].op # "update")
    <3>1. Chained' /\ \A s : LeadsTo(Transitions, s) => LeadsTo(Transitions, s)'
      BY <1>0, <1>1, <2>1, <2>6, LogSteps, ChainKept
    <3>2. ~Pending(c)
      BY <1>1, <2>6
      DEF Pending, Handler, StartUpdate, StartSubmit, StartChangeStatus, Admit, ReadPolicy, EvaluateGate,
          RecordBlocked, RecordOverride, CommitUpdate, CommitSubmit, CommitStatus, RecordEvent,
          RecordRisk, Return, At
    <3>3. CASE CommitSubmit(c) \/ CommitStatus(c)
      <4>1. Busy(c) /\ calls[c].step = "commit" /\ calls[c].op # "update"
        BY <3>3 DEF CommitSubmit, CommitStatus, At, Busy
      <4>2. LeadsTo(Transitions, req.status) /\ calls[c].seen = req.status
        BY <1>0, <2>4, <3>2, <4>1 DEF InStep, CheckStands
      <4>3. calls'[c].seen = req.status /\ calls'[c].target = calls[c].target
        BY <1>0, <3>3, <4>2 DEF CommitSubmit, CommitStatus, Goto, TypeOK, Call
      <4>4. req'.status = calls[c].target
        BY <1>0, <3>3, <4>1 DEF CommitSubmit, CommitStatus, SubmitTarget, TypeOK
      <4>5. LeadsTo(Transitions, calls[c].seen)'
        BY <3>1, <4>2, <4>3 DEF LeadsTo
      <4>6. Pending(c)'
        BY <1>0, <3>3, <4>1 DEF CommitSubmit, CommitStatus, Goto, TypeOK, Call, Pending
      <4>7. \A d \in Slots : Pending(d)' => d = c
        BY <2>3, <2>4, <4>1
      <4> QED BY <2>2, <3>1, <4>3, <4>4, <4>5, <4>6, <4>7 DEF InStep
    <3>4. CASE ~(CommitSubmit(c) \/ CommitStatus(c))
      <4>1. ~Pending(c)'
        BY <1>0, <1>1, <3>4, CallMoves
      <4>2. req'.status = req.status
        BY <1>0, <1>1, <3>4
        DEF Handler, StartUpdate, StartSubmit, StartChangeStatus, Admit, ReadPolicy, EvaluateGate,
            RecordBlocked, RecordOverride, CommitUpdate, RecordEvent, RecordRisk, Return, TypeOK
      <4>3. \A d \in Slots \ {c} : Pending(d)' => calls'[d] = calls[d]
        BY <2>1
      <4>4. (\A d \in Slots : ~Pending(d)') => LeadsTo(Transitions, req.status)'
        BY <1>0, <2>3, <3>1, <3>2, <4>2 DEF InStep, LeadsTo
      <4>5. ASSUME NEW d \in Slots, Pending(d)'
            PROVE  LeadsTo(Transitions, calls[d].seen)' /\ calls'[d].target = req'.status
        <5>1. d # c /\ Pending(d) /\ calls'[d] = calls[d]
          BY <2>1, <2>3, <4>1, <4>5
        <5> QED BY <1>0, <3>1, <4>2, <5>1 DEF InStep, LeadsTo
      <4> QED BY <2>2, <3>1, <4>4, <4>5 DEF InStep
    <3> QED BY <3>3, <3>4
  <2> QED BY <2>5, <2>6
<1>2. ASSUME UNCHANGED <<req, log, calls>> PROVE SubmitTarget' /\ Chained' /\ InStep'
  <2>1. LogGrows /\ Transitions' = Transitions
    BY <1>2 DEF LogGrows, Transitions
  <2>2. SubmitTarget'
    BY <1>0, <1>2 DEF SubmitTarget, Busy
  <2>3. Chained'
    BY <1>0, <2>1, ChainKept
  <2>4. InStep'
    BY <1>0, <1>2, <2>1 DEF InStep, Pending, LeadsTo
  <2> QED BY <2>2, <2>3, <2>4
<1>3. ASSUME Crash PROVE SubmitTarget' /\ Chained' /\ InStep'
  <2>1. \A c \in Slots : ~Busy(c)' /\ ~Pending(c)'
    BY <1>3, IdleSaysNothing DEF Crash, Busy, Pending
  <2>2. \A c \in Slots : ~Pending(c)
    BY <1>3 DEF Crash, Busy, Pending
  <2>3. UNCHANGED <<req, log>> /\ LogGrows /\ Transitions' = Transitions
    BY <1>3 DEF Crash, LogGrows, Transitions
  <2>4. Chained'
    BY <1>0, <2>3, ChainKept
  <2> QED BY <1>0, <2>1, <2>2, <2>3, <2>4 DEF SubmitTarget, InStep, LeadsTo
<1>4. (\E c \in Slots : Handler(c)) \/ Crash \/ UNCHANGED <<req, log, calls>>
  BY DEF Next, Environment, StartRun, ChangeRun, SetPolicy, vars
<1> QED BY <1>1, <1>2, <1>3, <1>4

\* Where each call has the database for itself and the process does not stop
\* between a commit and its event, the transitions in the history chain from the draft to the row's status,
\* for every order of calls, runs and policy changes.
THEOREM HistoryChainsToStatus ==
  Serial /\ "event" \notin StopsAt => (Spec => []HistoryExplainsStatus)
<1> SUFFICES ASSUME Serial, "event" \notin StopsAt PROVE Spec => []HistoryExplainsStatus
  OBVIOUS
<1>1. Init => SubmitTarget /\ Chained /\ InStep
  <2> SUFFICES ASSUME Init PROVE SubmitTarget /\ Chained /\ InStep
    OBVIOUS
  <2>1. /\ Transitions = {} /\ req.status = "draft"
        /\ \A c \in Slots : calls[c].step = "idle"
    BY IdleSaysNothing DEF Init, Transitions
  <2> QED BY <2>1 DEF SubmitTarget, Busy, Chained, InStep, Pending, LeadsTo
<1>2. SerialInv /\ RecordInv /\ SubmitTarget /\ Chained /\ InStep <=> ExplainInv
  BY DEF ExplainInv
<1>3. ExplainInv /\ [Next]_vars => ExplainInv'
  BY ExplainStep
<1>4. Spec => []SerialInv
  BY SerialInvHolds
<1> QED BY <1>1, <1>2, <1>3, <1>4, RecordInvHolds, ExplainEnds, PTL DEF Spec
=============================================================================
