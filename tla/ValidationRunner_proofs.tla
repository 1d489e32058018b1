----------------------- MODULE ValidationRunner_proofs -----------------------
(***************************************************************************)
(* For every set of pipelines, every set of reported statuses, any number  *)
(* of faults, with or without crashes: the runner's variables keep their   *)
(* types, a verdict is the aggregate of the persisted rows, a result       *)
(* uploaded in time is what the step's row says, the row does what the     *)
(* approval gate expects of it, and the thread comes to an end.            *)
(***************************************************************************)
EXTENDS ValidationRunner, TLAPS

LEMMA AggregateIsVerdict ==
  \A steps : AggregateRun(steps) \in Verdict
BY DEF AggregateRun, Verdict, Clean, Warned, Blocked, CompletedStatus, ApprovalImpact

\* The rollup in memory is the prefix of final rows, and the thread's control
\* point says how far the two have come.
RollupMatchesRows ==
  /\ Len(rollup) <= Len(rows)
  /\ Len(rows) <= Len(pipeline)
  /\ \A i \in 1..Len(rollup) :
       rows[i].final /\ rollup[i] = [status |-> rows[i].status,
                                     policy |-> pipeline[i].policy]

Progress ==
  /\ pc \in {"accepted", "spawned", "resolve", "step", "persist", "complete",
             "completeEvent"} => Len(rows) = Len(rollup)
  /\ pc \in {"exec", "merge", "finalize"} =>
       Len(rows) = Len(rollup) + 1 /\ ~rows[Len(rollup) + 1].final
  /\ pc \in {"persist", "exec", "merge", "finalize"} => Len(rollup) < Len(pipeline)
  /\ pc \in {"complete", "completeEvent"} => Len(rollup) = Len(pipeline)

VerdictIsAggregate ==
  run.status \in CompletedStatus =>
    /\ pc \in {"completeEvent", "excepting", "done", "dead"}
    /\ Len(rollup) = Len(pipeline)
    /\ Len(rows) = Len(pipeline)
    /\ [status |-> run.status, impact |-> run.impact] = AggregateRun(rollup)

\* An uploader exists only for a step that has a row, posts at most once, and
\* only when the push model is on.
OneRecordPerStep ==
  /\ \A i \in DOMAIN pipeline : sidecar[i] # "none" => i <= Len(rows) /\ Push
  /\ \A k \in DOMAIN records :
       records[k].step \in DOMAIN pipeline /\ sidecar[records[k].step] = "spent"
  /\ \A j, k \in DOMAIN records : records[j].step = records[k].step => j = k

\* Once the thread has finished polling, its outcome is the uploaded result.
OutcomeIsResult ==
  pc = "finalize" =>
    \A k \in DOMAIN records :
      records[k].inTime /\ records[k].result # NoResult /\ records[k].step = Len(rollup) + 1
      => outcome = records[k].result

IInv ==
  /\ TypeOK
  /\ RollupMatchesRows
  /\ Progress
  /\ VerdictIsAggregate
  /\ OneRecordPerStep
  /\ OutcomeIsResult
  /\ UploadedResultWins

-----------------------------------------------------------------------------
LEMMA PipelineType ==
  ASSUME pipeline \in Pipelines
  PROVE  /\ pipeline \in Seq(StepDef)
         /\ Len(pipeline) \in Nat
         /\ DOMAIN pipeline = 1..Len(pipeline)
         /\ \A i \in 1..Len(pipeline) : pipeline[i].policy \in FailurePolicy
<1>1. pipeline \in Seq(StepDef)
  BY PipelinesAssumption DEF PipelinesAssumption
<1>2. \A i \in 1..Len(pipeline) : pipeline[i] \in StepDef
  BY <1>1
<1>3. QED
  BY <1>1, <1>2 DEF StepDef

LEMMA InitIInv == Init => IInv
<1> SUFFICES ASSUME Init PROVE IInv
  OBVIOUS
<1> USE DEF Init
<1>1. TypeOK
  BY SwitchAssumption DEF SwitchAssumption, TypeOK, RunStatus, ApprovalImpact, PC, StepStatus
<1>2. RollupMatchesRows /\ Progress /\ VerdictIsAggregate
  BY PipelineType DEF RollupMatchesRows, Progress, VerdictIsAggregate, CompletedStatus
<1>3. OneRecordPerStep /\ OutcomeIsResult /\ UploadedResultWins
  BY DEF OneRecordPerStep, OutcomeIsResult, UploadedResultWins
<1>4. QED
  BY <1>1, <1>2, <1>3 DEF IInv

\* Where one record per step exists, the latest is that record.
LEMMA LatestIsTheOne ==
  ASSUME OneRecordPerStep, records \in Seq(IngestRecord),
         NEW i, NEW k \in DOMAIN records, records[k].step = i
  PROVE  LatestOf(i) = records[k]
<1>1. RecordsOf(i) = {k}
  BY DEF RecordsOf, OneRecordPerStep
<1>2. k <= k
  OBVIOUS
<1>3. \A c \in RecordsOf(i) : (\A j \in RecordsOf(i) : j <= c) => c = k
  BY <1>1
<1>4. (CHOOSE c \in RecordsOf(i) : \A j \in RecordsOf(i) : j <= c) = k
  BY <1>1, <1>2
<1>5. QED
  BY <1>4 DEF LatestOf

LEMMA TypeStep == IInv /\ [Next]_vars => TypeOK'
<1> SUFFICES ASSUME IInv, [Next]_vars PROVE TypeOK'
  OBVIOUS
<1> USE DEF TypeOK, Goto, stored
<1>0. /\ TypeOK /\ OneRecordPerStep /\ RollupMatchesRows /\ Progress
      /\ Len(pipeline) \in Nat
      /\ DOMAIN pipeline = 1..Len(pipeline)
      /\ \A i \in 1..Len(pipeline) : pipeline[i].policy \in FailurePolicy
      /\ Len(rollup) \in Nat
  BY PipelineType DEF IInv
<1>1. CASE StartRun
  BY <1>0, <1>1 DEF StartRun, PC
<1>2. CASE MarkRunning
  BY <1>0, <1>2 DEF MarkRunning, PC, RunStatus
<1>3. CASE ResolveKubeconfig
  BY <1>0, <1>3 DEF ResolveKubeconfig, PC
<1>4. CASE RunStep
  <2>1. outcome' \in StepStatus
    BY <1>0, <1>4, ReportedAssumption DEF ReportedAssumption, RunStep, EndsWith, StepStatus
  <2>2. QED
    BY <1>0, <1>4, <2>1 DEF RunStep, PC
<1>5. CASE PersistStep
  BY <1>0, <1>5 DEF StepRow, PersistStep, RollUp, Step, cur, PC, RollupInput, Progress
<1>6. CASE CreateRunningStep
  BY <1>0, <1>6 DEF StepRow, CreateRunningStep, AtIngestStep, cur, PC, StepStatus
<1>7. CASE JobEnds
  <2>1. outcome' \in StepStatus
    BY <1>0, <1>7, ReportedAssumption DEF ReportedAssumption, JobEnds, StepStatus
  <2>2. QED
    BY <1>0, <1>7, <2>1 DEF JobEnds, PC
<1>8. CASE PollFinds
  <2>1. PICK k \in DOMAIN records : records[k].step = cur
    BY <1>8 DEF PollFinds, RecordsOf
  <2>2. LatestOf(cur) = records[k]
    BY <1>0, <2>1, LatestIsTheOne
  <2>3. records[k].result \in Reported \cup {NoResult}
    <3>1. records \in Seq(IngestRecord)
      BY <1>0
    <3>2. k \in 1..Len(records)
      BY <2>1, <3>1
    <3>3. records[k] \in IngestRecord
      BY <3>1, <3>2
    <3>4. QED
      BY <3>3 DEF IngestRecord
  <2>4. outcome' \in StepStatus
    BY <1>0, <1>8, <2>2, <2>3, ReportedAssumption DEF ReportedAssumption, PollFinds
  <2>5. QED
    BY <1>0, <1>8, <2>4 DEF PollFinds, PC
<1>9. CASE PollGivesUp
  BY <1>0, <1>9 DEF PollGivesUp, PC
<1>10. CASE FinalizeStep
  BY <1>0, <1>10 DEF StepRow, FinalizeStep, RollUp, Step, cur, PC, RollupInput, Progress
<1>11. CASE CountArtifacts
  BY <1>0, <1>11 DEF CountArtifacts, PC
<1>12. CASE CompleteRun
  BY <1>0, <1>12, AggregateIsVerdict DEF CompleteRun, PC, Verdict, CompletedStatus, RunStatus
<1>13. CASE RecordCompleted
  BY <1>0, <1>13 DEF RecordCompleted, PC
<1>14. CASE FailRun
  BY <1>0, <1>14 DEF FailRun, PC, RunStatus
<1>15. CASE RecordFailed
  BY <1>0, <1>15 DEF RecordFailed, PC
<1>16. CASE Upload
  <2>1. PICK i \in DOMAIN pipeline :
          \/ AcceptUpload(i)
          \/ RefuseUpload(i)
          \/ \E result \in Reported \cup {NoResult} : StoreUpload(i, result)
    BY <1>16 DEF Upload
  <2>2. CASE AcceptUpload(i) \/ RefuseUpload(i)
    BY <1>0, <2>2 DEF AcceptUpload, RefuseUpload
  <2>3. ASSUME NEW result \in Reported \cup {NoResult}, StoreUpload(i, result)
        PROVE  TypeOK'
    <3>1. [step |-> i, result |-> result, inTime |-> i = cur /\ pc \in {"exec", "merge"}]
            \in IngestRecord
      BY <1>0 DEF IngestRecord
    <3>2. records' \in Seq(IngestRecord)
      BY <1>0, <2>3, <3>1 DEF StoreUpload
    <3>3. evidence' \in SUBSET Nat
      <4>1. evidence' = evidence \cup {i} /\ i \in Nat /\ evidence \in SUBSET Nat
        BY <1>0, <2>3 DEF StoreUpload
      <4>2. QED
        BY <4>1
    <3>4. sidecar' \in [DOMAIN pipeline' -> {"none", "armed", "posting", "spent"}]
      BY <1>0, <2>3 DEF StoreUpload
    <3>5. UNCHANGED <<pipeline, run, rows, events, pc, outcome, rollup, counted, faults>>
      BY <2>3 DEF StoreUpload
    <3>6. QED
      BY <1>0, <3>2, <3>3, <3>4, <3>5
  <2>4. QED
    BY <2>1, <2>2, <2>3
<1>17. CASE CommitRaises
  BY <1>0, <1>17, SwitchAssumption DEF SwitchAssumption, CommitRaises, Handler, PC
<1>18. CASE CommitThenRaises
  <2>1. /\ faults' \in 0..MaxFaults /\ pc' \in PC
        /\ UNCHANGED <<pipeline, records, evidence, outcome, rollup, counted, sidecar>>
    BY <1>0, <1>18, SwitchAssumption DEF SwitchAssumption, CommitThenRaises, Handler, PC
  <2>2. events' \in Seq({"started", "completed", "failed"})
    <3>1. events \in Seq({"started", "completed", "failed"})
      BY <1>0
    <3> QED BY <1>18, <3>1 DEF CommitThenRaises, EventWritten
  <2>3. run' \in [status : RunStatus, impact : ApprovalImpact, counted : SUBSET Nat]
    <3>1. run \in [status : RunStatus, impact : ApprovalImpact, counted : SUBSET Nat]
          /\ counted \in SUBSET Nat
      BY <1>0
    <3>2. {"running", "error"} \cup CompletedStatus \subseteq RunStatus
      BY DEF RunStatus, CompletedStatus
    <3>3. AggregateRun(rollup).status \in CompletedStatus /\ AggregateRun(rollup).impact \in ApprovalImpact
      BY AggregateIsVerdict DEF Verdict
    <3> QED BY <1>18, <3>1, <3>2, <3>3 DEF CommitThenRaises, RunWritten
  <2>4. rows' \in Seq(StepRow)
    <3>1. rows \in Seq(StepRow) /\ [status |-> outcome, final |-> TRUE] \in StepRow
          /\ [status |-> "running", final |-> FALSE] \in StepRow
      BY <1>0 DEF StepRow, StepStatus
    <3>2. ASSUME pc = "finalize" PROVE cur \in 1..Len(rows)
      BY <1>0, <3>1, <3>2 DEF Progress, cur
    <3> HIDE DEF TypeOK
    <3>3. CASE RowWritten /\ pc = "finalize"
      <4>1. rows' = [rows EXCEPT ![cur] = [status |-> outcome, final |-> TRUE]]
        BY <3>3 DEF RowWritten, AtIngestStep
      <4> QED BY <3>1, <3>2, <3>3, <4>1
    <3>4. CASE RowWritten /\ pc # "finalize"
      <4>1. \/ rows' = Append(rows, [status |-> outcome, final |-> TRUE])
            \/ rows' = Append(rows, [status |-> "running", final |-> FALSE])
        BY <3>4 DEF RowWritten
      <4> QED BY <3>1, <4>1
    <3> QED BY <1>18, <3>1, <3>3, <3>4 DEF CommitThenRaises
  <2> QED BY <1>0, <2>1, <2>2, <2>3, <2>4
<1>19. CASE Crash
  BY <1>0, <1>19 DEF Crash, PC
<1>20. CASE UNCHANGED vars
  BY <1>0, <1>20 DEF vars
<1>21. QED
  BY <1>1, <1>2, <1>3, <1>4, <1>5, <1>6, <1>7, <1>8, <1>9, <1>10, <1>11, <1>12, <1>13,
     <1>14, <1>15, <1>16, <1>17, <1>18, <1>19, <1>20 DEF Next, Runner, Fault

-----------------------------------------------------------------------------
\* The actions that leave the pipeline, the rows and the rollup alone.
Aside ==
  \/ StartRun \/ MarkRunning \/ ResolveKubeconfig \/ RunStep \/ JobEnds
  \/ PollFinds \/ PollGivesUp \/ CountArtifacts \/ CompleteRun \/ RecordCompleted
  \/ FailRun \/ RecordFailed \/ Upload \/ CommitRaises \/ Crash

LEMMA NextCases ==
  [Next]_vars => \/ Aside \/ PersistStep \/ CreateRunningStep \/ FinalizeStep
                 \/ CommitThenRaises \/ UNCHANGED vars
BY DEF Next, Runner, Fault, Aside

LEMMA AsideKeepsRows ==
  Aside \/ UNCHANGED vars => UNCHANGED <<pipeline, rows, rollup>>
BY DEF Aside, StartRun, MarkRunning, ResolveKubeconfig, RunStep, JobEnds, PollFinds,
   PollGivesUp, CountArtifacts, CompleteRun, RecordCompleted, FailRun, RecordFailed,
   Upload, AcceptUpload, RefuseUpload, StoreUpload, CommitRaises, Crash, stored, vars

LEMMA Lengths ==
  ASSUME TypeOK
  PROVE  /\ Len(pipeline) \in Nat /\ Len(rows) \in Nat /\ Len(rollup) \in Nat
         /\ DOMAIN pipeline = 1..Len(pipeline)
         /\ DOMAIN rows = 1..Len(rows)
         /\ DOMAIN rollup = 1..Len(rollup)
         /\ DOMAIN records = 1..Len(records)
         /\ Len(records) \in Nat
BY PipelineType DEF TypeOK

\* A commit that takes effect and raises may leave one row more, and changes none
\* that is rolled up.
LEMMA WrittenRows ==
  ASSUME TypeOK, RollupMatchesRows, Progress, CommitThenRaises
  PROVE  /\ Len(rows') \in Nat /\ Len(rows') >= Len(rows) /\ Len(rows') <= Len(pipeline)
         /\ \A i \in 1..Len(rollup) : rows'[i] = rows[i]
<1>0. /\ Len(pipeline) \in Nat /\ Len(rows) \in Nat /\ Len(rollup) \in Nat
      /\ rows \in Seq(StepRow) /\ Len(rollup) <= Len(rows) /\ Len(rows) <= Len(pipeline)
  BY Lengths DEF TypeOK, RollupMatchesRows
<1>1. CASE UNCHANGED rows
  BY <1>0, <1>1
<1>2. ASSUME NEW row, rows' = Append(rows, row), Len(rows) = Len(rollup), Len(rollup) < Len(pipeline)
      PROVE  /\ Len(rows') = Len(rows) + 1
             /\ \A i \in 1..Len(rollup) : rows'[i] = rows[i]
  BY <1>0, <1>2
<1>3. CASE pc = "finalize" /\ rows' = [rows EXCEPT ![cur] = [status |-> outcome, final |-> TRUE]]
  BY <1>0, <1>3 DEF Progress, cur
<1>4. \/ pc = "finalize" /\ rows' = [rows EXCEPT ![cur] = [status |-> outcome, final |-> TRUE]]
      \/ UNCHANGED rows
      \/ /\ pc = "persist" \/ AtIngestStep
         /\ \E row : rows' = Append(rows, row)
  BY DEF CommitThenRaises, RowWritten
<1>5. pc = "persist" \/ AtIngestStep => Len(rows) = Len(rollup) /\ Len(rollup) < Len(pipeline)
  BY <1>0 DEF Progress, AtIngestStep, cur
<1> QED BY <1>0, <1>1, <1>2, <1>3, <1>4, <1>5

LEMMA RollupStep == IInv /\ [Next]_vars => RollupMatchesRows' /\ Progress'
<1> SUFFICES ASSUME IInv, [Next]_vars PROVE RollupMatchesRows' /\ Progress'
  OBVIOUS
<1> USE DEF Goto
<1>0. /\ TypeOK /\ RollupMatchesRows /\ Progress
      /\ Len(pipeline) \in Nat /\ Len(rows) \in Nat /\ Len(rollup) \in Nat
      /\ rows \in Seq(StepRow) /\ rollup \in Seq(RollupInput)
  BY Lengths DEF IInv, TypeOK
<1>1. CASE Aside \/ UNCHANGED vars
  <2>1. UNCHANGED <<pipeline, rows, rollup>>
    BY <1>1, AsideKeepsRows
  <2>2. RollupMatchesRows'
    BY <1>0, <2>1 DEF RollupMatchesRows
  <2>3. Progress'
    <3>1. CASE UNCHANGED pc
      BY <1>0, <2>1, <3>1 DEF Progress
    <3>2. CASE RunStep
      BY <1>0, <2>1, <3>2 DEF Progress, RunStep, cur
    <3>3. CASE JobEnds \/ PollFinds \/ PollGivesUp
      BY <1>0, <2>1, <3>3 DEF Progress, JobEnds, PollFinds, PollGivesUp
    <3>4. CASE CountArtifacts
      BY <1>0, <2>1, <3>4 DEF Progress, RollupMatchesRows, CountArtifacts, cur
    <3>5. CASE StartRun \/ MarkRunning \/ ResolveKubeconfig
      BY <1>0, <2>1, <3>5 DEF Progress, StartRun, MarkRunning, ResolveKubeconfig
    <3>6. CASE CompleteRun \/ RecordCompleted \/ FailRun \/ RecordFailed
      BY <1>0, <2>1, <3>6 DEF Progress, CompleteRun, RecordCompleted, FailRun, RecordFailed
    <3>7. CASE CommitRaises \/ Crash
      BY <1>0, <2>1, <3>7 DEF Progress, CommitRaises, Handler, Crash
    <3>8. Upload \/ UNCHANGED vars => UNCHANGED pc
      BY DEF Upload, AcceptUpload, RefuseUpload, StoreUpload, vars
    <3>9. QED
      BY <1>1, <3>1, <3>2, <3>3, <3>4, <3>5, <3>6, <3>7, <3>8 DEF Aside
  <2>4. QED
    BY <2>2, <2>3
<1>2. CASE PersistStep
  <2> DEFINE row == [status |-> outcome, final |-> TRUE]
             roll == [status |-> outcome, policy |-> Step.policy]
  <2>1. /\ rows' = Append(rows, row) /\ rollup' = Append(rollup, roll)
        /\ Len(rows) = Len(rollup) /\ Len(rollup) < Len(pipeline)
        /\ UNCHANGED pipeline /\ pc' = "step"
    BY <1>0, <1>2 DEF PersistStep, RollUp, Progress
  <2>2. /\ Len(rows') = Len(rows) + 1 /\ Len(rollup') = Len(rollup) + 1
        /\ rows'[Len(rows) + 1] = row /\ rollup'[Len(rows) + 1] = roll
        /\ \A i \in 1..Len(rows) : rows'[i] = rows[i] /\ rollup'[i] = rollup[i]
    BY <1>0, <2>1
  <2>3. roll.policy = pipeline[Len(rows) + 1].policy
    BY <2>1 DEF Step, cur
  <2>4. RollupMatchesRows'
    BY <1>0, <2>1, <2>2, <2>3 DEF RollupMatchesRows
  <2>5. QED
    BY <2>1, <2>2, <2>4 DEF Progress
<1>3. CASE CreateRunningStep
  <2> DEFINE row == [status |-> "running", final |-> FALSE]
  <2>1. /\ rows' = Append(rows, row) /\ pc' = "exec" /\ Len(rows) = Len(rollup)
        /\ Len(rollup) < Len(pipeline) /\ UNCHANGED <<pipeline, rollup>>
    BY <1>0, <1>3 DEF CreateRunningStep, AtIngestStep, Progress, cur
  <2>2. /\ Len(rows') = Len(rows) + 1 /\ rows'[Len(rows) + 1] = row
        /\ \A i \in 1..Len(rows) : rows'[i] = rows[i]
    BY <1>0, <2>1
  <2>3. RollupMatchesRows'
    BY <1>0, <2>1, <2>2 DEF RollupMatchesRows
  <2>4. QED
    BY <1>0, <2>1, <2>2, <2>3 DEF Progress
<1>4. CASE FinalizeStep
  <2> DEFINE row == [status |-> outcome, final |-> TRUE]
             roll == [status |-> outcome, policy |-> Step.policy]
  <2>1. /\ rows' = [rows EXCEPT ![cur] = row] /\ rollup' = Append(rollup, roll)
        /\ Len(rows) = Len(rollup) + 1 /\ Len(rollup) < Len(pipeline)
        /\ UNCHANGED pipeline /\ pc' = "step" /\ cur = Len(rows)
    BY <1>0, <1>4 DEF FinalizeStep, RollUp, Progress, cur
  <2>2. /\ Len(rows') = Len(rows) /\ Len(rollup') = Len(rollup) + 1
        /\ rows'[Len(rows)] = row /\ rollup'[Len(rows)] = roll
        /\ \A i \in 1..Len(rollup) : rows'[i] = rows[i] /\ rollup'[i] = rollup[i]
    BY <1>0, <2>1
  <2>3. roll.policy = pipeline[Len(rows)].policy
    BY <2>1 DEF Step
  <2>4. RollupMatchesRows'
    BY <1>0, <2>1, <2>2, <2>3 DEF RollupMatchesRows
  <2>5. QED
    BY <2>1, <2>2, <2>4 DEF Progress
<1>5. CASE CommitThenRaises
  <2>1. pc' \in {"excepting", "dead"} /\ UNCHANGED <<pipeline, rollup>>
    BY <1>5 DEF CommitThenRaises, Handler
  <2>2. /\ Len(rows') \in Nat /\ Len(rows') >= Len(rows) /\ Len(rows') <= Len(pipeline)
        /\ \A i \in 1..Len(rollup) : rows'[i] = rows[i]
    BY <1>0, <1>5, WrittenRows
  <2>3. RollupMatchesRows'
    BY <1>0, <2>1, <2>2 DEF RollupMatchesRows
  <2>4. QED
    BY <2>1, <2>3 DEF Progress
<1>6. QED
  BY <1>1, <1>2, <1>3, <1>4, <1>5, NextCases

LEMMA VerdictStep == IInv /\ [Next]_vars => VerdictIsAggregate'
<1> SUFFICES ASSUME IInv, [Next]_vars PROVE VerdictIsAggregate'
  OBVIOUS
<1> USE DEF Goto, VerdictIsAggregate
<1>0. TypeOK /\ RollupMatchesRows /\ Progress /\ VerdictIsAggregate
  BY DEF IInv
<1>1. CASE CompleteRun
  <2>1. /\ Len(rollup) = Len(pipeline) /\ Len(rows) = Len(pipeline)
        /\ pc' = "completeEvent" /\ UNCHANGED <<pipeline, rows, rollup>>
    BY <1>0, <1>1 DEF CompleteRun, Progress
  <2>2. AggregateRun(rollup) \in Verdict
    BY AggregateIsVerdict
  <2>3. /\ run'.status = AggregateRun(rollup).status
        /\ run'.impact = AggregateRun(rollup).impact
    BY <1>1 DEF CompleteRun
  <2>4. [status |-> run'.status, impact |-> run'.impact] = AggregateRun(rollup)
    BY <2>2, <2>3 DEF Verdict
  <2>5. QED
    BY <2>1, <2>4
<1>2. CASE FailRun
  <2>1. run'.status = "error"
    BY <1>0, <1>2 DEF FailRun, TypeOK
  <2>2. QED
    BY <2>1 DEF CompletedStatus
<1>3. CASE MarkRunning
  <2>1. run'.status = "running"
    BY <1>0, <1>3 DEF MarkRunning, TypeOK
  <2>2. QED
    BY <2>1 DEF CompletedStatus
<1>4. CASE \/ StartRun \/ ResolveKubeconfig \/ RunStep \/ JobEnds \/ PollFinds \/ PollGivesUp
           \/ CountArtifacts \/ RecordCompleted \/ RecordFailed
  BY <1>0, <1>4
  DEF StartRun, ResolveKubeconfig, RunStep, JobEnds, PollFinds, PollGivesUp, CountArtifacts,
      RecordCompleted, RecordFailed, stored
<1>5. CASE Upload \/ CommitRaises \/ Crash \/ UNCHANGED vars
  BY <1>0, <1>5
  DEF Upload, AcceptUpload, RefuseUpload, StoreUpload, CommitRaises, Handler, Crash, stored, vars,
      AtIngestStep
<1>6. CASE PersistStep \/ CreateRunningStep \/ FinalizeStep
  BY <1>0, <1>6 DEF PersistStep, CreateRunningStep, FinalizeStep, AtIngestStep
<1>7. CASE CommitThenRaises
  <2>1. pc' \in {"excepting", "dead"} /\ UNCHANGED <<pipeline, rollup>>
    BY <1>7 DEF CommitThenRaises, Handler
  <2>2. CASE UNCHANGED run
    <3>1. run.status \in CompletedStatus => UNCHANGED rows
      BY <1>0, <1>7, <2>2 DEF CommitThenRaises, RowWritten, AtIngestStep
    <3> QED BY <1>0, <2>1, <2>2, <3>1
  <2>3. CASE pc = "complete" /\ RunWritten /\ UNCHANGED rows
    <3>1. Len(rollup) = Len(pipeline) /\ Len(rows) = Len(pipeline)
      BY <1>0, <2>3 DEF Progress
    <3>2. /\ run'.status = AggregateRun(rollup).status
          /\ run'.impact = AggregateRun(rollup).impact
      BY <2>3 DEF RunWritten
    <3>3. [status |-> run'.status, impact |-> run'.impact] = AggregateRun(rollup)
      BY <3>2, AggregateIsVerdict DEF Verdict
    <3> QED BY <2>1, <2>3, <3>1, <3>3
  <2>4. CASE pc # "complete" /\ RunWritten
    <3>1. run'.status \in {"running", "error"}
      BY <1>0, <2>4 DEF RunWritten, TypeOK
    <3> QED BY <3>1 DEF CompletedStatus
  <2> QED BY <1>7, <2>2, <2>3, <2>4 DEF CommitThenRaises
<1>8. QED
  BY <1>1, <1>2, <1>3, <1>4, <1>5, <1>6, <1>7, NextCases DEF Aside

-----------------------------------------------------------------------------
\* What storing an upload does, apart from the types.
LEMMA StoreFacts ==
  ASSUME TypeOK, NEW i \in DOMAIN pipeline, NEW result \in Reported \cup {NoResult},
         StoreUpload(i, result)
  PROVE  /\ Len(records') = Len(records) + 1
         /\ \A k \in 1..Len(records) : records'[k] = records[k]
         /\ records'[Len(records) + 1].step = i
         /\ records'[Len(records) + 1].inTime = (i = cur /\ pc \in {"exec", "merge"})
         /\ DOMAIN records' = 1..Len(records) + 1
<1> DEFINE rec == [step |-> i, result |-> result,
                   inTime |-> (i = cur /\ pc \in {"exec", "merge"})]
<1>1. records' = Append(records, rec)
  BY DEF StoreUpload
<1>2. rec.step = i /\ rec.inTime = (i = cur /\ pc \in {"exec", "merge"})
  OBVIOUS
<1> HIDE DEF rec
<1>3. records \in Seq(IngestRecord)
  BY DEF TypeOK
<1>4. /\ Len(records') = Len(records) + 1
      /\ DOMAIN records' = 1..Len(records) + 1
      /\ records'[Len(records) + 1] = rec
      /\ \A k \in 1..Len(records) : records'[k] = records[k]
  BY <1>1, <1>3
<1>5. QED
  BY <1>2, <1>4

LEMMA RecordStep == IInv /\ [Next]_vars => OneRecordPerStep'
<1> SUFFICES ASSUME IInv, [Next]_vars PROVE OneRecordPerStep'
  OBVIOUS
<1> USE DEF OneRecordPerStep
<1>0. /\ TypeOK /\ OneRecordPerStep /\ Progress /\ RollupMatchesRows
      /\ Len(pipeline) \in Nat /\ Len(rows) \in Nat /\ Len(rollup) \in Nat
      /\ DOMAIN pipeline = 1..Len(pipeline)
      /\ DOMAIN records = 1..Len(records) /\ Len(records) \in Nat
      /\ sidecar \in [DOMAIN pipeline -> {"none", "armed", "posting", "spent"}]
      /\ rows \in Seq(StepRow)
  BY Lengths DEF IInv, TypeOK
<1>1. CASE CreateRunningStep
  <2>1. /\ Len(rows') = Len(rows) + 1 /\ cur = Len(rows) + 1 /\ cur \in DOMAIN pipeline
        /\ UNCHANGED <<pipeline, records>>
        /\ sidecar' = IF Push THEN [sidecar EXCEPT ![cur] = "armed"] ELSE sidecar
    BY <1>0, <1>1 DEF CreateRunningStep, AtIngestStep, cur, Progress
  <2>2. \A k \in DOMAIN records : records[k].step # cur
    BY <1>0, <2>1
  <2>3. QED
    BY <1>0, <2>1, <2>2
<1>2. CASE Upload
  <2>1. PICK i \in DOMAIN pipeline :
          \/ AcceptUpload(i)
          \/ RefuseUpload(i)
          \/ \E result \in Reported \cup {NoResult} : StoreUpload(i, result)
    BY <1>2 DEF Upload
  <2>2. CASE AcceptUpload(i) \/ RefuseUpload(i)
    BY <1>0, <2>2 DEF AcceptUpload, RefuseUpload, stored
  <2>3. ASSUME NEW result \in Reported \cup {NoResult}, StoreUpload(i, result)
        PROVE  OneRecordPerStep'
    <3>1. /\ Len(records') = Len(records) + 1
          /\ \A k \in 1..Len(records) : records'[k] = records[k]
          /\ records'[Len(records) + 1].step = i
          /\ DOMAIN records' = 1..Len(records) + 1
      BY <1>0, <2>3, StoreFacts
    <3>2. /\ sidecar[i] = "posting" /\ sidecar' = [sidecar EXCEPT ![i] = "spent"]
          /\ UNCHANGED <<pipeline, rows>>
      BY <2>3 DEF StoreUpload
    <3>3. \A k \in 1..Len(records) : records[k].step # i
      BY <1>0, <3>2
    <3>4. \A j \in DOMAIN pipeline' : sidecar'[j] # "none" => j <= Len(rows') /\ Push
      BY <1>0, <3>2
    <3>5. \A k \in DOMAIN records' :
            records'[k].step \in DOMAIN pipeline' /\ sidecar'[records'[k].step] = "spent"
      BY <1>0, <3>1, <3>2, <3>3
    <3>6. \A j, k \in DOMAIN records' : records'[j].step = records'[k].step => j = k
      BY <1>0, <3>1, <3>3
    <3>7. QED
      BY <3>4, <3>5, <3>6
  <2>4. QED
    BY <2>1, <2>2, <2>3
<1>3. CASE Crash
  BY <1>0, <1>3 DEF Crash, stored
<1>4. CASE UNCHANGED <<pipeline, records, sidecar>> /\ Len(rows') >= Len(rows)
  BY <1>0, <1>4, Lengths, TypeStep
<1>5. PersistStep \/ FinalizeStep \/ CommitThenRaises =>
        UNCHANGED <<pipeline, records, sidecar>> /\ Len(rows') >= Len(rows)
  BY <1>0, WrittenRows DEF PersistStep, FinalizeStep, CommitThenRaises
<1>6. (Aside /\ ~Upload /\ ~Crash) \/ UNCHANGED vars =>
        UNCHANGED <<pipeline, records, sidecar>> /\ Len(rows') >= Len(rows)
  BY <1>0
  DEF Aside, StartRun, MarkRunning, ResolveKubeconfig, RunStep, JobEnds, PollFinds, PollGivesUp,
      CountArtifacts, CompleteRun, RecordCompleted, FailRun, RecordFailed, CommitRaises, stored, vars
<1>7. QED
  BY <1>1, <1>2, <1>3, <1>4, <1>5, <1>6, NextCases

LEMMA OutcomeStep == IInv /\ [Next]_vars => OutcomeIsResult'
<1> SUFFICES ASSUME IInv, [Next]_vars, pc' = "finalize",
                    NEW k \in DOMAIN records', records'[k].inTime,
                    records'[k].result # NoResult, records'[k].step = Len(rollup') + 1
             PROVE  outcome' = records'[k].result
  BY DEF OutcomeIsResult
<1> USE DEF Goto
<1>0. /\ TypeOK /\ OneRecordPerStep /\ OutcomeIsResult
      /\ DOMAIN records = 1..Len(records) /\ Len(records) \in Nat
      /\ records \in Seq(IngestRecord)
  BY Lengths DEF IInv, TypeOK
<1>1. CASE JobEnds
  <2>1. ~Push /\ UNCHANGED records
    BY <1>1 DEF JobEnds, stored
  <2>2. QED
    BY <1>0, <2>1 DEF OneRecordPerStep
<1>2. CASE PollFinds
  <2>1. UNCHANGED records /\ records[k].step = cur
    BY <1>2 DEF PollFinds, stored, cur
  <2>2. LatestOf(cur) = records[k]
    BY <1>0, <2>1, LatestIsTheOne DEF TypeOK
  <2>3. QED
    BY <1>2, <2>1, <2>2 DEF PollFinds
<1>3. CASE PollGivesUp
  BY <1>0, <1>3 DEF PollGivesUp, RecordsOf, stored, cur
<1>4. CASE Upload
  <2>1. PICK i \in DOMAIN pipeline :
          \/ AcceptUpload(i)
          \/ RefuseUpload(i)
          \/ \E result \in Reported \cup {NoResult} : StoreUpload(i, result)
    BY <1>4 DEF Upload
  <2>2. CASE AcceptUpload(i) \/ RefuseUpload(i)
    BY <1>0, <2>2 DEF AcceptUpload, RefuseUpload, stored, OutcomeIsResult
  <2>3. ASSUME NEW result \in Reported \cup {NoResult}, StoreUpload(i, result)
        PROVE  outcome' = records'[k].result
    <3>1. /\ \A j \in 1..Len(records) : records'[j] = records[j]
          /\ records'[Len(records) + 1].inTime = (i = cur /\ pc \in {"exec", "merge"})
          /\ DOMAIN records' = 1..Len(records) + 1
      BY <1>0, <2>3, StoreFacts
    <3>2. UNCHANGED <<pc, outcome, rollup>>
      BY <2>3 DEF StoreUpload
    <3>3. k # Len(records) + 1
      BY <3>1, <3>2
    <3>4. k \in DOMAIN records /\ records'[k] = records[k]
      BY <1>0, <3>1, <3>3
    <3>5. QED
      BY <1>0, <3>2, <3>4 DEF OutcomeIsResult
  <2>4. QED
    BY <2>1, <2>2, <2>3
<1>5. CASE UNCHANGED vars
  BY <1>0, <1>5 DEF vars, stored, OutcomeIsResult
<1>6. QED
  BY <1>1, <1>2, <1>3, <1>4, <1>5, NextCases
  DEF Aside, StartRun, MarkRunning, ResolveKubeconfig, RunStep, CountArtifacts, CompleteRun,
      RecordCompleted, FailRun, RecordFailed, CommitRaises, Handler, Crash, PersistStep,
      CreateRunningStep, FinalizeStep, CommitThenRaises

-----------------------------------------------------------------------------
LEMMA UploadedStep == IInv /\ [Next]_vars => UploadedResultWins'
<1> SUFFICES ASSUME IInv, [Next]_vars,
                    NEW k \in DOMAIN records', records'[k].inTime,
                    records'[k].result # NoResult,
                    records'[k].step \in DOMAIN rows', rows'[records'[k].step].final
             PROVE  rows'[records'[k].step].status = records'[k].result
  BY DEF UploadedResultWins
<1> DEFINE i == records'[k].step
<1> USE DEF Goto
<1>0. /\ TypeOK /\ OneRecordPerStep /\ OutcomeIsResult /\ UploadedResultWins /\ Progress
      /\ Len(rows) \in Nat /\ Len(rollup) \in Nat
      /\ DOMAIN rows = 1..Len(rows) /\ rows \in Seq(StepRow)
      /\ DOMAIN pipeline = 1..Len(pipeline) /\ Len(pipeline) \in Nat
      /\ DOMAIN records = 1..Len(records) /\ Len(records) \in Nat
  BY Lengths DEF IInv, TypeOK
<1>1. ASSUME UNCHANGED <<records, rows>> PROVE rows'[i].status = records'[k].result
  BY <1>0, <1>1 DEF UploadedResultWins
<1>2. ASSUME UNCHANGED records, NEW row, rows' = Append(rows, row)
      PROVE  rows'[i].status = records'[k].result
  <2>1. sidecar[i] = "spent" /\ i \in DOMAIN pipeline
    BY <1>0, <1>2 DEF OneRecordPerStep
  <2>2. i \in DOMAIN rows
    BY <1>0, <2>1 DEF OneRecordPerStep
  <2>3. rows'[i] = rows[i]
    BY <1>0, <1>2, <2>2
  <2>4. QED
    BY <1>2, <2>2, <2>3, <1>0 DEF UploadedResultWins
<1>9. ASSUME UNCHANGED records, pc = "finalize",
             rows' = [rows EXCEPT ![cur] = [status |-> outcome, final |-> TRUE]]
      PROVE  rows'[i].status = records'[k].result
  <2>1. /\ UNCHANGED records /\ cur \in DOMAIN rows
        /\ rows' = [rows EXCEPT ![cur] = [status |-> outcome, final |-> TRUE]]
        /\ pc = "finalize"
    BY <1>0, <1>9 DEF Progress, cur
  <2>2. CASE i = cur
    BY <1>0, <2>1, <2>2 DEF OutcomeIsResult, cur
  <2>3. CASE i # cur
    <3>1. i \in DOMAIN rows /\ rows'[i] = rows[i]
      BY <1>0, <2>1, <2>3
    <3>2. QED
      BY <1>0, <2>1, <3>1 DEF UploadedResultWins
  <2>4. QED
    BY <2>2, <2>3
<1>3. CASE FinalizeStep
  BY <1>3, <1>9 DEF FinalizeStep
<1>4. CASE Upload
  <2>1. PICK j \in DOMAIN pipeline :
          \/ AcceptUpload(j)
          \/ RefuseUpload(j)
          \/ \E result \in Reported \cup {NoResult} : StoreUpload(j, result)
    BY <1>4 DEF Upload
  <2>2. CASE AcceptUpload(j) \/ RefuseUpload(j)
    BY <1>1, <2>2 DEF AcceptUpload, RefuseUpload, stored
  <2>3. ASSUME NEW result \in Reported \cup {NoResult}, StoreUpload(j, result)
        PROVE  rows'[i].status = records'[k].result
    <3>1. /\ \A n \in 1..Len(records) : records'[n] = records[n]
          /\ records'[Len(records) + 1].step = j
          /\ records'[Len(records) + 1].inTime = (j = cur /\ pc \in {"exec", "merge"})
          /\ DOMAIN records' = 1..Len(records) + 1
      BY <1>0, <2>3, StoreFacts
    <3>2. UNCHANGED rows
      BY <2>3 DEF StoreUpload
    <3>3. k # Len(records) + 1
      BY <1>0, <3>1, <3>2 DEF Progress, cur
    <3>4. k \in DOMAIN records /\ records'[k] = records[k]
      BY <1>0, <3>1, <3>3
    <3>5. QED
      BY <1>0, <3>2, <3>4 DEF UploadedResultWins
  <2>4. QED
    BY <2>1, <2>2, <2>3
<1>5. CASE PersistStep \/ CreateRunningStep
  BY <1>2, <1>5 DEF PersistStep, CreateRunningStep
<1>8. CASE CommitThenRaises
  <2>1. CASE pc = "finalize" /\ RowWritten
    BY <1>8, <2>1, <1>9 DEF CommitThenRaises, RowWritten, AtIngestStep
  <2>2. CASE pc # "finalize" /\ RowWritten
    BY <1>2, <1>8, <2>2 DEF CommitThenRaises, RowWritten
  <2> QED BY <1>1, <1>8, <2>1, <2>2 DEF CommitThenRaises
<1>6. (Aside /\ ~Upload) \/ UNCHANGED vars => UNCHANGED <<records, rows>>
  BY DEF Aside, StartRun, MarkRunning, ResolveKubeconfig, RunStep, JobEnds, PollFinds,
     PollGivesUp, CountArtifacts, CompleteRun, RecordCompleted, FailRun, RecordFailed,
     CommitRaises, Crash, stored, vars
<1>7. QED
  BY <1>1, <1>3, <1>4, <1>5, <1>6, <1>8, NextCases

LEMMA InvariantHolds == Spec => []IInv
<1>1. IInv /\ [Next]_vars => IInv'
  BY TypeStep, RollupStep, VerdictStep, RecordStep, OutcomeStep, UploadedStep DEF IInv
<1>2. QED
  BY InitIInv, <1>1, PTL DEF Spec

-----------------------------------------------------------------------------
\* The runner's variables keep their types.
THEOREM RunnerTypeCorrect == Spec => []TypeOK
<1>1. IInv => TypeOK
  BY DEF IInv
<1>2. QED
  BY <1>1, InvariantHolds, PTL

\* A run that shows a verdict shows the aggregate of its persisted step rows,
\* whatever the pipeline, the uploads, the faults and the crashes.
THEOREM RunnerVerdictMatchesRows == Spec => []VerdictMatchesRows
<1>1. IInv => VerdictMatchesRows
  <2> SUFFICES ASSUME IInv, run.status \in CompletedStatus PROVE VerdictMatchesRows
    BY DEF VerdictMatchesRows
  <2>1. /\ TypeOK /\ RollupMatchesRows
        /\ Len(rollup) = Len(pipeline) /\ Len(rows) = Len(pipeline)
        /\ [status |-> run.status, impact |-> run.impact] = AggregateRun(rollup)
        /\ rollup \in Seq(RollupInput) /\ rows \in Seq(StepRow)
    BY DEF IInv, VerdictIsAggregate, TypeOK
  <2>2. \A i \in DOMAIN rows : rows[i].final
    <3>1. DOMAIN rows = 1..Len(rollup)
      BY <2>1
    <3>2. QED
      BY <3>1, <2>1 DEF RollupMatchesRows
  <2>3. rollup = RowRollup
    <3>1. DOMAIN rows = 1..Len(rollup) /\ rollup = [i \in 1..Len(rollup) |-> rollup[i]]
      BY <2>1
    <3>2. \A i \in 1..Len(rollup) : rollup[i] = RowRollup[i]
      BY <2>1, <3>1 DEF RollupMatchesRows, RowRollup
    <3>3. RowRollup = [i \in 1..Len(rollup) |-> RowRollup[i]]
      BY <3>1 DEF RowRollup
    <3>4. [i \in 1..Len(rollup) |-> rollup[i]] = [i \in 1..Len(rollup) |-> RowRollup[i]]
      BY <3>2
    <3>5. QED
      BY <3>1, <3>3, <3>4
  <2>4. [status |-> run.status, impact |-> run.impact] = AggregateRun(RowRollup)
    BY <2>1, <2>3
  <2>5. QED
    BY <2>1, <2>2, <2>4 DEF VerdictMatchesRows
<1>2. QED
  BY <1>1, InvariantHolds, PTL

\* A result.json stored while the thread waited for its step is what the
\* step's row says once the row is final.
THEOREM RunnerUploadedResultWins == Spec => []UploadedResultWins
<1>1. IInv => UploadedResultWins
  BY DEF IInv
<1>2. QED
  BY <1>1, InvariantHolds, PTL

-----------------------------------------------------------------------------
Guarded == {"excepting", "exceptEvent"}

\* The events of a run come in step with its thread, and its status with them;
\* only the guard may find more than the start.
EventsInStep ==
  /\ events # <<>> => events[1] = "started"
  /\ pc = "accepted" => Len(events) = 0
  /\ pc \notin {"accepted", "done", "dead"} => Len(events) >= 1
  /\ pc \notin {"accepted", "done", "dead"} \cup Guarded => Len(events) = 1
  /\ \A k \in DOMAIN events :
       /\ events[k] = "failed" => run.status = "error"
       /\ events[k] = "completed" => k = 2 /\ run.status \in Terminal
  /\ pc = "completeEvent" => run.status \in CompletedStatus
  /\ pc \in {"failEvent", "exceptEvent"} => run.status = "error"
  /\ pc = "done" => /\ run.status \in Terminal /\ events # <<>>
                    /\ events[Len(events)] = IF run.status \in CompletedStatus THEN "completed" ELSE "failed"

InTime == {records[k].step : k \in {j \in DOMAIN records : records[j].inTime}}

\* What the thread counts is stored, and holds what came in time.
Counting ==
  /\ counted \subseteq evidence /\ run.counted \subseteq evidence
  /\ \A k \in DOMAIN records : records[k].step \in evidence
  /\ pc = "complete" => InTime \subseteq counted
  /\ run.status \in CompletedStatus => InTime \subseteq run.counted

LEMMA EventsStep == IInv /\ EventsInStep /\ [Next]_vars => EventsInStep'
<1> SUFFICES ASSUME IInv, EventsInStep, [Next]_vars PROVE EventsInStep'
  OBVIOUS
<1> USE DEF Goto, Guarded
<1>0. events \in Seq({"started", "completed", "failed"}) /\ Len(events) \in Nat
      /\ DOMAIN events = 1..Len(events)
      /\ run.status \in RunStatus
      /\ (run.status \in CompletedStatus => pc \in {"completeEvent", "excepting", "done", "dead"})
  BY DEF IInv, TypeOK, VerdictIsAggregate
<1>a. \A e \in {"started", "completed", "failed"} :
        events' = Append(events, e) =>
          /\ Len(events') = Len(events) + 1 /\ events'[Len(events) + 1] = e
          /\ DOMAIN events' = 1..Len(events) + 1 /\ events' # <<>>
          /\ \A k \in 1..Len(events) : events'[k] = events[k]
  BY <1>0
\* A start that is recorded, a last event that is, and a row that is written.
<1>b. ASSUME pc = "accepted", events' = Append(events, "started"), pc' \in {"spawned", "dead"},
             UNCHANGED run
      PROVE  EventsInStep'
  BY <1>0, <1>a, <1>b DEF EventsInStep
<1>c. ASSUME NEW e \in {"completed", "failed"}, events' = Append(events, e), UNCHANGED run,
             \/ pc = "completeEvent" /\ e = "completed"
             \/ pc \in {"failEvent", "exceptEvent"} /\ e = "failed",
             pc' \in {"done", "dead", "excepting"}
      PROVE  EventsInStep'
  <2>1. /\ Len(events) >= 1 /\ (e = "completed" => Len(events) = 1)
        /\ e = "completed" => run.status \in CompletedStatus
        /\ e = "failed" => run.status = "error"
    BY <1>0, <1>c DEF EventsInStep
  <2>0. /\ Len(events') = Len(events) + 1 /\ events'[Len(events) + 1] = e
        /\ DOMAIN events' = 1..Len(events) + 1 /\ events' # <<>>
        /\ \A k \in 1..Len(events) : events'[k] = events[k]
    BY <1>a, <1>c
  <2>2. "error" \notin CompletedStatus /\ run.status \in Terminal
    BY <2>1 DEF CompletedStatus, Terminal
  <2>3. events'[1] = "started" /\ Len(events') >= 1
    BY <1>0, <2>0, <2>1 DEF EventsInStep
  <2>4. \A k \in DOMAIN events' :
          /\ events'[k] = "failed" => run.status = "error"
          /\ events'[k] = "completed" => k = 2 /\ run.status \in Terminal
    BY <1>0, <2>0, <2>1, <2>2 DEF EventsInStep
  <2>5. events'[Len(events')] = e
    BY <2>0
  <2> QED BY <1>c, <2>0, <2>1, <2>2, <2>3, <2>4, <2>5 DEF EventsInStep
<1>d. ASSUME UNCHANGED events, pc \notin {"accepted", "done", "dead"},
             pc' \notin {"accepted", "done"},
             pc' = "dead" \/ pc' \in Guarded \/ pc \notin Guarded,
             run'.status \in Terminal \/ (run'.status = "running" /\ pc = "spawned"),
             run'.status = "error" \/ pc \notin Guarded,
             pc' = "completeEvent" => run'.status \in CompletedStatus,
             pc' \in {"failEvent", "exceptEvent"} => run'.status = "error"
      PROVE  EventsInStep'
  <2>1. \A k \in DOMAIN events :
          /\ events[k] = "failed" => run'.status = "error"
          /\ events[k] = "completed" => k = 2 /\ run'.status \in Terminal
    BY <1>0, <1>d DEF EventsInStep
  <2> QED BY <1>0, <1>d, <2>1 DEF EventsInStep
<1>1. CASE StartRun
  BY <1>1, <1>b DEF StartRun
<1>2. CASE MarkRunning
  BY <1>0, <1>2, <1>d DEF MarkRunning, IInv, TypeOK
<1>3. CASE CompleteRun
  <2>1. run'.status \in CompletedStatus
    BY <1>3, AggregateIsVerdict DEF CompleteRun, Verdict
  <2> QED BY <1>3, <1>d, <2>1 DEF CompleteRun, Terminal
<1>4. CASE RecordCompleted
  BY <1>4, <1>c DEF RecordCompleted
<1>5. CASE FailRun
  <2>1. run'.status = "error"
    BY <1>5 DEF FailRun, IInv, TypeOK
  <2> QED BY <1>5, <1>d, <2>1 DEF FailRun, Terminal
<1>6. CASE RecordFailed
  BY <1>6, <1>c DEF RecordFailed
<1>7. CASE ResolveKubeconfig \/ RunStep \/ PersistStep \/ CreateRunningStep \/ JobEnds \/ PollFinds
           \/ PollGivesUp \/ FinalizeStep \/ CountArtifacts
  <2>1. /\ UNCHANGED <<events, run>> /\ pc \notin {"accepted", "done", "dead"} \cup Guarded
        /\ pc' \notin {"accepted", "done", "dead", "completeEvent", "failEvent"} \cup Guarded
    BY <1>7 DEF ResolveKubeconfig, RunStep, PersistStep, CreateRunningStep, AtIngestStep, JobEnds,
       PollFinds, PollGivesUp, FinalizeStep, CountArtifacts, stored
  <2> QED BY <2>1 DEF EventsInStep
<1>8. CASE CommitRaises \/ Crash
  BY <1>0, <1>8 DEF CommitRaises, Crash, Commits, Handler, EventsInStep, stored
<1>9. CASE CommitThenRaises
  <2>1. pc' = Handler(pc)
    BY <1>9 DEF CommitThenRaises
  <2>2. CASE EventWritten /\ UNCHANGED run
    BY <1>b, <1>c, <2>1, <2>2 DEF EventWritten, Handler
  <2>3. CASE RunWritten /\ UNCHANGED events
    <3>1. /\ pc = "spawned" => run'.status = "running"
          /\ pc = "complete" => run'.status \in CompletedStatus
          /\ pc \in {"failing", "excepting"} => run'.status = "error"
      BY <2>3, AggregateIsVerdict DEF RunWritten, IInv, TypeOK, Verdict
    <3> QED BY <1>d, <2>1, <2>3, <3>1 DEF RunWritten, Handler, Terminal
  <2>4. CASE RowWritten /\ UNCHANGED <<run, events>>
    <3>1. pc \in {"step", "persist", "finalize"} /\ pc' = "excepting"
      BY <2>1, <2>4 DEF RowWritten, AtIngestStep, Handler
    <3> QED BY <2>4, <3>1 DEF EventsInStep
  <2> QED BY <1>9, <2>2, <2>3, <2>4 DEF CommitThenRaises
<1>10. CASE Upload \/ UNCHANGED vars
  <2>1. UNCHANGED <<events, pc, run>>
    BY <1>10 DEF Upload, AcceptUpload, RefuseUpload, StoreUpload, stored, vars
  <2> QED BY <2>1 DEF EventsInStep
<1> QED BY <1>1, <1>2, <1>3, <1>4, <1>5, <1>6, <1>7, <1>8, <1>9, <1>10 DEF Next, Runner, Fault

LEMMA CountingStep == IInv /\ Counting /\ [Next]_vars => Counting'
<1> SUFFICES ASSUME IInv, Counting, [Next]_vars PROVE Counting'
  OBVIOUS
<1> USE DEF Goto
<1>0. /\ run.status \in CompletedStatus => pc \in {"completeEvent", "excepting", "done", "dead"}
      /\ DOMAIN records = 1..Len(records) /\ Len(records) \in Nat /\ TypeOK
  BY Lengths DEF IInv, VerdictIsAggregate
<1>1. CASE CountArtifacts
  <2>1. /\ UNCHANGED <<run, records, evidence>> /\ counted' = evidence /\ InTime' = InTime
    BY <1>1 DEF CountArtifacts, stored, InTime
  <2> QED BY <1>0, <1>1, <2>1 DEF CountArtifacts, Counting, InTime
<1>2. CASE CompleteRun
  <2>1. UNCHANGED <<records, evidence, counted>> /\ run'.counted = counted /\ InTime' = InTime
        /\ InTime \subseteq counted /\ pc' = "completeEvent"
    BY <1>2 DEF CompleteRun, InTime, Counting
  <2> QED BY <2>1 DEF Counting
<1>3. CASE MarkRunning \/ FailRun
  <2>1. /\ UNCHANGED <<records, evidence, counted>> /\ run'.counted = run.counted
        /\ run'.status \notin CompletedStatus /\ pc' # "complete"
    BY <1>0, <1>3 DEF MarkRunning, FailRun, TypeOK, CompletedStatus
  <2> QED BY <2>1 DEF Counting
<1>4. CASE Upload
  <2>1. PICK i \in DOMAIN pipeline :
          \/ AcceptUpload(i)
          \/ RefuseUpload(i)
          \/ \E result \in Reported \cup {NoResult} : StoreUpload(i, result)
    BY <1>4 DEF Upload
  <2>2. CASE AcceptUpload(i) \/ RefuseUpload(i)
    BY <2>2 DEF AcceptUpload, RefuseUpload, stored, Counting, InTime
  <2>3. ASSUME NEW result \in Reported \cup {NoResult}, StoreUpload(i, result) PROVE Counting'
    <3>1. /\ \A k \in 1..Len(records) : records'[k] = records[k]
          /\ records'[Len(records) + 1].step = i
          /\ records'[Len(records) + 1].inTime = (i = cur /\ pc \in {"exec", "merge"})
          /\ DOMAIN records' = 1..Len(records) + 1
      BY <1>0, <2>3, StoreFacts
    <3>2. UNCHANGED <<run, pc, counted>> /\ evidence' = evidence \cup {i}
      BY <2>3 DEF StoreUpload
    <3>3. \A k \in DOMAIN records' : records'[k].step \in evidence'
      BY <1>0, <3>1, <3>2 DEF Counting
    <3>4. ASSUME pc \notin {"exec", "merge"} PROVE InTime' \subseteq InTime
      <4>1. ASSUME NEW x \in InTime' PROVE x \in InTime
        <5>1. PICK k \in DOMAIN records' : records'[k].inTime /\ records'[k].step = x
          BY <4>1 DEF InTime
        <5>2. k # Len(records) + 1
          BY <3>1, <3>4, <5>1
        <5>3. k \in DOMAIN records /\ records'[k] = records[k]
          BY <1>0, <3>1, <5>1, <5>2
        <5> QED BY <5>1, <5>3 DEF InTime
      <4> QED BY <4>1
    <3> QED BY <1>0, <3>2, <3>3, <3>4 DEF Counting
  <2> QED BY <2>1, <2>2, <2>3
<1>5. CASE ResolveKubeconfig \/ RunStep \/ PersistStep \/ CreateRunningStep \/ JobEnds \/ PollFinds
           \/ PollGivesUp \/ FinalizeStep \/ StartRun \/ RecordCompleted \/ RecordFailed
           \/ CommitRaises \/ Crash \/ UNCHANGED vars
  <2>1. UNCHANGED <<run, records, evidence, counted>> /\ (pc' = "complete" => pc = "complete")
    BY <1>5 DEF ResolveKubeconfig, RunStep, PersistStep, CreateRunningStep, JobEnds, PollFinds,
       PollGivesUp, FinalizeStep, StartRun, RecordCompleted, RecordFailed,
       CommitRaises, Handler, Crash, stored, vars
  <2> QED BY <2>1 DEF Counting, InTime
<1>6. CASE CommitThenRaises
  <2>1. UNCHANGED <<records, evidence, counted>> /\ InTime' = InTime /\ pc' # "complete"
    BY <1>6 DEF CommitThenRaises, Handler, InTime
  <2>2. CASE UNCHANGED run
    BY <2>1, <2>2 DEF Counting
  <2>3. CASE pc = "complete" /\ RunWritten
    <3>1. run'.counted = counted /\ InTime \subseteq counted
      BY <2>3 DEF RunWritten, Counting
    <3> QED BY <2>1, <3>1 DEF Counting
  <2>4. CASE pc # "complete" /\ RunWritten
    <3>1. run'.counted = run.counted /\ run'.status \notin CompletedStatus
      BY <1>0, <2>4 DEF RunWritten, TypeOK, CompletedStatus
    <3> QED BY <2>1, <3>1 DEF Counting
  <2> QED BY <1>6, <2>2, <2>3, <2>4 DEF CommitThenRaises
<1> QED BY <1>1, <1>2, <1>3, <1>4, <1>5, <1>6 DEF Next, Runner, Fault

-----------------------------------------------------------------------------
\* For every pipeline, upload and fault, commits that raise after they took effect
\* included: the history never ends otherwise than the run, and what it says of a
\* failure is true of the row (_complete_run, _fail_run, execute_run, history.py).
THEOREM RunnerHistoryMatchesRun == Spec => []HistoryMatchesRun
<1>1. Init => EventsInStep
  BY DEF Init, EventsInStep
<1>2. EventsInStep => HistoryMatchesRun
  BY DEF EventsInStep, HistoryMatchesRun
<1> QED BY <1>1, <1>2, EventsStep, InvariantHolds, PTL DEF Spec

\* For every interleaving of uploads with the thread: the summary counts all
\* evidence that came in time and none that is not stored (_complete_run).
THEOREM RunnerSummaryCountsEvidence == Spec => []SummaryCountsEvidence
<1>1. Init => Counting
  BY DEF Init, Counting, InTime, CompletedStatus
<1>2. Counting => SummaryCountsEvidence
  BY DEF Counting, InTime, SummaryCountsEvidence
<1> QED BY <1>1, <1>2, CountingStep, InvariantHolds, PTL DEF Spec

\* An error is the end of a run, except that its guard may still write it again.
ErrorIsLate ==
  run.status = "error" => pc \in {"failEvent", "excepting", "exceptEvent", "done", "dead"}

LEMMA ErrorStep == IInv /\ ErrorIsLate /\ [Next]_vars => ErrorIsLate'
<1> SUFFICES ASSUME IInv, ErrorIsLate, [Next]_vars PROVE ErrorIsLate'
  OBVIOUS
<1> USE DEF ErrorIsLate, Goto
<1>1. CASE Runner
  <2>1. CASE FailRun
    BY <2>1 DEF FailRun
  <2>2. CASE CompleteRun
    BY <2>2, AggregateIsVerdict DEF CompleteRun, Verdict, CompletedStatus
  <2>3. CASE MarkRunning
    BY <2>3, "running" # "error" DEF MarkRunning, IInv, TypeOK
  <2>4. CASE StartRun \/ ResolveKubeconfig \/ RecordCompleted \/ RecordFailed \/ CountArtifacts
    BY <2>4 DEF StartRun, ResolveKubeconfig, RecordCompleted, RecordFailed, CountArtifacts, stored
  <2>5. CASE RunStep \/ PersistStep \/ CreateRunningStep \/ JobEnds \/ PollFinds \/ PollGivesUp
             \/ FinalizeStep
    BY <2>5 DEF RunStep, PersistStep, CreateRunningStep, AtIngestStep, JobEnds, PollFinds,
       PollGivesUp, FinalizeStep, stored
  <2> QED BY <1>1, <2>1, <2>2, <2>3, <2>4, <2>5 DEF Runner
<1>2. CASE Upload
  BY <1>2 DEF Upload, AcceptUpload, RefuseUpload, StoreUpload, stored
<1>3. CASE CommitRaises \/ Crash
  BY <1>3 DEF CommitRaises, Crash, Handler, Commits, stored
<1>5. CASE CommitThenRaises
  <2>1. pc' \in {"excepting", "dead"}
    BY <1>5 DEF CommitThenRaises, Handler
  <2> QED BY <2>1
<1>4. CASE UNCHANGED vars
  BY <1>4 DEF vars, stored
<1> QED BY <1>1, <1>2, <1>3, <1>4, <1>5 DEF Next, Fault

\* A step that changes the run's row is one of three commits.
LEMMA RunWriters ==
  ASSUME [Next]_vars, run' # run
  PROVE  RunWritten
BY DEF Next, Runner, Fault, StartRun, ResolveKubeconfig, RunStep, PersistStep, CreateRunningStep,
  JobEnds, PollFinds, PollGivesUp, FinalizeStep, CountArtifacts, RecordCompleted, RecordFailed,
  CommitRaises, CommitThenRaises, Crash, Upload, AcceptUpload, RefuseUpload, StoreUpload,
  MarkRunning, CompleteRun, FailRun, RunWritten, Goto, stored, vars

\* What the gate sees is kept by the first of them, ended by the others.
LEMMA ShownStep ==
  IInv /\ ErrorIsLate /\ [Next]_vars => [MayBecome(Shows(run), Shows(run'))]_(Shows(run))
<1> SUFFICES ASSUME IInv, ErrorIsLate, [Next]_vars, run' # run
             PROVE  MayBecome(Shows(run), Shows(run')) \/ Shows(run') = Shows(run)
  BY Zenon
<1>0. /\ run.status \in RunStatus
      /\ run.status \in CompletedStatus =>
           /\ pc \in {"completeEvent", "excepting", "done", "dead"}
           /\ [status |-> run.status, impact |-> run.impact] \in Verdicts
  <2>1. \A steps : AggregateRun(steps) \in Verdicts
    BY DEF AggregateRun, Verdicts
  <2> QED BY <2>1 DEF IInv, TypeOK, VerdictIsAggregate
<1>1. Shows(run) \in Verdicts \cup {Open, Errored}
  BY <1>0 DEF Shows
<1>a. RunWritten
  BY RunWriters
<1>2. CASE pc = "spawned"
  <2>1. run.status \notin CompletedStatus \cup {"error"} /\ run'.status = "running"
    BY <1>0, <1>2, <1>a DEF RunWritten, ErrorIsLate, IInv, TypeOK
  <2> QED BY <2>1 DEF Shows, CompletedStatus
<1>3. CASE pc = "complete"
  <2>1. run.status \notin CompletedStatus \cup {"error"}
    BY <1>0, <1>3 DEF ErrorIsLate
  <2>2. Shows(run) = Open
    BY <2>1 DEF Shows, CompletedStatus
  <2>3. PICK v : v = AggregateRun(rollup)
    OBVIOUS
  <2>4. v \in Verdicts /\ v \in Verdict
    BY <2>3, AggregateIsVerdict DEF AggregateRun, Verdicts
  <2>5. run'.status = v.status /\ run'.impact = v.impact
    BY <1>3, <1>a, <2>3 DEF RunWritten
  <2>6. Shows(run') = v
    BY <2>4, <2>5 DEF Shows, Verdict, Verdicts, Clean, Warned, Blocked, CompletedStatus
  <2> QED BY <2>2, <2>4, <2>6 DEF MayBecome
<1>4. CASE pc \in {"failing", "excepting"}
  <2>1. run'.status = "error"
    BY <1>4, <1>a DEF RunWritten, IInv, TypeOK
  <2>2. Shows(run') = Errored
    BY <2>1 DEF Shows, CompletedStatus
  <2> QED BY <1>1, <2>2 DEF MayBecome
<1> QED BY <1>a, <1>2, <1>3, <1>4 DEF RunWritten

\* For every pipeline, upload, fault and crash, the run's row does what the
\* approval gate may expect of it, and a verdict is withdrawn by the last-resort
\* guard alone (_complete_run, _fail_run and execute_run).
THEOREM RunnerVerdictStands == Spec => VerdictStands
<1>1. IInv /\ [Next]_vars =>
        [run.status \in CompletedStatus /\ run' # run => pc = "excepting" /\ run'.status = "error"]_run
  <2> SUFFICES ASSUME IInv, [Next]_vars, run.status \in CompletedStatus, run' # run
               PROVE  pc = "excepting" /\ run'.status = "error"
    OBVIOUS
  <2>1. pc \in {"completeEvent", "excepting", "done", "dead"}
    BY DEF IInv, VerdictIsAggregate
  <2> QED BY <2>1, RunWriters DEF RunWritten, IInv, TypeOK
<1>2. Init => Shows(run) = Open /\ ErrorIsLate
  BY DEF Init, Shows, CompletedStatus, ErrorIsLate
<1> QED BY <1>1, <1>2, ErrorStep, ShownStep, InvariantHolds, PTL DEF Spec, VerdictStands

-----------------------------------------------------------------------------
(* Why a run ends.  Liveness itself is beyond the provers; what it rests   *)
(* on is not.                                                              *)

\* How many steps the thread takes at most from each position until it is at the
\* next step of the pipeline, or until it ends.
AtMost == [at \in PC |->
  CASE at = "accepted" -> 6
    [] at = "spawned" -> 5
    [] at = "resolve" -> 4
    [] at = "step" -> 3
    [] at \in {"persist", "exec", "complete", "failing", "excepting"} -> 2
    [] at \in {"merge", "completeEvent", "failEvent", "exceptEvent"} -> 1
    [] at \in {"finalize", "done", "dead"} -> 0]

\* How many are left: four for a step of the pipeline, three for a fault.
Left == 4 * (Len(pipeline) - Len(rollup)) + 3 * (MaxFaults - faults) + AtMost[pc]

LEMMA LeftIsNat == IInv => Left \in Nat
<1> SUFFICES ASSUME IInv PROVE Left \in Nat
  OBVIOUS
<1>1. /\ Len(pipeline) \in Nat /\ Len(rollup) \in Nat /\ Len(rollup) <= Len(pipeline)
      /\ Len(rows) \in Nat /\ MaxFaults \in Nat /\ faults \in Nat /\ faults <= MaxFaults
  BY PipelineType, SwitchAssumption DEF IInv, TypeOK, RollupMatchesRows
<1>2. AtMost[pc] \in Nat
  BY DEF AtMost, PC, IInv, TypeOK
<1> QED BY <1>1, <1>2 DEF Left

LEMMA LeftFalls == IInv /\ (Runner \/ CommitRaises \/ CommitThenRaises) => Left' < Left
<1> SUFFICES ASSUME IInv, Runner \/ CommitRaises \/ CommitThenRaises PROVE Left' < Left
  OBVIOUS
<1>0. /\ Len(pipeline) \in Nat /\ Len(rollup) \in Nat /\ Len(rollup) <= Len(pipeline)
      /\ MaxFaults \in Nat /\ faults \in Nat /\ faults <= MaxFaults /\ pc \in PC
      /\ rollup \in Seq(RollupInput)
  <2>1. Len(rows) \in Nat
    BY DEF IInv, TypeOK
  <2> QED BY <2>1, PipelineType, SwitchAssumption DEF IInv, TypeOK, RollupMatchesRows
<1>a. /\ AtMost["accepted"] = 6 /\ AtMost["spawned"] = 5 /\ AtMost["resolve"] = 4
      /\ AtMost["step"] = 3 /\ AtMost["persist"] = 2 /\ AtMost["exec"] = 2
      /\ AtMost["complete"] = 2 /\ AtMost["failing"] = 2 /\ AtMost["excepting"] = 2
      /\ AtMost["merge"] = 1 /\ AtMost["completeEvent"] = 1 /\ AtMost["failEvent"] = 1
      /\ AtMost["exceptEvent"] = 1 /\ AtMost["finalize"] = 0 /\ AtMost["done"] = 0
      /\ AtMost["dead"] = 0
  BY DEF AtMost, PC
<1>b. \A at \in PC : AtMost[at] \in 0..6
  BY DEF AtMost, PC
<1>1. CASE StartRun \/ MarkRunning \/ ResolveKubeconfig \/ RunStep \/ CreateRunningStep \/ JobEnds
           \/ PollFinds \/ PollGivesUp \/ CountArtifacts \/ CompleteRun \/ RecordCompleted
           \/ FailRun \/ RecordFailed
  <2>1. pipeline' = pipeline /\ rollup' = rollup /\ faults' = faults
    BY <1>1 DEF StartRun, MarkRunning, ResolveKubeconfig, RunStep, CreateRunningStep, JobEnds,
       PollFinds, PollGivesUp, CountArtifacts, CompleteRun, RecordCompleted, FailRun, RecordFailed
  <2>2. \/ pc = "accepted" /\ pc' = "spawned"
        \/ pc = "spawned" /\ pc' = "resolve"
        \/ pc = "resolve" /\ pc' \in {"step", "failing"}
        \/ pc = "step" /\ pc' \in {"persist", "exec", "complete"}
        \/ pc = "exec" /\ pc' \in {"merge", "finalize"}
        \/ pc = "merge" /\ pc' = "finalize"
        \/ pc = "complete" /\ pc' = "completeEvent"
        \/ pc = "failing" /\ pc' = "failEvent"
        \/ pc = "excepting" /\ pc' = "exceptEvent"
        \/ pc \in {"completeEvent", "failEvent", "exceptEvent"} /\ pc' = "done"
    BY <1>1 DEF StartRun, MarkRunning, ResolveKubeconfig, RunStep, CreateRunningStep, JobEnds,
       PollFinds, PollGivesUp, CountArtifacts, CompleteRun, RecordCompleted, FailRun, RecordFailed,
       Goto, AtIngestStep
  <2>3. AtMost[pc'] < AtMost[pc] /\ AtMost[pc'] \in Nat /\ AtMost[pc] \in Nat
    BY <1>a, <2>2
  <2>4. AtMost' = AtMost
    BY DEF AtMost, PC
  <2> QED BY <1>0, <2>1, <2>3, <2>4 DEF Left
<1>2. CASE PersistStep \/ FinalizeStep
  <2>1. pipeline' = pipeline /\ faults' = faults /\ Len(rollup') = Len(rollup) + 1
    BY <1>0, <1>2 DEF PersistStep, FinalizeStep, RollUp
  <2>2. pc \in {"persist", "finalize"} /\ pc' = "step"
    BY <1>2 DEF PersistStep, FinalizeStep, Goto
  <2>3. AtMost[pc] \in {0, 2} /\ AtMost'[pc'] = 3
    BY <1>a, <2>2 DEF AtMost, PC
  <2> QED BY <1>0, <2>1, <2>3 DEF Left
<1>3. CASE CommitRaises \/ CommitThenRaises
  <2>1. pipeline' = pipeline /\ rollup' = rollup /\ faults' = faults + 1 /\ faults < MaxFaults
    BY <1>3 DEF CommitRaises, CommitThenRaises
  <2>2. pc' \in {"dead", "excepting"}
    BY <1>3 DEF CommitRaises, CommitThenRaises, Handler, Goto
  <2>3. AtMost[pc] \in 0..6 /\ AtMost'[pc'] \in {0, 2}
    BY <1>0, <1>a, <1>b, <2>2 DEF AtMost, PC
  <2> QED BY <1>0, <2>1, <2>3 DEF Left
<1> QED BY <1>1, <1>2, <1>3 DEF Runner

\* Nobody but the thread brings it forward, and nobody holds it up: an upload
\* leaves its work as it is, and a stop of the process ends it.
LEMMA LeftElsewhere == IInv /\ (Upload \/ Crash) => Left' <= Left
<1> SUFFICES ASSUME IInv, Upload \/ Crash PROVE Left' <= Left
  OBVIOUS
<1>1. pipeline' = pipeline /\ rollup' = rollup /\ faults' = faults /\ pc' \in {pc, "dead"}
  BY DEF Upload, AcceptUpload, RefuseUpload, StoreUpload, Crash
<1>2. AtMost["dead"] = 0 /\ AtMost' = AtMost /\ AtMost[pc] \in 0..6
  BY DEF AtMost, PC, IInv, TypeOK
<1>3. 4 * (Len(pipeline) - Len(rollup)) + 3 * (MaxFaults - faults) \in Nat
  <2>1. Len(rows) \in Nat
    BY DEF IInv, TypeOK
  <2> QED BY <2>1, PipelineType, SwitchAssumption DEF IInv, TypeOK, RollupMatchesRows
<1> QED BY <1>1, <1>2, <1>3 DEF Left

\* The thread that is through leaves an ended run.
ThroughIsEnded == pc = "done" => run.status \in Terminal

\* For every pipeline: the thread is through only with a run that has ended; it
\* has a bounded number of steps before it, each of its own and each fault takes
\* from them, and no upload adds to them.  So a run that stays `running` is one whose
\* thread has died, or is not scheduled (execute_run and its waits' deadlines).
THEOREM RunnersGoForward ==
  Spec => /\ [](Left \in Nat /\ ThroughIsEnded)
          /\ [][IF Runner \/ CommitRaises \/ CommitThenRaises THEN Left' < Left
                                                              ELSE Left' <= Left]_vars
<1>1. IInv /\ EventsInStep /\ ThroughIsEnded /\ [Next]_vars => ThroughIsEnded'
  <2> SUFFICES ASSUME IInv, EventsInStep, ThroughIsEnded, [Next]_vars PROVE ThroughIsEnded'
    OBVIOUS
  <2>1. CASE RecordCompleted \/ RecordFailed
    BY <2>1 DEF RecordCompleted, RecordFailed, Goto, EventsInStep, ThroughIsEnded, Terminal
  <2>2. CASE pc = "done"
    <3>1. run' = run
      BY <2>2, RunWriters DEF RunWritten
    <3> QED BY <2>2, <3>1 DEF ThroughIsEnded
  <2>3. CASE pc # "done" /\ ~(RecordCompleted \/ RecordFailed)
    <3>1. pc' # "done"
      BY <2>3 DEF Next, Runner, Fault, StartRun, MarkRunning, ResolveKubeconfig, RunStep, PersistStep,
         CreateRunningStep, JobEnds, PollFinds, PollGivesUp, FinalizeStep, CountArtifacts, CompleteRun,
         FailRun, CommitRaises, CommitThenRaises, Crash, Upload, AcceptUpload, RefuseUpload,
         StoreUpload, Handler, Goto, vars
    <3> QED BY <3>1 DEF ThroughIsEnded
  <2> QED BY <2>1, <2>2, <2>3
<1>2. Init => EventsInStep /\ ThroughIsEnded
  BY DEF Init, EventsInStep, ThroughIsEnded
<1>3. IInv /\ [Next]_vars =>
        [IF Runner \/ CommitRaises \/ CommitThenRaises THEN Left' < Left
                                                       ELSE Left' <= Left]_vars
  BY LeftFalls, LeftElsewhere DEF Next, Fault
<1> QED BY <1>1, <1>2, <1>3, EventsStep, LeftIsNat, InvariantHolds, PTL DEF Spec
=============================================================================
