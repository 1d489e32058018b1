-------------------------- MODULE ValidationRunner --------------------------
(***************************************************************************)
(* One validation run: the request handler that starts it                  *)
(* (services/validation_run_service.py), the background thread that        *)
(* executes it (validation/runner.py), the uploader sidecars of its ingest *)
(* steps and the handler that stores what they post                        *)
(* (services/validation_ingest_service.py).                                *)
(*                                                                         *)
(* Each action of the runner ends with one database commit or one wait, so *)
(* everything another thread can see, or a crash can separate, is a step   *)
(* of its own.  A commit may raise, before or after it took effect (at     *)
(* most MaxFaults times); the process that holds the runner thread may     *)
(* stop (MayCrash), and nothing resumes the thread.                        *)
(***************************************************************************)
EXTENDS Naturals, Sequences, FiniteSets, RunLifecycle

CONSTANTS
  Pipelines,   \* the pipeline definitions a run may be started with
  Reported,    \* the step statuses executors and result.json files report
  Push,        \* is the push model configured (ingest URL and runner image)?
  MaxFaults,   \* how many times the database may raise
  MayCrash     \* may the process stop?

StepDef == [enabled : BOOLEAN, ingest : BOOLEAN, policy : FailurePolicy]

ASSUME PipelinesAssumption == Pipelines \subseteq Seq(StepDef)
ASSUME ReportedAssumption == Reported \subseteq StepStatus
ASSUME SwitchAssumption == /\ Push \in BOOLEAN
                           /\ MayCrash \in BOOLEAN
                           /\ MaxFaults \in Nat

VARIABLES
  pipeline,  \* the snapshot of the definition, in topological order
  run,       \* the validation_runs row
  rows,      \* its validation_step_results, by sort_order
  records,   \* its validation_ingest_records, oldest first
  evidence,  \* the steps whose uploaded artifacts are stored
  events,    \* the run's events in the request's history
  pc,        \* where the thread that owns the run stands
  outcome,   \* the status the current step ended with
  rollup,    \* the thread's list of rolled-up steps
  counted,   \* the evidence the thread counted for the summary
  sidecar,   \* the uploader of each ingest step
  faults     \* how often it has

stored == <<run, rows, records, evidence, events>>
vars == <<pipeline, stored, pc, outcome, rollup, counted, sidecar, faults>>

NoResult == "no_result"   \* an ingest record without a result.json

Terminal == CompletedStatus \cup {"error"}

\* The ingest endpoint's _ACCEPTING_STATES.
Accepting == {"queued", "running"}

PC == {"accepted", "spawned", "resolve", "step", "persist", "exec", "merge",
       "finalize", "complete", "completeEvent", "failing", "failEvent",
       "excepting", "exceptEvent", "done", "dead"}

StepRow == [status : StepStatus, final : BOOLEAN]

IngestRecord == [step : Nat, result : Reported \cup {NoResult}, inTime : BOOLEAN]

TypeOK ==
  /\ pipeline \in Pipelines
  /\ run \in [status : RunStatus, impact : ApprovalImpact, counted : SUBSET Nat]
  /\ rows \in Seq(StepRow)
  /\ records \in Seq(IngestRecord)
  /\ evidence \in SUBSET Nat
  /\ events \in Seq({"started", "completed", "failed"})
  /\ pc \in PC
  /\ outcome \in StepStatus
  /\ rollup \in Seq(RollupInput)
  /\ counted \in SUBSET Nat
  /\ sidecar \in [DOMAIN pipeline -> {"none", "armed", "posting", "spent"}]
  /\ faults \in 0..MaxFaults

-----------------------------------------------------------------------------
\* start_run has saved the queued run with its snapshot of the definition.
Init ==
  /\ pipeline \in Pipelines
  /\ run = [status |-> "queued", impact |-> "none", counted |-> {}]
  /\ rows = <<>>
  /\ records = <<>>
  /\ evidence = {}
  /\ events = <<>>
  /\ pc = "accepted"
  /\ outcome = "queued"
  /\ rollup = <<>>
  /\ counted = {}
  /\ sidecar = [i \in DOMAIN pipeline |-> "none"]
  /\ faults = 0

cur == Len(rollup) + 1        \* the step the thread is at
Step == pipeline[cur]

Goto(from, to) == pc = from /\ pc' = to

\* The rest of start_run: record the event, then spawn the runner thread.
StartRun ==
  /\ Goto("accepted", "spawned")
  /\ events' = Append(events, "started")
  /\ UNCHANGED <<pipeline, run, rows, records, evidence, outcome, rollup, counted,
                 sidecar, faults>>

MarkRunning ==
  /\ Goto("spawned", "resolve")
  /\ run' = [run EXCEPT !.status = "running"]
  /\ UNCHANGED <<pipeline, rows, records, evidence, events, outcome, rollup, counted,
                 sidecar, faults>>

\* The environment's row has a kubeconfig that decrypts, or the run fails.
ResolveKubeconfig ==
  /\ pc = "resolve"
  /\ pc' \in {"step", "failing"}
  /\ UNCHANGED <<pipeline, stored, outcome, rollup, counted, sidecar, faults>>

\* What a step of no ingest type ends with: its executor's status, `error`
\* when the executor raises or outlives its timeout, `skipped` when the step
\* is disabled or its type has no executor.
EndsWith(step) ==
  IF step.enabled THEN (Reported \ {"queued", "running"}) \cup {"error", "skipped"}
  ELSE {"skipped"}

AtIngestStep == pc = "step" /\ cur <= Len(pipeline) /\ Step.enabled /\ Step.ingest

RunStep ==
  /\ cur <= Len(pipeline)
  /\ ~AtIngestStep
  /\ Goto("step", "persist")
  /\ outcome' \in EndsWith(Step)
  /\ UNCHANGED <<pipeline, stored, rollup, counted, sidecar, faults>>

RollUp == rollup' = Append(rollup, [status |-> outcome, policy |-> Step.policy])

PersistStep ==
  /\ Goto("persist", "step")
  /\ rows' = Append(rows, [status |-> outcome, final |-> TRUE])
  /\ RollUp
  /\ UNCHANGED <<pipeline, run, records, evidence, events, outcome, counted,
                 sidecar, faults>>

\* An enabled ingest step's row exists before its job does; the job carries an
\* uploader, and the thread waits for it, only when the push model is on.
CreateRunningStep ==
  /\ AtIngestStep
  /\ pc' = "exec"
  /\ rows' = Append(rows, [status |-> "running", final |-> FALSE])
  /\ sidecar' = IF Push THEN [sidecar EXCEPT ![cur] = "armed"] ELSE sidecar
  /\ UNCHANGED <<pipeline, run, records, evidence, events, outcome, rollup, counted, faults>>

\* Mistaken: a timeout is reported under a status of its own.
JobEndsUnmapped ==
  /\ Goto("exec", IF Push THEN "merge" ELSE "finalize")
  /\ outcome' \in Reported \cup {"timeout"}
  /\ UNCHANGED <<pipeline, stored, rollup, counted, sidecar, faults>>

\* The job ends, or the thread stops waiting for it at the step's timeout.
JobEnds ==
  /\ Goto("exec", IF Push THEN "merge" ELSE "finalize")
  /\ outcome' \in Reported \cup {"error"}
  /\ UNCHANGED <<pipeline, stored, rollup, counted, sidecar, faults>>

RecordsOf(i) == {k \in DOMAIN records : records[k].step = i}

LatestOf(i) == records[CHOOSE k \in RecordsOf(i) : \A j \in RecordsOf(i) : j <= k]

\* Mistaken: an upload is merged only into a step that passed.
PollFindsExecutorWins ==
  /\ Goto("merge", "finalize")
  /\ RecordsOf(cur) # {}
  /\ outcome' = IF LatestOf(cur).result = NoResult \/ outcome # "passed"
                THEN outcome ELSE LatestOf(cur).result
  /\ UNCHANGED <<pipeline, stored, rollup, counted, sidecar, faults>>

\* A poll of _await_ingest_record finds a record: its result.json, if it
\* brought one, replaces the outcome the executor reported.
PollFinds ==
  /\ Goto("merge", "finalize")
  /\ RecordsOf(cur) # {}
  /\ outcome' = IF LatestOf(cur).result = NoResult THEN outcome ELSE LatestOf(cur).result
  /\ UNCHANGED <<pipeline, stored, rollup, counted, sidecar, faults>>

\* The grace period is over and the last poll found nothing.
PollGivesUp ==
  /\ Goto("merge", "finalize")
  /\ RecordsOf(cur) = {}
  /\ UNCHANGED <<pipeline, stored, outcome, rollup, counted, sidecar, faults>>

\* Mistaken: the row keeps the status it was created with.
FinalizeStepKeepsStatus ==
  /\ Goto("finalize", "step")
  /\ rows' = [rows EXCEPT ![cur].final = TRUE]
  /\ RollUp
  /\ UNCHANGED <<pipeline, run, records, evidence, events, outcome, counted,
                 sidecar, faults>>

FinalizeStep ==
  /\ Goto("finalize", "step")
  /\ rows' = [rows EXCEPT ![cur] = [status |-> outcome, final |-> TRUE]]
  /\ RollUp
  /\ UNCHANGED <<pipeline, run, records, evidence, events, outcome, counted,
                 sidecar, faults>>

\* Mistaken: only what the thread itself has in memory is counted.
CountArtifactsInMemory ==
  /\ cur > Len(pipeline)
  /\ Goto("step", "complete")
  /\ counted' = {}
  /\ UNCHANGED <<pipeline, stored, outcome, rollup, sidecar, faults>>

\* Every step is rolled up: count the evidence stored so far.
CountArtifacts ==
  /\ cur > Len(pipeline)
  /\ Goto("step", "complete")
  /\ counted' = evidence
  /\ UNCHANGED <<pipeline, stored, outcome, rollup, sidecar, faults>>

CompleteRun ==
  /\ Goto("complete", "completeEvent")
  /\ run' = [status |-> AggregateRun(rollup).status,
             impact |-> AggregateRun(rollup).impact,
             counted |-> counted]
  /\ UNCHANGED <<pipeline, rows, records, evidence, events, outcome, rollup, counted,
                 sidecar, faults>>

RecordCompleted ==
  /\ Goto("completeEvent", "done")
  /\ events' = Append(events, "completed")
  /\ UNCHANGED <<pipeline, run, rows, records, evidence, outcome, rollup, counted,
                 sidecar, faults>>

\* Mistaken: the run keeps the status it had.
FailRunKeepsStatus ==
  /\ Goto("failing", "failEvent") \/ Goto("excepting", "exceptEvent")
  /\ UNCHANGED <<pipeline, stored, outcome, rollup, counted, sidecar, faults>>

\* _fail_run, called by the body (no kubeconfig) or by the last-resort guard.
FailRun ==
  /\ Goto("failing", "failEvent") \/ Goto("excepting", "exceptEvent")
  /\ run' = [run EXCEPT !.status = "error"]
  /\ UNCHANGED <<pipeline, rows, records, evidence, events, outcome, rollup, counted,
                 sidecar, faults>>

RecordFailed ==
  /\ Goto("failEvent", "done") \/ Goto("exceptEvent", "done")
  /\ events' = Append(events, "failed")
  /\ UNCHANGED <<pipeline, run, rows, records, evidence, outcome, rollup, counted,
                 sidecar, faults>>

Runner ==
  \/ StartRun \/ MarkRunning \/ ResolveKubeconfig
  \/ RunStep \/ PersistStep
  \/ CreateRunningStep \/ JobEnds \/ PollFinds \/ PollGivesUp \/ FinalizeStep
  \/ CountArtifacts \/ CompleteRun \/ RecordCompleted
  \/ FailRun \/ RecordFailed

-----------------------------------------------------------------------------
\* The uploader of step i posts once, when its job's main container has ended,
\* which may be long after the thread gave up on the step.  The handler reads
\* the run's status here ...
AcceptUpload(i) ==
  /\ sidecar[i] = "armed"
  /\ run.status \in Accepting
  /\ sidecar' = [sidecar EXCEPT ![i] = "posting"]
  /\ UNCHANGED <<pipeline, stored, pc, outcome, rollup, counted, faults>>

\* ... (409 otherwise, and the uploader does not try again) ...
RefuseUpload(i) ==
  /\ sidecar[i] = "armed"
  /\ run.status \notin Accepting
  /\ sidecar' = [sidecar EXCEPT ![i] = "spent"]
  /\ UNCHANGED <<pipeline, stored, pc, outcome, rollup, counted, faults>>

\* Mistaken: an upload also updates the run's count.
StoreUploadCounts(i, result) ==
  /\ sidecar[i] = "posting"
  /\ sidecar' = [sidecar EXCEPT ![i] = "spent"]
  /\ records' = Append(records, [step |-> i, result |-> result,
                                 inTime |-> i = cur /\ pc \in {"exec", "merge"}])
  /\ evidence' = evidence \cup {i}
  /\ run' = [run EXCEPT !.counted = @ \cup {i}]
  /\ UNCHANGED <<pipeline, rows, events, pc, outcome, rollup, counted, faults>>

\* ... and commits the artifacts and the record here.  `inTime` remembers
\* whether the thread was still waiting for this step.
StoreUpload(i, result) ==
  /\ sidecar[i] = "posting"
  /\ sidecar' = [sidecar EXCEPT ![i] = "spent"]
  /\ records' = Append(records, [step |-> i, result |-> result,
                                 inTime |-> i = cur /\ pc \in {"exec", "merge"}])
  /\ evidence' = evidence \cup {i}
  /\ UNCHANGED <<pipeline, run, rows, events, pc, outcome, rollup, counted, faults>>

Upload ==
  \E i \in DOMAIN pipeline :
    \/ AcceptUpload(i)
    \/ RefuseUpload(i)
    \/ \E result \in Reported \cup {NoResult} : StoreUpload(i, result)

-----------------------------------------------------------------------------
\* Mistaken: no guard around the thread's body, which ends.
HandlerUnguarded(at) == IF at = "accepted" THEN "dead" ELSE "done"

\* Where the thread continues when the commit of a step raises: start_run
\* answers 500 and spawns nothing; a fault inside the guard ends the thread.
Handler(at) == IF at \in {"accepted", "excepting", "exceptEvent"} THEN "dead" ELSE "excepting"

\* Where a position of the thread meets the database.
Commits == {"accepted", "spawned", "step", "persist", "merge", "finalize", "complete",
            "completeEvent", "failing", "failEvent", "excepting", "exceptEvent"}

\* Without effect: a commit is rolled back, or a read of the row fails.
CommitRaises ==
  /\ faults < MaxFaults
  /\ pc \in Commits
  /\ pc' = Handler(pc)
  /\ faults' = faults + 1
  /\ UNCHANGED <<pipeline, stored, outcome, rollup, counted, sidecar>>

EventWritten ==
  \/ pc = "accepted" /\ events' = Append(events, "started")
  \/ pc = "completeEvent" /\ events' = Append(events, "completed")
  \/ pc \in {"failEvent", "exceptEvent"} /\ events' = Append(events, "failed")

RunWritten ==
  \/ pc = "spawned" /\ run' = [run EXCEPT !.status = "running"]
  \/ pc = "complete" /\ run' = [status |-> AggregateRun(rollup).status,
                                impact |-> AggregateRun(rollup).impact,
                                counted |-> counted]
  \/ pc \in {"failing", "excepting"} /\ run' = [run EXCEPT !.status = "error"]

RowWritten ==
  \/ AtIngestStep /\ rows' = Append(rows, [status |-> "running", final |-> FALSE])
  \/ pc = "persist" /\ rows' = Append(rows, [status |-> outcome, final |-> TRUE])
  \/ pc = "finalize" /\ rows' = [rows EXCEPT ![cur] = [status |-> outcome, final |-> TRUE]]

\* With effect: the repositories refresh the row after the commit, _persist_step
\* commits the row's artifacts after it, and an acknowledgement may be lost.  What
\* the thread would have kept in memory is gone; the handler goes on from the row.
CommitThenRaises ==
  /\ faults < MaxFaults
  /\ \/ EventWritten /\ UNCHANGED <<run, rows>>
     \/ RunWritten /\ UNCHANGED <<rows, events>>
     \/ RowWritten /\ UNCHANGED <<run, events>>
  /\ pc' = Handler(pc)
  /\ faults' = faults + 1
  /\ UNCHANGED <<pipeline, records, evidence, outcome, rollup, counted, sidecar>>

\* The process stops: the daemon thread and the uploads in progress are gone.
\* The jobs run in another cluster and keep their uploaders.
Crash ==
  /\ MayCrash
  /\ pc \notin {"done", "dead"}
  /\ pc' = "dead"
  /\ sidecar' = [i \in DOMAIN sidecar |->
                   IF sidecar[i] = "posting" THEN "spent" ELSE sidecar[i]]
  /\ UNCHANGED <<pipeline, stored, outcome, rollup, counted, faults>>

Fault == CommitRaises \/ CommitThenRaises \/ Crash

Next == Runner \/ Upload \/ Fault

Spec == Init /\ [][Next]_vars

\* The thread is scheduled and each of its waits has a deadline (the step's
\* timeout, the grace period).  Nothing is assumed of uploaders or faults.
FairSpec == Spec /\ WF_vars(Runner)

-----------------------------------------------------------------------------
(* Properties *)

\* The persisted results, as aggregate_run would be given them.
RowRollup == [i \in DOMAIN rows |-> [status |-> rows[i].status,
                                    policy |-> pipeline[i].policy]]

\* A run that shows a verdict has a final result row for every step of its
\* snapshot, and its status and approval impact are the aggregate of exactly
\* those rows: nothing an uploader, a timeout or a fault does between the
\* rollup in memory and the rows in the database separates the two
\* (runner.py execute_run; the approval gate trusts the run's columns).
VerdictMatchesRows ==
  run.status \in CompletedStatus =>
    /\ Len(rows) = Len(pipeline)
    /\ \A i \in DOMAIN rows : rows[i].final
    /\ [status |-> run.status, impact |-> run.impact] = AggregateRun(RowRollup)

\* A result.json that was stored while the thread still waited for its step
\* is what the step's row says in the end, also against a timeout or an exit
\* code (runner.py _merge_ingest_outcome, "a sidecar-uploaded result.json wins").
UploadedResultWins ==
  \A k \in DOMAIN records :
    LET i == records[k].step IN
    (records[k].inTime /\ records[k].result # NoResult
       /\ i \in DOMAIN rows /\ rows[i].final)
    => rows[i].status = records[k].result

\* The last word of the request's history is the run's row.  A failed event is
\* only ever about an error run; a completed event is about a run that has its
\* verdict or had it taken back, comes right after the start and at most once, so
\* never after a failed one; and a thread that is through leaves, as the last event,
\* the one of the status the row has.  A commit that takes effect and then
\* raises may leave "completed" and "failed" both, or "failed" twice, but not a
\* history that ends otherwise than the run (runner.py _complete_run, _fail_run and
\* the guard of execute_run; history.py commits, then refreshes).
HistoryMatchesRun ==
  LET said(event) == \E k \in DOMAIN events : events[k] = event IN
  /\ said("failed") => run.status = "error"
  /\ said("completed") => run.status \in Terminal
  /\ \A k \in DOMAIN events : events[k] = "completed" => k = 2
  /\ events # <<>> => events[1] = "started"
  /\ pc = "done" =>
       events[Len(events)] = IF run.status \in CompletedStatus THEN "completed" ELSE "failed"

\* What the gate sees of the run is what RunLifecycle promises, on which the
\* requests rely; and a verdict is withdrawn only by the guard of execute_run, for
\* `error`: no upload, late or early, and nothing else the thread does changes a
\* run that has one.
VerdictStands ==
  /\ Shows(run) = Open
  /\ [][MayBecome(Shows(run), Shows(run'))]_(Shows(run))
  /\ [][run.status \in CompletedStatus /\ run' # run =>
         pc = "excepting" /\ run'.status = "error"]_run

\* The summary's artifact count includes the evidence of every step that was
\* uploaded while the thread waited for it (runner.py: "Count artifacts from
\* the DB so sidecar-uploaded evidence is included"), and none that is not stored.
SummaryCountsEvidence ==
  run.status \in CompletedStatus =>
    /\ run.counted \subseteq evidence
    /\ \A k \in DOMAIN records : records[k].inTime => records[k].step \in run.counted

\* A run that is running reaches a terminal status whatever commits raise: the
\* guard of execute_run turns a fault into an `error` run.  Only a stop of the
\* process, or a fault in the guard itself, leaves it behind.
RunningRunFinishes == (run.status = "running") ~> (run.status \in Terminal \/ pc = "dead")
=============================================================================
