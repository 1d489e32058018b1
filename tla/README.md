# A TLA+ verification of Foyre

Foyre takes intake requests for AI workloads through a review: a requester
drafts and submits, gets a disposable validation cluster, reviewers run
validation pipelines against it and decide. This directory models the parts of
`src/backend/app` that carry that workflow, checks them with TLC and proves the
central facts with TLAPS.

## The system

| Component | State | Operations | Interacts by |
|---|---|---|---|
| Intake requests (`services/request_service.py`, `api/requests.py`) | one row per request: status, payload, risk; an append-only history | create, edit, submit, change status | reads the approval gate; every mutation is a commit of the row followed by a commit of its event |
| Workflow table (`services/workflow_service.py`) | none | which role may move which status where | called by submit and change_status |
| Approval gate and policy (`validation_approval_service.py`, `validation_policy_service.py`) | one policy row | evaluate, update | reads the newest run of the request |
| Validation environments (`provisioning/`, `api/validation_environments.py`) | a row per environment, a virtual cluster in the host cluster | create, tear down, and a background thread that provisions | handlers and thread share the row; neither locks it |
| Validation runs (`validation/runner.py`, `validation_run_service.py`) | a run row with a snapshot of its pipeline, a result row per step, artifacts | start; a background thread runs steps one after the other | executors make Kubernetes jobs; sidecars post to the ingest endpoint |
| Ingest (`validation_ingest_service.py`, `deploy/runner/uploader.py`) | ingest records and artifacts | accept or refuse an upload | checks the run's status; the runner polls its records |
| Aggregation (`validation/types.py`) | none | worst of the step results | called by the runner; read by the gate |
| Pipelines (`validation_pipeline_service.py`, `seed.py`) | pipeline rows, one marked default, a version each | create, update, delete, set default, seed, resolve for a run | start_run snapshots the definition |
| Executors (`validation/executors/`), results | jobs and configmaps in the validation cluster | run a job, parse its result, clean up | return an outcome to the runner |
| Host clusters, users, form schema, comments | rows | administration | the above read them |
| Frontend | none that lasts | polls, offers buttons | the API |

What makes it hard: FastAPI runs the synchronous handlers in a thread pool,
each with a session of its own; there is no row version, no lock and no
transaction around a check and the commit that acts on it. `save` and
`record_event` commit separately. Runner and provisioner are daemon threads
that nothing resumes after a restart. Uploads arrive from another cluster, late
or never.

## Modules

| Module | Models | Extends / uses |
|---|---|---|
| `Aggregation` | `aggregate_run`, as the worst its steps give and as the source's loop | |
| `RunLifecycle` | abstract: what the runner promises of a run's row to whoever reads it | `Aggregation` |
| `ValidationRunner` | one run: `start_run`, the runner thread, the uploaders, the ingest handler, commit faults, a stop of the process | `Aggregation`, keeps `RunLifecycle` |
| `Workflow` | roles, statuses, `ALLOWED_TRANSITIONS` | |
| `RequestLifecycle` | abstract: what the intake service promises of a request | `Workflow` |
| `IntakeRequests` | one request, any number of overlapping calls, the gate, policy, runs | `Workflow`, relies on `RunLifecycle`, refines `RequestLifecycle` |
| `Approvals` | `IntakeRequests` with a history variable: what was true while a call was in progress | `IntakeRequests` |
| `EnvironmentLifecycle` | abstract: the statuses of a request's environments | |
| `Environments` | create and teardown handlers, provisioning threads, clusters | refines `EnvironmentLifecycle` |
| `PipelineCatalog` | the pipelines admins keep, the seed job, the default flag and its clearing, versions, the snapshot of a run | |
| `PipelineDefinition` | a definition from document to execution order: header and step checks, Kahn's cycle check, `topo_order` | `Aggregation` (the failure policies) |
| `KubernetesJob` | the job executor of every step of every run, one cluster call at a time, with the cluster it calls and the runner that may stop waiting | `Results` |
| `Results` | what a container's signals mean (`resolve_outcome`), and the scan for the last JSON object of a log | |
| `Checks` | the inventory of the validation cluster and the three built-in executors that judge it, while workloads come and go | `Aggregation` |
| `Uploads` | the ingest caps per file and per run, under overlapping uploads | |
| `Forms` | the form an admin saves, loads and saves again; the risk rules | |
| `Users` | accounts, and updates whose check and commit other updates may separate | |
| `Settings` | a setting kept in the first row of a table: read, upsert, reset | |
| `HostClusters` | host clusters: create, update, test, delete, the default flag and its clearing | |
| `MC...` | small values of the constants for TLC | |
| `..._proofs` | theorems and their proofs | |

**State and actions.** A variable is a table (its rows, reduced to the columns
a property or a guard tells apart), a thread's position or a call in progress.
An action ends with one commit, or with one wait, of the code: whatever another
thread can see, or a crash can separate, is a step of its own, and whatever the
code does between two commits is in one action. A handler reads at its start
and commits later from what it read; SQLAlchemy sends the changed columns
without a version check, so a later commit overwrites. (An assignment of the
value already read sends no UPDATE. `PipelineCatalog` models that, since two
calls write different columns of one row; the other models write the value all
the same, which adds behaviours and removes none.) Where the code reads a row
again, because a commit of the same session has expired it, so does the model:
`from_status` after an override event is an example.

`ValidationRunner`: `pc` is where the thread stands in `execute_run`; `rollup`
is its list in memory and `rows` the database, which is why `VerdictMatchesRows`
says something: a fault can separate the two. `sidecar` is an uploader's life
(armed, posting, spent); `records[k].inTime` remembers whether the thread was
still waiting when record k was stored. `counted` is the evidence that existed
when the thread counted it. Artifacts are reduced to the step that brought
them, a step's outcome to its status, findings and summaries are left out. A
commit may raise without effect (`CommitRaises`) or after it took effect
(`CommitThenRaises`: the repositories refresh a row after its commit, and
`_persist_step` commits twice); either way the guard goes on from the row, not
from what the thread had in memory.

`IntakeRequests`: a call is a record that carries what it read (`seen`, `risk`)
through its steps gate, latest, override, commit, event, risk. The gate is two
queries, the policy's and the newest run's, and the commit of the approval a third
step, so an approval may have a policy and a run that were never in force
together: that no approval passes while the gate is closed at every instant is false of the
code. `Approvals` therefore watches, for each call, the policies in effect since it
began and whether every one of them has blocked all along; `ApprovalIsAccountedFor`
says that such an approval has its override on record. Payloads are reduced to
valid and invalid ones with a risk each. `runs` is what the gate can see of
`ValidationRunner`: `RunLifecycle` says what a row shows and what it may become.
`IntakeRequests` lets a run do just that, and `ValidationRunner` is shown to do no
more (`VerdictStands`), so the two can be checked apart from each other.

`PipelineCatalog`: a call keeps the row as it read it (`read`) and as it leaves it
(`want`), and `Written` sends the columns that differ, as the ORM does. That is
why an update and a set_default of one row do not undo each other. `others` is
the list `clear_other_defaults` holds between its read and its commit.

`Environments`: creating has three commits (insert, name, event) and the start of
the worker between the last two. Each commit expires the host's row, which is read
again, at `name` for its hours and at `spawn` for its id: if an admin has deleted
the host meanwhile the read raises (`LoseHost`), and the row stays provisioning. A teardown
deletes the cluster, marks, and records; the worker reads once and writes its
result at the end. `cluster` is what exists in the host cluster.

`PipelineDefinition`: `phase` is where the definition stands, from `header` over
the parser's checks and Kahn's loop to `pass`, one round of `topo_order`'s outer
loop. `Resolve` takes any ready step, because `pop` on a set of strings takes
the one the process's hash seed happens to put first. `VisitStep` is one iteration of the inner loop.

`KubernetesJob`: a thread is a step of a run, and its position is the cluster
call it makes next; every call may fail and is an action of its own. The
runner's side is small: it starts the next step when the last one is recorded or
timed out (`StepTimesOut`), while the thread goes on. Each object carries its
owner, which the code does not have: it is what the properties compare.

`Checks`: a step's configuration is the toggles that are on, its scanner and its
checks. `Deploy` and `Remove` are the environment's user, between any two steps of
the run. A pipeline is a sequence of kinds of steps with the steps each depends on, so
that `Upstream` chooses the inventory as `upstream_of_type` does: the first one
declared, or the first of all. `judged` and `unscanned` keep for each step what it
has looked at. `Uploads`, `Users`, `Settings` and `HostClusters` have the shape of
the other handlers: read and check, then commit, with other calls in between. In
`Settings`, `settings` is the table: a function from the ids of its rows to their columns.

`Results`: a printed text is a sequence of tokens, so that a position stands for a
brace, a word or a JSON string; parsing is the set of positions that match.

## Runs

Passing runs:

| Run | Properties | What it shows |
|---|---|---|
| `aggregation` | `LoopIsWorstOf`, `AcceptedIffAcyclic`, `DependenciesFirst`, `AcceptedIsRunnable`, `JudgedTogether`, `PassHidesNothing`, `LastObjectFound`, `SavedFormKeepsCore`, `MoreFlagsNeverLowerRisk`, `LimitsUnlessOverlapped` | One topic at a time: every definition of up to three steps through the parser, Kahn and topo_order; the built-in checks of a changing cluster; every text of up to seven tokens; overlapping uploads and their limits; every sequence of up to three step results; forms of up to four fields; and all answers to the risk questions. |
| `runner` | `TypeOK`, `VerdictMatchesRows`, `UploadedResultWins`, `HistoryMatchesRun`, `SummaryCountsEvidence`, `VerdictStands`, `RunningRunFinishes` | A runner thread, its uploaders, commits that raise before or after they took effect, and a crash, over pipelines of up to three steps whose uploads claim any status, `running` and `queued` included: the verdict is the aggregate of the stored rows, uploads in time win, are counted, the row does what the gate may expect of it and only the guard withdraws a verdict, the last word of the history is the status of the row, and a running run ends unless its process does. |
| `requests_serial` | `TypeOK`, `HistoryExplainsStatus`, `ImplementsLifecycle`, `ApprovalRespectsGate` | One call at a time, with runs and policy changes between calls and a stop of the process anywhere but between a commit and its event: the multi-commit handlers implement the abstract request lifecycle, the history is a chain of transitions that ends in the row's status, and no approval passes a closed gate without a recorded override. |
| `requests_concurrent` | `AcknowledgedIsRecorded`, `ApprovalIsAccountedFor` | Two calls interleaved at every read and commit, while runs end, policies change between the two queries of the gate and the commit, and the process stops anywhere: what a caller was told is done is in the history, and an approval that no policy of its time could have let pass has its override there. |
| `env_lifecycle` | `ImplementsLifecycle` | Creates wait for each other and teardowns for the worker: handlers, workers, crashes and a host that may go implement the environment lifecycle. |
| `env_concurrent` | `TypeOK`, `HistoryAccountsForRows`, `ReadyIsLive`, `ProvisioningEnds` | Concurrent creates, and a teardown at any time: when all is quiet each row was requested and its status is one the history has an event for, a ready row without its cluster is one that was torn down, and no environment stays provisioning. |
| `catalogue` | `TypeOK`, `AtMostOneDefault`, `VersionIdentifiesDefinition`, `EditsAreNotUndone` | Two admins and the seed job interleaved at every read and commit, deletions and a stop of the process anywhere: two settled defaults never stand at rest, and if updates wait for each other a version names one definition and no edit is undone. |
| `jobs` | `StepsDoNotMix`, `PassedIsEarned`, `NothingLeftBehind`, `JobsGoAway` | Two runs of one environment, the first with two steps; two steps started, one call failing anywhere, timeouts at any time and a stop of the process: steps keep their objects apart, a pass is earned, a thread leaves nothing behind, and no job stays for ever. |
| `administration` | `AnAdminRemains`, `EffectiveAsSaved`, `HostsSettle` | One topic at a time, two calls under way: three accounts whose admins change each other, a setting kept in one row, and two host clusters with their connection tests. |

Runs that end in a counterexample: each checks one sentence of the
repository's docs, comments or code against what the code does, and the
`findings` of PROJECT.json quote the sentence.

| Run | Properties | What it shows |
|---|---|---|
| `requests_bypass` | `SubmittedHasRisk` | A draft is submitted through the status endpoint and has no risk. |
| `env_resurrected` | `TornDownIsFinal` | A teardown during provisioning is undone by the worker. |
| `exit_codes` | `DocumentedExitCodes` | A container step that prints no JSON and exits with 1 or 2 becomes an error. |

**Bounds.** Pipelines of up to three steps with an ingest step before, after
and between others, each failure policy, two commit faults: enough for a late
upload to meet a later step, and for a fault in the guard's own commit.
Requests: a requester, a reviewer and an admin, two valid payloads of different
risk and an invalid one, three policies; the concurrent run has the first two of them
with one payload and two policies that differ in what a bad run means, a run that may
start and end at any time, and two calls in progress (which the run takes as
symmetric), since each race here is between one check and one commit. Environments: two callers of each
kind, two or three environments, so that one can be torn down, a second made
and the worker of the first still be at work. `MaxCalls`, `MaxRuns`, `MaxEnvs`
and `MaxFaults` bound what would otherwise not end, and the runs set
CHECK_DEADLOCK FALSE because the bounded system stops there, and a finished run
is finished. Pipelines: two calls, two rows, two definitions and two
versions; the assumption `OneEditor`, that updates of pipelines wait for each
other, is the admins' and not the code's (two overlapping PUTs do reuse a
version), and the run is on PostgreSQL's terms (`Sqlite = FALSE`); a pair of
defaults needs two rows, and `Written` is exercised by an update that waits
while another call marks or clears the same row.
Definitions: `MaxSteps = 3` gives a cycle of three, a diamond's half and a
step that must wait for a second pass. Jobs: two runs of one environment, a
script step (two configmaps) before a container step, `MaxStarted = 2` steps
that are ever started, `MaxFaults = 1` call that fails; names are sequences of
parts and `NameLimit = 7` is long enough to keep them apart, as names under the
API server's 63 characters are. Texts: `MaxTokens = 7` is an object within an
object with noise before and after. Uploads: limits of two bytes a file, four
bytes and three files a run, so that two posts together pass what each respects.
Forms: `MaxFields = 4` fields of two built-in and three custom names, one of
them reserved. Checks: `SomePods` are pods that break one rule each, taken away or added
between two steps, and `SomeOrders` are pipelines with one inventory, with none and
with two of which the steps after them take different ones. Administration: three accounts of
which some are admins (`GivenRoles` are the roles an update may give), two
savers of one setting with `MaxRows = 3` inserts, two host clusters and
`MaxHostCalls = 2` calls under way; `MaxCalls = 2` calls for the others. The
modules that have no step in common are run one topic at a time: `MCAggregation`
and `MCAdministration` choose the topic in the initial state and leave the
variables of the others alone.

**Fairness.** Only threads that are scheduled and whose waits have deadlines
are fair: the runner (a step's timeout, the ingest grace period), a
provisioning worker (each wait of `vcluster.py` has a deadline), a handler
that has begun, a job's executor thread (its wait has the step's timeout) and the
cluster's own housekeeping of jobs: the two limits in time that each job's
manifest carries, `activeDeadlineSeconds` and `ttlSecondsAfterFinished`. Nobody has to upload, call, decide, crash or fail.

## Differences met while modelling

Besides the counterexample runs, reading the code for the models showed these.
Where a run shows it after one change of a constant, that is named.

- A gate race: the gate is read, then a run or a policy changes, then the
  approval commits. `requests_serial` with `Serial = FALSE` and two slots
  violates `ApprovalRespectsGate`, and likewise `ImplementsLifecycle` when two
  decisions overlap.
- A stop between a status commit and its event loses the event:
  `requests_serial` with `StopsAt <- Steps` violates `HistoryExplainsStatus`, which
  a stop anywhere else leaves true
  (README.md of the repository, line 208, promises an audit history).
- The gate looks at the newest run only (`validation_approval_service.py:49`),
  so starting another run hides one that blocks
  (`docs/concepts/validation-pipelines.md:54`).
- `api/requests.py:88` lets an admin unmark a status that the table of
  `workflow_service.py:38` refuses.
- A teardown whose host is gone returns before its history event
  (`provisioning/service.py:153`).
- Runner and provisioner are daemon threads: a restart leaves runs queued or
  running, and environments provisioning, for good.
- An upload that passed the status check before the verdict is stored after it
  and is in no summary (`validation_ingest_service.py:35`, `runner.py:371`);
  `VerdictStands` says that it changes nothing else.
- `result.json` may carry the status `running` (`results.py:126`), which then is
  the final row of its step.
- `aggregate_run` never asks whether a step is required (`enums.py:111`).
- `create_pipeline` can make a disabled pipeline the default, which
  `set_default` refuses.
- Two overlapping `set_default` calls may leave no default; a stop, a delete or
  the seed job in between may leave two; `catalogue` with `OneEditor = FALSE`
  violates `VersionIdentifiesDefinition` (and from `MaxVersion = 3` on
  `EditsAreNotUndone`), and so it does with `Sqlite = TRUE`, because a new pipeline gets a deleted one's id
  and starts at version 1 again. `repositories/host_clusters.py` clears its
  defaults the same way.
- The last-resort guard (`runner.py:375`) writes `error` over a verdict that was
  committed if the commit of its event raises; `VerdictStands` allows just that,
  where `enums.py:115` calls the status of a run terminal.
- An edit of a draft may overlap its submit and change a submitted request
  (`request_service.py:64`, "only drafts can be edited").
- Two overlapping creates make two active environments
  (`api/validation_environments.py:73`); the comment there promises not to stack them.
- Step names of 62 characters and more make configmap names that collide or end
  in a hyphen, so the step always ends in an error, although
  `validation_pipeline_service.py:6` calls a saved pipeline always runnable. Steps
  `a` and `a-` share one job name. `NamesApart` is the premise this costs.
- Logs that cannot be read count as empty (`kubernetes_job.py:288`): a container that
  printed `failed` and exited with 0 then passes. `PassedIsEarned` excepts these threads.
- A stray brace in the noise after a result, or in one of its strings, can hide the result
  (`results.py:97`; the docstring at line 61 promises the last object).
- `topo_order` is not stable as its docstring says (`runner.py:70`): of `a` (which needs
  `c`), `b`, `c`, `d` it makes `b`, `c`, `d`, `a`.
- A warning for high vulnerabilities comes before the error of a scan that failed
  (`image_scan.py:118`), so adding a vulnerable image can turn an error into a warning.
- A list call that the cluster refuses counts as an empty list (`inventory.py:169`) and
  what it would have shown passes unseen; a misspelt policy check is skipped.
- `validation_pipeline_service.py:6` ("a saved pipeline is always runnable") holds for the
  keys the parser checks and no further: whether the site allows inline scripts and has a
  runner image (`script.py:33`), the name of a scanner (`image_scan.py:69`) and the shape of
  the other options (`policy.py:297`) are found out when the step runs. `AcceptedIsRunnable` states
  both halves.
- With `failOnCritical` or `warnOnHigh` off a scan passes with critical or high
  vulnerabilities, as a test has it (`tests/test_validation_scanners.py:145`); without
  `denyPrivilegedContainers` a privileged container is a warning. `PassHidesNothing` is about what a
  step is configured to tell.
- A commit that raises after it took effect (`history.py:22` refreshes) can leave the
  events `completed` and `failed` for one run, or `failed` twice; the last one is
  the row's status (`HistoryMatchesRun`).
- A host that is deleted while a create call runs ends the call between the
  row and its worker (`provisioning/service.py:74`, `:80`): the row stays provisioning until it is torn
  down, with no event.
- Two first saves of a setting leave two rows; a reset deletes the first, and the
  second comes into force (`validation_policy_service.py:56`). Overlapping
  admin updates can leave no admin (`api/admin_users.py:67`).
- A host cluster's context can change without a new test, and a test
  that overlaps an update stores the result of the other kubeconfig
  (`api/host_clusters.py:201`).
- `risk_service.py` rates regulated data without external API `low` and confidential data
  `medium`.
- Overlapping uploads pass the caps together, and what executors store themselves is
  not counted against them (`validation_ingest_service.py:74`).

## Proofs

Proved by TLAPS, for every value of the constants that satisfies the modules'
assumptions:

- `RunnerTypeCorrect` (`ValidationRunner_proofs`): For every set of pipelines and every number of faults, all variables stay in their types.
- `RunnerVerdictMatchesRows` (`ValidationRunner_proofs`): For every pipeline, whatever uploads, faults and crashes occur, a verdict is the aggregate of final rows, one for each step.
- `RunnerUploadedResultWins` (`ValidationRunner_proofs`): A result uploaded while its step was awaited is what the step's row says in the end, for every pipeline and every order of uploads.
- `RequestsTypeCorrect` (`IntakeRequests_proofs`): For every set of users, payloads and calls, all variables stay in their types, concurrent calls and crashes included.
- `SerialImplementsLifecycle` (`IntakeRequests_proofs`): If each call has the database for itself, the multi-commit handlers implement the abstract lifecycle of a request.
- `SerialApprovalRespectsGate` (`IntakeRequests_proofs`): If each call has the database for itself, no approval passes a closed gate without a recorded override.
- `EnvironmentsTypeCorrect` (`Environments_proofs`): For every number of callers and environments, all variables stay in their types.
- `EnvironmentsImplementLifecycle` (`Environments_proofs`): If create calls wait for each other and teardowns for the worker, the code implements the environment lifecycle, with crashes and hosts that go.
- `CatalogueTypeCorrect` (`PipelineCatalog_proofs`): For any number of admins and pipelines, all variables stay in their types, and a call that clears the other defaults has made its own pipeline one.
- `CatalogueAtMostOneDefault` (`PipelineCatalog_proofs`): For any number of overlapping calls, with deletions, seed jobs and crashes, two settled defaults never stand at rest.
- `RunnerHistoryMatchesRun` (`ValidationRunner_proofs`): For every pipeline, with crashes and with commits that raise before or after they took effect: no failed event is about a run that did not fail, a completed one comes once and first, and a thread that is through has left as its last event the one of the row's status.
- `RunnerSummaryCountsEvidence` (`ValidationRunner_proofs`): For every pipeline and every order of uploads, a verdict counts all that came in time and nothing that is not stored.
- `RunnerVerdictStands` (`ValidationRunner_proofs`): For every pipeline, upload, fault and crash, the run's row does what RunLifecycle promises to the approval gate, and a verdict gives way only to the error of the last guard.
- `AcceptsExactlyTheAcyclic` (`PipelineDefinition_proofs`): For every document of every length and every order of resolving, the cycle check accepts exactly the graphs without a knot.
- `OrdersDependenciesFirst` (`PipelineDefinition_proofs`): For every accepted definition, topo_order places each step once and after its dependencies, and never falls back.
- `AcceptsOnlyTheRunnable` (`PipelineDefinition_proofs`): For every set of documents and every setting of the site, an executor refuses a saved step exactly for what the parser leaves to the run: inline scripts or the runner image that the site lacks, a scanner of another name, options of a wrong shape.
- `AdminsLast` (`Administration_proofs`): For every set of users, roles and calls one after the other, an active admin remains.
- `NamesApartKeepStepsApart` (`KubernetesJob_proofs`): For every number of runs and steps whose object names differ, with failing calls, abandoned threads and a stop, no step reads what is not its own.
- `PassesAreEarned` (`KubernetesJob_proofs`): For every such plan, a step that reports passed has a pod that ended so.
- `ThreadsLeaveNothing` (`KubernetesJob_proofs`): For every such plan, a thread that is done and met no failing delete leaves none of its objects behind.
- `HostsSettled` (`Administration_proofs`): For every number of rows and overlapping calls, a row's last test was of its kubeconfig unless another call wrote it meanwhile, and at rest one row at most is the default, but for calls that failed on the way.
- `CallersAreToldTheTruth` (`IntakeRequests_proofs`): For every number of overlapping calls, crashes included, what a caller was told is done is in the history.
- `ApprovalsAreAccountedFor` (`IntakeRequests_proofs`): For every number of overlapping calls and any runs, policies and stops in between: an approval that no policy of the call's time could have let pass is an override that the history had before it.
- `HistoryChainsToStatus` (`IntakeRequests_proofs`): If each call has the database for itself and the process does not stop between a commit and its event, the recorded transitions chain from the draft to the row's status, for every order of calls.
- `ReadyEnvironmentsAreLive` (`Environments_proofs`): While the process does not stop, a ready environment has its cluster or a teardown that says otherwise, for every number of overlapping calls, hosts that go included.
- `HistoryIsComplete` (`Environments_proofs`): While the process does not stop and the host stays, a quiet moment finds every environment's request, status and one outcome in the history, for every number of overlapping calls.
- `VersionsOnlyGrow` (`PipelineCatalog_proofs`): If one update waits for the other, no step takes a version back, for every number of pipelines and overlapping other calls, on either database, crashes included.
- `VersionsTellDefinitions` (`PipelineCatalog_proofs`): If one update waits for the other and ids are not used again, the version a run recorded says which definition it ran, for every number of pipelines, runs and other calls.
- `OneRowAsSaved` (`Administration_proofs`): For every set of columns and values and any number of savers: unless the row changed between a call's read and its commit, there is one row at most and it is what the admins were told is saved.
- `LoopComputesWorst` (`Aggregation_proofs`): For every sequence of step results, the loop of aggregate_run computes the worst that its steps give.
- `LoopMeetsClosedForm` (`Aggregation_proofs`): So the verdict of a run never depends on the order in which its steps came.
- `StepsJudgeOneInventory` (`Aggregation_proofs`): For every cluster, pipeline and policy, the steps that are meant to judge one inventory judge that one, whatever is deployed or removed meanwhile.
- `PassesHideNothing` (`Aggregation_proofs`): For every cluster, pipeline and configuration, a built-in step that passed hides nothing of its inventory that its configuration leaves to be told: privileges in any case, the rest where its toggle is on, and no image that was not scanned.
- `CountedPostsStayWithin` (`Aggregation_proofs`): For all limits and any number of overlapping posts, a post that still knows what is stored keeps its run within its limits.
- `MoreFlagsNeverLower` (`Aggregation_proofs`): For all answers, one more risky answer never lowers the risk.
- `SavedFormsKeepCore` (`Aggregation_proofs`): For every sequence of sections that is accepted, with any fields of any number, saving, loading and saving again keeps each built-in field once and as defined.
- `EveryFormKeepsCore` (`Aggregation_proofs`): And so each form the run builds, field by field from the fields it takes, keeps the core.
- `LastObjectIsFound` (`Aggregation_proofs`): For every text, however long, whose braces match outside of strings and that has none in a string, the backward scan finds the last object that is in no other block, or nothing if there is none; and a text that is one object is found whole.
- `PrintedObjectIsFound` (`Aggregation_proofs`): And so at each moment of what a container prints.
- `RunnersGoForward` (`ValidationRunner_proofs`): For every pipeline: a thread that is through leaves an ended run, it has a bounded number of steps before it, each of its steps and each fault takes from them, and no upload adds to them.
- `JobsGoForward` (`KubernetesJob_proofs`): For every plan, whatever its names, failing calls and a stop: each job has its limits in time, no thread makes a second one, no step takes a job back to a stage it has left, and each limit that strikes takes it on.
- `ProvisioningIsOwed` (`Environments_proofs`): For any number of overlapping calls: what is provisioning has a call or a worker that will take it further, unless the process stopped, or the host was deleted under the call or before its worker looked.

*`ValidationRunner_proofs`.* `VerdictMatchesRows` is not inductive: it says
nothing before a verdict exists. The strengthening relates the rows to the
thread's rollup at every position: each row that is final agrees with the entry
of the rollup, at `persist` and `finalize` one row more or one open row at the
end, and the position says how many. The verdict is the closed form of
`AggregateRun`, which is what the source's loop computes
(`LoopComputesWorst` of `Aggregation_proofs`). `UploadedResultWins`
needs in addition that a record of a step that is being awaited keeps the
latest one's result, and that a record in time precedes its step's final row.

*`IntakeRequests_proofs`.* Under `Serial` at most one call is in progress, so
what a call read is still what the row says when it commits: the invariant
says this of each position, with the guard of the table. Each commit is then a
step of `RequestLifecycle`, everything else a stutter. The concurrent runs
show that `Serial` cannot be dropped.

What the history holds needs no `Serial`: the log only grows, and a call
answers only after its event (`Told`). For approvals the invariant `Watched` of `Approvals`
relates what a call has in hand to what was true since it began: a policy it has read is
one it was watched with, so a gate that opened for it means that one of the watched
policies does not block; and a call past an override has its entry in the
history, later than its beginning. `ApprovalIsAccountedFor` is then a matter of the one
step that commits.
That the history *explains* the row does, and needs a process that does not stop there:
between a commit and its event the log stands at the status the call has seen,
the row at its target (`InStep`); a crash there leaves them apart. The chain is
carried as a witness for every entry (`LeadsTo`), so no induction over the log
is needed.

*`Environments_proofs`.* Under `OneCreator` and `Patient`: a worker at work
owns a row that is provisioning, a create call past its check sees no active
row, a teardown holds a finished row. Each status commit is then a step of
`EnvironmentLifecycle`. The run `env_resurrected`, which has no `Patient`, and
`env_lifecycle` with `OneCreator = FALSE` show that neither assumption can be
dropped.

The other two theorems assume neither, only that the process does not stop. A
cluster that is gone under a ready row was deleted by a teardown, which remains
known until its event is written (`DeletionKnown`); a stop in between would
forget it. For the history, every event that is missing is owed by a call or a
worker at the right position (`Accounted`), each worker is started by one call
that finds it not started, and is done once its outcome is recorded. Without
its host cluster a teardown marks the row and returns with no event, hence the
premise that no host is removed.

*`PipelineCatalog_proofs`.* Two defaults do stand while calls are in progress,
so `AtMostOneDefault` is not inductive. The strengthening: of any two settled
defaults, one has a call that will still clear the other, because it has not
listed yet or has listed it. A default is unsettled if its call was cut short
between the commits (a stop, a deleted row among those to be cleared) or if the
seed job inserted it beside another: these are the states in which two defaults
really remain. Neither `OneEditor` nor a database is assumed.

The theorems on versions do assume `OneEditor`: two updates that read the same
row write the same next version, with two texts. With it, an update in progress
is never behind its row (`NotBehind`), so no version goes back on either
database. What a run recorded moreover needs ids that are not used again, as
PostgreSQL has them: then the row an update has in hand is still the one it
read (`InHand`), and a changed text takes a version no snapshot has.

*`PipelineDefinition_proofs`.* No induction over the graph is needed if a cycle
is stated as a *knot*, a set each of whose steps waits for another of it. The
worklist invariant says what `work` of a step is at any time, its dependencies
less those resolved, and that a step nothing waits for is resolved or ready: so
when nothing is ready, what is not resolved is a knot, and nothing of a knot is
ever resolved. `topo_order` needs, besides that its result is closed under
dependencies, what a pass that placed nothing has seen (`NothingMissed`): every
step visited and not placed still waits for one not placed, so at the end
of such a pass the rest would be a knot, and it is empty.

*`KubernetesJob_proofs`.* The argument is ownership. Everything in the cluster has
the thread that made it as its owner, and an invariant `Local(t)` of each thread
speaks only of `t`'s own position, memory and objects. A step of `t` keeps
`Local(t)`; it leaves all that belongs to another thread as it is (`Same(u)`),
which keeps `Local(u)` with no case distinction. Deleting and reading go by
names, so this is where `NamesApart` is used, and the only place. It is a premise
of the theorems, not an assumption of the module, since the code does not ensure it
(see the differences above); the runs evaluate it for their plan.

*`Administration_proofs`.* Accounts: updates that never overlap keep an admin because
each call's caller is an active admin before it and, as neither check lets a caller
demote or deactivate itself, after it: the caller is the witness. `crossed` remembers
an overlap; with one the property does not hold. Settings: while `raced` is false,
each call that is under way holds a reading that is still current
(`ReadingIsCurrent`), as the first commit beside another call makes `raced` true; so
an insert finds an empty table and an update the row it read, and at most one row
stands. Host clusters: the defaults are argued as in
`PipelineCatalog_proofs`; what a test found agrees with its row because a call that
commits while another has the row in hand marks it in `crossedRows`. One lemma about
`Commit` serves create, update and test.

*`Aggregation_proofs`.* Here the code is loops, and the theorems are about texts,
forms, rollups and posts of every length. The loops are recursive functions over
positions, and the library's induction is about a predicate, which no prover here
can be given. Lemmas about sets replace it: every set of numbers has a least one
(`LeastNumber`, from the library's well-foundedness), a set that has 0 and every
successor is all of `Nat` (`NatSetInduction`), two loops that begin and go on alike
agree (`LoopsAgree`), a loop of n iterations computes something (`LoopEnds`), and so
does a recursion that descends (`DescentExists`). What a property says is then a set
of positions. With them:

- the rollup: after each iteration the loop has the worst of what it has seen, status
  and impact together;
- the checks need no loop but an invariant (`ChecksInv`): each step's inventory is one
  that was taken, and its result the one that the executor gives for it;
- the uploads: the sum of what is stored grows by what a post adds (`Sum` is a fold);
- the risk rules never go down along the order of levels, whatever flags are set;
- a form: what the loop has canonicalized is the canonical form of what it has read,
  with names apart, and every built-in field among them;
- the result object: with `Height`, the braces opened and not yet closed before a
  position, the block that ends at a brace begins where the height was last the same,
  so the scan goes from one top-level block to the one before (`Reached`) and misses none.

*The runner's other theorems.* `HistoryMatchesRun` needs the last event that
belongs to each position, and that a completed one is the second, `SummaryCountsEvidence` that what came in time is
stored before the thread counts. `VerdictStands` needs that an error is written late (`ErrorIsLate`): then a row
that is marked running or completed showed no end before. `RunnersGoForward` counts
the steps left: four for each step of the pipeline, three for each fault that may still
come, and what the position in a step has before it.

*Owed environments.* `ProvisioningIsOwed` needs no premise: a row that is provisioning
has a call that will start its worker, which finds it not started (`StartedOnce`), or a
worker that has not written its outcome; a stop of the process and a host that was
deleted, under the call (`LoseHost`) or before its worker looked, are the ways out, and the theorem names them.

*The way of a job.* `JobsGoForward` needs neither `NamesApart` nor `IInv`. A job is still
to be made, active, ended or gone for good (`Stage`). Two facts about a step carry the
proof: it moves one thread at most, and none back to where it has no job yet
(`ThreadsMoveOn`); and it deletes jobs, adds the first one of a thread, or ends an active
one (`JobWriters`).

Only model-checked:

- liveness, since fairness and ENABLED are out of the prover's reach:
  `RunningRunFinishes`, `ProvisioningEnds`, `JobsGoAway`. What they rest on is proved
  (`RunnersGoForward`, `ProvisioningIsOwed`, `JobsGoForward`); that whoever owes a step
  can take it, and does, is TLC's part;
- that the premises are needed: what holds only under a constant of a run is proved
  under that premise. Without `Serial` and `Patient` it fails by the runs
  `requests_bypass` and `env_resurrected`; with `OneEditor = FALSE` in `catalogue`, or
  `OneCreator = FALSE` in `env_lifecycle`, TLC finds a counterexample too.

## Not modelled

- The frontend: it keeps nothing that outlives a page, and every call it makes is one
  the models let any client make.
- Comments: append only, and nothing reads one to decide.
- Passwords, tokens and their signatures, encryption of kubeconfigs: left to the
  libraries that do them; the models use that each call looks its user up anew.
- Helm charts, start-up and configuration checks: no state of their own.
- The YAML parser: a field is absent, a value or of the wrong shape.
- Custom answers at submit time: `IntakeRequests` has a set of valid payloads.
- Rendering, wording, logging, pagination and notification texts.
- Database faults outside the runner: a handler's commit succeeds or the process stops.
- In `KubernetesJob`, the uploader sidecar, which belongs to `ValidationRunner`;
  the two meet in a step's outcome, where `ValidationRunner` takes any status
  that `KubernetesJob` can record. Manifests are reduced to what they mount and
  to their limits in time; the cluster (scheduler, kubelet, job controller,
  garbage collector) is what `src/` relies on, and marked external.
- In `Checks`, what a scanner finds out about an image: a table of the severities of its
  vulnerabilities stands for it.
