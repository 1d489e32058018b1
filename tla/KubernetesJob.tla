--------------------------- MODULE KubernetesJob ---------------------------
(***************************************************************************)
(* The container steps of several runs of one environment (executors/      *)
(* kubernetes_job.py and script.py), the runners that wait for them with a *)
(* timeout (runner.py) and the cluster in which their jobs run.            *)
(*                                                                         *)
(* A runner hands a step to a thread.  When the timeout comes first it     *)
(* records an error and goes on to its next step, while the thread goes on *)
(* as well.  The objects that a thread makes in the cluster are found by   *)
(* their names alone.                                                      *)
(***************************************************************************)
EXTENDS Results

CONSTANTS
  Plan,        \* the container steps of each run, in the order they execute
  NameLimit,   \* names are cut to this many characters
  Ends,        \* how containers end: [code, word], the word printed as JSON
  MaxStarted,  \* how many steps are started
  MaxFaults,   \* how many calls of the cluster's API may fail
  MayCrash     \* may the process stop?

ASSUME JobAssumption ==
  /\ \A r \in DOMAIN Plan : \A i \in DOMAIN Plan[r] : Plan[r][i].script \in BOOLEAN
  /\ NameLimit \in Nat /\ MaxStarted \in Nat /\ MaxFaults \in Nat /\ MayCrash \in BOOLEAN
  /\ \A c \in Ends : c.code \in Nat

VARIABLES
  namespace,   \* does the namespace of the jobs exist?
  maps,        \* the configmaps
  jobs,        \* the jobs
  pods,        \* their pods
  thread,      \* how far each thread has come
  seen,        \* what it has read of its job
  outcome,     \* what it returned
  recorded,    \* what its runner wrote down for the step
  ran,         \* what the container of a step really did
  faults,      \* calls that failed so far
  blind, lost, \* threads that could not read, or not delete, what they wanted
  alive        \* is the process running?

cluster == <<namespace, maps, jobs, pods, ran>>
memory == <<thread, seen, outcome, recorded>>
mishaps == <<faults, blind, lost, alive>>
vars == <<namespace, maps, jobs, pods, ran, thread, seen, outcome, recorded,
          faults, blind, lost, alive>>

Runs == DOMAIN Plan

\* One thread for each step of each run.
Threads == UNION {{<<r, i>> : i \in DOMAIN Plan[r]} : r \in Runs}

Step(t) == Plan[t[1]][t[2]]

-----------------------------------------------------------------------------
(* Names.  A name is a sequence of characters. *)

Cut(name) == SubSeq(name, 1, IF Len(name) < NameLimit THEN Len(name) ELSE NameLimit)

\* name.strip("-"); the names here never start with a hyphen.
Stripped(name) ==
  LET last == CHOOSE i \in DOMAIN name :
                name[i] # "-" /\ \A j \in DOMAIN name : j > i => name[j] = "-"
  IN SubSeq(name, 1, last)

JobName == [t \in Threads |-> Cut(Stripped(<<"foyre-val", "-", t[1], "-">> \o Step(t).name))]
InputMap == [t \in Threads |-> Cut(JobName[t] \o <<"-", "input">>)]
ScriptMap == [t \in Threads |-> Cut(JobName[t] \o <<"-", "script">>)]

MapsOf == [t \in Threads |->
  {InputMap[t]} \cup (IF Step(t).script THEN {ScriptMap[t]} ELSE {})]

\* The API server refuses a name that ends with a hyphen.
Acceptable(name) == name[Len(name)] # "-"

\* No step's objects have the names of another's.
NamesApart ==
  \A t, u \in Threads :
    t # u => JobName[t] # JobName[u] /\ MapsOf[t] \cap MapsOf[u] = {}

-----------------------------------------------------------------------------
(* States. *)

\* What is known of a container that runs.
Started == [code |-> NoCode, word |-> NoResult]

Idle == [job |-> "unknown", word |-> NoResult, code |-> NoCode,
         reason |-> NoReason, from |-> {}]

Taken(name, objects) == \E o \in objects : o.name = name

Init ==
  /\ namespace = FALSE
  /\ maps = {} /\ jobs = {} /\ pods = {}
  /\ thread = [t \in Threads |-> "idle"]
  /\ seen = [t \in Threads |-> Idle]
  /\ outcome = [t \in Threads |-> "none"]
  /\ recorded = [t \in Threads |-> "none"]
  /\ ran = [t \in Threads |-> {}]
  /\ faults = 0 /\ blind = {} /\ lost = {} /\ alive = TRUE

At(t, step) == alive /\ thread[t] = step

Goto(t, step) == thread' = [thread EXCEPT ![t] = step]

\* An exception: the step is an error, and the `finally` cleans up.
Fail(t) ==
  /\ Goto(t, "delete_job")
  /\ outcome' = [outcome EXCEPT ![t] = "error"]
  /\ UNCHANGED seen

Proceed(t, step) == Goto(t, step) /\ UNCHANGED <<seen, outcome>>

-----------------------------------------------------------------------------
(* run_container_job, one call of the API at a time. *)

ReadNamespace(t) ==
  /\ At(t, "namespace")
  /\ Proceed(t, IF namespace THEN "input" ELSE "create_namespace")
  /\ UNCHANGED <<cluster, recorded, mishaps>>

\* Another thread may have made it since: the 409 fails the step.
CreateNamespace(t) ==
  /\ At(t, "create_namespace")
  /\ IF namespace THEN Fail(t) ELSE Proceed(t, "input")
  /\ namespace' = TRUE
  /\ UNCHANGED <<maps, jobs, pods, ran, recorded, mishaps>>

CreateMap(t, step, name, next) ==
  /\ At(t, step)
  /\ IF Acceptable(name) /\ ~Taken(name, maps)
     THEN /\ maps' = maps \cup {[name |-> name, owner |-> t]}
          /\ Proceed(t, next)
     ELSE Fail(t) /\ UNCHANGED maps
  /\ UNCHANGED <<namespace, jobs, pods, ran, recorded, mishaps>>

CreateInput(t) ==
  CreateMap(t, "input", InputMap[t], IF Step(t).script THEN "script" ELSE "job")

CreateScript(t) == CreateMap(t, "script", ScriptMap[t], "job")

\* Mistaken: the manifest without its limits in time.
BuildJobUnlimited(t) ==
  [name |-> JobName[t], owner |-> t, status |-> "active", mounts |-> MapsOf[t], limited |-> FALSE]

\* The manifest; `limited`: activeDeadlineSeconds and ttlSecondsAfterFinished.
BuildJob(t) ==
  [name |-> JobName[t], owner |-> t, status |-> "active", mounts |-> MapsOf[t], limited |-> TRUE]

CreateJob(t) ==
  /\ At(t, "job")
  /\ IF Acceptable(JobName[t]) /\ ~Taken(JobName[t], jobs)
     THEN jobs' = jobs \cup {BuildJob(t)} /\ Proceed(t, "wait")
     ELSE Fail(t) /\ UNCHANGED jobs
  /\ UNCHANGED <<namespace, maps, pods, ran, recorded, mishaps>>

Saw(t, job) == seen' = [seen EXCEPT ![t].job = job]

\* _wait_for_job reads the job of that name until it has ended.
SeeJobEnd(t) ==
  /\ At(t, "wait")
  /\ \E j \in jobs :
       /\ j.name = JobName[t] /\ j.status # "active"
       /\ Saw(t, j.status)
  /\ Goto(t, "logs")
  /\ UNCHANGED <<cluster, outcome, recorded, mishaps>>

\* Its own deadline comes after the runner's, which started to count earlier.
WaitTimesOut(t) ==
  /\ At(t, "wait") /\ recorded[t] # "none"
  /\ Saw(t, "timeout")
  /\ Goto(t, "logs")
  /\ UNCHANGED <<cluster, outcome, recorded, mishaps>>

\* Mistaken: the label selector is left out.
PodsOfAnyJob(t) == pods

PodsOf(t) == {p \in pods : p.name = JobName[t]}

\* The first pod of the job's label, in an order of the server's.
ReadLogs(t) ==
  /\ At(t, "logs")
  /\ \/ PodsOf(t) = {} /\ UNCHANGED seen
     \/ \E p \in PodsOf(t) :
          seen' = [seen EXCEPT ![t].word = p.word, ![t].from = @ \cup {p.owner}]
  /\ Goto(t, "state")
  /\ UNCHANGED <<cluster, outcome, recorded, mishaps>>

\* The kubelet's reason for a container that ended.
Reason(code) ==
  CASE code = 0 -> "Completed" [] code = 137 -> "OOMKilled" [] OTHER -> "Error"

\* The outcome is resolved from s, what the thread has read.
Resolve(t, s) ==
  /\ seen' = [seen EXCEPT ![t] = s]
  /\ outcome' = [outcome EXCEPT ![t] = ResolveOutcome(s.job, s.code, s.reason, s.word)]
  /\ Goto(t, "delete_job")

ReadState(t) ==
  /\ At(t, "state")
  /\ \/ PodsOf(t) = {} /\ Resolve(t, seen[t])
     \/ \E p \in PodsOf(t) :
          Resolve(t, [seen[t] EXCEPT !.code = p.code, !.from = @ \cup {p.owner},
                        !.reason = IF p.code = NoCode THEN NoReason ELSE Reason(p.code)])
  /\ UNCHANGED <<cluster, recorded, mishaps>>

-----------------------------------------------------------------------------
(* _cleanup. *)

\* The pods follow later (propagation policy Background).
DeleteJob(t) ==
  /\ At(t, "delete_job")
  /\ jobs' = {j \in jobs : j.name # JobName[t]}
  /\ Proceed(t, "delete_input")
  /\ UNCHANGED <<namespace, maps, pods, ran, recorded, mishaps>>

DeleteMap(t, step, name, next) ==
  /\ At(t, step)
  /\ maps' = {m \in maps : m.name # name}
  /\ Proceed(t, next)
  /\ UNCHANGED <<namespace, jobs, pods, ran, recorded, mishaps>>

\* Mistaken: only the input's configmap is deleted.
DeleteInputOnly(t) == DeleteMap(t, "delete_input", InputMap[t], "done")

DeleteInput(t) ==
  DeleteMap(t, "delete_input", InputMap[t], IF Step(t).script THEN "delete_script" ELSE "done")

DeleteScript(t) == DeleteMap(t, "delete_script", ScriptMap[t], "done")

\* What follows a deletion, done or not.
After(t) ==
  CASE thread[t] = "delete_job" -> "delete_input"
    [] thread[t] = "delete_input" /\ Step(t).script -> "delete_script"
    [] OTHER -> "done"

-----------------------------------------------------------------------------
(* A call of the API fails without an effect. *)

Fault ==
  /\ alive /\ faults < MaxFaults
  /\ faults' = faults + 1
  /\ UNCHANGED <<cluster, recorded, alive>>

\* Before the clients exist there is nothing that _cleanup could use.
NoClient(t) ==
  /\ Fault /\ At(t, "namespace")
  /\ Goto(t, "done")
  /\ outcome' = [outcome EXCEPT ![t] = "error"]
  /\ UNCHANGED <<seen, blind, lost>>

CallFails(t) ==
  /\ Fault
  /\ thread[t] \in {"namespace", "create_namespace", "input", "script", "job", "wait",
                    "logs", "state"}
  /\ Fail(t)
  /\ UNCHANGED <<blind, lost>>

\* Logs that cannot be read count as empty, a state as unknown.
ReadFails(t) ==
  /\ Fault
  /\ \/ At(t, "logs") /\ Proceed(t, "state")
     \/ At(t, "state") /\ Resolve(t, seen[t])
  /\ blind' = blind \cup {t}
  /\ UNCHANGED lost

\* The cleanup logs a deletion that the API refuses and goes on; it ends if the
\* connection fails.
DeletionFails(t) ==
  /\ Fault
  /\ thread[t] \in {"delete_job", "delete_input", "delete_script"}
  /\ Proceed(t, After(t)) \/ Proceed(t, "done")
  /\ lost' = lost \cup {t}
  /\ UNCHANGED blind

-----------------------------------------------------------------------------
(* The runners. *)

\* A run's next step starts when the one before has a result.
Submit(t) ==
  /\ At(t, "idle")
  /\ Cardinality({u \in Threads : thread[u] # "idle"}) < MaxStarted
  /\ t[2] > 1 => recorded[<<t[1], t[2] - 1>>] # "none"
  /\ Proceed(t, "namespace")
  /\ UNCHANGED <<cluster, recorded, mishaps>>

Record(t, status) ==
  /\ recorded[t] = "none"
  /\ recorded' = [recorded EXCEPT ![t] = status]
  /\ UNCHANGED <<cluster, thread, seen, outcome, mishaps>>

StepReturns(t) == At(t, "done") /\ Record(t, outcome[t])

\* Mistaken: the runner believes what the abandoned thread has found so far.
StepTimesOutEarly(t) ==
  /\ alive /\ thread[t] \notin {"idle", "done"}
  /\ Record(t, IF seen[t].job = "succeeded" THEN "passed" ELSE "error")

StepTimesOut(t) == alive /\ thread[t] \notin {"idle", "done"} /\ Record(t, "error")

\* The threads and what they know are gone.
Crash ==
  /\ MayCrash /\ alive
  /\ alive' = FALSE
  /\ thread' = [t \in Threads |-> "idle"]
  /\ seen' = [t \in Threads |-> Idle]
  /\ outcome' = [t \in Threads |-> "none"]
  /\ UNCHANGED <<cluster, recorded, faults, blind, lost>>

-----------------------------------------------------------------------------
(* The cluster. *)

JobEnds(j, status) == jobs' = (jobs \ {j}) \cup {[j EXCEPT !.status = status]}

\* A pod starts when everything that it mounts is there.
StartPod(j) ==
  /\ j.status = "active" /\ ran[j.owner] = {}
  /\ \A name \in j.mounts : Taken(name, maps)
  /\ pods' = pods \cup {[name |-> j.name, owner |-> j.owner, code |-> NoCode,
        word |-> NoResult, reads |-> {m.owner : m \in {n \in maps : n.name \in j.mounts}}]}
  /\ ran' = [ran EXCEPT ![j.owner] = {Started}]
  /\ UNCHANGED <<namespace, maps, jobs, memory, mishaps>>

\* Its container ends, and its job with it (backoffLimit 0).
EndPod(p, c) ==
  /\ p.code = NoCode
  /\ pods' = (pods \ {p}) \cup {[p EXCEPT !.code = c.code, !.word = c.word]}
  /\ ran' = [ran EXCEPT ![p.owner] = {Started, c}]
  /\ \/ \E j \in jobs : /\ j.owner = p.owner /\ j.status = "active"
                        /\ JobEnds(j, IF c.code = 0 THEN "succeeded" ELSE "failed")
     \/ /\ \A j \in jobs : ~(j.owner = p.owner /\ j.status = "active")
        /\ UNCHANGED jobs
  /\ UNCHANGED <<namespace, maps, memory, mishaps>>

\* activeDeadlineSeconds is the step's timeout, and the runner has counted
\* longer than the job runs.
DeadlineHits(j) ==
  /\ j.limited /\ j.status = "active"
  /\ recorded[j.owner] # "none" \/ ~alive
  /\ JobEnds(j, "failed")
  /\ pods' = {p \in pods : p.owner # j.owner}
  /\ UNCHANGED <<namespace, maps, ran, memory, mishaps>>

\* ttlSecondsAfterFinished; five minutes are enough for a thread that polls
\* every few seconds to see the end of its job.
Expire(j) ==
  /\ j.limited /\ j.status # "active"
  /\ alive => thread[j.owner] \notin {"wait", "logs", "state"}
  /\ jobs' = jobs \ {j}
  /\ UNCHANGED <<namespace, maps, pods, ran, memory, mishaps>>

\* A pod without its job is garbage.
CollectPod(p) ==
  /\ \A j \in jobs : j.owner # p.owner
  /\ pods' = pods \ {p}
  /\ UNCHANGED <<namespace, maps, jobs, ran, memory, mishaps>>

-----------------------------------------------------------------------------
ThreadStep(t) ==
  \/ ReadNamespace(t) \/ CreateNamespace(t) \/ CreateInput(t) \/ CreateScript(t)
  \/ CreateJob(t) \/ SeeJobEnd(t) \/ WaitTimesOut(t) \/ ReadLogs(t) \/ ReadState(t)
  \/ DeleteJob(t) \/ DeleteInput(t) \/ DeleteScript(t)

Mishap(t) == NoClient(t) \/ CallFails(t) \/ ReadFails(t) \/ DeletionFails(t)

RunnerStep(t) == Submit(t) \/ StepReturns(t) \/ StepTimesOut(t)

Housekeeping ==
  \/ \E j \in jobs : DeadlineHits(j) \/ Expire(j)
  \/ \E p \in pods : CollectPod(p)

ClusterStep ==
  \/ \E j \in jobs : StartPod(j)
  \/ \E p \in pods, c \in Ends : EndPod(p, c)
  \/ Housekeeping

Next ==
  \/ \E t \in Threads : ThreadStep(t) \/ Mishap(t) \/ RunnerStep(t)
  \/ ClusterStep
  \/ Crash

Spec == Init /\ [][Next]_vars

\* Threads are scheduled, timeouts elapse, and the cluster's controllers work.
\* Nothing makes a container end, or a call of the API fail.
FairSpec ==
  /\ Spec
  /\ \A t \in Threads : WF_vars(ThreadStep(t)) /\ WF_vars(RunnerStep(t))
  /\ WF_vars(Housekeeping)

-----------------------------------------------------------------------------
(* Properties. *)

ThreadPhase == {"idle", "namespace", "create_namespace", "input", "script", "job", "wait",
                "logs", "state", "delete_job", "delete_input", "delete_script", "done"}

\* Steps do not mix.  A thread that awaits or reads its job still has the job and
\* the configmaps that its pod mounts: no cleanup of another step takes them
\* away, not that of an abandoned thread and not that of another run of the same
\* pipeline (executors/kubernetes_job.py _cleanup deletes by name).  And what a
\* step reads, as its pod's mounts, its logs or its exit state, is its own.
StepsDoNotMix ==
  /\ \A t \in Threads :
       alive /\ thread[t] \in {"wait", "logs", "state"} =>
         /\ \E j \in jobs : j.owner = t
         /\ \A name \in MapsOf[t] : [name |-> name, owner |-> t] \in maps
  /\ \A t \in Threads : seen[t].from \subseteq {t}
  /\ \A p \in pods : p.reads \subseteq {p.owner}

\* The container's own word, or its exit code without one, says "passed".
ReallyPassed(t) ==
  \E c \in ran[t] \ {Started} : c.word = "passed" \/ (c.word = NoResult /\ c.code = 0)

\* A step is recorded as passed only if its container really passed, unless
\* its logs or its state could not be read: timeouts, abandoned threads, pods
\* that vanish and failing calls never make a pass (results.py resolve_outcome).
PassedIsEarned ==
  \A t \in Threads :
    recorded[t] = "passed" => ran[t] # {} /\ (ReallyPassed(t) \/ t \in blind)

\* A thread that has ended left nothing of its own behind, whatever happened
\* to the step, unless a deletion failed (the `finally` of run_container_job).
NothingLeftBehind ==
  \A t \in Threads \ lost :
    thread[t] = "done" =>
      /\ \A j \in jobs : j.owner # t
      /\ \A m \in maps : m.owner # t

\* No job stays for ever, not even if its deletion failed or the process that
\* should have deleted it stopped (build_job_manifest's two limits).
JobsGoAway == <>[](jobs = {})

\* A container that ended by itself with 1 or 2, and whose state was read,
\* gives what results.py:12-16 says: 2 is a warning, other codes fail.
DocumentedExitCodes ==
  \A t \in Threads :
    (thread[t] = "done" /\ seen[t].word = NoResult) =>
      /\ seen[t].code = 2 => outcome[t] = "warning"
      /\ seen[t].code = 1 => outcome[t] = "failed"
=============================================================================
