---------------------------- MODULE Environments ----------------------------
(***************************************************************************)
(* The validation environments of one submitted request: the handlers that *)
(* create one and tear one down (api/validation_environments.py), the      *)
(* background thread that provisions each (provisioning/service.py) and    *)
(* the virtual clusters it makes (provisioning/providers/vcluster.py).     *)
(*                                                                         *)
(* Handlers and workers have a session each.  A worker reads its row once, *)
(* is busy in the host cluster for minutes, and then writes the row's      *)
(* status without looking at it again: SQLAlchemy sends an UPDATE of the   *)
(* changed columns, and the except branch's "re-fetch in case of race" is  *)
(* answered from the session's identity map.  Where other steps can come   *)
(* in between, an operation is several actions.                            *)
(***************************************************************************)
EXTENDS Naturals, Sequences

CONSTANTS
  Creators, Tearers,  \* create and teardown calls that may be in progress
  MaxEnvs,            \* bound on the environments ever created
  OneCreator,         \* does a create call wait for the one before it?
  Patient,            \* is a teardown asked only of a finished environment,
                      \* as the page's buttons have it?
  HostMayGo,          \* may an admin delete the host cluster?
  MayCrash            \* may the process stop?

ASSUME SwitchAssumption ==
  /\ MaxEnvs \in Nat
  /\ {OneCreator, Patient, HostMayGo, MayCrash} \subseteq BOOLEAN

VARIABLES
  envs,      \* the validation_environments rows, by id
  worker,    \* where the thread of each environment stands
  cluster,   \* the environments whose virtual cluster exists
  creates,   \* the create calls
  tears,     \* the teardown calls
  host,      \* is the host cluster's row there?
  history    \* the environments' events in the request's history

vars == <<envs, worker, cluster, creates, tears, host, history>>

EnvStatus == {"provisioning", "ready", "failed", "torn_down"}

Active == {"provisioning", "ready"}

\* `named`: the second commit of start_provisioning has set the names.
EnvRow == [status : EnvStatus, named : BOOLEAN]

WorkerStep == {"none", "start", "create", "wait", "ready", "readyEvent",
               "fail", "failEvent", "done", "dead"}

\* `env` 0: no environment; `named`: what the teardown call read of the row.
CreateCall == [step : {"idle", "insert", "name", "spawn", "event"}, env : Nat]

TearCall == [step : {"idle", "delete", "mark", "event", "markOnly"},
             env : Nat, named : BOOLEAN]

EventKind == {"requested", "ready", "failed", "torn_down"}

TypeOK ==
  /\ envs \in Seq(EnvRow)
  /\ worker \in Seq(WorkerStep) /\ Len(worker) = Len(envs)
  /\ cluster \in SUBSET DOMAIN envs
  /\ creates \in [Creators -> CreateCall]
  /\ tears \in [Tearers -> TearCall]
  /\ \A c \in Creators :
       creates[c].step \in {"name", "spawn", "event"} => creates[c].env \in DOMAIN envs
  /\ \A t \in Tearers : tears[t].step # "idle" => tears[t].env \in DOMAIN envs
  /\ host \in BOOLEAN
  /\ history \in SUBSET [kind : EventKind, env : Nat]

NoCreate == [step |-> "idle", env |-> 0]
NoTear == [step |-> "idle", env |-> 0, named |-> FALSE]

Init ==
  /\ envs = <<>>
  /\ worker = <<>>
  /\ cluster = {}
  /\ creates = [c \in Creators |-> NoCreate]
  /\ tears = [t \in Tearers |-> NoTear]
  /\ host = TRUE
  /\ history = {}

\* current_for_request: the most recent row that is not torn down.
Standing == {e \in DOMAIN envs : envs[e].status # "torn_down"}

IsCurrent(e) == e \in Standing /\ \A d \in Standing : d <= e

Event(kind, e) == history' = history \cup {[kind |-> kind, env |-> e]}

Mark(e, status) == envs' = [envs EXCEPT ![e].status = status]

-----------------------------------------------------------------------------
(* Creating an environment. *)

\* Mistaken: only a ready environment is in the way of a new one.
CheckCreateReadyOnly(c) ==
  /\ creates[c].step = "idle"
  /\ Len(envs) < MaxEnvs
  /\ OneCreator => \A d \in Creators : creates[d].step = "idle"
  /\ \A e \in Standing : IsCurrent(e) => envs[e].status # "ready"
  /\ host
  /\ creates' = [creates EXCEPT ![c].step = "insert"]
  /\ UNCHANGED <<envs, worker, cluster, tears, host, history>>

\* 409 unless no environment stands, or the current one failed; 503 unless
\* there is a host cluster.
CheckCreate(c) ==
  /\ creates[c].step = "idle"
  /\ Len(envs) < MaxEnvs
  /\ OneCreator => \A d \in Creators : creates[d].step = "idle"
  /\ \A e \in Standing : IsCurrent(e) => envs[e].status = "failed"
  /\ host
  /\ creates' = [creates EXCEPT ![c].step = "insert"]
  /\ UNCHANGED <<envs, worker, cluster, tears, host, history>>

\* The first commit: the row gets its id.
InsertEnv(c) ==
  /\ creates[c].step = "insert"
  /\ Len(envs) < MaxEnvs
  /\ envs' = Append(envs, [status |-> "provisioning", named |-> FALSE])
  /\ worker' = Append(worker, "none")
  /\ creates' = [creates EXCEPT ![c] = [step |-> "name", env |-> Len(envs) + 1]]
  /\ UNCHANGED <<cluster, tears, host, history>>

\* The host's row, which the commit before has expired, is read again for its
\* hours; the second commit writes names and expiry (the status column has not
\* changed in this session, so it is not written).
NameEnv(c) ==
  /\ creates[c].step = "name"
  /\ host
  /\ envs' = [envs EXCEPT ![creates[c].env].named = TRUE]
  /\ creates' = [creates EXCEPT ![c].step = "spawn"]
  /\ UNCHANGED <<worker, cluster, tears, host, history>>

\* The thread is given the id of the host's row, which is read once more.
SpawnWorker(c) ==
  /\ creates[c].step = "spawn"
  /\ host
  /\ worker' = [worker EXCEPT ![creates[c].env] = "start"]
  /\ creates' = [creates EXCEPT ![c].step = "event"]
  /\ UNCHANGED <<envs, cluster, tears, host, history>>

\* Either read raises if the host has been deleted: the call ends, the row stays.
LoseHost(c) ==
  /\ creates[c].step \in {"name", "spawn"}
  /\ ~host
  /\ creates' = [creates EXCEPT ![c] = NoCreate]
  /\ UNCHANGED <<envs, worker, cluster, tears, host, history>>

RecordRequested(c) ==
  /\ creates[c].step = "event"
  /\ Event("requested", creates[c].env)
  /\ creates' = [creates EXCEPT ![c] = NoCreate]
  /\ UNCHANGED <<envs, worker, cluster, tears, host>>

Provision(c) == InsertEnv(c) \/ NameEnv(c) \/ SpawnWorker(c) \/ LoseHost(c) \/ RecordRequested(c)

Create(c) == CheckCreate(c) \/ Provision(c)

-----------------------------------------------------------------------------
(* The worker of one environment. *)

WorkerMoves(e, from, to) == worker[e] = from /\ worker' = [worker EXCEPT ![e] = to]

\* The worker reads its row and the host's, and looks at neither's status;
\* without a host it returns and the row stays as it is.
WorkerLoads(e) ==
  /\ WorkerMoves(e, "start", IF host THEN "create" ELSE "done")
  /\ UNCHANGED <<envs, cluster, creates, tears, host, history>>

\* `vcluster create`, which may fail before or after it made the cluster.
CreateCluster(e) ==
  /\ \/ WorkerMoves(e, "create", "wait") /\ cluster' = cluster \cup {e}
     \/ WorkerMoves(e, "create", "fail") /\ cluster' \in {cluster, cluster \cup {e}}
  /\ UNCHANGED <<envs, creates, tears, host, history>>

\* The pod, the service and the secret of a cluster that is there are found in
\* time, or not; of one that has been deleted they are not.
AwaitCluster(e) ==
  /\ \/ e \in cluster /\ WorkerMoves(e, "wait", "ready")
     \/ WorkerMoves(e, "wait", "fail")
  /\ UNCHANGED <<envs, cluster, creates, tears, host, history>>

CommitReady(e) ==
  /\ WorkerMoves(e, "ready", "readyEvent")
  /\ Mark(e, "ready")
  /\ UNCHANGED <<cluster, creates, tears, host, history>>

RecordReady(e) ==
  /\ WorkerMoves(e, "readyEvent", "done")
  /\ Event("ready", e)
  /\ UNCHANGED <<envs, cluster, creates, tears, host>>

\* Mistaken: a status that is none of the four; the row left as it was.
CommitFailedAsError(e) ==
  /\ WorkerMoves(e, "fail", "failEvent")
  /\ Mark(e, "error")
  /\ UNCHANGED <<cluster, creates, tears, host, history>>

CommitFailedUnmarked(e) ==
  /\ WorkerMoves(e, "fail", "failEvent")
  /\ UNCHANGED <<envs, cluster, creates, tears, host, history>>

CommitFailed(e) ==
  /\ WorkerMoves(e, "fail", "failEvent")
  /\ Mark(e, "failed")
  /\ UNCHANGED <<cluster, creates, tears, host, history>>

\* Mistaken: a failure leaves no event.
RecordFailedSilently(e) ==
  /\ WorkerMoves(e, "failEvent", "done")
  /\ UNCHANGED <<envs, cluster, creates, tears, host, history>>

RecordFailed(e) ==
  /\ WorkerMoves(e, "failEvent", "done")
  /\ Event("failed", e)
  /\ UNCHANGED <<envs, cluster, creates, tears, host>>

Work(e) ==
  \/ WorkerLoads(e) \/ CreateCluster(e) \/ AwaitCluster(e)
  \/ CommitReady(e) \/ RecordReady(e) \/ CommitFailed(e) \/ RecordFailed(e)

-----------------------------------------------------------------------------
(* Tearing an environment down. *)

\* The handler reads the current environment, and whether its host is there.
StartTeardown(t) ==
  /\ tears[t].step = "idle"
  /\ \E e \in Standing :
       /\ IsCurrent(e)
       /\ Patient => envs[e].status # "provisioning"
       /\ tears' = [tears EXCEPT ![t] = [step |-> IF host THEN "delete" ELSE "markOnly",
                                         env |-> e, named |-> envs[e].named]]
  /\ UNCHANGED <<envs, worker, cluster, creates, host, history>>

\* `vcluster delete` of the name the row had; a failure is only noted in
\* last_error, and there is no such cluster under an empty name.
DeleteCluster(t) ==
  /\ tears[t].step = "delete"
  /\ \/ cluster' = cluster
     \/ tears[t].named /\ cluster' = cluster \ {tears[t].env}
  /\ tears' = [tears EXCEPT ![t].step = "mark"]
  /\ UNCHANGED <<envs, worker, creates, host, history>>

CommitTornDown(t) ==
  /\ tears[t].step = "mark"
  /\ Mark(tears[t].env, "torn_down")
  /\ tears' = [tears EXCEPT ![t].step = "event"]
  /\ UNCHANGED <<worker, cluster, creates, host, history>>

\* Mistaken: a teardown leaves no event.
RecordTornDownSilently(t) ==
  /\ tears[t].step = "event"
  /\ tears' = [tears EXCEPT ![t] = NoTear]
  /\ UNCHANGED <<envs, worker, cluster, creates, host, history>>

RecordTornDown(t) ==
  /\ tears[t].step = "event"
  /\ Event("torn_down", tears[t].env)
  /\ tears' = [tears EXCEPT ![t] = NoTear]
  /\ UNCHANGED <<envs, worker, cluster, creates, host>>

\* The host is gone: the row is marked and the handler returns.
MarkWithoutHost(t) ==
  /\ tears[t].step = "markOnly"
  /\ Mark(tears[t].env, "torn_down")
  /\ tears' = [tears EXCEPT ![t] = NoTear]
  /\ UNCHANGED <<worker, cluster, creates, host, history>>

Tear(t) ==
  \/ StartTeardown(t) \/ DeleteCluster(t) \/ CommitTornDown(t) \/ RecordTornDown(t)
  \/ MarkWithoutHost(t)

-----------------------------------------------------------------------------
(* The surroundings. *)

\* delete_host_cluster; SQLite does not hold it to the foreign keys.
RemoveHost ==
  /\ HostMayGo
  /\ host
  /\ host' = FALSE
  /\ UNCHANGED <<envs, worker, cluster, creates, tears, history>>

Finished(e) == worker[e] \in {"none", "done", "dead"}

Quiet ==
  /\ \A c \in Creators : creates[c].step = "idle"
  /\ \A t \in Tearers : tears[t].step = "idle"
  /\ \A e \in DOMAIN envs : Finished(e)

\* The process stops: calls end where they are, daemon threads die with it.
Crash ==
  /\ MayCrash
  /\ ~Quiet
  /\ worker' = [e \in DOMAIN worker |-> IF Finished(e) THEN worker[e] ELSE "dead"]
  /\ creates' = [c \in Creators |-> NoCreate]
  /\ tears' = [t \in Tearers |-> NoTear]
  /\ UNCHANGED <<envs, cluster, host, history>>

Next ==
  \/ \E c \in Creators : Create(c)
  \/ \E e \in DOMAIN envs : Work(e)
  \/ \E t \in Tearers : Tear(t)
  \/ RemoveHost \/ Crash

Spec == Init /\ [][Next]_vars

\* Every call and every worker goes on: each wait of the provider has a
\* deadline of its own.  Nobody has to ask for anything.
Fairness ==
  /\ \A c \in Creators : WF_vars(Provision(c))
  /\ \A e \in 1..MaxEnvs : WF_vars(e \in DOMAIN envs /\ Work(e))

FairSpec == Spec /\ Fairness

-----------------------------------------------------------------------------
(* Properties *)

Lifecycle == INSTANCE EnvironmentLifecycle
             WITH status <- [e \in DOMAIN envs |-> envs[e].status]

\* With the page's buttons (no teardown while provisioning) and one create
\* call at a time, handlers, workers, teardowns and crashes implement the
\* lifecycle: never two active environments, no worker that wakes a torn-down
\* one (provisioning/service.py).
ImplementsLifecycle == Lifecycle!Spec

\* When all is quiet the history accounts for every row: each was requested,
\* and its status is one the history has an event for, with `ready` and
\* `failed` never both (README: "every status transition, comment,
\* provisioning event, and teardown is recorded").
HistoryAccountsForRows ==
  Quiet =>
    \A e \in DOMAIN envs :
      LET happened == {h.kind : h \in {g \in history : g.env = e}} IN
      /\ "requested" \in happened
      /\ envs[e].status \in happened
      /\ ~({"ready", "failed"} \subseteq happened)

\* A ready environment has its cluster, or somebody tore it down and the
\* history says so, or is about to: the kubeconfig that is handed out leads
\* somewhere (provisioning/service.py, vcluster.py).
ReadyIsLive ==
  \A e \in DOMAIN envs :
    envs[e].status = "ready" =>
      \/ e \in cluster
      \/ \E t \in Tearers : tears[t].env = e /\ tears[t].step \in {"mark", "event"}
      \/ \E h \in history : h.env = e /\ h.kind = "torn_down"

\* "The requester can tear down the validation cluster at any time" (README):
\* what is torn down stays torn down.
TornDownIsFinal ==
  [][\A e \in DOMAIN envs : envs[e].status = "torn_down" => envs'[e].status = "torn_down"]_vars

Provisioning(e) == e \in DOMAIN envs /\ envs[e].status = "provisioning"

\* An environment does not stay `provisioning`: its worker ends in `ready` or
\* `failed`, whatever the host cluster does (provisioning/service.py).
ProvisioningEnds ==
  \A e \in 1..MaxEnvs : Provisioning(e) ~> ~Provisioning(e)
=============================================================================
