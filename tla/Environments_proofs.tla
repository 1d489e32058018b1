------------------------ MODULE Environments_proofs ------------------------
(***************************************************************************)
(* Proofs about Environments, for any number of callers and environments:  *)
(* type correctness; that handlers and workers implement the lifecycle     *)
(* where teardowns wait for the worker and create calls for each other;    *)
(* while the process does not stop, that what is ready is there and that   *)
(* the history accounts for every row; and that what is provisioning is    *)
(* somebody's work.                                                        *)
(***************************************************************************)
EXTENDS Environments, SequenceTheorems, TLAPS

-----------------------------------------------------------------------------
(* What actions do to the rows and the threads. *)

LEMMA RowsFacts ==
  ASSUME TypeOK
  PROVE  /\ Len(envs) \in Nat /\ DOMAIN envs = 1..Len(envs) /\ DOMAIN worker = 1..Len(envs)
         /\ \A e \in DOMAIN envs : /\ envs[e] \in EnvRow /\ envs[e].status \in EnvStatus
                                   /\ worker[e] \in WorkerStep
<1>1. envs \in Seq(EnvRow) /\ worker \in Seq(WorkerStep) /\ Len(worker) = Len(envs)
  BY DEF TypeOK
<1>2. /\ Len(envs) \in Nat /\ DOMAIN envs = 1..Len(envs) /\ DOMAIN worker = 1..Len(envs)
      /\ \A e \in DOMAIN envs : envs[e] \in EnvRow /\ worker[e] \in WorkerStep
  <2> HIDE DEF EnvRow, WorkerStep
  <2>1. QED
    BY <1>1
<1>3. \A row \in EnvRow : row.status \in EnvStatus
  BY DEF EnvRow
<1>4. QED
  BY <1>2, <1>3

LEMMA MarkType ==
  ASSUME TypeOK, NEW e \in DOMAIN envs, NEW status \in EnvStatus, Mark(e, status)
  PROVE  /\ envs' \in Seq(EnvRow) /\ Len(envs') = Len(envs)
         /\ envs'[e].status = status
         /\ \A d \in DOMAIN envs : d # e => envs'[d] = envs[d]
<1>1. [envs[e] EXCEPT !.status = status] \in EnvRow
  BY RowsFacts DEF EnvRow
<1>2. envs' = [envs EXCEPT ![e] = [envs[e] EXCEPT !.status = status]]
  BY DEF Mark
<1>3. [envs[e] EXCEPT !.status = status].status = status
  BY RowsFacts DEF EnvRow
<1>4. envs \in Seq(EnvRow) /\ e \in 1..Len(envs) /\ DOMAIN envs = 1..Len(envs)
  BY RowsFacts DEF TypeOK
<1> HIDE DEF EnvRow
<1>5. QED
  BY <1>1, <1>2, <1>3, <1>4

LEMMA MovesType ==
  ASSUME TypeOK, NEW e \in DOMAIN envs, NEW from, NEW to \in WorkerStep, WorkerMoves(e, from, to)
  PROVE  /\ worker' \in Seq(WorkerStep) /\ Len(worker') = Len(worker)
         /\ worker[e] = from /\ worker'[e] = to
         /\ \A d \in DOMAIN envs : d # e => worker'[d] = worker[d]
<1>1. worker' = [worker EXCEPT ![e] = to] /\ e \in 1..Len(worker)
  BY RowsFacts DEF WorkerMoves, TypeOK
<1> HIDE DEF WorkerStep
<1>2. QED
  BY <1>1 DEF TypeOK, WorkerMoves

LEMMA AppendType ==
  ASSUME TypeOK, NEW c \in Creators, InsertEnv(c)
  PROVE  /\ envs' \in Seq(EnvRow) /\ Len(envs') = Len(envs) + 1
         /\ worker' \in Seq(WorkerStep) /\ Len(worker') = Len(envs) + 1
         /\ \A d \in DOMAIN envs : envs'[d] = envs[d] /\ worker'[d] = worker[d]
         /\ envs'[Len(envs) + 1].status = "provisioning" /\ worker'[Len(envs) + 1] = "none"
<1> DEFINE row == [status |-> "provisioning", named |-> FALSE]
<1>1. row \in EnvRow /\ "none" \in WorkerStep /\ row.status = "provisioning"
  BY DEF EnvRow, EnvStatus, WorkerStep
<1>2. envs' = Append(envs, row) /\ worker' = Append(worker, "none")
  BY DEF InsertEnv
<1> HIDE DEF row, EnvRow, WorkerStep
<1>3. QED
  BY <1>1, <1>2 DEF TypeOK

LEMMA NameType ==
  ASSUME TypeOK, NEW c \in Creators, NameEnv(c)
  PROVE  /\ creates[c].env \in DOMAIN envs
         /\ envs' \in Seq(EnvRow) /\ Len(envs') = Len(envs)
         /\ \A d \in DOMAIN envs : envs'[d].status = envs[d].status
<1> DEFINE e == creates[c].env
<1>1. e \in DOMAIN envs
  BY DEF TypeOK, NameEnv
<1>2. [envs[e] EXCEPT !.named = TRUE] \in EnvRow
      /\ [envs[e] EXCEPT !.named = TRUE].status = envs[e].status
  BY <1>1, RowsFacts DEF EnvRow
<1>3. envs' = [envs EXCEPT ![e] = [envs[e] EXCEPT !.named = TRUE]]
  BY DEF NameEnv
<1> HIDE DEF e, EnvRow
<1>4. envs' \in Seq(EnvRow) /\ Len(envs') = Len(envs) /\ \A d \in DOMAIN envs : envs'[d].status = envs[d].status
  BY <1>1, <1>2, <1>3 DEF TypeOK
<1> QED BY <1>1, <1>4 DEF e

LEMMA SpawnType ==
  ASSUME TypeOK, NEW c \in Creators, SpawnWorker(c)
  PROVE  /\ creates[c].env \in DOMAIN envs
         /\ worker' \in Seq(WorkerStep) /\ Len(worker') = Len(envs)
         /\ worker'[creates[c].env] = "start"
         /\ \A d \in DOMAIN envs : d # creates[c].env => worker'[d] = worker[d]
<1> DEFINE e == creates[c].env
<1>1. e \in DOMAIN envs
  BY DEF TypeOK, SpawnWorker
<1>2. worker' = [worker EXCEPT ![e] = "start"] /\ "start" \in WorkerStep
  BY DEF SpawnWorker, WorkerStep
<1> HIDE DEF e, WorkerStep
<1>3. /\ worker' \in Seq(WorkerStep) /\ Len(worker') = Len(envs)
      /\ worker'[e] = "start"
      /\ \A d \in DOMAIN envs : d # e => worker'[d] = worker[d]
  BY <1>1, <1>2, RowsFacts DEF TypeOK
<1> QED BY <1>1, <1>3 DEF e

LEMMA TearsType ==
  ASSUME TypeOK, NEW t \in Tearers, NEW call \in TearCall,
         call.step # "idle" => call.env \in DOMAIN envs,
         tears' = [tears EXCEPT ![t] = call]
  PROVE  /\ tears' \in [Tearers -> TearCall]
         /\ \A u \in Tearers : tears'[u].step # "idle" => tears'[u].env \in DOMAIN envs
<1>1. /\ tears \in [Tearers -> TearCall]
      /\ \A u \in Tearers : tears[u].step # "idle" => tears[u].env \in DOMAIN envs
  BY DEF TypeOK
<1> HIDE DEF TearCall
<1>2. QED
  BY <1>1

-----------------------------------------------------------------------------
LEMMA TypeStep == TypeOK /\ [Next]_vars => TypeOK'
<1> SUFFICES ASSUME TypeOK, [Next]_vars PROVE TypeOK'
  OBVIOUS
<1>0. Len(envs) \in Nat /\ DOMAIN envs = 1..Len(envs)
  BY RowsFacts
<1>1. ASSUME NEW c \in Creators, CheckCreate(c) PROVE TypeOK'
  BY <1>1 DEF TypeOK, CheckCreate, CreateCall
<1>2. ASSUME NEW c \in Creators, InsertEnv(c) PROVE TypeOK'
  <2>1. DOMAIN envs' = 1..(Len(envs) + 1) /\ DOMAIN envs \subseteq DOMAIN envs'
    BY <1>0, <1>2, AppendType
  <2>2. creates' \in [Creators -> CreateCall]
    BY <1>0, <1>2 DEF TypeOK, InsertEnv, CreateCall
  <2>3. \A d \in Creators : creates'[d].step \in {"name", "spawn", "event"} => creates'[d].env \in DOMAIN envs'
    BY <1>0, <1>2, <2>1 DEF TypeOK, InsertEnv
  <2>4. QED
    BY <1>0, <1>2, <2>1, <2>2, <2>3, AppendType DEF TypeOK, InsertEnv
<1>3. ASSUME NEW c \in Creators, NameEnv(c) PROVE TypeOK'
  <2>1. creates' \in [Creators -> CreateCall]
        /\ \A d \in Creators : creates'[d].step \in {"name", "spawn", "event"} => creates'[d].env \in DOMAIN envs
    BY <1>3 DEF TypeOK, NameEnv, CreateCall
  <2>2. DOMAIN envs' = DOMAIN envs
    BY <1>0, <1>3, NameType
  <2>3. QED
    BY <1>3, <2>1, <2>2, NameType DEF TypeOK, NameEnv
<1>3a. ASSUME NEW c \in Creators, SpawnWorker(c) PROVE TypeOK'
  <2>1. creates' \in [Creators -> CreateCall]
        /\ \A d \in Creators : creates'[d].step \in {"name", "spawn", "event"} => creates'[d].env \in DOMAIN envs
    BY <1>3a DEF TypeOK, SpawnWorker, CreateCall
  <2>2. QED
    BY <1>3a, <2>1, SpawnType DEF TypeOK, SpawnWorker
<1>4. ASSUME NEW c \in Creators, RecordRequested(c) \/ LoseHost(c) PROVE TypeOK'
  <2>1. CASE RecordRequested(c)
    BY <1>0, <2>1 DEF TypeOK, RecordRequested, Event, EventKind, NoCreate, CreateCall
  <2>2. CASE LoseHost(c)
    BY <1>0, <2>2 DEF TypeOK, LoseHost, NoCreate, CreateCall
  <2> QED BY <1>4, <2>1, <2>2
<1>5. ASSUME NEW e \in DOMAIN envs, Work(e) PROVE TypeOK'
  <2>1. PICK to \in WorkerStep : WorkerMoves(e, worker[e], to)
    BY <1>5 DEF Work, WorkerMoves, WorkerStep, WorkerLoads, CreateCluster, AwaitCluster,
       CommitReady, RecordReady, CommitFailed, RecordFailed
  <2>2. worker' \in Seq(WorkerStep) /\ Len(worker') = Len(envs)
    BY <2>1, MovesType DEF TypeOK
  <2>3. (\E status \in {"ready", "failed"} : Mark(e, status)) \/ UNCHANGED envs
    BY <1>5 DEF Work, WorkerLoads, CreateCluster, AwaitCluster,
       CommitReady, RecordReady, CommitFailed, RecordFailed
  <2>4. envs' \in Seq(EnvRow) /\ Len(envs') = Len(envs) /\ DOMAIN envs' = DOMAIN envs
    BY <1>0, <2>3, MarkType DEF TypeOK, EnvStatus
  <2>5. cluster' \in SUBSET DOMAIN envs /\ history' \in SUBSET [kind : EventKind, env : Nat]
        /\ UNCHANGED <<creates, tears, host>>
    BY <1>0, <1>5 DEF TypeOK, Work, WorkerLoads, CreateCluster, AwaitCluster,
       CommitReady, RecordReady, CommitFailed, RecordFailed, Event, EventKind
  <2>6. QED
    BY <2>2, <2>4, <2>5 DEF TypeOK
<1>6. ASSUME NEW t \in Tearers, Tear(t) PROVE TypeOK'
  <2>1. tears[t].step \in {"mark", "markOnly"} => tears[t].env \in DOMAIN envs
    BY DEF TypeOK
  <2>2. \/ Mark(tears[t].env, "torn_down") /\ tears[t].step \in {"mark", "markOnly"}
       \/ UNCHANGED envs
    BY <1>6 DEF Tear, StartTeardown, DeleteCluster, CommitTornDown, RecordTornDown, MarkWithoutHost
  <2>3. envs' \in Seq(EnvRow) /\ Len(envs') = Len(envs) /\ DOMAIN envs' = DOMAIN envs
    BY <1>0, <2>1, <2>2, MarkType DEF TypeOK, EnvStatus
  <2>4. tears' \in [Tearers -> TearCall]
        /\ \A u \in Tearers : tears'[u].step # "idle" => tears'[u].env \in DOMAIN envs
    <3>1. \A e \in Standing : e \in Nat /\ e \in DOMAIN envs /\ envs[e].named \in BOOLEAN
      BY <1>0, RowsFacts DEF Standing, EnvRow
    <3>2. CASE StartTeardown(t)
      <4>1. PICK e \in Standing :
               tears' = [tears EXCEPT ![t] = [step |-> IF host THEN "delete" ELSE "markOnly",
                                              env |-> e, named |-> envs[e].named]]
        BY <3>2 DEF StartTeardown
      <4>2. [step |-> IF host THEN "delete" ELSE "markOnly",
             env |-> e, named |-> envs[e].named] \in TearCall
        BY <3>1 DEF TearCall
      <4>3. QED
        BY <3>1, <4>1, <4>2, TearsType
    <3>3. CASE DeleteCluster(t) \/ CommitTornDown(t)
      <4>1. PICK step \in {"mark", "event"} :
               tears' = [tears EXCEPT ![t] = [tears[t] EXCEPT !.step = step]]
        BY <3>3 DEF DeleteCluster, CommitTornDown
      <4>2. tears[t].env \in DOMAIN envs /\ tears[t] \in TearCall
        BY <3>3 DEF DeleteCluster, CommitTornDown, TypeOK
      <4>3. /\ [tears[t] EXCEPT !.step = step] \in TearCall
            /\ [tears[t] EXCEPT !.step = step].env = tears[t].env
        BY <4>2 DEF TearCall
      <4>4. QED
        BY <4>1, <4>2, <4>3, TearsType
    <3>4. CASE RecordTornDown(t) \/ MarkWithoutHost(t)
      <4>1. NoTear \in TearCall /\ NoTear.step = "idle" /\ tears' = [tears EXCEPT ![t] = NoTear]
        BY <3>4 DEF RecordTornDown, MarkWithoutHost, NoTear, TearCall
      <4>2. QED
        BY <4>1, TearsType
    <3>5. QED
      BY <1>6, <3>2, <3>3, <3>4 DEF Tear
  <2>5. cluster' \in SUBSET DOMAIN envs /\ history' \in SUBSET [kind : EventKind, env : Nat]
        /\ UNCHANGED <<worker, creates, host>>
    BY <1>0, <1>6 DEF TypeOK, Tear, StartTeardown, DeleteCluster, CommitTornDown,
       RecordTornDown, MarkWithoutHost, Event, EventKind, TearCall
  <2>6. QED
    BY <2>3, <2>4, <2>5 DEF TypeOK
<1>7. ASSUME RemoveHost PROVE TypeOK'
  BY <1>7 DEF TypeOK, RemoveHost
<1>8. ASSUME Crash PROVE TypeOK'
  <2>1. worker' \in Seq(WorkerStep) /\ Len(worker') = Len(envs)
    <3>1. \A e \in 1..Len(worker) :
             (IF Finished(e) THEN worker[e] ELSE "dead") \in WorkerStep
      BY RowsFacts DEF TypeOK, WorkerStep
    <3>2. worker' = [e \in 1..Len(worker) |-> IF Finished(e) THEN worker[e] ELSE "dead"]
      BY <1>8 DEF Crash, TypeOK
    <3> HIDE DEF WorkerStep
    <3>3. QED
      BY <3>1, <3>2 DEF TypeOK
  <2>2. QED
    BY <1>8, <2>1 DEF TypeOK, Crash, NoCreate, NoTear, CreateCall, TearCall
<1>9. ASSUME UNCHANGED vars PROVE TypeOK'
  BY <1>9 DEF TypeOK, vars
<1>10. QED
  BY <1>1, <1>2, <1>3, <1>3a, <1>4, <1>5, <1>6, <1>7, <1>8, <1>9, Zenon DEF Next, Create, Provision

\* Every state of the rows, threads and calls is well formed.
THEOREM EnvironmentsTypeCorrect == Spec => []TypeOK
<1>1. Init => TypeOK
  BY SwitchAssumption
  DEF Init, TypeOK, NoCreate, NoTear, CreateCall, TearCall, EnvRow, SwitchAssumption
<1>2. QED
  BY <1>1, TypeStep, PTL DEF Spec

-----------------------------------------------------------------------------
(* The inductive invariant of the refinement: why no worker writes the     *)
(* status of a row that somebody else has written, and why nothing is      *)
(* active when a create call inserts.                                      *)

\* A worker that has not written yet owns a row that is still provisioning.
WorkerOwnsRow ==
  \A e \in DOMAIN envs :
    worker[e] \in {"start", "create", "wait", "ready", "fail"} => envs[e].status = "provisioning"

\* So does the call that is about to start the worker.
CreatorOwnsRow ==
  \A c \in Creators :
    creates[c].step \in {"name", "spawn"} =>
      envs[creates[c].env].status = "provisioning" /\ worker[creates[c].env] = "none"

\* A teardown is at a row whose worker has finished.
TearFinished ==
  \A t \in Tearers : tears[t].step # "idle" => envs[tears[t].env].status # "provisioning"

\* Only the newest environment can be active ...
NewestActive == \A e \in DOMAIN envs : envs[e].status \in Active => e = Len(envs)

\* ... and none is while a create call is about to insert.
RoomToInsert ==
  \A c \in Creators :
    creates[c].step = "insert" => \A e \in DOMAIN envs : envs[e].status \notin Active

OneAtATime ==
  \A c, d \in Creators : creates[c].step # "idle" /\ creates[d].step # "idle" => c = d

IInv == /\ TypeOK /\ WorkerOwnsRow /\ CreatorOwnsRow /\ TearFinished
        /\ NewestActive /\ RoomToInsert /\ OneAtATime

\* Which rows a step can change, and how.
LEMMA RowSteps ==
  ASSUME [Next]_vars
  PROVE  \/ \E c \in Creators : InsertEnv(c)
         \/ \E e \in DOMAIN envs : CommitReady(e) \/ CommitFailed(e)
         \/ \E t \in Tearers : CommitTornDown(t) \/ MarkWithoutHost(t)
         \/ \E c \in Creators : NameEnv(c)
         \/ envs' = envs
<1>1. ASSUME NEW c \in Creators, Create(c)
      PROVE  InsertEnv(c) \/ NameEnv(c) \/ envs' = envs
  BY <1>1 DEF Create, Provision, CheckCreate, SpawnWorker, LoseHost, RecordRequested
<1>2. ASSUME NEW e \in DOMAIN envs, Work(e)
      PROVE  CommitReady(e) \/ CommitFailed(e) \/ envs' = envs
  BY <1>2 DEF Work, WorkerLoads, CreateCluster, AwaitCluster, RecordReady, RecordFailed
<1>3. ASSUME NEW t \in Tearers, Tear(t)
      PROVE  CommitTornDown(t) \/ MarkWithoutHost(t) \/ envs' = envs
  BY <1>3 DEF Tear, StartTeardown, DeleteCluster, RecordTornDown
<1>4. RemoveHost \/ Crash \/ UNCHANGED vars => envs' = envs
  BY DEF RemoveHost, Crash, vars
<1>5. QED
  BY <1>1, <1>2, <1>3, <1>4, Zenon DEF Next

LEMMA InvStep == OneCreator /\ Patient /\ IInv /\ [Next]_vars => IInv'
<1> SUFFICES ASSUME OneCreator, Patient, IInv, [Next]_vars PROVE IInv'
  OBVIOUS
<1>0. TypeOK /\ TypeOK'
  BY TypeStep DEF IInv
<1>a. Len(envs) \in Nat /\ DOMAIN envs = 1..Len(envs)
  BY <1>0, RowsFacts
<1>b. \A c \in Creators : creates[c].step \in {"name", "spawn"} => creates[c].env \in DOMAIN envs
  BY <1>0 DEF TypeOK
<1>c. \A t \in Tearers : tears[t].step # "idle" => tears[t].env \in DOMAIN envs
  BY <1>0 DEF TypeOK
<1>1. ASSUME NEW c \in Creators, CheckCreate(c) PROVE IInv'
  <2>1. \A e \in DOMAIN envs : envs[e].status \notin Active
    <3> SUFFICES ASSUME NEW e \in DOMAIN envs, envs[e].status \in Active PROVE FALSE
      OBVIOUS
    <3>1. e = Len(envs) /\ e \in Standing
      BY DEF IInv, NewestActive, Standing, Active
    <3>2. IsCurrent(e)
      BY <1>a, <3>1 DEF IsCurrent, Standing
    <3>3. QED
      BY <1>1, <3>1, <3>2 DEF CheckCreate, Active
  <2>2. \A d \in Creators : creates[d].step = "idle"
    BY <1>1 DEF CheckCreate
  <2>3. \A d \in Creators : creates'[d].step = IF d = c THEN "insert" ELSE "idle"
    BY <1>0, <1>1, <2>2 DEF CheckCreate, TypeOK, CreateCall
  <2>4. UNCHANGED <<envs, worker, tears>>
    BY <1>1 DEF CheckCreate
  <2>5. QED
    BY <1>0, <2>1, <2>3, <2>4
    DEF IInv, WorkerOwnsRow, CreatorOwnsRow, TearFinished, NewestActive, RoomToInsert, OneAtATime
<1>2. ASSUME NEW c \in Creators, InsertEnv(c) PROVE IInv'
  <2>1. /\ Len(envs') = Len(envs) + 1 /\ DOMAIN envs' = 1..(Len(envs) + 1)
        /\ \A d \in DOMAIN envs : envs'[d] = envs[d] /\ worker'[d] = worker[d]
        /\ envs'[Len(envs) + 1].status = "provisioning" /\ worker'[Len(envs) + 1] = "none"
    BY <1>0, <1>2, AppendType DEF TypeOK
  <2>2. \A d \in Creators : d # c => creates[d].step = "idle" /\ creates'[d] = creates[d]
    BY <1>0, <1>2 DEF IInv, OneAtATime, InsertEnv, TypeOK
  <2>3. creates'[c] = [step |-> "name", env |-> Len(envs) + 1]
    BY <1>0, <1>2 DEF InsertEnv, TypeOK
  <2>4. \A e \in DOMAIN envs : envs[e].status \notin Active
    BY <1>2 DEF IInv, RoomToInsert, InsertEnv
  <2>5. WorkerOwnsRow'
    BY <1>a, <2>1 DEF IInv, WorkerOwnsRow
  <2>6. CreatorOwnsRow' /\ RoomToInsert' /\ OneAtATime'
    BY <2>1, <2>2, <2>3 DEF CreatorOwnsRow, RoomToInsert, OneAtATime
  <2>7. TearFinished'
    BY <1>2, <1>c, <2>1 DEF IInv, TearFinished, InsertEnv
  <2>8. NewestActive'
    BY <1>a, <2>1, <2>4 DEF NewestActive
  <2>9. QED
    BY <1>0, <2>5, <2>6, <2>7, <2>8 DEF IInv
<1>3. ASSUME NEW c \in Creators, NameEnv(c) PROVE IInv'
  <2>1. /\ DOMAIN envs' = DOMAIN envs /\ Len(envs') = Len(envs)
        /\ \A d \in DOMAIN envs : envs'[d].status = envs[d].status
        /\ UNCHANGED <<worker, tears>>
    BY <1>0, <1>3, <1>a, NameType DEF TypeOK, NameEnv
  <2>2. /\ creates[c].step = "name" /\ creates'[c].step = "spawn" /\ creates'[c].env = creates[c].env
        /\ \A d \in Creators : d # c => creates[d].step = "idle" /\ creates'[d] = creates[d]
    BY <1>0, <1>3 DEF IInv, OneAtATime, NameEnv, TypeOK, CreateCall
  <2>3. WorkerOwnsRow'
    BY <2>1 DEF IInv, WorkerOwnsRow
  <2>4. CreatorOwnsRow' /\ RoomToInsert' /\ OneAtATime'
    BY <1>b, <2>1, <2>2 DEF IInv, CreatorOwnsRow, RoomToInsert, OneAtATime
  <2>5. TearFinished' /\ NewestActive'
    BY <1>c, <2>1 DEF IInv, TearFinished, NewestActive
  <2> QED BY <1>0, <2>3, <2>4, <2>5 DEF IInv
<1>3a. ASSUME NEW c \in Creators, SpawnWorker(c) PROVE IInv'
  <2>1. /\ UNCHANGED <<envs, tears>>
        /\ \A d \in DOMAIN envs : d # creates[c].env => worker'[d] = worker[d]
    BY <1>0, <1>3a, SpawnType DEF SpawnWorker
  <2>2. /\ creates[c].step = "spawn" /\ creates'[c].step = "event"
        /\ \A d \in Creators : d # c => creates[d].step = "idle" /\ creates'[d] = creates[d]
    BY <1>0, <1>3a DEF IInv, OneAtATime, SpawnWorker, TypeOK, CreateCall
  <2>3. WorkerOwnsRow'
    BY <2>1, <2>2 DEF IInv, WorkerOwnsRow, CreatorOwnsRow
  <2>4. CreatorOwnsRow' /\ RoomToInsert' /\ OneAtATime'
    BY <2>2 DEF CreatorOwnsRow, RoomToInsert, OneAtATime
  <2> QED BY <1>0, <2>1, <2>3, <2>4 DEF IInv, TearFinished, NewestActive
<1>4. ASSUME NEW c \in Creators, RecordRequested(c) \/ LoseHost(c) PROVE IInv'
  <2>1. UNCHANGED <<envs, worker, tears>>
    BY <1>4 DEF RecordRequested, LoseHost
  <2>2. \A d \in Creators : creates'[d] = creates[d] \/ creates'[d].step = "idle"
    BY <1>0, <1>4 DEF RecordRequested, LoseHost, TypeOK, NoCreate
  <2>3. QED
    BY <1>0, <2>1, <2>2
    DEF IInv, WorkerOwnsRow, CreatorOwnsRow, TearFinished, NewestActive, RoomToInsert, OneAtATime
<1>5. ASSUME NEW e \in DOMAIN envs, Work(e) PROVE IInv'
  <2>1. UNCHANGED <<creates, tears>>
    BY <1>5 DEF Work, WorkerLoads, CreateCluster, AwaitCluster, CommitReady, RecordReady,
       CommitFailed, RecordFailed
  <2>2. CASE CommitReady(e) \/ CommitFailed(e)
    <3>1. PICK status \in {"ready", "failed"} : Mark(e, status)
      BY <2>2 DEF CommitReady, CommitFailed
    <3>2. /\ DOMAIN envs' = DOMAIN envs /\ Len(envs') = Len(envs)
          /\ envs'[e].status = status
          /\ \A d \in DOMAIN envs : d # e => envs'[d] = envs[d]
      BY <1>0, <1>a, <3>1, MarkType DEF EnvStatus, TypeOK
    <3>3. PICK to \in {"readyEvent", "failEvent"} : WorkerMoves(e, worker[e], to)
      BY <2>2 DEF CommitReady, CommitFailed, WorkerMoves
    <3>4. worker'[e] = to /\ \A d \in DOMAIN envs : d # e => worker'[d] = worker[d]
      BY <1>0, <3>3, MovesType DEF WorkerStep
    <3>5. worker[e] \in {"ready", "fail"} /\ envs[e].status = "provisioning"
      BY <2>2 DEF CommitReady, CommitFailed, WorkerMoves, IInv, WorkerOwnsRow
    <3>6. WorkerOwnsRow'
      BY <3>2, <3>4 DEF IInv, WorkerOwnsRow
    <3>7. CreatorOwnsRow'
      BY <1>b, <2>1, <3>2, <3>4, <3>5 DEF IInv, CreatorOwnsRow
    <3>8. TearFinished'
      BY <1>c, <2>1, <3>2 DEF IInv, TearFinished
    <3>9. NewestActive' /\ RoomToInsert' /\ OneAtATime'
      BY <2>1, <3>2, <3>5 DEF IInv, NewestActive, RoomToInsert, OneAtATime, Active
    <3>10. QED
      BY <1>0, <3>6, <3>7, <3>8, <3>9 DEF IInv
  <2>3. CASE ~(CommitReady(e) \/ CommitFailed(e))
    <3>1. envs' = envs
      BY <1>5, <2>3 DEF Work, WorkerLoads, CreateCluster, AwaitCluster, RecordReady, RecordFailed
    <3>2. PICK to \in {"create", "wait", "ready", "fail", "done"} : WorkerMoves(e, worker[e], to)
      BY <1>5, <2>3 DEF Work, WorkerLoads, CreateCluster, AwaitCluster, RecordReady, RecordFailed,
         WorkerMoves
    <3>3. worker'[e] = to /\ \A d \in DOMAIN envs : d # e => worker'[d] = worker[d]
      BY <1>0, <3>2, MovesType DEF WorkerStep
    <3>4. to = "done" \/ worker[e] \in {"start", "create", "wait"}
      BY <1>5, <2>3, <3>2, <3>3 DEF Work, WorkerLoads, CreateCluster, AwaitCluster, RecordReady,
         RecordFailed, WorkerMoves
    <3>5. worker[e] # "none"
      BY <1>5 DEF Work, WorkerLoads, CreateCluster, AwaitCluster, RecordReady,
         RecordFailed, CommitReady, CommitFailed, WorkerMoves
    <3>6. WorkerOwnsRow'
      BY <3>1, <3>3, <3>4 DEF IInv, WorkerOwnsRow
    <3>7. CreatorOwnsRow'
      BY <1>b, <2>1, <3>1, <3>3, <3>5 DEF IInv, CreatorOwnsRow
    <3>8. QED
      BY <1>0, <2>1, <3>1, <3>6, <3>7
      DEF IInv, TearFinished, NewestActive, RoomToInsert, OneAtATime
  <2>4. QED
    BY <2>2, <2>3
<1>6. ASSUME NEW t \in Tearers, Tear(t) PROVE IInv'
  <2>1. UNCHANGED <<creates, worker>>
    BY <1>6 DEF Tear, StartTeardown, DeleteCluster, CommitTornDown, RecordTornDown, MarkWithoutHost
  <2>2. \A u \in Tearers : u # t => tears'[u] = tears[u]
    BY <1>0, <1>6 DEF Tear, StartTeardown, DeleteCluster, CommitTornDown, RecordTornDown,
       MarkWithoutHost, TypeOK
  <2>3. CASE CommitTornDown(t) \/ MarkWithoutHost(t)
    <3>1. tears[t].env \in DOMAIN envs /\ Mark(tears[t].env, "torn_down") /\ tears[t].step # "idle"
      BY <1>c, <2>3 DEF CommitTornDown, MarkWithoutHost
    <3>2. /\ DOMAIN envs' = DOMAIN envs /\ Len(envs') = Len(envs)
          /\ envs'[tears[t].env].status = "torn_down"
          /\ \A d \in DOMAIN envs : d # tears[t].env => envs'[d] = envs[d]
      BY <1>0, <1>a, <3>1, MarkType DEF EnvStatus, TypeOK
    <3>3. envs[tears[t].env].status # "provisioning"
      BY <3>1 DEF IInv, TearFinished
    <3>4. tears'[t].env = tears[t].env \/ tears'[t].step = "idle"
      BY <1>0, <2>3 DEF CommitTornDown, MarkWithoutHost, TypeOK, TearCall, NoTear
    <3>5. WorkerOwnsRow' /\ CreatorOwnsRow'
      BY <1>b, <2>1, <3>2, <3>3 DEF IInv, WorkerOwnsRow, CreatorOwnsRow
    <3>6. TearFinished'
      BY <1>c, <2>2, <3>2, <3>4 DEF IInv, TearFinished
    <3>7. NewestActive' /\ RoomToInsert' /\ OneAtATime'
      BY <2>1, <3>2 DEF IInv, NewestActive, RoomToInsert, OneAtATime, Active
    <3>8. QED
      BY <1>0, <3>5, <3>6, <3>7 DEF IInv
  <2>4. CASE ~(CommitTornDown(t) \/ MarkWithoutHost(t))
    <3>1. envs' = envs
      BY <1>6, <2>4 DEF Tear, StartTeardown, DeleteCluster, RecordTornDown
    <3>2. tears'[t].step # "idle" => envs[tears'[t].env].status # "provisioning"
      <4>1. CASE StartTeardown(t)
        BY <1>0, <4>1 DEF StartTeardown, TypeOK
      <4>2. CASE DeleteCluster(t) \/ RecordTornDown(t)
        BY <1>0, <4>2 DEF DeleteCluster, RecordTornDown, TypeOK, TearCall, NoTear, IInv, TearFinished
      <4>3. QED
        BY <1>6, <2>4, <4>1, <4>2 DEF Tear
    <3>3. TearFinished'
      BY <2>2, <3>1, <3>2 DEF IInv, TearFinished
    <3>4. QED
      BY <1>0, <2>1, <3>1, <3>3
      DEF IInv, WorkerOwnsRow, CreatorOwnsRow, NewestActive, RoomToInsert, OneAtATime
  <2>5. QED
    BY <2>3, <2>4
<1>7. ASSUME RemoveHost \/ UNCHANGED vars PROVE IInv'
  BY <1>0, <1>7 DEF RemoveHost, vars, IInv, WorkerOwnsRow, CreatorOwnsRow, TearFinished,
     NewestActive, RoomToInsert, OneAtATime
<1>8. ASSUME Crash PROVE IInv'
  <2>1. /\ envs' = envs
        /\ \A c \in Creators : creates'[c].step = "idle"
        /\ \A t \in Tearers : tears'[t].step = "idle"
    BY <1>8 DEF Crash, NoCreate, NoTear
  <2>2. \A e \in DOMAIN envs : worker'[e] \in {"none", "done", "dead"}
    BY <1>0, <1>8, RowsFacts DEF Crash, Finished
  <2>3. QED
    BY <1>0, <2>1, <2>2
    DEF IInv, WorkerOwnsRow, CreatorOwnsRow, TearFinished, NewestActive, RoomToInsert, OneAtATime
<1>9. QED
  BY <1>1, <1>2, <1>3, <1>3a, <1>4, <1>5, <1>6, <1>7, <1>8, Zenon DEF Next, Create, Provision

LEMMA InitIInv == Init => IInv
<1> SUFFICES ASSUME Init PROVE IInv
  OBVIOUS
<1>1. TypeOK
  BY SwitchAssumption
  DEF Init, TypeOK, NoCreate, NoTear, CreateCall, TearCall, EnvRow, SwitchAssumption
<1>2. /\ DOMAIN envs = {}
      /\ \A c \in Creators : creates[c].step = "idle"
      /\ \A t \in Tearers : tears[t].step = "idle"
  BY DEF Init, NoCreate, NoTear
<1>3. QED
  BY <1>1, <1>2
  DEF IInv, WorkerOwnsRow, CreatorOwnsRow, TearFinished, NewestActive, RoomToInsert, OneAtATime

-----------------------------------------------------------------------------
(* The refinement. *)

Statuses == [e \in DOMAIN envs |-> envs[e].status]

LEMMA StatusesType ==
  ASSUME TypeOK PROVE Statuses \in Seq(EnvStatus) /\ Len(Statuses) = Len(envs)
<1>1. /\ Len(envs) \in Nat /\ DOMAIN envs = 1..Len(envs)
      /\ \A e \in 1..Len(envs) : envs[e].status \in EnvStatus
  BY RowsFacts
<1> HIDE DEF EnvStatus
<1>2. QED
  BY <1>1 DEF Statuses

LEMMA LifecycleStep == IInv /\ [Next]_vars => [Lifecycle!Next]_Statuses
<1> SUFFICES ASSUME IInv, [Next]_vars PROVE Lifecycle!Next \/ Statuses' = Statuses
  OBVIOUS
<1>0. /\ TypeOK /\ TypeOK' /\ Len(envs) \in Nat /\ DOMAIN envs = 1..Len(envs)
      /\ DOMAIN envs' = 1..Len(envs')
  <2>1. TypeOK /\ TypeOK'
    BY TypeStep DEF IInv
  <2>2. QED
    BY <2>1, RowsFacts DEF TypeOK
<1>1. ASSUME NEW c \in Creators, InsertEnv(c) PROVE Lifecycle!Request
  <2>1. \A e \in DOMAIN Statuses : Statuses[e] \notin Lifecycle!Active
    BY <1>1 DEF IInv, RoomToInsert, InsertEnv, Statuses, Active, Lifecycle!Active
  <2>2. /\ Len(envs') = Len(envs) + 1
        /\ \A d \in DOMAIN envs : envs'[d] = envs[d]
        /\ envs'[Len(envs) + 1].status = "provisioning"
    BY <1>0, <1>1, AppendType
  <2>3. /\ Statuses \in Seq(EnvStatus) /\ Len(Statuses) = Len(envs)
        /\ Statuses' \in Seq(EnvStatus) /\ Len(Statuses') = Len(envs) + 1
        /\ "provisioning" \in EnvStatus
    <3>1. Statuses' \in Seq(EnvStatus) /\ Len(Statuses') = Len(envs')
      <4>1. envs' \in Seq(EnvRow)
        BY <1>0 DEF TypeOK
      <4>2. \A e \in 1..Len(envs') : envs'[e].status \in EnvStatus
        <5> HIDE DEF EnvStatus
        <5>1. \A e \in 1..Len(envs') : envs'[e] \in EnvRow
          BY <4>1
        <5>2. QED
          BY <5>1 DEF EnvRow
      <4> HIDE DEF EnvStatus
      <4>3. QED
        BY <1>0, <4>1, <4>2 DEF Statuses
    <3>2. QED
      BY <1>0, <2>2, <3>1, StatusesType DEF EnvStatus
  <2>4. /\ \A i \in 1..Len(envs) : Statuses'[i] = Statuses[i]
        /\ Statuses'[Len(envs) + 1] = "provisioning"
    BY <1>0, <2>2 DEF Statuses
  <2>5. Statuses' = Append(Statuses, "provisioning")
    <3> DEFINE old == Statuses
               new == Statuses'
               app == Append(old, "provisioning")
    <3>1. /\ app \in Seq(EnvStatus) /\ Len(app) = Len(envs) + 1
          /\ \A i \in 1..Len(envs) : app[i] = old[i]
          /\ app[Len(envs) + 1] = "provisioning"
      <4> HIDE DEF old, EnvStatus
      <4>1. old \in Seq(EnvStatus) /\ Len(old) = Len(envs) /\ "provisioning" \in EnvStatus
        BY <2>3 DEF old
      <4>2. QED
        BY <4>1, AppendProperties
    <3>2. \A i \in 1..Len(app) : new[i] = app[i]
      BY <1>0, <2>4, <3>1
    <3>3. new \in Seq(EnvStatus) /\ Len(new) = Len(app)
      BY <2>3, <3>1
    <3> HIDE DEF old, new, app, EnvStatus
    <3>4. new = app
      BY <3>1, <3>2, <3>3, SeqEqual
    <3>5. QED
      BY <3>4 DEF old, new, app
  <2>6. QED
    BY <2>1, <2>5, Zenon DEF Lifecycle!Request, Statuses
<1>2. ASSUME NEW e \in DOMAIN envs, NEW status \in EnvStatus, Mark(e, status)
      PROVE  e \in DOMAIN Statuses /\ Statuses' = [Statuses EXCEPT ![e] = status]
  <2>1. /\ DOMAIN envs' = DOMAIN envs /\ envs'[e].status = status
        /\ \A d \in DOMAIN envs : d # e => envs'[d] = envs[d]
    BY <1>0, <1>2, MarkType
  <2>2. QED
    BY <2>1 DEF Statuses
<1>3. ASSUME NEW e \in DOMAIN envs, CommitReady(e) \/ CommitFailed(e) PROVE Lifecycle!Finish(e)
  <2>1. PICK status \in {"ready", "failed"} : Mark(e, status)
    BY <1>3 DEF CommitReady, CommitFailed
  <2>2. Statuses' = [Statuses EXCEPT ![e] = status]
    BY <1>2, <2>1 DEF EnvStatus
  <2>3. Statuses[e] = "provisioning"
    BY <1>3 DEF IInv, WorkerOwnsRow, CommitReady, CommitFailed, WorkerMoves, Statuses
  <2>4. QED
    BY <2>2, <2>3 DEF Lifecycle!Finish, Statuses
<1>4. ASSUME NEW t \in Tearers, CommitTornDown(t) \/ MarkWithoutHost(t)
      PROVE  tears[t].env \in DOMAIN Statuses /\ Lifecycle!TearDown(tears[t].env)
  <2>1. tears[t].env \in DOMAIN envs /\ Mark(tears[t].env, "torn_down")
    BY <1>0, <1>4 DEF CommitTornDown, MarkWithoutHost, TypeOK
  <2>2. QED
    BY <1>2, <2>1 DEF EnvStatus, Lifecycle!TearDown, Statuses
<1>5. ASSUME (\E c \in Creators : NameEnv(c)) \/ envs' = envs PROVE Statuses' = Statuses
  BY <1>0, <1>5, NameType DEF Statuses
<1>6. DOMAIN Statuses = DOMAIN envs
  BY DEF Statuses
<1>7. (\E e \in DOMAIN Statuses : Lifecycle!Finish(e) \/ Lifecycle!TearDown(e)) \/ Lifecycle!Request
        => Lifecycle!Next
  BY Zenon DEF Lifecycle!Next, Statuses
<1>8. CASE \E c \in Creators : InsertEnv(c)
  BY <1>1, <1>7, <1>8
<1>9. CASE \E e \in DOMAIN envs : CommitReady(e) \/ CommitFailed(e)
  BY <1>3, <1>6, <1>7, <1>9, Zenon
<1>10. CASE \E t \in Tearers : CommitTornDown(t) \/ MarkWithoutHost(t)
  <2>1. PICK t \in Tearers : CommitTornDown(t) \/ MarkWithoutHost(t)
    BY <1>10
  <2>2. \E e \in DOMAIN Statuses : Lifecycle!TearDown(e)
    <3>1. tears[t].env \in DOMAIN Statuses /\ Lifecycle!TearDown(tears[t].env)
      BY <1>4, <2>1
    <3>2. QED
      BY <3>1 DEF Lifecycle!TearDown
  <2>3. QED
    BY <1>7, <2>2, Zenon
<1>11. QED
  BY <1>5, <1>8, <1>9, <1>10, RowSteps

\* Where a teardown waits for the worker and a create call for the one before
\* it, environments follow the lifecycle: one active at a time, a worker
\* finishes once, torn down is final -- for any number of environments, with
\* crashes and with a host cluster that may go.
THEOREM EnvironmentsImplementLifecycle == OneCreator /\ Patient => (Spec => ImplementsLifecycle)
<1> SUFFICES ASSUME OneCreator, Patient PROVE Spec => ImplementsLifecycle
  OBVIOUS
<1>1. Init => Lifecycle!Init
  BY DEF Init, Lifecycle!Init
<1>2. IInv /\ [Next]_vars => IInv'
  BY InvStep
<1>3. IInv /\ [Next]_vars => [Lifecycle!Next]_Statuses
  BY LifecycleStep
<1>4. Spec => []IInv
  BY InitIInv, <1>2, PTL DEF Spec
<1>5. QED
  BY <1>1, <1>3, <1>4, PTL DEF Spec, ImplementsLifecycle, Lifecycle!Spec, Statuses
-----------------------------------------------------------------------------
(* While the process does not stop, what is handed out as ready is there,  *)
(* however teardowns, workers and create calls overlap.                    *)

Recorded(kind, e) == \E h \in history : h.kind = kind /\ h.env = e

\* A teardown has deleted the virtual cluster and will say so, or has said so.
DeletionKnown(e) ==
  \/ \E t \in Tearers : tears[t].env = e /\ tears[t].step \in {"mark", "event"}
  \/ Recorded("torn_down", e)

\* What is ready, or about to be: the worker has found the cluster.
LiveInv ==
  /\ TypeOK
  /\ \A e \in DOMAIN envs :
       worker[e] = "ready" \/ envs[e].status = "ready" => e \in cluster \/ DeletionKnown(e)

\* The history only grows, and by the event that is recorded.
LEMMA EventFacts ==
  ASSUME NEW kind, NEW e, Event(kind, e)
  PROVE  \A k, d : Recorded(k, d)' <=> Recorded(k, d) \/ (k = kind /\ d = e)
<1> DEFINE h == [kind |-> kind, env |-> e]
<1>1. h.kind = kind /\ h.env = e /\ history' = history \cup {h}
  BY DEF Event
<1> HIDE DEF h
<1>2. QED
  BY <1>1 DEF Recorded

\* Only a teardown's own steps move it, and the last one leaves its event.
LEMMA DeletionStaysKnown ==
  ASSUME TypeOK, ~MayCrash, [Next]_vars, NEW e, DeletionKnown(e)
  PROVE  DeletionKnown(e)'
<1>1. ASSUME NEW t \in Tearers, Tear(t) PROVE DeletionKnown(e)'
  <2>1. \A u \in Tearers : u # t => tears'[u] = tears[u]
    BY <1>1 DEF Tear, StartTeardown, DeleteCluster, CommitTornDown, RecordTornDown,
       MarkWithoutHost, TypeOK
  <2>2. CASE RecordTornDown(t)
    <3>1. Event("torn_down", tears[t].env)
      BY <2>2 DEF RecordTornDown
    <3>2. QED
      BY <2>1, <3>1, EventFacts DEF DeletionKnown
  <2>3. CASE ~RecordTornDown(t)
    <3>1. history' = history
      BY <1>1, <2>3 DEF Tear, StartTeardown, DeleteCluster, CommitTornDown, MarkWithoutHost
    <3>2. tears[t].step \in {"mark", "event"} =>
            tears'[t].env = tears[t].env /\ tears'[t].step \in {"mark", "event"}
      BY <1>1, <2>3 DEF Tear, StartTeardown, DeleteCluster, CommitTornDown, MarkWithoutHost,
         TypeOK, TearCall
    <3>3. QED
      BY <2>1, <3>1, <3>2 DEF DeletionKnown, Recorded
  <2>4. QED
    BY <2>2, <2>3
<1>2. ASSUME NEW c \in Creators, Create(c) PROVE DeletionKnown(e)'
  <2>1. tears' = tears /\ history \subseteq history'
    BY <1>2 DEF Create, Provision, CheckCreate, InsertEnv, NameEnv, SpawnWorker, LoseHost,
       RecordRequested, Event
  <2>2. QED
    BY <2>1 DEF DeletionKnown, Recorded
<1>3. ASSUME NEW d \in DOMAIN envs, Work(d) PROVE DeletionKnown(e)'
  <2>1. tears' = tears /\ history \subseteq history'
    BY <1>3 DEF Work, WorkerLoads, CreateCluster, AwaitCluster, CommitReady, RecordReady,
       CommitFailed, RecordFailed, Event
  <2>2. QED
    BY <2>1 DEF DeletionKnown, Recorded
<1>4. ASSUME RemoveHost \/ UNCHANGED vars PROVE DeletionKnown(e)'
  BY <1>4 DEF RemoveHost, vars, DeletionKnown, Recorded
<1>5. QED
  BY <1>1, <1>2, <1>3, <1>4, Zenon DEF Next, Crash

LEMMA LiveStep == ~MayCrash /\ LiveInv /\ [Next]_vars => LiveInv'
<1> SUFFICES ASSUME ~MayCrash, LiveInv, [Next]_vars PROVE LiveInv'
  OBVIOUS
<1>0. TypeOK /\ TypeOK' /\ Len(envs) \in Nat /\ DOMAIN envs = 1..Len(envs)
  BY TypeStep, RowsFacts DEF LiveInv
<1>a. \A e \in DOMAIN envs :
        worker[e] = "ready" \/ envs[e].status = "ready" => e \in cluster \/ DeletionKnown(e)'
  BY <1>0, DeletionStaysKnown DEF LiveInv
<1>1. ASSUME NEW c \in Creators, InsertEnv(c) PROVE LiveInv'
  <2>1. /\ Len(envs') = Len(envs) + 1 /\ envs' \in Seq(EnvRow)
        /\ \A d \in DOMAIN envs : envs'[d] = envs[d] /\ worker'[d] = worker[d]
        /\ envs'[Len(envs) + 1].status = "provisioning" /\ worker'[Len(envs) + 1] = "none"
    BY <1>0, <1>1, AppendType
  <2>2. cluster' = cluster /\ DOMAIN envs' = 1..(Len(envs) + 1)
    BY <1>1, <2>1 DEF InsertEnv
  <2>3. QED
    BY <1>0, <1>a, <2>1, <2>2 DEF LiveInv
<1>2. ASSUME NEW c \in Creators, NameEnv(c) \/ SpawnWorker(c) PROVE LiveInv'
  <2>1. /\ DOMAIN envs' = DOMAIN envs /\ cluster' = cluster
        /\ \A d \in DOMAIN envs : envs'[d].status = envs[d].status
        /\ \A d \in DOMAIN envs : worker'[d] = "start" \/ worker'[d] = worker[d]
    BY <1>0, <1>2, NameType, SpawnType DEF NameEnv, SpawnWorker
  <2>2. QED
    BY <1>0, <1>a, <2>1 DEF LiveInv
<1>3. ASSUME NEW e \in DOMAIN envs, Work(e) PROVE LiveInv'
  <2>1. cluster \subseteq cluster'
    BY <1>3 DEF Work, WorkerLoads, CreateCluster, AwaitCluster, CommitReady, RecordReady,
       CommitFailed, RecordFailed
  <2>2. /\ DOMAIN envs' = DOMAIN envs
        /\ \A d \in DOMAIN envs : d # e => envs'[d] = envs[d] /\ worker'[d] = worker[d]
    <3>1. (\E status \in EnvStatus : Mark(e, status)) \/ envs' = envs
      BY <1>3 DEF Work, WorkerLoads, CreateCluster, AwaitCluster, CommitReady, RecordReady,
         CommitFailed, RecordFailed, EnvStatus
    <3>2. PICK to \in WorkerStep : WorkerMoves(e, worker[e], to)
      BY <1>3 DEF Work, WorkerMoves, WorkerStep, WorkerLoads, CreateCluster, AwaitCluster,
         CommitReady, RecordReady, CommitFailed, RecordFailed
    <3>3. QED
      BY <1>0, <3>1, <3>2, MarkType, MovesType
  <2>3. worker'[e] = "ready" \/ envs'[e].status = "ready" =>
          worker[e] = "ready" \/ envs[e].status = "ready" \/ e \in cluster
    <3>1. CASE CommitReady(e)
      BY <3>1 DEF CommitReady, WorkerMoves
    <3>2. CASE CommitFailed(e)
      <4>1. envs'[e].status = "failed"
        BY <1>0, <3>2, MarkType DEF CommitFailed, EnvStatus
      <4>2. worker'[e] = "failEvent"
        BY <1>0, <3>2, MovesType DEF CommitFailed, WorkerStep
      <4>3. QED
        BY <4>1, <4>2
    <3>3. CASE ~(CommitReady(e) \/ CommitFailed(e))
      <4>1. envs' = envs
        BY <1>3, <3>3 DEF Work, WorkerLoads, CreateCluster, AwaitCluster, RecordReady, RecordFailed
      <4>2. \/ e \in cluster
            \/ \E to \in {"create", "done", "wait", "fail"} : WorkerMoves(e, worker[e], to)
        BY <1>3, <3>3 DEF Work, WorkerLoads, CreateCluster, AwaitCluster, RecordReady,
           RecordFailed, WorkerMoves
      <4>3. e \in cluster \/ worker'[e] # "ready"
        BY <1>0, <4>2, MovesType DEF WorkerStep
      <4>4. QED
        BY <4>1, <4>3
    <3>4. QED
      BY <3>1, <3>2, <3>3
  <2>4. QED
    BY <1>0, <1>a, <2>1, <2>2, <2>3 DEF LiveInv
<1>4. ASSUME NEW t \in Tearers, Tear(t) PROVE LiveInv'
  <2>1. worker' = worker
    BY <1>4 DEF Tear, StartTeardown, DeleteCluster, CommitTornDown, RecordTornDown, MarkWithoutHost
  <2>2. /\ DOMAIN envs' = DOMAIN envs
        /\ \A d \in DOMAIN envs : envs'[d] = envs[d] \/ envs'[d].status = "torn_down"
    <3>1. \/ envs' = envs
          \/ tears[t].env \in DOMAIN envs /\ Mark(tears[t].env, "torn_down")
      BY <1>0, <1>4 DEF Tear, StartTeardown, DeleteCluster, CommitTornDown, RecordTornDown,
         MarkWithoutHost, TypeOK
    <3>2. QED
      BY <1>0, <3>1, MarkType DEF EnvStatus
  <2>3. \A d \in cluster : d \in cluster' \/ DeletionKnown(d)'
    <3>1. CASE DeleteCluster(t)
      <4>1. tears'[t].env = tears[t].env /\ tears'[t].step = "mark"
        BY <1>0, <3>1 DEF DeleteCluster, TypeOK, TearCall
      <4>2. QED
        BY <3>1, <4>1 DEF DeleteCluster, DeletionKnown
    <3>2. CASE ~DeleteCluster(t)
      BY <1>4, <3>2 DEF Tear, StartTeardown, CommitTornDown, RecordTornDown, MarkWithoutHost
    <3>3. QED
      BY <3>1, <3>2
  <2>4. QED
    BY <1>0, <1>a, <2>1, <2>2, <2>3 DEF LiveInv
<1>5. ASSUME UNCHANGED <<envs, worker, cluster>> PROVE LiveInv'
  BY <1>0, <1>5, <1>a DEF LiveInv
<1>6. \/ UNCHANGED <<envs, worker, cluster>>
      \/ \E c \in Creators : InsertEnv(c) \/ NameEnv(c) \/ SpawnWorker(c)
      \/ \E e \in DOMAIN envs : Work(e)
      \/ \E t \in Tearers : Tear(t)
  BY DEF Next, Create, Provision, CheckCreate, LoseHost, RecordRequested, RemoveHost, Crash, vars
<1>7. QED
  BY <1>1, <1>2, <1>3, <1>4, <1>5, <1>6, Zenon

\* While the process does not stop, a ready environment has its cluster, or a
\* teardown has said, or is about to say, that it deleted it: for any number of
\* overlapping calls, and with a host cluster that may go.
THEOREM ReadyEnvironmentsAreLive == ~MayCrash => (Spec => []ReadyIsLive)
<1> SUFFICES ASSUME ~MayCrash PROVE Spec => []ReadyIsLive
  OBVIOUS
<1>1. Init => LiveInv
  <2>1. Init => DOMAIN envs = {}
    BY DEF Init
  <2>2. Init => TypeOK
    BY InitIInv DEF IInv
  <2>3. QED
    BY <2>1, <2>2 DEF LiveInv
<1>2. LiveInv /\ [Next]_vars => LiveInv'
  BY LiveStep
<1>3. LiveInv => ReadyIsLive
  BY DEF LiveInv, ReadyIsLive, DeletionKnown, Recorded
<1>4. QED
  BY <1>1, <1>2, <1>3, PTL DEF Spec
-----------------------------------------------------------------------------
(* While the process does not stop and the host cluster stays, the history *)
(* accounts for every row: an event that is missing is one that a call or  *)
(* a worker is still about to write.                                       *)

\* The call is about to start the environment's worker.
Starting(c, e) == creates[c].step \in {"name", "spawn"} /\ creates[c].env = e

Accounted(e) ==
  /\ \/ Recorded("requested", e)
     \/ \E c \in Creators : creates[c].step \in {"name", "spawn", "event"} /\ creates[c].env = e
  /\ envs[e].status = "provisioning" =>
       \/ worker[e] \in {"start", "create", "wait", "ready", "fail"}
       \/ \E c \in Creators : Starting(c, e)
  /\ envs[e].status = "ready" => worker[e] = "readyEvent" \/ Recorded("ready", e)
  /\ envs[e].status = "failed" => worker[e] = "failEvent" \/ Recorded("failed", e)
  /\ envs[e].status = "torn_down" =>
       \/ \E t \in Tearers : tears[t].step = "event" /\ tears[t].env = e
       \/ Recorded("torn_down", e)

\* A worker has one outcome, and is done when that is recorded.
OneOutcome ==
  /\ \A e : Recorded("ready", e) \/ Recorded("failed", e) =>
              e \in DOMAIN envs /\ worker[e] = "done"
  /\ \A e : ~(Recorded("ready", e) /\ Recorded("failed", e))

\* Every worker is started by one call, which finds it not started.
StartedOnce ==
  /\ \A c \in Creators : creates[c].step \in {"name", "spawn"} => worker[creates[c].env] = "none"
  /\ \A c, d \in Creators :
       creates[c].step \in {"name", "spawn"} /\ Starting(d, creates[c].env) => c = d

HostStays == host /\ \A t \in Tearers : tears[t].step # "markOnly"

AccountInv ==
  TypeOK /\ HostStays /\ StartedOnce /\ OneOutcome /\ \A e \in DOMAIN envs : Accounted(e)

LEMMA AccountStep == ~MayCrash /\ ~HostMayGo /\ AccountInv /\ [Next]_vars => AccountInv'
<1> SUFFICES ASSUME ~MayCrash, ~HostMayGo, AccountInv, [Next]_vars PROVE AccountInv'
  OBVIOUS
<1>0. TypeOK /\ TypeOK' /\ Len(envs) \in Nat /\ DOMAIN envs = 1..Len(envs)
  BY TypeStep, RowsFacts DEF AccountInv
<1>a. HostStays /\ StartedOnce /\ OneOutcome /\ \A e \in DOMAIN envs : Accounted(e)
  BY DEF AccountInv
<1>b. \A c \in Creators : creates[c].step \in {"name", "spawn", "event"} => creates[c].env \in DOMAIN envs
  BY <1>0 DEF TypeOK
<1>c. \A e \in DOMAIN envs : envs[e].status \in EnvStatus
  BY <1>0, RowsFacts
<1>1. ASSUME NEW c \in Creators, CheckCreate(c) PROVE AccountInv'
  <2>1. /\ UNCHANGED <<envs, worker, tears, host, history>>
        /\ creates[c].step = "idle" /\ creates'[c].step = "insert"
        /\ \A d \in Creators : d # c => creates'[d] = creates[d]
    BY <1>0, <1>1 DEF CheckCreate, TypeOK, CreateCall
  <2>2. HostStays' /\ OneOutcome'
    BY <1>a, <2>1 DEF HostStays, OneOutcome, Recorded
  <2>3. StartedOnce'
    BY <1>a, <2>1 DEF StartedOnce, Starting
  <2>4. ASSUME NEW e \in DOMAIN envs PROVE Accounted(e)'
    BY <1>a, <2>1 DEF Accounted, Starting, Recorded
  <2>5. QED
    BY <1>0, <2>1, <2>2, <2>3, <2>4 DEF AccountInv
<1>2. ASSUME NEW c \in Creators, InsertEnv(c) PROVE AccountInv'
  <2>0. PICK new : new = Len(envs) + 1
    OBVIOUS
  <2>1. /\ Len(envs') = new /\ envs' \in Seq(EnvRow)
        /\ \A d \in DOMAIN envs : envs'[d] = envs[d] /\ worker'[d] = worker[d]
        /\ envs'[new].status = "provisioning" /\ worker'[new] = "none"
    BY <1>0, <1>2, <2>0, AppendType
  <2>2. DOMAIN envs' = DOMAIN envs \cup {new} /\ new \notin DOMAIN envs
    BY <1>0, <2>0, <2>1
  <2>3. /\ UNCHANGED <<tears, host, history>>
        /\ creates[c].step = "insert" /\ creates'[c].step = "name" /\ creates'[c].env = new
        /\ \A d \in Creators : d # c => creates'[d] = creates[d]
    BY <1>0, <1>2, <2>0 DEF InsertEnv, TypeOK
  <2>4. HostStays' /\ OneOutcome'
    BY <1>a, <2>1, <2>2, <2>3 DEF HostStays, OneOutcome, Recorded
  <2>5. StartedOnce'
    <3>1. \A d \in Creators : creates'[d].step \in {"name", "spawn"} => worker'[creates'[d].env] = "none"
      BY <1>a, <1>b, <2>1, <2>3 DEF StartedOnce
    <3>2. \A d, f \in Creators :
            creates'[d].step \in {"name", "spawn"} /\ creates'[f].step \in {"name", "spawn"}
              /\ creates'[f].env = creates'[d].env
              => d = f
      BY <1>a, <1>b, <2>2, <2>3 DEF StartedOnce, Starting
    <3>3. QED
      BY <3>1, <3>2 DEF StartedOnce, Starting
  <2>6. ASSUME NEW e \in DOMAIN envs PROVE Accounted(e)'
    BY <1>a, <2>1, <2>3 DEF Accounted, Starting, Recorded
  <2>7. Accounted(new)'
    BY <2>1, <2>3 DEF Accounted, Starting
  <2>8. QED
    BY <1>0, <2>2, <2>4, <2>5, <2>6, <2>7 DEF AccountInv
<1>3. ASSUME NEW c \in Creators, NameEnv(c) PROVE AccountInv'
  <2>1. /\ DOMAIN envs' = DOMAIN envs /\ UNCHANGED <<worker, tears, host, history>>
        /\ \A d \in DOMAIN envs : envs'[d].status = envs[d].status
    BY <1>0, <1>3, NameType DEF NameEnv
  <2>2. /\ creates[c].step = "name" /\ creates'[c].step = "spawn" /\ creates'[c].env = creates[c].env
        /\ \A d \in Creators : d # c => creates'[d] = creates[d]
    BY <1>0, <1>3 DEF NameEnv, TypeOK, CreateCall
  <2>3. HostStays' /\ OneOutcome'
    BY <1>a, <2>1 DEF HostStays, OneOutcome, Recorded
  <2>4. StartedOnce'
    BY <1>a, <2>1, <2>2 DEF StartedOnce, Starting
  <2>5. ASSUME NEW e \in DOMAIN envs PROVE Accounted(e)'
    BY <1>a, <2>1, <2>2 DEF Accounted, Starting, Recorded
  <2> QED BY <1>0, <2>1, <2>3, <2>4, <2>5 DEF AccountInv
<1>3a. ASSUME NEW c \in Creators, SpawnWorker(c) PROVE AccountInv'
  <2>0. PICK named : named = creates[c].env
    OBVIOUS
  <2>1. /\ named \in DOMAIN envs /\ envs' = envs
        /\ worker'[named] = "start"
        /\ \A d \in DOMAIN envs : d # named => worker'[d] = worker[d]
    BY <1>0, <1>3a, <2>0, SpawnType DEF SpawnWorker
  <2>2. /\ UNCHANGED <<tears, host, history>>
        /\ creates[c].step = "spawn" /\ creates'[c].step = "event" /\ creates'[c].env = named
        /\ \A d \in Creators : d # c => creates'[d] = creates[d]
    BY <1>0, <1>3a, <2>0 DEF SpawnWorker, TypeOK, CreateCall
  <2>3. worker[named] = "none" /\ \A d \in Creators : creates[d].step \in {"name", "spawn"} /\ d # c => creates[d].env # named
    BY <1>a, <2>0, <2>2 DEF StartedOnce, Starting
  <2>4. HostStays' /\ OneOutcome'
    BY <1>a, <2>1, <2>2, <2>3 DEF HostStays, OneOutcome, Recorded
  <2>5. StartedOnce'
    BY <1>a, <1>b, <2>1, <2>2, <2>3 DEF StartedOnce, Starting
  <2>6. ASSUME NEW e \in DOMAIN envs, e # named PROVE Accounted(e)'
    <3>1. creates[c].env # e
      BY <2>0, <2>6
    <3>2. QED
      BY <1>a, <2>1, <2>2, <2>6, <3>1 DEF Accounted, Starting, Recorded
  <2>7. Accounted(named)'
    BY <1>a, <2>1, <2>2, <2>3 DEF Accounted, Starting, Recorded
  <2>8. QED
    BY <1>0, <2>1, <2>4, <2>5, <2>6, <2>7 DEF AccountInv
<1>3b. ASSUME NEW c \in Creators, LoseHost(c) PROVE AccountInv'
  BY <1>3b, <1>a DEF LoseHost, HostStays
<1>4. ASSUME NEW c \in Creators, RecordRequested(c) PROVE AccountInv'
  <2>1. /\ UNCHANGED <<envs, worker, tears, host>>
        /\ creates[c].step = "event" /\ creates'[c].step = "idle"
        /\ \A d \in Creators : d # c => creates'[d] = creates[d]
        /\ Event("requested", creates[c].env)
    BY <1>0, <1>4 DEF RecordRequested, TypeOK, NoCreate
  <2>2. \A k, d : Recorded(k, d)' <=> Recorded(k, d) \/ (k = "requested" /\ d = creates[c].env)
    BY <2>1, EventFacts
  <2>3. HostStays' /\ OneOutcome'
    BY <1>a, <2>1, <2>2 DEF HostStays, OneOutcome
  <2>4. StartedOnce'
    BY <1>a, <2>1 DEF StartedOnce, Starting
  <2>5. ASSUME NEW e \in DOMAIN envs PROVE Accounted(e)'
    BY <1>a, <2>1, <2>2 DEF Accounted, Starting
  <2>6. QED
    BY <1>0, <2>1, <2>3, <2>4, <2>5 DEF AccountInv
<1>5. ASSUME NEW e \in DOMAIN envs, Work(e) PROVE AccountInv'
  <2>1. UNCHANGED <<creates, tears, host>>
    BY <1>5 DEF Work, WorkerLoads, CreateCluster, AwaitCluster, CommitReady, RecordReady,
       CommitFailed, RecordFailed
  <2>2. /\ DOMAIN envs' = DOMAIN envs
        /\ \A d \in DOMAIN envs : d # e => envs'[d] = envs[d] /\ worker'[d] = worker[d]
    <3>1. (\E status \in EnvStatus : Mark(e, status)) \/ envs' = envs
      BY <1>5 DEF Work, WorkerLoads, CreateCluster, AwaitCluster, CommitReady, RecordReady,
         CommitFailed, RecordFailed, EnvStatus
    <3>2. PICK to \in WorkerStep : WorkerMoves(e, worker[e], to)
      BY <1>5 DEF Work, WorkerMoves, WorkerStep, WorkerLoads, CreateCluster, AwaitCluster,
         CommitReady, RecordReady, CommitFailed, RecordFailed
    <3>3. QED
      BY <1>0, <3>1, <3>2, MarkType, MovesType
  <2>3. worker[e] \notin {"none", "done"}
    BY <1>5 DEF Work, WorkerLoads, CreateCluster, AwaitCluster, CommitReady, RecordReady,
       CommitFailed, RecordFailed, WorkerMoves
  <2>4. ~Recorded("ready", e) /\ ~Recorded("failed", e) /\ \A c \in Creators : ~Starting(c, e)
    BY <1>a, <2>3 DEF OneOutcome, StartedOnce, Starting
  <2>5. HostStays' /\ StartedOnce'
    BY <1>a, <1>b, <2>1, <2>2, <2>4 DEF HostStays, StartedOnce, Starting
  <2>6. CASE \/ RecordReady(e) /\ worker[e] = "readyEvent"
             \/ RecordFailed(e) /\ worker[e] = "failEvent"
    <3>1. PICK kind \in {"ready", "failed"} :
            /\ Event(kind, e) /\ worker[e] = IF kind = "ready" THEN "readyEvent" ELSE "failEvent"
            /\ envs' = envs /\ WorkerMoves(e, worker[e], "done")
      BY <2>6 DEF RecordReady, RecordFailed
    <3>2. worker'[e] = "done"
      BY <1>0, <3>1, MovesType DEF WorkerStep
    <3>3. \A k, d : Recorded(k, d)' <=> Recorded(k, d) \/ (k = kind /\ d = e)
      BY <3>1, EventFacts
    <3>4. OneOutcome'
      BY <1>a, <2>2, <2>4, <3>2, <3>3 DEF OneOutcome
    <3>5. ASSUME NEW d \in DOMAIN envs, d # e PROVE Accounted(d)'
      BY <1>a, <2>1, <2>2, <3>3, <3>5 DEF Accounted, Starting
    <3>6. Accounted(e)'
      BY <1>a, <2>1, <2>4, <3>1, <3>2, <3>3 DEF Accounted, Starting
    <3>7. QED
      BY <1>0, <2>2, <2>5, <3>4, <3>5, <3>6 DEF AccountInv
  <2>7. CASE CommitReady(e) \/ CommitFailed(e)
    <3>1. PICK status \in {"ready", "failed"} :
            /\ Mark(e, status) /\ history' = history
            /\ WorkerMoves(e, worker[e], IF status = "ready" THEN "readyEvent" ELSE "failEvent")
      BY <2>7 DEF CommitReady, CommitFailed, WorkerMoves
    <3>2. envs'[e].status = status
      BY <1>0, <3>1, MarkType DEF EnvStatus
    <3>3. worker'[e] = IF status = "ready" THEN "readyEvent" ELSE "failEvent"
      BY <1>0, <3>1, MovesType DEF WorkerStep
    <3>4. OneOutcome'
      BY <1>a, <2>2, <2>4, <3>1 DEF OneOutcome, Recorded
    <3>5. ASSUME NEW d \in DOMAIN envs, d # e PROVE Accounted(d)'
      BY <1>a, <2>1, <2>2, <3>1, <3>5 DEF Accounted, Starting, Recorded
    <3>6. Accounted(e)'
      BY <1>a, <2>1, <3>1, <3>2, <3>3 DEF Accounted, Recorded
    <3>7. QED
      BY <1>0, <2>2, <2>5, <3>4, <3>5, <3>6 DEF AccountInv
  <2>8. CASE WorkerLoads(e) \/ CreateCluster(e) \/ AwaitCluster(e)
    <3>1. envs' = envs /\ history' = history
      BY <2>8 DEF WorkerLoads, CreateCluster, AwaitCluster
    <3>2. PICK to \in {"create", "wait", "ready", "fail"} : WorkerMoves(e, worker[e], to)
      BY <1>a, <2>8 DEF WorkerLoads, CreateCluster, AwaitCluster, WorkerMoves, HostStays
    <3>3. worker'[e] = to /\ worker[e] \notin {"readyEvent", "failEvent"}
      <4>1. worker'[e] = to
        BY <1>0, <3>2, MovesType DEF WorkerStep
      <4>2. QED
        BY <2>8, <4>1 DEF WorkerLoads, CreateCluster, AwaitCluster, WorkerMoves
    <3>4. OneOutcome'
      BY <1>a, <2>2, <2>4, <3>1 DEF OneOutcome, Recorded
    <3>5. ASSUME NEW d \in DOMAIN envs, d # e PROVE Accounted(d)'
      BY <1>a, <2>1, <2>2, <3>1, <3>5 DEF Accounted, Starting, Recorded
    <3>6. Accounted(e)'
      BY <1>a, <2>1, <3>1, <3>3 DEF Accounted, Recorded
    <3>7. QED
      BY <1>0, <2>2, <2>5, <3>4, <3>5, <3>6 DEF AccountInv
  <2>9. QED
    BY <1>5, <2>6, <2>7, <2>8 DEF Work, RecordReady, RecordFailed, WorkerMoves
<1>6. ASSUME NEW t \in Tearers, Tear(t) PROVE AccountInv'
  <2>1. UNCHANGED <<creates, worker, host>>
    BY <1>6 DEF Tear, StartTeardown, DeleteCluster, CommitTornDown, RecordTornDown, MarkWithoutHost
  <2>2. \A u \in Tearers : u # t => tears'[u] = tears[u]
    BY <1>0, <1>6 DEF Tear, StartTeardown, DeleteCluster, CommitTornDown, RecordTornDown,
       MarkWithoutHost, TypeOK
  <2>3. tears'[t].step # "markOnly"
    <3>1. CASE StartTeardown(t)
      BY <1>0, <1>a, <3>1 DEF StartTeardown, TypeOK, HostStays
    <3>2. CASE ~StartTeardown(t)
      BY <1>0, <1>6, <3>2 DEF Tear, DeleteCluster, CommitTornDown, RecordTornDown,
         MarkWithoutHost, TypeOK, TearCall, NoTear
    <3>3. QED
      BY <3>1, <3>2
  <2>4. HostStays'
    BY <1>a, <2>1, <2>2, <2>3 DEF HostStays
  <2>5. StartedOnce'
    BY <1>a, <2>1 DEF StartedOnce, Starting
  <2>6. CASE CommitTornDown(t)
    <3>0. PICK e : e = tears[t].env
      OBVIOUS
    <3>1. /\ e \in DOMAIN envs /\ Mark(e, "torn_down") /\ history' = history
          /\ tears'[t].step = "event" /\ tears'[t].env = e /\ tears[t].step = "mark"
      BY <1>0, <2>6, <3>0 DEF CommitTornDown, TypeOK, TearCall
    <3>2. /\ DOMAIN envs' = DOMAIN envs /\ envs'[e].status = "torn_down"
          /\ \A d \in DOMAIN envs : d # e => envs'[d] = envs[d]
      BY <1>0, <3>1, MarkType DEF EnvStatus
    <3>3. OneOutcome'
      BY <1>a, <2>1, <3>1, <3>2 DEF OneOutcome, Recorded
    <3>4. ASSUME NEW d \in DOMAIN envs, d # e PROVE Accounted(d)'
      BY <1>a, <2>1, <2>2, <3>1, <3>2, <3>4 DEF Accounted, Starting, Recorded
    <3>5. Accounted(e)'
      BY <1>a, <2>1, <3>1, <3>2 DEF Accounted, Recorded
    <3>6. QED
      BY <1>0, <2>4, <2>5, <3>2, <3>3, <3>4, <3>5 DEF AccountInv
  <2>7. CASE RecordTornDown(t)
    <3>1. envs' = envs /\ Event("torn_down", tears[t].env) /\ tears'[t].step = "idle"
      BY <1>0, <2>7 DEF RecordTornDown, NoTear, TypeOK
    <3>2. \A k, d : Recorded(k, d)' <=> Recorded(k, d) \/ (k = "torn_down" /\ d = tears[t].env)
      BY <3>1, EventFacts
    <3>3. OneOutcome'
      BY <1>a, <2>1, <3>1, <3>2 DEF OneOutcome
    <3>4. ASSUME NEW d \in DOMAIN envs PROVE Accounted(d)'
      BY <1>a, <2>1, <2>2, <3>1, <3>2 DEF Accounted, Starting
    <3>5. QED
      BY <1>0, <2>4, <2>5, <3>1, <3>3, <3>4 DEF AccountInv
  <2>8. CASE StartTeardown(t) \/ DeleteCluster(t)
    <3>1. envs' = envs /\ history' = history /\ tears[t].step # "event"
      BY <2>8 DEF StartTeardown, DeleteCluster
    <3>2. OneOutcome'
      BY <1>a, <2>1, <3>1 DEF OneOutcome, Recorded
    <3>3. ASSUME NEW d \in DOMAIN envs PROVE Accounted(d)'
      BY <1>a, <2>1, <2>2, <3>1 DEF Accounted, Starting, Recorded
    <3>4. QED
      BY <1>0, <2>4, <2>5, <3>1, <3>2, <3>3 DEF AccountInv
  <2>9. QED
    BY <1>6, <1>a, <2>6, <2>7, <2>8 DEF Tear, MarkWithoutHost, HostStays
<1>7. ASSUME UNCHANGED vars PROVE AccountInv'
  <2>1. ASSUME NEW d \in DOMAIN envs PROVE Accounted(d)'
    BY <1>7, <1>a DEF vars, Accounted, Starting, Recorded
  <2>2. HostStays' /\ StartedOnce' /\ OneOutcome'
    BY <1>7, <1>a DEF vars, HostStays, StartedOnce, Starting, OneOutcome, Recorded
  <2>3. QED
    BY <1>0, <1>7, <2>1, <2>2 DEF AccountInv, vars
<1>8. QED
  BY <1>1, <1>2, <1>3, <1>3a, <1>3b, <1>4, <1>5, <1>6, <1>7, Zenon
  DEF Next, Create, Provision, RemoveHost, Crash

LEMMA AccountEnds == AccountInv => HistoryAccountsForRows
<1> SUFFICES ASSUME AccountInv, Quiet, NEW e \in DOMAIN envs
             PROVE  LET happened == {h.kind : h \in {g \in history : g.env = e}} IN
                    /\ "requested" \in happened
                    /\ envs[e].status \in happened
                    /\ ~({"ready", "failed"} \subseteq happened)
  BY DEF HistoryAccountsForRows
<1> DEFINE happened == {h.kind : h \in {g \in history : g.env = e}}
<1>1. \A kind : kind \in happened <=> Recorded(kind, e)
  BY DEF Recorded
<1>2. /\ worker[e] \in {"none", "done", "dead"}
      /\ \A c \in Creators : creates[c].step = "idle"
      /\ \A t \in Tearers : tears[t].step = "idle"
  BY DEF Quiet, Finished
<1>3. Accounted(e) /\ envs[e].status \in EnvStatus
  BY RowsFacts DEF AccountInv
<1>4. Recorded("requested", e) /\ Recorded(envs[e].status, e)
  BY <1>2, <1>3 DEF Accounted, Starting, EnvStatus
<1>5. ~(Recorded("ready", e) /\ Recorded("failed", e))
  BY DEF AccountInv, OneOutcome
<1> HIDE DEF happened
<1>6. QED
  BY <1>1, <1>4, <1>5 DEF happened

\* While the process does not stop and the host cluster stays, a quiet
\* moment finds in the history what happened to every environment: each was
\* requested, its status is recorded, its worker had one outcome -- for any
\* number of overlapping creates and teardowns.
THEOREM HistoryIsComplete == ~MayCrash /\ ~HostMayGo => (Spec => []HistoryAccountsForRows)
<1> SUFFICES ASSUME ~MayCrash, ~HostMayGo PROVE Spec => []HistoryAccountsForRows
  OBVIOUS
<1>1. Init => AccountInv
  <2>1. Init => /\ DOMAIN envs = {} /\ history = {} /\ host
                /\ \A c \in Creators : creates[c].step = "idle"
                /\ \A t \in Tearers : tears[t].step = "idle"
    BY DEF Init, NoCreate, NoTear
  <2>2. Init => TypeOK
    BY InitIInv DEF IInv
  <2>3. QED
    BY <2>1, <2>2 DEF AccountInv, HostStays, StartedOnce, OneOutcome, Recorded
<1>2. AccountInv /\ [Next]_vars => AccountInv'
  BY AccountStep
<1>3. QED
  BY <1>1, <1>2, AccountEnds, PTL DEF Spec

-----------------------------------------------------------------------------
(* What ProvisioningEnds rests on: an environment that is provisioning has *)
(* somebody who will take it further.                                      *)

AtWork == {"start", "create", "wait", "ready", "fail"}

\* The call that is about to start the worker, or the worker; unless the process
\* has stopped, or the call or the worker found the host cluster deleted.
Owed(e) ==
  \/ \E c \in Creators : Starting(c, e)
  \/ worker[e] \in AtWork
  \/ MayCrash /\ worker[e] \in {"none", "dead"}
  \/ ~host /\ worker[e] \in {"none", "done"}

OwedInv ==
  /\ TypeOK /\ StartedOnce
  /\ \A e \in DOMAIN envs : envs[e].status = "provisioning" => Owed(e)

LEMMA StartedStep == TypeOK /\ StartedOnce /\ [Next]_vars => StartedOnce'
<1> SUFFICES ASSUME TypeOK, StartedOnce, [Next]_vars PROVE StartedOnce'
  OBVIOUS
<1>0. DOMAIN envs = 1..Len(envs) /\ Len(envs) \in Nat
  BY RowsFacts
<1>a. \A c \in Creators : creates[c].step \in {"name", "spawn", "event"} => creates[c].env \in DOMAIN envs
  BY DEF TypeOK
<1>1. ASSUME NEW c \in Creators, InsertEnv(c) PROVE StartedOnce'
  <2>0. PICK new : new = Len(envs) + 1
    OBVIOUS
  <2>1. /\ new \notin DOMAIN envs /\ worker'[new] = "none"
        /\ \A d \in DOMAIN envs : worker'[d] = worker[d]
    BY <1>0, <1>1, <2>0, AppendType
  <2>2. /\ creates'[c].step = "name" /\ creates'[c].env = new
        /\ \A d \in Creators : d # c => creates'[d] = creates[d]
    BY <1>1, <2>0 DEF InsertEnv, TypeOK
  <2>3. \A d \in Creators : creates'[d].step \in {"name", "spawn"} => worker'[creates'[d].env] = "none"
    BY <1>a, <2>1, <2>2 DEF StartedOnce
  <2>4. \A d, f \in Creators :
          creates'[d].step \in {"name", "spawn"} /\ creates'[f].step \in {"name", "spawn"}
              /\ creates'[f].env = creates'[d].env
            => d = f
    BY <1>a, <2>1, <2>2 DEF StartedOnce, Starting
  <2> QED BY <2>3, <2>4 DEF StartedOnce, Starting
<1>2a. ASSUME NEW c \in Creators, NameEnv(c) PROVE StartedOnce'
  <2>1. /\ worker' = worker /\ creates[c].step = "name" /\ creates'[c].env = creates[c].env
        /\ \A d \in Creators : d # c => creates'[d] = creates[d]
    BY <1>2a DEF NameEnv, TypeOK, CreateCall
  <2> QED BY <2>1 DEF StartedOnce, Starting
<1>2. ASSUME NEW c \in Creators, SpawnWorker(c) PROVE StartedOnce'
  <2>0. PICK named : named = creates[c].env
    OBVIOUS
  <2>1. \A d \in DOMAIN envs : d # named => worker'[d] = worker[d]
    BY <1>2, <2>0, SpawnType
  <2>2. /\ creates[c].step = "spawn" /\ creates'[c].step = "event"
        /\ \A d \in Creators : d # c => creates'[d] = creates[d]
    BY <1>2 DEF SpawnWorker, TypeOK, CreateCall
  <2> QED BY <1>a, <2>0, <2>1, <2>2 DEF StartedOnce, Starting
<1>3. ASSUME NEW c \in Creators, CheckCreate(c) \/ LoseHost(c) \/ RecordRequested(c)
      PROVE  StartedOnce'
  <2>1. worker' = worker /\ creates'[c].step \in {"insert", "idle"}
        /\ \A d \in Creators : d # c => creates'[d] = creates[d]
    BY <1>3 DEF CheckCreate, LoseHost, RecordRequested, TypeOK, NoCreate, CreateCall
  <2> QED BY <2>1 DEF StartedOnce, Starting
<1>4. ASSUME NEW e \in DOMAIN envs, Work(e) PROVE StartedOnce'
  <2>1. creates' = creates /\ worker[e] # "none"
    BY <1>4 DEF Work, WorkerLoads, CreateCluster, AwaitCluster, CommitReady, RecordReady,
       CommitFailed, RecordFailed, WorkerMoves
  <2>2. PICK to \in WorkerStep : WorkerMoves(e, worker[e], to)
    BY <1>4 DEF Work, WorkerMoves, WorkerStep, WorkerLoads, CreateCluster, AwaitCluster,
       CommitReady, RecordReady, CommitFailed, RecordFailed
  <2>3. \A d \in DOMAIN envs : d # e => worker'[d] = worker[d]
    BY <2>2, MovesType
  <2> QED BY <1>a, <2>1, <2>3 DEF StartedOnce, Starting
<1>5. ASSUME Crash PROVE StartedOnce'
  BY <1>5 DEF Crash, StartedOnce, Starting, NoCreate
<1>6. ASSUME UNCHANGED <<worker, creates>> PROVE StartedOnce'
  BY <1>6 DEF StartedOnce, Starting
<1>7. \/ UNCHANGED <<worker, creates>> \/ Crash
      \/ \E c \in Creators : \/ InsertEnv(c) \/ NameEnv(c) \/ SpawnWorker(c)
                            \/ CheckCreate(c) \/ LoseHost(c) \/ RecordRequested(c)
      \/ \E e \in DOMAIN envs : Work(e)
  BY DEF Next, Create, Provision, Tear, StartTeardown, DeleteCluster, CommitTornDown, RecordTornDown,
    MarkWithoutHost, RemoveHost, vars
<1> QED BY <1>1, <1>2, <1>2a, <1>3, <1>4, <1>5, <1>6, <1>7, Zenon

LEMMA OwedStep == OwedInv /\ [Next]_vars => OwedInv'
<1> SUFFICES ASSUME OwedInv, [Next]_vars PROVE OwedInv'
  OBVIOUS
<1>0. /\ TypeOK /\ TypeOK' /\ StartedOnce /\ StartedOnce'
      /\ Len(envs) \in Nat /\ DOMAIN envs = 1..Len(envs)
  BY TypeStep, StartedStep, RowsFacts DEF OwedInv
<1>1. ASSUME NEW c \in Creators, InsertEnv(c) PROVE OwedInv'
  <2>1. /\ Len(envs') = Len(envs) + 1 /\ envs' \in Seq(EnvRow)
        /\ \A d \in DOMAIN envs : envs'[d] = envs[d] /\ worker'[d] = worker[d]
    BY <1>0, <1>1, AppendType
  <2>2. host' = host /\ DOMAIN envs' = 1..(Len(envs) + 1)
    BY <1>1, <2>1 DEF InsertEnv
  <2>3. /\ creates[c].step = "insert" /\ creates'[c].step = "name"
        /\ creates'[c].env = Len(envs) + 1
        /\ \A d \in Creators \ {c} : creates'[d] = creates[d]
    BY <1>0, <1>1 DEF InsertEnv, TypeOK
  <2>4. \A d \in DOMAIN envs : Owed(d) => Owed(d)'
    BY <2>1, <2>2, <2>3 DEF Owed, Starting
  <2>5. \A d \in DOMAIN envs' : d \notin DOMAIN envs => Owed(d)'
    <3>1. \A d \in DOMAIN envs' : d \notin DOMAIN envs => d = Len(envs) + 1
      BY <1>0, <2>2
    <3> QED BY <2>3, <3>1 DEF Owed, Starting
  <2> QED BY <1>0, <2>1, <2>4, <2>5 DEF OwedInv
<1>2. ASSUME NEW c \in Creators, NameEnv(c) PROVE OwedInv'
  <2>1. /\ DOMAIN envs' = DOMAIN envs /\ UNCHANGED <<worker, host>>
        /\ \A d \in DOMAIN envs : envs'[d].status = envs[d].status
    BY <1>0, <1>2, NameType DEF NameEnv
  <2>2. /\ creates'[c].step = "spawn" /\ creates'[c].env = creates[c].env
        /\ \A d \in Creators \ {c} : creates'[d] = creates[d]
    BY <1>0, <1>2 DEF NameEnv, TypeOK, CreateCall
  <2>3. \A d \in DOMAIN envs : Owed(d) => Owed(d)'
    BY <2>1, <2>2 DEF Owed, Starting
  <2> QED BY <1>0, <2>1, <2>3 DEF OwedInv
<1>2a. ASSUME NEW c \in Creators, SpawnWorker(c) PROVE OwedInv'
  <2>1. /\ UNCHANGED <<envs, host>>
        /\ \A d \in DOMAIN envs : worker'[d] = "start" \/ worker'[d] = worker[d]
        /\ worker'[creates[c].env] = "start"
    BY <1>0, <1>2a, SpawnType DEF SpawnWorker
  <2>2. \A d \in Creators \ {c} : creates'[d] = creates[d]
    BY <1>0, <1>2a DEF SpawnWorker, TypeOK
  <2>3. \A d \in DOMAIN envs : Owed(d) => Owed(d)'
    BY <2>1, <2>2 DEF Owed, Starting, AtWork
  <2> QED BY <1>0, <2>1, <2>3 DEF OwedInv
<1>2b. ASSUME NEW c \in Creators, LoseHost(c) PROVE OwedInv'
  <2>1. UNCHANGED <<envs, worker, host>> /\ ~host /\ worker[creates[c].env] = "none"
    BY <1>0, <1>2b DEF LoseHost, StartedOnce
  <2>2. \A d \in Creators \ {c} : creates'[d] = creates[d]
    BY <1>0, <1>2b DEF LoseHost, TypeOK
  <2>3. \A d \in DOMAIN envs : Owed(d) => Owed(d)'
    BY <2>1, <2>2 DEF Owed, Starting
  <2> QED BY <1>0, <2>1, <2>3 DEF OwedInv
<1>3. ASSUME NEW c \in Creators, CheckCreate(c) \/ RecordRequested(c) PROVE OwedInv'
  <2>1. envs' = envs /\ worker' = worker /\ host' = host
    BY <1>3 DEF CheckCreate, RecordRequested
  <2>2. /\ creates[c].step \notin {"name", "spawn"}
        /\ \A d \in Creators \ {c} : creates'[d] = creates[d]
    BY <1>0, <1>3 DEF CheckCreate, RecordRequested, TypeOK
  <2> QED BY <1>0, <2>1, <2>2 DEF OwedInv, Owed, Starting
<1>4. ASSUME NEW e \in DOMAIN envs, Work(e) PROVE OwedInv'
  <2>1. creates' = creates /\ host' = host
    BY <1>4 DEF Work, WorkerLoads, CreateCluster, AwaitCluster, CommitReady, RecordReady,
       CommitFailed, RecordFailed
  <2>2. /\ DOMAIN envs' = DOMAIN envs
        /\ \A d \in DOMAIN envs : d # e => envs'[d] = envs[d] /\ worker'[d] = worker[d]
    <3>1. (\E status \in EnvStatus : Mark(e, status)) \/ envs' = envs
      BY <1>4 DEF Work, WorkerLoads, CreateCluster, AwaitCluster, CommitReady, RecordReady,
         CommitFailed, RecordFailed, EnvStatus
    <3>2. PICK to \in WorkerStep : WorkerMoves(e, worker[e], to)
      BY <1>4 DEF Work, WorkerMoves, WorkerStep, WorkerLoads, CreateCluster, AwaitCluster,
         CommitReady, RecordReady, CommitFailed, RecordFailed
    <3> QED BY <1>0, <3>1, <3>2, MarkType, MovesType
  <2>3. envs'[e].status = "provisioning" /\ (envs[e].status = "provisioning" => Owed(e)) => Owed(e)'
    <3>1. CASE CommitReady(e) \/ CommitFailed(e)
      <4>1. envs'[e].status \in {"ready", "failed"}
        BY <1>0, <3>1, MarkType DEF CommitReady, CommitFailed, EnvStatus
      <4> QED BY <4>1
    <3>2. CASE ~(CommitReady(e) \/ CommitFailed(e))
      <4>1. envs' = envs
        BY <1>4, <3>2 DEF Work, WorkerLoads, CreateCluster, AwaitCluster, RecordReady, RecordFailed
      <4>2. CASE RecordReady(e) \/ RecordFailed(e)
        <5>1. worker[e] \in {"readyEvent", "failEvent"} /\ worker'[e] = "done"
          BY <1>0, <4>2, MovesType DEF RecordReady, RecordFailed, WorkerMoves, WorkerStep
        <5> QED BY <2>1, <4>1, <5>1 DEF Owed, AtWork, Starting
      <4>3. CASE WorkerLoads(e) \/ CreateCluster(e) \/ AwaitCluster(e)
        <5>1. PICK to \in {"create", "done", "wait", "ready", "fail"} :
                WorkerMoves(e, worker[e], to) /\ (to = "done" => ~host)
          BY <4>3 DEF WorkerLoads, CreateCluster, AwaitCluster, WorkerMoves
        <5>2. worker'[e] = to
          BY <1>0, <5>1, MovesType DEF WorkerStep
        <5> QED BY <2>1, <5>1, <5>2 DEF Owed, AtWork
      <4> QED BY <1>4, <3>2, <4>2, <4>3 DEF Work
    <3> QED BY <3>1, <3>2
  <2>4. \A d \in DOMAIN envs : d # e => (Owed(d) => Owed(d)')
    BY <2>1, <2>2 DEF Owed, Starting
  <2> QED BY <1>0, <2>2, <2>3, <2>4 DEF OwedInv
<1>5. ASSUME NEW t \in Tearers, Tear(t) PROVE OwedInv'
  <2>1. worker' = worker /\ creates' = creates /\ host' = host
    BY <1>5 DEF Tear, StartTeardown, DeleteCluster, CommitTornDown, RecordTornDown, MarkWithoutHost
  <2>2. /\ DOMAIN envs' = DOMAIN envs
        /\ \A d \in DOMAIN envs : envs'[d] = envs[d] \/ envs'[d].status = "torn_down"
    <3>1. \/ envs' = envs
          \/ tears[t].env \in DOMAIN envs /\ Mark(tears[t].env, "torn_down")
      BY <1>0, <1>5 DEF Tear, StartTeardown, DeleteCluster, CommitTornDown, RecordTornDown,
         MarkWithoutHost, TypeOK
    <3> QED BY <1>0, <3>1, MarkType DEF EnvStatus
  <2> QED BY <1>0, <2>1, <2>2 DEF OwedInv, Owed, Starting
<1>6. ASSUME RemoveHost \/ UNCHANGED vars PROVE OwedInv'
  BY <1>0, <1>6 DEF RemoveHost, vars, OwedInv, Owed, Starting
<1>7. ASSUME Crash PROVE OwedInv'
  <2>1. MayCrash /\ envs' = envs /\ host' = host /\ DOMAIN worker = DOMAIN envs
    BY <1>0, <1>7, RowsFacts DEF Crash
  <2>2. \A e \in DOMAIN envs : worker'[e] = IF Finished(e) THEN worker[e] ELSE "dead"
    BY <1>7, <2>1 DEF Crash
  <2>3. \A e \in DOMAIN envs : (\E c \in Creators : Starting(c, e)) => worker[e] = "none"
    BY <1>0 DEF StartedOnce, Starting
  <2>4. \A e \in DOMAIN envs : Owed(e) => Owed(e)'
    BY <2>1, <2>2, <2>3 DEF Owed, Finished, AtWork
  <2> QED BY <1>0, <2>1, <2>4 DEF OwedInv
<1> QED BY <1>1, <1>2, <1>2a, <1>2b, <1>3, <1>4, <1>5, <1>6, <1>7, Zenon DEF Next, Create, Provision

\* For any number of overlapping calls, teardowns and lost hosts: while the process
\* does not stop, an environment that is provisioning has a call that is about to
\* start its worker, or a worker that has not written its outcome, unless the host
\* cluster was deleted under the call, which then raised, or under the worker, which
\* then left the row as it was (provisioning/service.py).
THEOREM ProvisioningIsOwed ==
  Spec => [](\A e \in DOMAIN envs : Provisioning(e) => Owed(e))
<1>1. Init => OwedInv
  <2>1. Init => DOMAIN envs = {} /\ \A c \in Creators : creates[c].step = "idle"
    BY DEF Init, NoCreate
  <2>2. Init => TypeOK
    BY InitIInv DEF IInv
  <2> QED BY <2>1, <2>2 DEF OwedInv, StartedOnce
<1>2. OwedInv => \A e \in DOMAIN envs : Provisioning(e) => Owed(e)
  BY DEF OwedInv, Provisioning
<1> QED BY <1>1, <1>2, OwedStep, PTL DEF Spec
=============================================================================
