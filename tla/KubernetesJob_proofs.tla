------------------------- MODULE KubernetesJob_proofs -------------------------
(***************************************************************************)
(* For every number of runs, steps, faults and ways a container may end,   *)
(* if the names of different steps' objects differ: steps do not mix, a    *)
(* pass is earned, and a thread leaves nothing of its own behind.          *)
(*                                                                         *)
(* The argument is one of ownership.  Each object in the cluster has the   *)
(* name of its owner's, so a thread that creates or deletes by name        *)
(* touches only what it owns; the invariant is a conjunction over the      *)
(* threads of a formula about what one thread owns, and a step of one      *)
(* thread leaves the formula of every other as it was.                     *)
(*                                                                         *)
(* The last theorem, that no job comes back, needs nothing of the names.   *)
(***************************************************************************)
EXTENDS KubernetesJob, TLAPS

Codes == {c.code : c \in Ends} \cup {NoCode}
Words == {c.word : c \in Ends} \cup {NoResult}
Reasons == {NoReason, "Completed", "OOMKilled", "Error"}

Job == [name : {JobName[t] : t \in Threads}, owner : Threads,
        status : {"active", "succeeded", "failed"},
        mounts : {MapsOf[t] : t \in Threads}, limited : BOOLEAN]
Map == [name : UNION {MapsOf[t] : t \in Threads}, owner : Threads]
Pod == [name : {JobName[t] : t \in Threads}, owner : Threads,
        code : Codes, word : Words, reads : SUBSET Threads]
Seen == [job : {"unknown"} \cup JobStates, word : Words, code : Codes, reason : Reasons,
         from : SUBSET Threads]

Memory ==
  /\ thread \in [Threads -> ThreadPhase]
  /\ seen \in [Threads -> Seen]
  /\ outcome = [t \in Threads |-> outcome[t]]
  /\ recorded = [t \in Threads |-> recorded[t]]
  /\ ran = [t \in Threads |-> ran[t]]

Objects ==
  /\ jobs \subseteq Job /\ \A j \in jobs : j.name = JobName[j.owner] /\ j.mounts = MapsOf[j.owner]
  /\ maps \subseteq Map /\ \A m \in maps : m.name \in MapsOf[m.owner]
  /\ pods \subseteq Pod /\ \A p \in pods : p.name = JobName[p.owner]

\* What a thread owns.
Jobs(t) == {j \in jobs : j.owner = t}
Maps(t) == {m \in maps : m.owner = t}
Pods(t) == {p \in pods : p.owner = t}

Early == {"idle", "namespace", "create_namespace", "input"}
BeforeJob == Early \cup {"script", "job"}
Reading == {"logs", "state"}

OfScripts(t) == thread[t] \in {"script", "delete_script"} => Step(t).script

NotYet(t) ==
  alive /\ thread[t] \in BeforeJob =>
    /\ Jobs(t) = {} /\ Pods(t) = {} /\ ran[t] = {}
    /\ thread[t] \in Early => Maps(t) = {}

Held(t) ==
  alive =>
    /\ thread[t] = "script" => [name |-> InputMap[t], owner |-> t] \in maps
    /\ thread[t] \in {"job", "wait"} \cup Reading =>
         \A name \in MapsOf[t] : [name |-> name, owner |-> t] \in maps
    /\ thread[t] \in {"wait"} \cup Reading => Jobs(t) # {}

NothingLeft(t) ==
  t \notin lost =>
    /\ thread[t] \in {"delete_input", "delete_script", "done"} => Jobs(t) = {}
    /\ thread[t] = "delete_script" => \A m \in Maps(t) : m.name # InputMap[t]
    /\ thread[t] = "done" => Maps(t) = {}

Lone(t) ==
  /\ \A j, k \in Jobs(t) : j = k
  /\ \A p, q \in Pods(t) : p = q

\* A pod mounts what its owner made, and tells what really ran.
PodsTrue(t) ==
  \A p \in Pods(t) :
    /\ p.reads \subseteq {t}
    /\ p.code = NoCode => p.word = NoResult /\ ran[t] = {Started}
    /\ p.code # NoCode =>
         \E c \in Ends : c.code = p.code /\ c.word = p.word /\ ran[t] = {Started, c}

\* A job that succeeded has its pod, one that failed none that could pass.
JobsTrue(t) ==
  \A j \in Jobs(t) :
    /\ j.status = "succeeded" => \E p \in Pods(t) : p.code = 0
    /\ j.status = "failed" => \A p \in Pods(t) : p.code # 0 /\ p.code # NoCode

\* What a thread has read so far is true.
SeenTrue(t) ==
  /\ seen[t].from \subseteq {t}
  /\ alive /\ thread[t] \in BeforeJob \cup {"wait"} => seen[t] = Idle
  /\ seen[t].word # NoResult => \E c \in ran[t] : c.word = seen[t].word
  /\ alive /\ thread[t] \in Reading =>
       /\ seen[t].job \in JobStates /\ seen[t].code = NoCode /\ seen[t].reason = NoReason
       /\ seen[t].job # "timeout" => \E j \in Jobs(t) : j.status = seen[t].job
       /\ thread[t] = "logs" => seen[t].word = NoResult
       /\ thread[t] = "state" /\ seen[t].job = "succeeded" /\ t \notin blind =>
            \E p \in Pods(t) : p.word = seen[t].word

Earned(t) == ran[t] # {} /\ (ReallyPassed(t) \/ t \in blind)

PassesEarned(t) == outcome[t] = "passed" \/ recorded[t] = "passed" => Earned(t)

Local(t) ==
  /\ OfScripts(t) /\ NotYet(t) /\ Held(t) /\ NothingLeft(t) /\ Lone(t)
  /\ PodsTrue(t) /\ JobsTrue(t) /\ SeenTrue(t) /\ PassesEarned(t)

IInv == Memory /\ Objects /\ \A t \in Threads : Local(t)

-----------------------------------------------------------------------------
(* One thread moves, the others keep what they own. *)

\* Nothing that the local invariant of t speaks of changes.
Same(t) ==
  /\ thread'[t] = thread[t] /\ seen'[t] = seen[t] /\ outcome'[t] = outcome[t]
  /\ recorded'[t] = recorded[t] /\ ran'[t] = ran[t]
  /\ Jobs(t)' = Jobs(t) /\ Maps(t)' = Maps(t) /\ Pods(t)' = Pods(t)
  /\ (t \in blind' <=> t \in blind) /\ (t \in lost' <=> t \in lost)
  /\ alive' = alive

LEMMA LocalKept == ASSUME NEW t \in Threads, Local(t), Same(t) PROVE Local(t)'
<1> USE DEF Same
<1>1. OfScripts(t)' /\ NotYet(t)' /\ NothingLeft(t)' /\ Lone(t)'
  BY DEF Local, OfScripts, NotYet, NothingLeft, Lone
<1>2. Held(t)'
  <2>1. \A name : [name |-> name, owner |-> t] \in maps <=> [name |-> name, owner |-> t] \in Maps(t)
    BY DEF Maps
  <2>2. \A name : [name |-> name, owner |-> t] \in maps' <=> [name |-> name, owner |-> t] \in Maps(t)'
    BY DEF Maps
  <2> QED BY <2>1, <2>2 DEF Local, Held
<1>3. PodsTrue(t)' /\ JobsTrue(t)'
  BY DEF Local, PodsTrue, JobsTrue
<1>4. SeenTrue(t)'
  BY DEF Local, SeenTrue
<1>5. PassesEarned(t)'
  BY DEF Local, PassesEarned, Earned, ReallyPassed
<1> QED BY <1>1, <1>2, <1>3, <1>4, <1>5 DEF Local

LEMMA Locally ==
  ASSUME IInv, Memory', Objects', NEW u \in Threads, Local(u)', \A t \in Threads \ {u} : Same(t)
  PROVE  IInv'
<1>1. \A t \in Threads \ {u} : Local(t)'
  BY LocalKept DEF IInv
<1> QED BY <1>1 DEF IInv

\* u goes to step s with what it has seen and its outcome.
Moves(u, s, w, o) ==
  /\ thread' = [thread EXCEPT ![u] = s]
  /\ seen' = [seen EXCEPT ![u] = w]
  /\ outcome' = [outcome EXCEPT ![u] = o]
  /\ UNCHANGED <<recorded, ran, alive>>

LEMMA MemoryAfterMove ==
  ASSUME IInv, NEW u \in Threads, NEW s \in ThreadPhase, NEW w \in Seen, NEW o, Moves(u, s, w, o)
  PROVE  /\ Memory'
         /\ thread'[u] = s /\ seen'[u] = w /\ outcome'[u] = o
         /\ recorded'[u] = recorded[u] /\ ran'[u] = ran[u] /\ alive' = alive
         /\ \A t \in Threads \ {u} :
              /\ thread'[t] = thread[t] /\ seen'[t] = seen[t] /\ outcome'[t] = outcome[t]
              /\ recorded'[t] = recorded[t] /\ ran'[t] = ran[t]
<1> USE DEF Moves
<1> HIDE DEF Seen, ThreadPhase
<1>1. thread \in [Threads -> ThreadPhase] /\ seen \in [Threads -> Seen]
      /\ outcome = [t \in Threads |-> outcome[t]]
      /\ recorded = [t \in Threads |-> recorded[t]] /\ ran = [t \in Threads |-> ran[t]]
  BY DEF IInv, Memory
<1>2. thread' \in [Threads -> ThreadPhase] /\ seen' \in [Threads -> Seen]
  BY <1>1
<1>3. outcome' = [t \in Threads |-> outcome'[t]]
  BY <1>1
<1>4. recorded' = [t \in Threads |-> recorded'[t]] /\ ran' = [t \in Threads |-> ran'[t]]
  BY <1>1
<1> QED BY <1>1, <1>2, <1>3, <1>4 DEF Memory

\* What u has seen before it moves.
LEMMA SeenOf ==
  ASSUME IInv, NEW u \in Threads
  PROVE  seen[u] \in Seen /\ thread[u] \in ThreadPhase /\ Local(u)
BY DEF IInv, Memory

LEMMA Unwritten ==
  ASSUME IInv, NEW u \in Threads
  PROVE  seen = [seen EXCEPT ![u] = seen[u]] /\ outcome = [outcome EXCEPT ![u] = outcome[u]]
         /\ thread = [thread EXCEPT ![u] = thread[u]] /\ recorded = [recorded EXCEPT ![u] = recorded[u]]
BY DEF IInv, Memory

\* A move that leaves the cluster alone.
LEMMA MoveOutside ==
  ASSUME IInv, NEW u \in Threads, NEW s \in ThreadPhase, NEW w \in Seen, NEW o, Moves(u, s, w, o),
         UNCHANGED <<maps, jobs, pods>>, blind' \in {blind, blind \cup {u}}, lost' \in {lost, lost \cup {u}},
         Local(u)'
  PROVE  IInv'
<1>1. Objects'
  BY DEF IInv, Objects
<1>2. \A t : Jobs(t)' = Jobs(t) /\ Maps(t)' = Maps(t) /\ Pods(t)' = Pods(t)
  BY DEF Jobs, Maps, Pods
<1>3. \A t \in Threads \ {u} : Same(t)
  BY <1>2, MemoryAfterMove DEF Same
<1> QED BY <1>1, <1>3, MemoryAfterMove, Locally

LEMMA MoveEarly ==
  ASSUME IInv, NEW u \in Threads, thread[u] \in Early, NEW s \in Early, Moves(u, s, seen[u], outcome[u]),
         UNCHANGED <<maps, jobs, pods, blind, lost>>
  PROVE  IInv'
<1>1. Jobs(u)' = Jobs(u) /\ Maps(u)' = Maps(u) /\ Pods(u)' = Pods(u)
  BY DEF Jobs, Maps, Pods
<1>2. s \in ThreadPhase
  BY DEF Early, ThreadPhase
<1>3. /\ thread'[u] = s /\ seen'[u] = seen[u] /\ outcome'[u] = outcome[u]
      /\ recorded'[u] = recorded[u] /\ ran'[u] = ran[u] /\ alive' = alive
  BY <1>2, SeenOf, MemoryAfterMove
<1>4. OfScripts(u)' /\ Held(u)' /\ NothingLeft(u)'
  BY <1>3 DEF OfScripts, Held, NothingLeft, Early, Reading
<1>5. NotYet(u)' /\ Lone(u)' /\ PodsTrue(u)' /\ JobsTrue(u)'
  BY <1>1, <1>3, SeenOf DEF Local, NotYet, Lone, PodsTrue, JobsTrue, BeforeJob
<1>6. SeenTrue(u)'
  BY <1>1, <1>3, SeenOf DEF Local, SeenTrue, BeforeJob, Early, Reading
<1>7. PassesEarned(u)'
  BY <1>3, SeenOf DEF Local, PassesEarned, Earned, ReallyPassed
<1> QED BY <1>2, <1>4, <1>5, <1>6, <1>7, SeenOf, MoveOutside DEF Local

\* An exception, wherever it comes from.
LEMMA MoveToCleanup ==
  ASSUME IInv, NEW u \in Threads, NEW w \in Seen, NEW o, Moves(u, "delete_job", w, o),
         UNCHANGED <<maps, jobs, pods, lost>>, blind' \in {blind, blind \cup {u}},
         w.from \subseteq {u}, w.word # NoResult => \E c \in ran[u] : c.word = w.word,
         o = "passed" => Earned(u)'
  PROVE  IInv'
<1>1. Jobs(u)' = Jobs(u) /\ Maps(u)' = Maps(u) /\ Pods(u)' = Pods(u)
  BY DEF Jobs, Maps, Pods
<1>2. "delete_job" \in ThreadPhase
  BY DEF ThreadPhase
<1>3. /\ thread'[u] = "delete_job" /\ seen'[u] = w /\ outcome'[u] = o
      /\ recorded'[u] = recorded[u] /\ ran'[u] = ran[u] /\ alive' = alive
  BY <1>2, MemoryAfterMove
<1>4. OfScripts(u)' /\ NotYet(u)' /\ Held(u)' /\ NothingLeft(u)'
  BY <1>3 DEF OfScripts, NotYet, Held, NothingLeft, BeforeJob, Early, Reading
<1>5. Lone(u)' /\ PodsTrue(u)' /\ JobsTrue(u)'
  BY <1>1, <1>3, SeenOf DEF Local, Lone, PodsTrue, JobsTrue
<1>6. SeenTrue(u)'
  BY <1>3 DEF SeenTrue, BeforeJob, Early, Reading
<1>7. PassesEarned(u)'
  BY <1>3, SeenOf DEF Local, PassesEarned, Earned, ReallyPassed
<1> QED BY <1>2, <1>4, <1>5, <1>6, <1>7, MoveOutside DEF Local

LEMMA FailIInv ==
  ASSUME IInv, NEW u \in Threads, Fail(u), UNCHANGED <<maps, jobs, pods, ran, recorded, alive, blind, lost>>
  PROVE  IInv'
<1>1. Moves(u, "delete_job", seen[u], "error")
  BY Unwritten DEF Fail, Goto, Moves
<1>2. seen[u] \in Seen /\ seen[u].from \subseteq {u}
      /\ (seen[u].word # NoResult => \E c \in ran[u] : c.word = seen[u].word)
  BY SeenOf DEF Local, SeenTrue
<1> HIDE DEF Seen
<1> QED BY <1>1, <1>2, MoveToCleanup

-----------------------------------------------------------------------------
(* The actions of a thread. *)

LEMMA ReadNamespaceIInv == ASSUME IInv, NEW u \in Threads, ReadNamespace(u) PROVE IInv'
<1>1. PICK s \in Early : Moves(u, s, seen[u], outcome[u])
  BY Unwritten DEF ReadNamespace, Proceed, Goto, Moves, Early, cluster, mishaps
<1>2. thread[u] \in Early /\ UNCHANGED <<maps, jobs, pods, blind, lost>>
  BY DEF ReadNamespace, At, Early, cluster, mishaps
<1> QED BY <1>1, <1>2, MoveEarly

LEMMA CreateNamespaceIInv == ASSUME IInv, NEW u \in Threads, CreateNamespace(u) PROVE IInv'
<1>1. thread[u] \in Early /\ UNCHANGED <<maps, jobs, pods, ran, recorded, alive, blind, lost>>
  BY DEF CreateNamespace, At, Early, mishaps
<1>2. CASE namespace
  BY <1>1, <1>2, FailIInv DEF CreateNamespace
<1>3. CASE ~namespace
  <2>1. Moves(u, "input", seen[u], outcome[u]) /\ "input" \in Early
    BY <1>1, <1>3, Unwritten DEF CreateNamespace, Proceed, Goto, Moves, Early
  <2> QED BY <1>1, <2>1, MoveEarly
<1> QED BY <1>2, <1>3

\* A configmap of u's, under a name that was free.
LEMMA CreateMapIInv ==
  ASSUME IInv, NEW u \in Threads, NEW step, NEW name \in MapsOf[u], NEW next \in {"script", "job"},
         CreateMap(u, step, name, next),
         step \in {"input", "script"},
         next = "script" => step = "input" /\ name = InputMap[u] /\ Step(u).script,
         next = "job" => MapsOf[u] = {InputMap[u]} \cup {name}
                         /\ (name # InputMap[u] => step = "script")
  PROVE  IInv'
<1>1. alive /\ thread[u] = step /\ UNCHANGED <<namespace, jobs, pods, ran, recorded, faults, blind, lost, alive>>
  BY DEF CreateMap, At, mishaps
<1>2. CASE ~(Acceptable(name) /\ ~Taken(name, maps))
  <2>1. Fail(u) /\ UNCHANGED maps
    BY <1>2 DEF CreateMap
  <2> QED BY <1>1, <2>1, FailIInv
<1>3. CASE Acceptable(name) /\ ~Taken(name, maps)
  <2> DEFINE m == [name |-> name, owner |-> u]
  <2>1. maps' = maps \cup {m} /\ Proceed(u, next)
    BY <1>3 DEF CreateMap
  <2>2. Moves(u, next, seen[u], outcome[u])
    BY <1>1, <2>1, Unwritten DEF Proceed, Goto, Moves
  <2>3. next \in ThreadPhase
    BY DEF ThreadPhase
  <2>4. /\ Memory' /\ thread'[u] = next /\ seen'[u] = seen[u] /\ outcome'[u] = outcome[u]
        /\ recorded'[u] = recorded[u] /\ ran'[u] = ran[u] /\ alive' = alive
        /\ \A t \in Threads \ {u} :
             /\ thread'[t] = thread[t] /\ seen'[t] = seen[t] /\ outcome'[t] = outcome[t]
             /\ recorded'[t] = recorded[t] /\ ran'[t] = ran[t]
    BY <2>2, <2>3, SeenOf, MemoryAfterMove
  <2>5. m \in Map /\ m.name \in MapsOf[m.owner]
    BY DEF Map
  <2>6. Objects'
    BY <1>1, <2>1, <2>5 DEF IInv, Objects
  <2>7. /\ \A t : Jobs(t)' = Jobs(t) /\ Pods(t)' = Pods(t)
        /\ \A t \in Threads \ {u} : Maps(t)' = Maps(t)
    BY <1>1, <2>1 DEF Jobs, Pods, Maps
  <2>8. \A t \in Threads \ {u} : Same(t)
    BY <1>1, <2>4, <2>7 DEF Same
  <2>9. thread[u] \in BeforeJob /\ Local(u)
    BY <1>1, SeenOf DEF BeforeJob, Early
  <2>10. NotYet(u)'
    BY <1>1, <2>4, <2>7, <2>9 DEF Local, NotYet, Early
  <2>11. OfScripts(u)' /\ NothingLeft(u)'
    BY <2>4 DEF OfScripts, NothingLeft
  <2>12. Held(u)'
    BY <1>1, <2>1, <2>4, <2>9 DEF Local, Held, Reading
  <2>13. Lone(u)' /\ PodsTrue(u)' /\ JobsTrue(u)'
    BY <2>4, <2>7, <2>9 DEF Local, Lone, PodsTrue, JobsTrue
  <2>14. SeenTrue(u)'
    BY <1>1, <2>4, <2>9 DEF Local, SeenTrue, Reading, BeforeJob, Early
  <2>15. PassesEarned(u)'
    BY <1>1, <2>4, <2>9 DEF Local, PassesEarned, Earned, ReallyPassed
  <2>16. Local(u)'
    BY <2>10, <2>11, <2>12, <2>13, <2>14, <2>15 DEF Local
  <2> QED BY <2>4, <2>6, <2>8, <2>16, Locally
<1> QED BY <1>2, <1>3

LEMMA CreateInputIInv == ASSUME IInv, NEW u \in Threads, CreateInput(u) PROVE IInv'
<1>1. MapsOf[u] = {InputMap[u]} \cup (IF Step(u).script THEN {ScriptMap[u]} ELSE {})
  BY DEF MapsOf
<1>2. CASE Step(u).script
  BY <1>1, <1>2, CreateMapIInv DEF CreateInput
<1>3. CASE ~Step(u).script
  BY <1>1, <1>3, CreateMapIInv DEF CreateInput
<1> QED BY <1>2, <1>3

LEMMA CreateScriptIInv == ASSUME IInv, NEW u \in Threads, CreateScript(u) PROVE IInv'
<1>1. MapsOf[u] = {InputMap[u]} \cup (IF Step(u).script THEN {ScriptMap[u]} ELSE {})
  BY DEF MapsOf
<1>2. Step(u).script
  BY SeenOf DEF CreateScript, CreateMap, At, Local, OfScripts
<1> QED BY <1>1, <1>2, CreateMapIInv DEF CreateScript

LEMMA CreateJobIInv == ASSUME IInv, NEW u \in Threads, CreateJob(u) PROVE IInv'
<1>1. alive /\ thread[u] = "job" /\ UNCHANGED <<namespace, maps, pods, ran, recorded, faults, blind, lost, alive>>
  BY DEF CreateJob, At, mishaps
<1>2. CASE ~(Acceptable(JobName[u]) /\ ~Taken(JobName[u], jobs))
  <2>1. Fail(u) /\ UNCHANGED jobs
    BY <1>2 DEF CreateJob
  <2> QED BY <1>1, <2>1, FailIInv
<1>3. CASE Acceptable(JobName[u]) /\ ~Taken(JobName[u], jobs)
  <2>1. jobs' = jobs \cup {BuildJob(u)} /\ Proceed(u, "wait")
    BY <1>3 DEF CreateJob
  <2>2. Moves(u, "wait", seen[u], outcome[u])
    BY <1>1, <2>1, Unwritten DEF Proceed, Goto, Moves
  <2>3. "wait" \in ThreadPhase
    BY DEF ThreadPhase
  <2>4. /\ Memory' /\ thread'[u] = "wait" /\ seen'[u] = seen[u] /\ outcome'[u] = outcome[u]
        /\ recorded'[u] = recorded[u] /\ ran'[u] = ran[u] /\ alive' = alive
        /\ \A t \in Threads \ {u} :
             /\ thread'[t] = thread[t] /\ seen'[t] = seen[t] /\ outcome'[t] = outcome[t]
             /\ recorded'[t] = recorded[t] /\ ran'[t] = ran[t]
    BY <2>2, <2>3, SeenOf, MemoryAfterMove
  <2>5. /\ BuildJob(u) \in Job /\ BuildJob(u).owner = u /\ BuildJob(u).status = "active"
        /\ BuildJob(u).name = JobName[u] /\ BuildJob(u).mounts = MapsOf[u]
    BY DEF Job, BuildJob
  <2>6. Objects'
    BY <1>1, <2>1, <2>5 DEF IInv, Objects
  <2>7. /\ \A t : Maps(t)' = Maps(t) /\ Pods(t)' = Pods(t)
        /\ \A t \in Threads \ {u} : Jobs(t)' = Jobs(t)
    BY <1>1, <2>1, <2>5 DEF Jobs, Pods, Maps
  <2>8. \A t \in Threads \ {u} : Same(t)
    BY <1>1, <2>4, <2>7 DEF Same
  <2>9. thread[u] \in BeforeJob /\ Local(u) /\ Jobs(u) = {} /\ Pods(u) = {} /\ ran[u] = {}
    BY <1>1, SeenOf DEF BeforeJob, Early, Local, NotYet
  <2>10. Jobs(u)' = {BuildJob(u)}
    BY <2>1, <2>5, <2>9 DEF Jobs
  <2>11. OfScripts(u)' /\ NothingLeft(u)' /\ NotYet(u)'
    BY <2>4 DEF OfScripts, NothingLeft, NotYet, BeforeJob, Early
  <2>12. Held(u)'
    BY <1>1, <2>4, <2>9, <2>10 DEF Local, Held, Reading
  <2>13. Lone(u)' /\ PodsTrue(u)' /\ JobsTrue(u)'
    BY <2>4, <2>5, <2>7, <2>9, <2>10 DEF Lone, PodsTrue, JobsTrue
  <2>14. SeenTrue(u)'
    BY <1>1, <2>4, <2>9 DEF Local, SeenTrue, Reading, BeforeJob, Early
  <2>15. PassesEarned(u)'
    BY <1>1, <2>4, <2>9 DEF Local, PassesEarned, Earned, ReallyPassed
  <2>16. Local(u)'
    BY <2>11, <2>12, <2>13, <2>14, <2>15 DEF Local
  <2> QED BY <2>4, <2>6, <2>8, <2>16, Locally
<1> QED BY <1>2, <1>3

LEMMA IdleIsSeen == Idle \in Seen
<1>1. NoResult \in Words /\ NoCode \in Codes /\ NoReason \in Reasons /\ {} \in SUBSET Threads
  BY DEF Words, Codes, Reasons
<1> QED BY <1>1 DEF Idle, Seen

\* The wait has ended: the job's status, or a timeout.
LEMMA MoveToLogs ==
  ASSUME IInv, NEW u \in Threads, alive, thread[u] = "wait", NEW j \in JobStates,
         Goto(u, "logs"), Saw(u, j), UNCHANGED outcome,
         j # "timeout" => \E k \in Jobs(u) : k.status = j,
         UNCHANGED <<maps, jobs, pods, ran, recorded, alive, blind, lost>>
  PROVE  IInv'
<1>1. Jobs(u)' = Jobs(u) /\ Maps(u)' = Maps(u) /\ Pods(u)' = Pods(u)
  BY DEF Jobs, Maps, Pods
<1>2. "logs" \in ThreadPhase
  BY DEF ThreadPhase
<1>3. seen[u] = Idle /\ seen[u] \in Seen /\ Local(u)
  BY SeenOf DEF Local, SeenTrue
<1>4. PICK w \in Seen :
        /\ Moves(u, "logs", w, outcome[u])
        /\ w.job = j /\ w.word = NoResult /\ w.code = NoCode /\ w.reason = NoReason /\ w.from = {}
  <2> DEFINE v == [job |-> j, word |-> NoResult, code |-> NoCode, reason |-> NoReason, from |-> {}]
  <2>1. [seen[u] EXCEPT !.job = j] = v
    BY <1>3 DEF Idle
  <2>2. NoResult \in Words /\ NoCode \in Codes /\ NoReason \in Reasons /\ {} \in SUBSET Threads
    BY DEF Words, Codes, Reasons
  <2>3. v \in Seen
    BY <2>2 DEF Seen
  <2>4. seen' = [seen EXCEPT ![u] = [seen[u] EXCEPT !.job = j]]
    BY DEF Saw
  <2>5. seen' = [seen EXCEPT ![u] = v]
    BY <2>1, <2>4
  <2>6. Moves(u, "logs", v, outcome[u])
    BY <2>5, Unwritten DEF Goto, Moves
  <2> QED BY <2>3, <2>6
<1> HIDE DEF Seen
<1>5. /\ thread'[u] = "logs" /\ seen'[u] = w /\ outcome'[u] = outcome[u]
      /\ recorded'[u] = recorded[u] /\ ran'[u] = ran[u] /\ alive' = alive
  BY <1>2, <1>4, MemoryAfterMove
<1>6. OfScripts(u)' /\ NotYet(u)' /\ NothingLeft(u)'
  BY <1>5 DEF OfScripts, NotYet, NothingLeft, BeforeJob, Early
<1>7. Held(u)'
  BY <1>1, <1>3, <1>5 DEF Local, Held, Reading
<1>8. Lone(u)' /\ PodsTrue(u)' /\ JobsTrue(u)'
  BY <1>1, <1>3, <1>5 DEF Local, Lone, PodsTrue, JobsTrue
<1>9. SeenTrue(u)'
  BY <1>1, <1>4, <1>5 DEF SeenTrue, BeforeJob, Early, Reading
<1>10. PassesEarned(u)'
  BY <1>3, <1>5 DEF Local, PassesEarned, Earned, ReallyPassed
<1> QED BY <1>2, <1>4, <1>6, <1>7, <1>8, <1>9, <1>10, MoveOutside DEF Local

LEMMA SeeJobEndIInv == ASSUME NamesApart, IInv, NEW u \in Threads, SeeJobEnd(u) PROVE IInv'
<1>1. alive /\ thread[u] = "wait" /\ UNCHANGED <<maps, jobs, pods, ran, recorded, alive, blind, lost>>
      /\ Goto(u, "logs") /\ UNCHANGED outcome
  BY DEF SeeJobEnd, At, cluster, mishaps
<1>2. PICK j \in jobs : j.name = JobName[u] /\ j.status # "active" /\ Saw(u, j.status)
  BY DEF SeeJobEnd
<1>3. j.owner \in Threads /\ j.name = JobName[j.owner] /\ j.status \in JobStates /\ j.status # "timeout"
  BY <1>2 DEF IInv, Objects, Job, JobStates
<1>4. j \in Jobs(u)
  BY <1>2, <1>3 DEF NamesApart, Jobs
<1> QED BY <1>1, <1>2, <1>3, <1>4, MoveToLogs

LEMMA WaitTimesOutIInv == ASSUME IInv, NEW u \in Threads, WaitTimesOut(u) PROVE IInv'
<1>1. alive /\ thread[u] = "wait" /\ UNCHANGED <<maps, jobs, pods, ran, recorded, alive, blind, lost>>
      /\ Goto(u, "logs") /\ UNCHANGED outcome /\ Saw(u, "timeout")
  BY DEF WaitTimesOut, At, cluster, mishaps
<1>2. "timeout" \in JobStates
  BY DEF JobStates
<1> QED BY <1>1, <1>2, MoveToLogs

\* A pod of u's job's name is u's.
LEMMA PodsAreOwn == ASSUME NamesApart, IInv, NEW u \in Threads PROVE PodsOf(u) = Pods(u)
<1>1. \A p \in pods : p.owner \in Threads /\ p.name = JobName[p.owner]
  BY DEF IInv, Objects, Pod
<1> QED BY <1>1 DEF NamesApart, PodsOf, Pods

LEMMA PodOwner ==
  ASSUME IInv, NEW u \in Threads, NEW p \in Pods(u)
  PROVE  /\ p.owner = u /\ p.word \in Words /\ p.code \in Codes
         /\ (p.word # NoResult => \E c \in ran[u] : c.word = p.word)
         /\ (p.code # NoCode => \E c \in ran[u] \ {Started} : c.word = p.word /\ c.code = p.code)
<1>1. p.owner = u /\ p.word \in Words /\ p.code \in Codes
  BY DEF Pods, IInv, Objects, Pod
<1>2. /\ p.code = NoCode => p.word = NoResult /\ ran[u] = {Started}
      /\ p.code # NoCode =>
            \E c \in Ends : c.code = p.code /\ c.word = p.word /\ ran[u] = {Started, c}
  BY SeenOf DEF Local, PodsTrue
<1>3. Started.code = NoCode
  BY DEF Started
<1> QED BY <1>1, <1>2, <1>3

LEMMA ReadLogsIInv == ASSUME NamesApart, IInv, NEW u \in Threads, ReadLogs(u) PROVE IInv'
<1>1. alive /\ thread[u] = "logs" /\ UNCHANGED <<maps, jobs, pods, ran, recorded, alive, blind, lost, outcome>>
      /\ Goto(u, "state")
  BY DEF ReadLogs, At, cluster, mishaps
<1>2. Local(u) /\ seen[u] \in Seen /\ "state" \in ThreadPhase
  BY SeenOf DEF ThreadPhase
<1>3. /\ seen[u].job \in JobStates /\ seen[u].code = NoCode /\ seen[u].reason = NoReason
      /\ seen[u].job # "timeout" => \E j \in Jobs(u) : j.status = seen[u].job
      /\ seen[u].word = NoResult /\ seen[u].from \subseteq {u}
  BY <1>1, <1>2 DEF Local, SeenTrue, Reading
<1>4. PICK w \in Seen :
        /\ Moves(u, "state", w, outcome[u])
        /\ w.job = seen[u].job /\ w.code = NoCode /\ w.reason = NoReason /\ w.from \subseteq {u}
        /\ w.word # NoResult => \E c \in ran[u] : c.word = w.word
        /\ (Pods(u) = {} \/ \E p \in Pods(u) : p.word = w.word)
  <2>1. CASE PodsOf(u) = {} /\ UNCHANGED seen
    <3>1. Moves(u, "state", seen[u], outcome[u])
      BY <1>1, <2>1, Unwritten DEF Goto, Moves
    <3>2. Pods(u) = {}
      BY <2>1, PodsAreOwn
    <3> HIDE DEF Seen
    <3> QED BY <1>2, <1>3, <3>1, <3>2
  <2>2. ASSUME NEW p \in PodsOf(u),
               seen' = [seen EXCEPT ![u].word = p.word, ![u].from = @ \cup {p.owner}]
        PROVE  \E w \in Seen :
                 /\ Moves(u, "state", w, outcome[u])
                 /\ w.job = seen[u].job /\ w.code = NoCode /\ w.reason = NoReason /\ w.from \subseteq {u}
                 /\ w.word # NoResult => \E c \in ran[u] : c.word = w.word
                 /\ (Pods(u) = {} \/ \E q \in Pods(u) : q.word = w.word)
    <3> DEFINE w == [seen[u] EXCEPT !.word = p.word, !.from = @ \cup {p.owner}]
    <3>1. p \in Pods(u)
      BY PodsAreOwn
    <3>2. /\ p.owner = u /\ p.word \in Words
          /\ p.word # NoResult => \E c \in ran[u] : c.word = p.word
      BY <3>1, PodOwner
    <3>3. /\ w \in Seen /\ w.job = seen[u].job /\ w.word = p.word /\ w.code = seen[u].code
          /\ w.reason = seen[u].reason /\ w.from = seen[u].from \cup {p.owner}
      BY <1>2, <3>2 DEF Seen
    <3>4. seen' = [seen EXCEPT ![u] = w]
      BY <2>2, <1>2 DEF IInv, Memory
    <3> HIDE DEF w, Seen
    <3>5. Moves(u, "state", w, outcome[u])
      BY <1>1, <3>4, Unwritten DEF Goto, Moves
    <3>6. w.from \subseteq {u}
      BY <1>3, <3>2, <3>3
    <3>7. w.word # NoResult => \E c \in ran[u] : c.word = w.word
      BY <3>2, <3>3
    <3> QED BY <1>3, <3>1, <3>3, <3>5, <3>6, <3>7
  <2> QED BY <2>1, <2>2 DEF ReadLogs
<1> HIDE DEF Seen
<1>5. Jobs(u)' = Jobs(u) /\ Maps(u)' = Maps(u) /\ Pods(u)' = Pods(u)
  BY <1>1 DEF Jobs, Maps, Pods
<1>6. /\ thread'[u] = "state" /\ seen'[u] = w /\ outcome'[u] = outcome[u]
      /\ recorded'[u] = recorded[u] /\ ran'[u] = ran[u] /\ alive' = alive
  BY <1>2, <1>4, MemoryAfterMove
<1>7. OfScripts(u)' /\ NotYet(u)' /\ NothingLeft(u)'
  BY <1>6 DEF OfScripts, NotYet, NothingLeft, BeforeJob, Early
<1>8. Held(u)'
  BY <1>1, <1>2, <1>5, <1>6 DEF Local, Held, Reading
<1>9. Lone(u)' /\ PodsTrue(u)' /\ JobsTrue(u)'
  BY <1>2, <1>5, <1>6 DEF Local, Lone, PodsTrue, JobsTrue
<1>10. SeenTrue(u)'
  <2>1. seen[u].job = "succeeded" => Pods(u) # {}
    BY <1>2, <1>3 DEF Local, JobsTrue
  <2> QED BY <1>1, <1>3, <1>4, <1>5, <1>6, <2>1 DEF SeenTrue, BeforeJob, Early, Reading
<1>11. PassesEarned(u)'
  BY <1>1, <1>2, <1>6 DEF Local, PassesEarned, Earned, ReallyPassed
<1> QED BY <1>1, <1>2, <1>4, <1>7, <1>8, <1>9, <1>10, <1>11, MoveOutside DEF Local

\* What makes resolve_outcome say "passed".
LEMMA PassOfResolve ==
  ASSUME NEW state, NEW code, NEW reason, NEW word, ResolveOutcome(state, code, reason, word) = "passed"
  PROVE  \/ word # NoResult /\ word = "passed"
         \/ /\ word = NoResult /\ state # "timeout"
            /\ code = 0 \/ (code = NoCode /\ state = "succeeded")
BY DEF ResolveOutcome, NormalizeStatus

\* Logs that were read of a job that ended before are those of the pod whose
\* state is read now.
LEMMA ReadStateIInv == ASSUME NamesApart, IInv, NEW u \in Threads, ReadState(u) PROVE IInv'
<1>1. alive /\ thread[u] = "state" /\ UNCHANGED <<maps, jobs, pods, ran, recorded, alive, blind, lost>>
  BY DEF ReadState, At, cluster, mishaps
<1>2. Local(u) /\ seen[u] \in Seen
  BY SeenOf
<1>3. /\ seen[u].job \in JobStates /\ seen[u].code = NoCode /\ seen[u].from \subseteq {u}
      /\ seen[u].job # "timeout" => \E j \in Jobs(u) : j.status = seen[u].job
      /\ seen[u].job = "succeeded" /\ u \notin blind => \E p \in Pods(u) : p.word = seen[u].word
      /\ seen[u].word # NoResult => \E c \in ran[u] : c.word = seen[u].word
  BY <1>1, <1>2 DEF Local, SeenTrue, Reading
<1>4. /\ seen[u].job = "succeeded" => \E p \in Pods(u) : p.code = 0
      /\ seen[u].job = "failed" => \A p \in Pods(u) : p.code # 0 /\ p.code # NoCode
  BY <1>2, <1>3 DEF Local, JobsTrue
<1>5. "passed" # NoResult /\ JobStates = {"succeeded", "failed", "timeout"}
  BY DEF NoResult, JobStates
<1>6. ASSUME NEW w \in Seen, Resolve(u, w), w.from \subseteq {u},
             w.job = seen[u].job, w.word = seen[u].word,
             \/ Pods(u) = {} /\ w.code = NoCode
             \/ \E p \in Pods(u) : w.code = p.code
      PROVE  IInv'
  <2> DEFINE o == ResolveOutcome(w.job, w.code, w.reason, w.word)
  <2>1. Moves(u, "delete_job", w, o)
    BY <1>1, <1>6 DEF Resolve, Goto, Moves
  <2>2. ASSUME o = "passed" PROVE Earned(u)
    <3>1. CASE w.word = "passed"
      <4>1. \E c \in ran[u] : c.word = "passed" /\ c # Started
        BY <1>3, <1>5, <1>6, <3>1 DEF Started
      <4> QED BY <4>1 DEF Earned, ReallyPassed
    <3>2. CASE w.word = NoResult /\ w.job # "timeout" /\ (w.code = 0 \/ (w.code = NoCode /\ w.job = "succeeded"))
      <4>1. w.job = "succeeded" /\ w.code = 0
        <5>1. Pods(u) # {} => \E p \in Pods(u) : w.code = p.code
          BY <1>6
        <5>2. w.job = "failed" => FALSE
          <6>1. 0 # NoCode
            BY DEF NoCode
          <6> QED BY <1>4, <1>6, <3>2, <6>1
        <5>3. w.job = "succeeded"
          BY <1>3, <1>5, <1>6, <3>2, <5>2
        <5> QED BY <1>2, <1>4, <1>6, <5>1, <5>3 DEF Local, Lone
      <4>2. PICK p \in Pods(u) : p.code = 0
        BY <1>4, <1>6, <4>1
      <4>3. PICK c \in ran[u] \ {Started} : c.word = p.word /\ c.code = p.code
        <5>1. p.code # NoCode
          BY <4>2 DEF NoCode
        <5> QED BY <5>1, PodOwner
      <4>4. u \notin blind => p.word = NoResult
        BY <1>2, <1>3, <1>6, <3>2, <4>1 DEF Local, Lone
      <4> QED BY <4>2, <4>3, <4>4 DEF Earned, ReallyPassed
    <3> QED BY <2>2, <3>1, <3>2, PassOfResolve
  <2>3. Earned(u)' <=> Earned(u)
    BY <1>1 DEF Earned, ReallyPassed
  <2> HIDE DEF o, Seen
  <2> QED BY <1>1, <1>3, <1>6, <2>1, <2>2, <2>3, MoveToCleanup
<1>7. CASE PodsOf(u) = {} /\ Resolve(u, seen[u])
  BY <1>2, <1>3, <1>6, <1>7, PodsAreOwn
<1>8. ASSUME NEW p \in PodsOf(u),
             Resolve(u, [seen[u] EXCEPT !.code = p.code, !.from = @ \cup {p.owner},
                           !.reason = IF p.code = NoCode THEN NoReason ELSE Reason(p.code)])
      PROVE  IInv'
  <2> DEFINE r == IF p.code = NoCode THEN NoReason ELSE Reason(p.code)
             w == [seen[u] EXCEPT !.code = p.code, !.from = @ \cup {p.owner}, !.reason = r]
  <2>1. p \in Pods(u) /\ p.owner = u /\ p.code \in Codes
    BY PodsAreOwn, PodOwner
  <2>2. r \in Reasons
    BY DEF Reasons, Reason
  <2>3. Resolve(u, w)
    BY <1>8
  <2> HIDE DEF r
  <2>4. /\ w \in Seen /\ w.job = seen[u].job /\ w.word = seen[u].word /\ w.code = p.code
        /\ w.from = seen[u].from \cup {p.owner}
    BY <1>2, <2>1, <2>2 DEF Seen
  <2> HIDE DEF w, Seen
  <2> QED BY <1>3, <1>6, <2>1, <2>3, <2>4
<1> QED BY <1>7, <1>8 DEF ReadState

LEMMA DeleteJobIInv == ASSUME NamesApart, IInv, NEW u \in Threads, DeleteJob(u) PROVE IInv'
<1>1. /\ alive /\ thread[u] = "delete_job" /\ UNCHANGED <<maps, pods, ran, recorded, alive, blind, lost>>
      /\ jobs' = {j \in jobs : j.name # JobName[u]}
      /\ Proceed(u, "delete_input")
  BY DEF DeleteJob, At, mishaps
<1>2. Moves(u, "delete_input", seen[u], outcome[u]) /\ "delete_input" \in ThreadPhase
  BY <1>1, Unwritten DEF Proceed, Goto, Moves, ThreadPhase
<1>3. /\ Memory' /\ thread'[u] = "delete_input" /\ seen'[u] = seen[u] /\ outcome'[u] = outcome[u]
      /\ recorded'[u] = recorded[u] /\ ran'[u] = ran[u] /\ alive' = alive
      /\ \A t \in Threads \ {u} :
           /\ thread'[t] = thread[t] /\ seen'[t] = seen[t] /\ outcome'[t] = outcome[t]
           /\ recorded'[t] = recorded[t] /\ ran'[t] = ran[t]
  BY <1>2, SeenOf, MemoryAfterMove
<1>4. \A j \in jobs : j.owner \in Threads /\ j.name = JobName[j.owner]
  BY DEF IInv, Objects, Job
<1>5. Objects'
  BY <1>1 DEF IInv, Objects
<1>6. /\ Jobs(u)' = {}
      /\ \A t \in Threads \ {u} : Jobs(t)' = Jobs(t)
      /\ \A t : Maps(t)' = Maps(t) /\ Pods(t)' = Pods(t)
  BY <1>1, <1>4 DEF Jobs, Maps, Pods, NamesApart
<1>7. \A t \in Threads \ {u} : Same(t)
  BY <1>1, <1>3, <1>6 DEF Same
<1>8. OfScripts(u)' /\ NotYet(u)' /\ Held(u)' /\ NothingLeft(u)'
  BY <1>3, <1>6 DEF OfScripts, NotYet, Held, NothingLeft, BeforeJob, Early, Reading
<1>9. Lone(u)' /\ PodsTrue(u)' /\ JobsTrue(u)'
  BY <1>3, <1>6, SeenOf DEF Local, Lone, PodsTrue, JobsTrue
<1>10. SeenTrue(u)'
  BY <1>3, SeenOf DEF Local, SeenTrue, BeforeJob, Early, Reading
<1>11. PassesEarned(u)'
  BY <1>1, <1>3, SeenOf DEF Local, PassesEarned, Earned, ReallyPassed
<1>12. Local(u)'
  BY <1>8, <1>9, <1>10, <1>11 DEF Local
<1> QED BY <1>3, <1>5, <1>7, <1>12, Locally

LEMMA DeleteMapIInv ==
  ASSUME NamesApart, IInv, NEW u \in Threads, NEW step \in {"delete_input", "delete_script"},
         NEW name \in MapsOf[u], NEW next \in {"delete_script", "done"},
         DeleteMap(u, step, name, next),
         next = "delete_script" => name = InputMap[u] /\ Step(u).script,
         next = "done" => (u \notin lost => \A m \in Maps(u) : m.name = name)
  PROVE  IInv'
<1>1. /\ alive /\ thread[u] = step /\ UNCHANGED <<jobs, pods, ran, recorded, alive, blind, lost>>
      /\ maps' = {m \in maps : m.name # name}
      /\ Proceed(u, next)
  BY DEF DeleteMap, At, mishaps
<1>2. Moves(u, next, seen[u], outcome[u]) /\ next \in ThreadPhase
  BY <1>1, Unwritten DEF Proceed, Goto, Moves, ThreadPhase
<1>3. /\ Memory' /\ thread'[u] = next /\ seen'[u] = seen[u] /\ outcome'[u] = outcome[u]
      /\ recorded'[u] = recorded[u] /\ ran'[u] = ran[u] /\ alive' = alive
      /\ \A t \in Threads \ {u} :
           /\ thread'[t] = thread[t] /\ seen'[t] = seen[t] /\ outcome'[t] = outcome[t]
           /\ recorded'[t] = recorded[t] /\ ran'[t] = ran[t]
  BY <1>2, SeenOf, MemoryAfterMove
<1>4. \A m \in maps : m.owner \in Threads /\ m.name \in MapsOf[m.owner]
  BY DEF IInv, Objects, Map
<1>5. Objects'
  BY <1>1 DEF IInv, Objects
<1>6. /\ Maps(u)' = {m \in Maps(u) : m.name # name}
      /\ \A t : Jobs(t)' = Jobs(t) /\ Pods(t)' = Pods(t)
  BY <1>1 DEF Jobs, Maps, Pods
<1>7. \A t \in Threads \ {u} : Maps(t)' = Maps(t)
  <2> SUFFICES ASSUME NEW t \in Threads \ {u} PROVE Maps(t)' = Maps(t)
    OBVIOUS
  <2>1. name \notin MapsOf[t]
    BY DEF NamesApart
  <2>2. \A m \in Maps(t) : m.name # name
    BY <1>4, <2>1 DEF Maps
  <2> QED BY <1>1, <2>2 DEF Maps
<1>8. \A t \in Threads \ {u} : Same(t)
  BY <1>1, <1>3, <1>6, <1>7 DEF Same
<1>9. OfScripts(u)' /\ NotYet(u)' /\ Held(u)'
  BY <1>3 DEF OfScripts, NotYet, Held, BeforeJob, Early, Reading
<1>10. NothingLeft(u)'
  <2>1. u \notin lost => Jobs(u) = {}
    BY <1>1, SeenOf DEF Local, NothingLeft
  <2> QED BY <1>1, <1>3, <1>6, <2>1 DEF NothingLeft
<1>11. Lone(u)' /\ PodsTrue(u)' /\ JobsTrue(u)'
  BY <1>3, <1>6, SeenOf DEF Local, Lone, PodsTrue, JobsTrue
<1>12. SeenTrue(u)'
  BY <1>3, SeenOf DEF Local, SeenTrue, BeforeJob, Early, Reading
<1>13. PassesEarned(u)'
  BY <1>1, <1>3, SeenOf DEF Local, PassesEarned, Earned, ReallyPassed
<1>14. Local(u)'
  BY <1>9, <1>10, <1>11, <1>12, <1>13 DEF Local
<1> QED BY <1>3, <1>5, <1>8, <1>14, Locally

LEMMA MapsAreOwn ==
  ASSUME IInv, NEW u \in Threads
  PROVE  /\ \A m \in Maps(u) : m.name \in MapsOf[u]
         /\ MapsOf[u] = {InputMap[u]} \cup (IF Step(u).script THEN {ScriptMap[u]} ELSE {})
BY DEF IInv, Objects, Maps, MapsOf

LEMMA DeleteInputIInv == ASSUME NamesApart, IInv, NEW u \in Threads, DeleteInput(u) PROVE IInv'
<1>1. CASE Step(u).script
  BY <1>1, MapsAreOwn, DeleteMapIInv DEF DeleteInput
<1>2. CASE ~Step(u).script
  BY <1>2, MapsAreOwn, DeleteMapIInv DEF DeleteInput
<1> QED BY <1>1, <1>2

LEMMA DeleteScriptIInv == ASSUME NamesApart, IInv, NEW u \in Threads, DeleteScript(u) PROVE IInv'
<1>1. thread[u] = "delete_script"
  BY DEF DeleteScript, DeleteMap, At
<1>2. Step(u).script /\ (u \notin lost => \A m \in Maps(u) : m.name # InputMap[u])
  BY <1>1, SeenOf DEF Local, OfScripts, NothingLeft
<1> QED BY <1>2, MapsAreOwn, DeleteMapIInv DEF DeleteScript

-----------------------------------------------------------------------------
(* Calls that fail, the runners, a stop of the process. *)

LEMMA MoveAfterDeletion ==
  ASSUME IInv, NEW u \in Threads, NEW s \in {"delete_input", "delete_script", "done"},
         NEW o, Moves(u, s, seen[u], o), o \in {outcome[u], "error"},
         s = "delete_script" => Step(u).script,
         u \in lost' \/ (s = "done" /\ Jobs(u) = {} /\ Maps(u) = {}),
         UNCHANGED <<maps, jobs, pods, blind>>, lost' \in {lost, lost \cup {u}}
  PROVE  IInv'
<1>1. Jobs(u)' = Jobs(u) /\ Maps(u)' = Maps(u) /\ Pods(u)' = Pods(u)
  BY DEF Jobs, Maps, Pods
<1>2. s \in ThreadPhase
  BY DEF ThreadPhase
<1>3. /\ thread'[u] = s /\ seen'[u] = seen[u] /\ outcome'[u] = o
      /\ recorded'[u] = recorded[u] /\ ran'[u] = ran[u] /\ alive' = alive
  BY <1>2, SeenOf, MemoryAfterMove
<1>4. OfScripts(u)' /\ NotYet(u)' /\ Held(u)'
  BY <1>3 DEF OfScripts, NotYet, Held, BeforeJob, Early, Reading
<1>5. NothingLeft(u)'
  BY <1>1, <1>3 DEF NothingLeft
<1>6. Lone(u)' /\ PodsTrue(u)' /\ JobsTrue(u)'
  BY <1>1, <1>3, SeenOf DEF Local, Lone, PodsTrue, JobsTrue
<1>7. SeenTrue(u)'
  BY <1>3, SeenOf DEF Local, SeenTrue, BeforeJob, Early, Reading
<1>8. PassesEarned(u)'
  BY <1>3, SeenOf DEF Local, PassesEarned, Earned, ReallyPassed
<1> QED BY <1>2, <1>4, <1>5, <1>6, <1>7, <1>8, SeenOf, MoveOutside DEF Local

LEMMA NoClientIInv == ASSUME IInv, NEW u \in Threads, NoClient(u) PROVE IInv'
<1>1. /\ alive /\ thread[u] = "namespace"
      /\ UNCHANGED <<maps, jobs, pods, ran, recorded, alive, blind, lost, seen>>
      /\ Goto(u, "done") /\ outcome' = [outcome EXCEPT ![u] = "error"]
  BY DEF NoClient, Fault, At, cluster
<1>2. Moves(u, "done", seen[u], "error")
  BY <1>1, Unwritten DEF Goto, Moves
<1>3. Jobs(u) = {} /\ Maps(u) = {}
  BY <1>1, SeenOf DEF Local, NotYet, BeforeJob, Early
<1> QED BY <1>1, <1>2, <1>3, MoveAfterDeletion

LEMMA CallFailsIInv == ASSUME IInv, NEW u \in Threads, CallFails(u) PROVE IInv'
<1>1. Fail(u) /\ UNCHANGED <<maps, jobs, pods, ran, recorded, alive, blind, lost>>
  BY DEF CallFails, Fault, cluster
<1> QED BY <1>1, FailIInv

LEMMA DeletionFailsIInv == ASSUME IInv, NEW u \in Threads, DeletionFails(u) PROVE IInv'
<1>1. /\ UNCHANGED <<maps, jobs, pods, ran, recorded, alive, blind>> /\ lost' = lost \cup {u}
      /\ Proceed(u, After(u)) \/ Proceed(u, "done")
  BY DEF DeletionFails, Fault, cluster
<1>2. PICK s \in {"delete_input", "delete_script", "done"} :
        Proceed(u, s) /\ (s = "delete_script" => Step(u).script)
  BY <1>1 DEF After
<1>3. Moves(u, s, seen[u], outcome[u])
  BY <1>1, <1>2, Unwritten DEF Proceed, Goto, Moves
<1> QED BY <1>1, <1>2, <1>3, MoveAfterDeletion

LEMMA ReadFailsIInv == ASSUME IInv, NEW u \in Threads, ReadFails(u) PROVE IInv'
<1>1. UNCHANGED <<maps, jobs, pods, ran, recorded, alive, lost>> /\ blind' = blind \cup {u}
  BY DEF ReadFails, Fault, cluster
<1>2. Local(u) /\ seen[u] \in Seen
  BY SeenOf
<1> HIDE DEF Seen
<1>3. CASE At(u, "logs") /\ Proceed(u, "state")
  <2>1. Moves(u, "state", seen[u], outcome[u]) /\ "state" \in ThreadPhase
    BY <1>1, <1>3, Unwritten DEF Proceed, Goto, Moves, ThreadPhase
  <2>2. /\ thread'[u] = "state" /\ seen'[u] = seen[u] /\ outcome'[u] = outcome[u]
        /\ recorded'[u] = recorded[u] /\ ran'[u] = ran[u] /\ alive' = alive
    BY <1>2, <2>1, MemoryAfterMove
  <2>3. Jobs(u)' = Jobs(u) /\ Maps(u)' = Maps(u) /\ Pods(u)' = Pods(u) /\ alive /\ thread[u] = "logs"
    BY <1>1, <1>3 DEF Jobs, Maps, Pods, At
  <2>4. OfScripts(u)' /\ NotYet(u)' /\ NothingLeft(u)'
    BY <2>2 DEF OfScripts, NotYet, NothingLeft, BeforeJob, Early
  <2>5. Held(u)'
    BY <1>1, <1>2, <2>2, <2>3 DEF Local, Held, Reading
  <2>6. Lone(u)' /\ PodsTrue(u)' /\ JobsTrue(u)'
    BY <1>2, <2>2, <2>3 DEF Local, Lone, PodsTrue, JobsTrue
  <2>7. SeenTrue(u)'
    BY <1>1, <1>2, <2>2, <2>3 DEF Local, SeenTrue, BeforeJob, Early, Reading
  <2>8. PassesEarned(u)'
    BY <1>1, <1>2, <2>2 DEF Local, PassesEarned, Earned, ReallyPassed
  <2> QED BY <1>1, <1>2, <2>1, <2>4, <2>5, <2>6, <2>7, <2>8, MoveOutside DEF Local
<1>4. CASE At(u, "state") /\ Resolve(u, seen[u])
  <2> DEFINE o == ResolveOutcome(seen[u].job, seen[u].code, seen[u].reason, seen[u].word)
  <2>1. Moves(u, "delete_job", seen[u], o)
    BY <1>1, <1>4 DEF Resolve, Goto, Moves
  <2>2. /\ seen[u].code = NoCode /\ seen[u].from \subseteq {u}
        /\ seen[u].job # "timeout" => \E j \in Jobs(u) : j.status = seen[u].job
        /\ seen[u].word # NoResult => \E c \in ran[u] : c.word = seen[u].word
    BY <1>2, <1>4 DEF Local, SeenTrue, Reading, At
  <2>3. ASSUME o = "passed" PROVE ran[u] # {}
    <3>1. CASE seen[u].word # NoResult
      BY <2>2, <3>1
    <3>2. CASE seen[u].job = "succeeded"
      <4>1. PICK p \in Pods(u) : p.code = 0
        BY <1>2, <2>2, <3>2 DEF Local, JobsTrue
      <4> QED BY <1>2, <4>1 DEF Local, PodsTrue
    <3> QED BY <2>2, <2>3, <3>1, <3>2, PassOfResolve DEF NoCode
  <2>4. o = "passed" => Earned(u)'
    BY <1>1, <2>3 DEF Earned
  <2> HIDE DEF o
  <2> QED BY <1>1, <1>2, <2>1, <2>2, <2>4, MoveToCleanup
<1> QED BY <1>3, <1>4 DEF ReadFails

LEMMA SubmitIInv == ASSUME IInv, NEW u \in Threads, Submit(u) PROVE IInv'
<1>1. /\ thread[u] \in Early /\ "namespace" \in Early /\ Proceed(u, "namespace")
      /\ UNCHANGED <<maps, jobs, pods, ran, recorded, alive, blind, lost>>
  BY DEF Submit, At, Early, cluster, mishaps
<1>2. Moves(u, "namespace", seen[u], outcome[u])
  BY <1>1, Unwritten DEF Proceed, Goto, Moves
<1> QED BY <1>1, <1>2, MoveEarly

LEMMA RecordIInv ==
  ASSUME IInv, NEW u \in Threads, NEW status, Record(u, status), status = "passed" => Earned(u)
  PROVE  IInv'
<1>1. /\ recorded' = [recorded EXCEPT ![u] = status]
      /\ UNCHANGED <<maps, jobs, pods, ran, thread, seen, outcome, alive, blind, lost>>
  BY DEF Record, cluster, mishaps
<1>2. recorded = [t \in Threads |-> recorded[t]]
  BY DEF IInv, Memory
<1>3. /\ recorded' = [t \in Threads |-> recorded'[t]] /\ recorded'[u] = status
      /\ \A t \in Threads \ {u} : recorded'[t] = recorded[t]
  BY <1>1, <1>2
<1>4. Memory'
  BY <1>1, <1>3 DEF IInv, Memory
<1>5. Objects' /\ \A t : Jobs(t)' = Jobs(t) /\ Maps(t)' = Maps(t) /\ Pods(t)' = Pods(t)
  BY <1>1 DEF IInv, Objects, Jobs, Maps, Pods
<1>6. \A t \in Threads \ {u} : Same(t)
  BY <1>1, <1>3, <1>5 DEF Same
<1>7. OfScripts(u)' /\ NotYet(u)' /\ Held(u)' /\ NothingLeft(u)'
  BY <1>1, <1>5, SeenOf DEF Local, OfScripts, NotYet, Held, NothingLeft
<1>8. Lone(u)' /\ PodsTrue(u)' /\ JobsTrue(u)' /\ SeenTrue(u)'
  BY <1>1, <1>5, SeenOf DEF Local, Lone, PodsTrue, JobsTrue, SeenTrue
<1>9. PassesEarned(u)'
  BY <1>1, <1>3, SeenOf DEF Local, PassesEarned, Earned, ReallyPassed
<1>10. Local(u)'
  BY <1>7, <1>8, <1>9 DEF Local
<1> QED BY <1>4, <1>5, <1>6, <1>10, Locally

LEMMA StepReturnsIInv == ASSUME IInv, NEW u \in Threads, StepReturns(u) PROVE IInv'
<1>1. Record(u, outcome[u]) /\ (outcome[u] = "passed" => Earned(u))
  BY SeenOf DEF StepReturns, Local, PassesEarned
<1> QED BY <1>1, RecordIInv

LEMMA StepTimesOutIInv == ASSUME IInv, NEW u \in Threads, StepTimesOut(u) PROVE IInv'
BY RecordIInv DEF StepTimesOut

LEMMA CrashIInv == ASSUME IInv, Crash PROVE IInv'
<1>1. /\ alive' = FALSE /\ thread' = [t \in Threads |-> "idle"] /\ seen' = [t \in Threads |-> Idle]
      /\ outcome' = [t \in Threads |-> "none"]
      /\ UNCHANGED <<maps, jobs, pods, ran, recorded, blind, lost>>
  BY DEF Crash, cluster
<1>2. Memory'
  <2>1. "idle" \in ThreadPhase
    BY DEF ThreadPhase
  <2> HIDE DEF Seen
  <2>2. thread' \in [Threads -> ThreadPhase] /\ seen' \in [Threads -> Seen]
    BY <1>1, <2>1, IdleIsSeen
  <2> QED BY <1>1, <2>2 DEF IInv, Memory
<1>3. Objects' /\ \A t : Jobs(t)' = Jobs(t) /\ Maps(t)' = Maps(t) /\ Pods(t)' = Pods(t)
  BY <1>1 DEF IInv, Objects, Jobs, Maps, Pods
<1>4. ASSUME NEW u \in Threads PROVE Local(u)'
  <2>1. thread'[u] = "idle" /\ seen'[u] = Idle /\ outcome'[u] = "none" /\ Local(u)
    BY <1>1, SeenOf
  <2>2. OfScripts(u)' /\ NotYet(u)' /\ Held(u)' /\ NothingLeft(u)'
    BY <1>1, <2>1 DEF OfScripts, NotYet, Held, NothingLeft
  <2>3. Lone(u)' /\ PodsTrue(u)' /\ JobsTrue(u)'
    BY <1>1, <1>3, <2>1 DEF Local, Lone, PodsTrue, JobsTrue
  <2>4. SeenTrue(u)'
    BY <1>1, <2>1 DEF SeenTrue, Idle
  <2>5. PassesEarned(u)'
    BY <1>1, <2>1 DEF Local, PassesEarned, Earned, ReallyPassed
  <2> QED BY <2>2, <2>3, <2>4, <2>5 DEF Local
<1> QED BY <1>2, <1>3, <1>4 DEF IInv

-----------------------------------------------------------------------------
(* The cluster. *)

\* What one thread owns changes in the cluster, and what its container did.
LEMMA InCluster ==
  ASSUME IInv, NEW u \in Threads, NEW r, ran' = [ran EXCEPT ![u] = r],
         UNCHANGED <<maps, thread, seen, outcome, recorded, alive, blind, lost>>,
         Objects', \A t \in Threads \ {u} : Jobs(t)' = Jobs(t) /\ Pods(t)' = Pods(t),
         NotYet(u)', alive /\ thread[u] \in {"wait"} \cup Reading => Jobs(u)' # {},
         u \notin lost /\ thread[u] \in {"delete_input", "delete_script", "done"} => Jobs(u)' = {},
         Lone(u)', PodsTrue(u)', JobsTrue(u)', SeenTrue(u)', PassesEarned(u)'
  PROVE  IInv'
<1>1. ran = [t \in Threads |-> ran[t]]
  BY DEF IInv, Memory
<1>2. ran' = [t \in Threads |-> ran'[t]] /\ \A t \in Threads \ {u} : ran'[t] = ran[t]
  BY <1>1
<1>3. Memory'
  BY <1>2 DEF IInv, Memory
<1>4. \A t : Maps(t)' = Maps(t)
  BY DEF Maps
<1>5. \A t \in Threads \ {u} : Same(t)
  BY <1>2, <1>4 DEF Same
<1>6. OfScripts(u)'
  BY SeenOf DEF Local, OfScripts
<1>7. Held(u)'
  BY SeenOf DEF Local, Held
<1>8. NothingLeft(u)'
  BY <1>4, SeenOf DEF Local, NothingLeft
<1>9. Local(u)'
  BY <1>6, <1>7, <1>8 DEF Local
<1> QED BY <1>3, <1>5, <1>9, Locally

LEMMA JobOwner ==
  ASSUME IInv, NEW j \in jobs
  PROVE  /\ j \in Job /\ j.owner \in Threads /\ j \in Jobs(j.owner)
         /\ j.name = JobName[j.owner] /\ j.mounts = MapsOf[j.owner]
         /\ j.status \in {"active", "succeeded", "failed"}
         /\ \A k \in Jobs(j.owner) : k = j
         /\ ~(alive /\ thread[j.owner] \in BeforeJob)
<1>1. /\ j \in Job /\ j.owner \in Threads /\ j \in Jobs(j.owner)
      /\ j.name = JobName[j.owner] /\ j.mounts = MapsOf[j.owner]
      /\ j.status \in {"active", "succeeded", "failed"}
  BY DEF IInv, Objects, Job, Jobs
<1>2. Local(j.owner)
  BY <1>1, SeenOf
<1> QED BY <1>1, <1>2 DEF Local, Lone, NotYet

LEMMA JobAfterEnd ==
  ASSUME IInv, NEW j \in jobs, NEW s \in {"active", "succeeded", "failed"}
  PROVE  LET k == [j EXCEPT !.status = s]
         IN k \in Job /\ k.owner = j.owner /\ k.name = j.name /\ k.mounts = j.mounts /\ k.status = s
BY JobOwner DEF Job

\* A thread whose job is active has read no end of it.
LEMMA NothingRead ==
  ASSUME IInv, NEW u \in Threads, \A j \in Jobs(u) : j.status = "active", Jobs(u) # {}
  PROVE  /\ alive /\ thread[u] \in Reading => seen[u].job = "timeout"
         /\ ~(alive /\ thread[u] \in BeforeJob)
<1>1. "active" \notin JobStates
  BY DEF JobStates
<1> QED BY <1>1, SeenOf DEF Local, SeenTrue, NotYet

LEMMA StartPodIInv == ASSUME NamesApart, IInv, NEW j \in jobs, StartPod(j) PROVE IInv'
<1> DEFINE u == j.owner
           reads == {m.owner : m \in {n \in maps : n.name \in j.mounts}}
           p == [name |-> j.name, owner |-> j.owner, code |-> NoCode, word |-> NoResult, reads |-> reads]
<1>1. /\ j.status = "active" /\ ran[u] = {} /\ pods' = pods \cup {p}
      /\ ran' = [ran EXCEPT ![u] = {Started}]
      /\ UNCHANGED <<maps, jobs, thread, seen, outcome, recorded, alive, blind, lost>>
  BY DEF StartPod, memory, mishaps
<1>2. /\ u \in Threads /\ j \in Jobs(u) /\ j.name = JobName[u] /\ j.mounts = MapsOf[u]
      /\ \A k \in Jobs(u) : k = j
  BY JobOwner
<1>3. reads \subseteq {u}
  <2>1. \A m \in maps : m.owner \in Threads /\ m.name \in MapsOf[m.owner]
    BY DEF IInv, Objects, Map
  <2> QED BY <1>2, <2>1 DEF NamesApart
<1>4. Local(u)
  BY <1>2, SeenOf
<1>5. Pods(u) = {}
  BY <1>1, <1>4 DEF Local, PodsTrue
<1>6. p \in Pod /\ p.name = JobName[p.owner] /\ p.owner = u /\ p.code = NoCode /\ p.word = NoResult /\ p.reads = reads
  <2>1. NoCode \in Codes /\ NoResult \in Words /\ reads \in SUBSET Threads
    BY <1>2, <1>3 DEF Codes, Words
  <2> HIDE DEF reads
  <2> QED BY <1>2, <2>1 DEF Pod
<1> HIDE DEF p, reads
<1>7. Objects'
  BY <1>1, <1>6 DEF IInv, Objects
<1>8. /\ Pods(u)' = {p} /\ \A t : Jobs(t)' = Jobs(t)
      /\ \A t \in Threads \ {u} : Pods(t)' = Pods(t)
  BY <1>1, <1>5, <1>6 DEF Pods, Jobs
<1>9. ran'[u] = {Started}
  BY <1>1, <1>2 DEF IInv, Memory
<1>10. /\ alive /\ thread[u] \in Reading => seen[u].job = "timeout"
       /\ ~(alive /\ thread[u] \in BeforeJob)
  BY <1>1, <1>2, NothingRead
<1>11. NotYet(u)'
  BY <1>1, <1>10 DEF NotYet
<1>12. Lone(u)' /\ PodsTrue(u)' /\ JobsTrue(u)'
  BY <1>1, <1>2, <1>3, <1>6, <1>8, <1>9 DEF Lone, PodsTrue, JobsTrue
<1>13. SeenTrue(u)'
  BY <1>1, <1>4, <1>8, <1>10 DEF Local, SeenTrue
<1>14. PassesEarned(u)'
  BY <1>1, <1>4 DEF Local, PassesEarned, Earned
<1>15. /\ alive /\ thread[u] \in {"wait"} \cup Reading => Jobs(u)' # {}
       /\ u \notin lost /\ thread[u] \in {"delete_input", "delete_script", "done"} => Jobs(u)' = {}
  BY <1>2, <1>4, <1>8 DEF Local, NothingLeft
<1> QED BY <1>1, <1>2, <1>7, <1>8, <1>11, <1>12, <1>13, <1>14, <1>15, InCluster

LEMMA EndPodIInv == ASSUME IInv, NEW p \in pods, NEW c \in Ends, EndPod(p, c) PROVE IInv'
<1> DEFINE u == p.owner
           q == [p EXCEPT !.code = c.code, !.word = c.word]
<1>1. /\ p.code = NoCode /\ pods' = (pods \ {p}) \cup {q}
      /\ ran' = [ran EXCEPT ![u] = {Started, c}]
      /\ UNCHANGED <<maps, thread, seen, outcome, recorded, alive, blind, lost>>
  BY DEF EndPod, memory, mishaps
<1>2. u \in Threads /\ p \in Pod /\ p \in Pods(u) /\ p.name = JobName[u]
  BY DEF IInv, Objects, Pod, Pods
<1>3. c.code \in Nat /\ c.code # NoCode /\ c.code \in Codes /\ c.word \in Words
  BY JobAssumption DEF NoCode, Codes, Words
<1>4. /\ q \in Pod /\ q.owner = u /\ q.name = p.name /\ q.reads = p.reads
      /\ q.code = c.code /\ q.word = c.word
  BY <1>2, <1>3 DEF Pod
<1> HIDE DEF q
<1>5. Local(u) /\ ran[u] = {Started} /\ p.reads \subseteq {u} /\ Pods(u) = {p}
  BY <1>1, <1>2, SeenOf DEF Local, PodsTrue, Lone
<1>6. \A j \in Jobs(u) : j.status = "active"
  <2> SUFFICES ASSUME NEW j \in Jobs(u) PROVE j.status = "active"
    OBVIOUS
  <2>1. j.status \in {"active", "succeeded", "failed"}
    BY JobOwner DEF Jobs
  <2>2. NoCode # 0
    BY DEF NoCode
  <2> QED BY <1>1, <1>5, <2>1, <2>2 DEF Local, JobsTrue
<1>7. Pods(u)' = {q} /\ \A t \in Threads \ {u} : Pods(t)' = Pods(t)
  BY <1>1, <1>2, <1>4, <1>5 DEF Pods
<1>8. ran'[u] = {Started, c}
  BY <1>1, <1>2 DEF IInv, Memory
<1>9. PICK s \in {"succeeded", "failed"} :
        /\ s = IF c.code = 0 THEN "succeeded" ELSE "failed"
        /\ \/ \E j \in Jobs(u) : JobEnds(j, s)
           \/ Jobs(u) = {} /\ UNCHANGED jobs
  BY <1>6 DEF EndPod, Jobs
<1>10. /\ jobs' \subseteq Job /\ \A o \in jobs' : o.name = JobName[o.owner] /\ o.mounts = MapsOf[o.owner]
       /\ \A t \in Threads \ {u} : Jobs(t)' = Jobs(t)
       /\ \A o \in Jobs(u)' : o.status = s
       /\ \A a, b \in Jobs(u)' : a = b
       /\ Jobs(u)' = {} <=> Jobs(u) = {}
  <2>1. CASE Jobs(u) = {} /\ UNCHANGED jobs
    BY <2>1 DEF IInv, Objects, Jobs
  <2>2. ASSUME NEW j \in Jobs(u), JobEnds(j, s)
        PROVE  /\ jobs' \subseteq Job /\ \A o \in jobs' : o.name = JobName[o.owner] /\ o.mounts = MapsOf[o.owner]
               /\ \A t \in Threads \ {u} : Jobs(t)' = Jobs(t)
               /\ \A o \in Jobs(u)' : o.status = s
               /\ \A a, b \in Jobs(u)' : a = b
               /\ Jobs(u)' = {} <=> Jobs(u) = {}
    <3> DEFINE k == [j EXCEPT !.status = s]
    <3>1. j \in jobs /\ j.owner = u
      BY DEF Jobs
    <3>2. /\ j.name = JobName[u] /\ j.mounts = MapsOf[u] /\ \A i \in Jobs(u) : i = j
      BY <3>1, JobOwner
    <3>3. k \in Job /\ k.owner = j.owner /\ k.name = j.name /\ k.mounts = j.mounts /\ k.status = s
      BY <3>1, JobAfterEnd
    <3>4. jobs' = (jobs \ {j}) \cup {k}
      BY <2>2 DEF JobEnds
    <3> HIDE DEF k
    <3>5. Jobs(u)' = {k} /\ \A t \in Threads \ {u} : Jobs(t)' = Jobs(t)
      BY <3>1, <3>2, <3>3, <3>4 DEF Jobs
    <3> QED BY <3>1, <3>2, <3>3, <3>4, <3>5 DEF IInv, Objects
  <2> QED BY <1>9, <2>1, <2>2
<1>11. Objects'
  BY <1>1, <1>2, <1>4, <1>10 DEF IInv, Objects
<1>12. NotYet(u)'
  BY <1>1, <1>5 DEF Local, NotYet
<1>13. Lone(u)' /\ PodsTrue(u)' /\ JobsTrue(u)'
  BY <1>3, <1>4, <1>5, <1>7, <1>8, <1>9, <1>10 DEF Lone, PodsTrue, JobsTrue
<1>14. SeenTrue(u)'
  <2>1. seen[u].word = NoResult
    BY <1>5 DEF Local, SeenTrue, Started
  <2>2. alive /\ thread[u] \in Reading => seen[u].job = "timeout"
    <3>1. alive /\ thread[u] \in Reading => Jobs(u) # {}
      BY <1>5 DEF Local, Held
    <3> QED BY <1>2, <1>6, <3>1, NothingRead
  <2> QED BY <1>1, <1>5, <2>1, <2>2 DEF Local, SeenTrue
<1>15. PassesEarned(u)'
  <2>1. ~ReallyPassed(u)
    BY <1>5 DEF ReallyPassed
  <2> QED BY <1>1, <1>5, <1>8, <2>1 DEF Local, PassesEarned, Earned
<1>16. /\ alive /\ thread[u] \in {"wait"} \cup Reading => Jobs(u)' # {}
       /\ u \notin lost /\ thread[u] \in {"delete_input", "delete_script", "done"} => Jobs(u)' = {}
  BY <1>5, <1>10 DEF Local, Held, NothingLeft
<1> QED BY <1>1, <1>2, <1>7, <1>10, <1>11, <1>12, <1>13, <1>14, <1>15, <1>16, InCluster

LEMMA DeadlineHitsIInv == ASSUME IInv, NEW j \in jobs, DeadlineHits(j) PROVE IInv'
<1> DEFINE u == j.owner
           k == [j EXCEPT !.status = "failed"]
<1>1. /\ j.status = "active" /\ jobs' = (jobs \ {j}) \cup {k}
      /\ pods' = {p \in pods : p.owner # u}
      /\ UNCHANGED <<maps, ran, thread, seen, outcome, recorded, alive, blind, lost>>
  BY DEF DeadlineHits, JobEnds, memory, mishaps
<1>2. /\ u \in Threads /\ j \in Jobs(u) /\ j.name = JobName[u] /\ j.mounts = MapsOf[u]
      /\ \A i \in Jobs(u) : i = j
  BY JobOwner
<1>3. k \in Job /\ k.owner = j.owner /\ k.name = j.name /\ k.mounts = j.mounts /\ k.status = "failed"
  BY JobAfterEnd
<1> HIDE DEF k
<1>4. Objects'
  BY <1>1, <1>2, <1>3 DEF IInv, Objects
<1>5. /\ Jobs(u)' = {k} /\ Pods(u)' = {}
      /\ \A t \in Threads \ {u} : Jobs(t)' = Jobs(t) /\ Pods(t)' = Pods(t)
  BY <1>1, <1>2, <1>3 DEF Jobs, Pods
<1>6. Local(u) /\ ran' = [ran EXCEPT ![u] = ran[u]] /\ ran'[u] = ran[u]
  BY <1>1, <1>2, SeenOf DEF IInv, Memory
<1>7. /\ alive /\ thread[u] \in Reading => seen[u].job = "timeout"
      /\ ~(alive /\ thread[u] \in BeforeJob)
  BY <1>1, <1>2, NothingRead
<1>8. NotYet(u)'
  BY <1>1, <1>7 DEF NotYet
<1>9. Lone(u)' /\ PodsTrue(u)' /\ JobsTrue(u)'
  BY <1>3, <1>5 DEF Lone, PodsTrue, JobsTrue
<1>10. SeenTrue(u)'
  BY <1>1, <1>6, <1>7 DEF Local, SeenTrue
<1>11. PassesEarned(u)'
  BY <1>1, <1>6 DEF Local, PassesEarned, Earned, ReallyPassed
<1>12. /\ alive /\ thread[u] \in {"wait"} \cup Reading => Jobs(u)' # {}
       /\ u \notin lost /\ thread[u] \in {"delete_input", "delete_script", "done"} => Jobs(u)' = {}
  BY <1>2, <1>5, <1>6 DEF Local, NothingLeft
<1> QED BY <1>1, <1>2, <1>4, <1>5, <1>6, <1>8, <1>9, <1>10, <1>11, <1>12, InCluster

LEMMA ExpireIInv == ASSUME IInv, NEW j \in jobs, Expire(j) PROVE IInv'
<1> DEFINE u == j.owner
<1>1. /\ jobs' = jobs \ {j} /\ (alive => thread[u] \notin {"wait"} \cup Reading)
      /\ UNCHANGED <<maps, pods, ran, thread, seen, outcome, recorded, alive, blind, lost>>
  BY DEF Expire, Reading, memory, mishaps
<1>2. u \in Threads /\ j \in Jobs(u) /\ (\A i \in Jobs(u) : i = j) /\ ~(alive /\ thread[u] \in BeforeJob)
  BY JobOwner
<1>3. Objects'
  BY <1>1 DEF IInv, Objects
<1>4. /\ Jobs(u)' = {} /\ Pods(u)' = Pods(u)
      /\ \A t \in Threads \ {u} : Jobs(t)' = Jobs(t) /\ Pods(t)' = Pods(t)
  BY <1>1, <1>2 DEF Jobs, Pods
<1>5. Local(u) /\ ran' = [ran EXCEPT ![u] = ran[u]] /\ ran'[u] = ran[u]
  BY <1>1, <1>2, SeenOf DEF IInv, Memory
<1>6. NotYet(u)'
  BY <1>1, <1>2 DEF NotYet
<1>7. Lone(u)' /\ PodsTrue(u)' /\ JobsTrue(u)'
  BY <1>4, <1>5 DEF Local, Lone, PodsTrue, JobsTrue
<1>8. SeenTrue(u)'
  BY <1>1, <1>5 DEF Local, SeenTrue
<1>9. PassesEarned(u)'
  BY <1>1, <1>5 DEF Local, PassesEarned, Earned, ReallyPassed
<1> QED BY <1>1, <1>2, <1>3, <1>4, <1>5, <1>6, <1>7, <1>8, <1>9, InCluster

LEMMA CollectPodIInv == ASSUME IInv, NEW p \in pods, CollectPod(p) PROVE IInv'
<1> DEFINE u == p.owner
<1>1. /\ pods' = pods \ {p} /\ \A j \in jobs : j.owner # u
      /\ UNCHANGED <<maps, jobs, ran, thread, seen, outcome, recorded, alive, blind, lost>>
  BY DEF CollectPod, memory, mishaps
<1>2. u \in Threads /\ p \in Pods(u)
  BY DEF IInv, Objects, Pod, Pods
<1>3. Objects'
  BY <1>1 DEF IInv, Objects
<1>4. Local(u) /\ ran' = [ran EXCEPT ![u] = ran[u]] /\ ran'[u] = ran[u]
  BY <1>1, <1>2, SeenOf DEF IInv, Memory
<1>5. /\ Jobs(u) = {} /\ Pods(u)' = {}
      /\ \A t : Jobs(t)' = Jobs(t)
      /\ \A t \in Threads \ {u} : Pods(t)' = Pods(t)
  BY <1>1, <1>2, <1>4 DEF Jobs, Pods, Local, Lone
<1>6. ~(alive /\ thread[u] \in {"wait"} \cup Reading) /\ ~(alive /\ thread[u] \in BeforeJob)
  BY <1>2, <1>4, <1>5 DEF Local, Held, NotYet
<1>7. NotYet(u)'
  BY <1>1, <1>6 DEF NotYet
<1>8. Lone(u)' /\ PodsTrue(u)' /\ JobsTrue(u)'
  BY <1>5 DEF Lone, PodsTrue, JobsTrue
<1>9. SeenTrue(u)'
  BY <1>1, <1>4, <1>6 DEF Local, SeenTrue
<1>10. PassesEarned(u)'
  BY <1>1, <1>4 DEF Local, PassesEarned, Earned, ReallyPassed
<1> QED BY <1>1, <1>2, <1>3, <1>4, <1>5, <1>6, <1>7, <1>8, <1>9, <1>10, InCluster

-----------------------------------------------------------------------------
LEMMA InitIInv == Init => IInv
<1> SUFFICES ASSUME Init PROVE IInv OBVIOUS
<1> USE DEF Init
<1>1. Memory
  <2>1. "idle" \in ThreadPhase
    BY DEF ThreadPhase
  <2> HIDE DEF Seen
  <2> QED BY <2>1, IdleIsSeen DEF Memory
<1>2. Objects
  BY DEF Objects
<1>3. ASSUME NEW u \in Threads PROVE Local(u)
  <2>1. Jobs(u) = {} /\ Maps(u) = {} /\ Pods(u) = {}
    BY DEF Jobs, Maps, Pods
  <2>2. thread[u] = "idle" /\ seen[u] = Idle /\ ran[u] = {} /\ outcome[u] = "none" /\ recorded[u] = "none"
    OBVIOUS
  <2>3. OfScripts(u) /\ NotYet(u) /\ Held(u) /\ NothingLeft(u) /\ Lone(u) /\ PodsTrue(u) /\ JobsTrue(u)
    BY <2>1, <2>2 DEF OfScripts, NotYet, Held, NothingLeft, Lone, PodsTrue, JobsTrue, Reading
  <2>4. SeenTrue(u)
    BY <2>2 DEF SeenTrue, Idle, Reading
  <2>5. PassesEarned(u)
    BY <2>2 DEF PassesEarned
  <2> QED BY <2>3, <2>4, <2>5 DEF Local
<1> QED BY <1>1, <1>2, <1>3 DEF IInv

LEMMA StutterIInv == ASSUME IInv, UNCHANGED vars PROVE IInv'
<1>1. UNCHANGED <<maps, jobs, pods, thread, seen, outcome, recorded, ran, blind, lost, alive>>
  BY DEF vars
<1>2. Memory' /\ Objects'
  BY <1>1 DEF IInv, Memory, Objects
<1>3. \A t \in Threads : Same(t)
  BY <1>1 DEF Same, Jobs, Maps, Pods
<1> QED BY <1>2, <1>3, LocalKept DEF IInv

LEMMA InvariantHolds == ASSUME NamesApart PROVE Spec => []IInv
<1>1. IInv /\ [Next]_vars => IInv'
  <2> SUFFICES ASSUME IInv, [Next]_vars PROVE IInv'
    OBVIOUS
  <2>1. ASSUME NEW t \in Threads, ThreadStep(t) PROVE IInv'
    BY <2>1, ReadNamespaceIInv, CreateNamespaceIInv, CreateInputIInv, CreateScriptIInv, CreateJobIInv,
       SeeJobEndIInv, WaitTimesOutIInv, ReadLogsIInv, ReadStateIInv, DeleteJobIInv, DeleteInputIInv,
       DeleteScriptIInv DEF ThreadStep
  <2>2. ASSUME NEW t \in Threads, Mishap(t) PROVE IInv'
    BY <2>2, NoClientIInv, CallFailsIInv, ReadFailsIInv, DeletionFailsIInv DEF Mishap
  <2>3. ASSUME NEW t \in Threads, RunnerStep(t) PROVE IInv'
    BY <2>3, SubmitIInv, StepReturnsIInv, StepTimesOutIInv DEF RunnerStep
  <2>4. ASSUME ClusterStep PROVE IInv'
    BY <2>4, StartPodIInv, EndPodIInv, DeadlineHitsIInv, ExpireIInv, CollectPodIInv
       DEF ClusterStep, Housekeeping
  <2> QED BY <2>1, <2>2, <2>3, <2>4, CrashIInv, StutterIInv DEF Next
<1> QED BY InitIInv, <1>1, PTL DEF Spec

-----------------------------------------------------------------------------
\* For every number of runs and steps, and every number of failing calls: if the
\* names of different steps' objects differ, no cleanup takes away what another
\* step waits for, and no step reads what is not its own (_cleanup and
\* _pod_logs go by names alone).
THEOREM NamesApartKeepStepsApart == NamesApart => (Spec => []StepsDoNotMix)
<1> SUFFICES ASSUME NamesApart PROVE Spec => []StepsDoNotMix
  OBVIOUS
<1>1. IInv => StepsDoNotMix
  <2> SUFFICES ASSUME IInv PROVE StepsDoNotMix
    OBVIOUS
  <2>1. ASSUME NEW t \in Threads, alive, thread[t] \in {"wait", "logs", "state"}
        PROVE  /\ \E j \in jobs : j.owner = t
               /\ \A name \in MapsOf[t] : [name |-> name, owner |-> t] \in maps
    BY <2>1, SeenOf DEF Local, Held, Reading, Jobs
  <2>2. \A t \in Threads : seen[t].from \subseteq {t}
    BY SeenOf DEF Local, SeenTrue
  <2>3. ASSUME NEW p \in pods PROVE p.reads \subseteq {p.owner}
    <3>1. p.owner \in Threads /\ p \in Pods(p.owner)
      BY DEF IInv, Objects, Pod, Pods
    <3> QED BY <3>1, SeenOf DEF Local, PodsTrue
  <2> QED BY <2>1, <2>2, <2>3 DEF StepsDoNotMix
<1> QED BY InvariantHolds, <1>1, PTL

\* For every way that containers may end: a step recorded as passed has passed,
\* unless its logs or its state could not be read (resolve_outcome, with the
\* calls around it in any order).
THEOREM PassesAreEarned == NamesApart => (Spec => []PassedIsEarned)
<1> SUFFICES ASSUME NamesApart PROVE Spec => []PassedIsEarned
  OBVIOUS
<1>1. IInv => PassedIsEarned
  BY SeenOf DEF Local, PassesEarned, Earned, PassedIsEarned
<1> QED BY InvariantHolds, <1>1, PTL

\* For every order of timeouts, failing calls and deletions: what a thread made
\* is gone when it has ended, unless a deletion failed (run_container_job's
\* `finally`).
THEOREM ThreadsLeaveNothing == NamesApart => (Spec => []NothingLeftBehind)
<1> SUFFICES ASSUME NamesApart PROVE Spec => []NothingLeftBehind
  OBVIOUS
<1>1. IInv => NothingLeftBehind
  BY SeenOf DEF Local, NothingLeft, Jobs, Maps, NothingLeftBehind
<1> QED BY InvariantHolds, <1>1, PTL

-----------------------------------------------------------------------------
(* Why jobs go away.  Liveness itself is beyond the provers; what it rests *)
(* on is not, and needs nothing of the names.                              *)

\* Where the job of a thread stands: still to be made, active, ended, or gone
\* for good.
Stage(t) ==
  IF alive /\ thread[t] \in BeforeJob THEN 3
  ELSE IF Jobs(t) = {} THEN 0
  ELSE IF \E j \in Jobs(t) : j.status = "active" THEN 2 ELSE 1

\* Each job in the cluster has its limits, and its thread makes no other.
JobsLimited ==
  \A j \in jobs :
    /\ j.owner \in Threads /\ j.limited
    /\ alive => thread[j.owner] \notin BeforeJob
    /\ \A k \in jobs : j.owner = k.owner => j = k

LimitedInv == thread \in [Threads -> ThreadPhase] /\ jobs \subseteq Job /\ JobsLimited

\* A step moves one thread at most, and none back to where it has no job yet.
LEMMA ThreadsMoveOn ==
  ASSUME LimitedInv, [Next]_vars
  PROVE  /\ alive' => alive
         /\ \/ Crash
            \/ thread' = thread
            \/ \E u \in Threads, s \in ThreadPhase :
                 /\ s \in BeforeJob => thread[u] \in BeforeJob
                 /\ Goto(u, s)
<1> DEFINE On == \/ thread' = thread
                 \/ \E u \in Threads, s \in ThreadPhase :
                      /\ s \in BeforeJob => thread[u] \in BeforeJob
                      /\ Goto(u, s)
<1>1. ASSUME NEW u \in Threads, ThreadStep(u) PROVE alive /\ On
  <2>1. CASE ReadNamespace(u) \/ CreateNamespace(u)
    BY <2>1 DEF ReadNamespace, CreateNamespace, At, Proceed, Fail, BeforeJob, Early, ThreadPhase
  <2>2. CASE CreateInput(u) \/ CreateScript(u) \/ CreateJob(u)
    BY <2>2 DEF CreateInput, CreateScript, CreateMap, CreateJob, At, Proceed, Fail, BeforeJob, Early,
       ThreadPhase
  <2>3. CASE SeeJobEnd(u) \/ WaitTimesOut(u) \/ ReadLogs(u) \/ ReadState(u)
    <3>1. alive
      BY <2>3, Zenon DEF SeeJobEnd, WaitTimesOut, ReadLogs, ReadState, At
    <3>2. SeeJobEnd(u) \/ WaitTimesOut(u) => Goto(u, "logs")
      BY Zenon DEF SeeJobEnd, WaitTimesOut
    <3>3. ReadLogs(u) => Goto(u, "state")
      BY Zenon DEF ReadLogs
    <3>4. ReadState(u) => Goto(u, "delete_job")
      BY Zenon DEF ReadState, Resolve
    <3> QED BY <2>3, <3>1, <3>2, <3>3, <3>4 DEF BeforeJob, Early, ThreadPhase
  <2>4. CASE DeleteJob(u) \/ DeleteInput(u) \/ DeleteScript(u)
    BY <2>4 DEF DeleteJob, DeleteInput, DeleteScript, DeleteMap, At, Proceed, BeforeJob, Early,
       ThreadPhase
  <2> QED BY <1>1, <2>1, <2>2, <2>3, <2>4 DEF ThreadStep
<1>2. ASSUME NEW u \in Threads, Mishap(u) PROVE alive /\ On
  <2>1. CASE NoClient(u) \/ CallFails(u)
    BY <2>1 DEF NoClient, CallFails, Fault, Fail, BeforeJob, Early, ThreadPhase
  <2>2. CASE ReadFails(u)
    <3>1. alive
      BY <2>2 DEF ReadFails, Fault
    <3>2. Goto(u, "state") \/ Goto(u, "delete_job")
      BY <2>2 DEF ReadFails, Resolve, Proceed
    <3> QED BY <3>1, <3>2 DEF BeforeJob, Early, ThreadPhase
  <2>3. CASE DeletionFails(u)
    <3>1. alive
      BY <2>3 DEF DeletionFails, Fault
    <3>2. Goto(u, "delete_input") \/ Goto(u, "delete_script") \/ Goto(u, "done")
      BY <2>3 DEF DeletionFails, After, Proceed
    <3> QED BY <3>1, <3>2 DEF BeforeJob, Early, ThreadPhase
  <2> QED BY <1>2, <2>1, <2>2, <2>3 DEF Mishap
<1>3. ASSUME NEW u \in Threads, RunnerStep(u) PROVE alive /\ On
  BY <1>3 DEF RunnerStep, Submit, StepReturns, StepTimesOut, Record, At, Proceed, BeforeJob, Early,
     ThreadPhase
<1>4. CASE ClusterStep
  <2>1. UNCHANGED <<memory, mishaps>>
    BY <1>4, Zenon DEF ClusterStep, Housekeeping, StartPod, EndPod, DeadlineHits, Expire, CollectPod
  <2> QED BY <2>1 DEF memory, mishaps
<1>5. CASE UNCHANGED vars
  BY <1>5 DEF vars
<1>6. CASE Crash
  BY <1>6 DEF Crash
<1> QED BY <1>1, <1>2, <1>3, <1>4, <1>5, <1>6 DEF Next

LEMMA NoThreadReturns ==
  ASSUME LimitedInv, [Next]_vars, NEW t \in Threads, alive', thread'[t] \in BeforeJob
  PROVE  alive /\ thread[t] \in BeforeJob
<1>1. CASE thread' = thread
  BY <1>1, ThreadsMoveOn
<1>2. ASSUME NEW u \in Threads, NEW s \in ThreadPhase, s \in BeforeJob => thread[u] \in BeforeJob,
             Goto(u, s)
      PROVE  thread[t] \in BeforeJob
  BY <1>2 DEF Goto, LimitedInv
<1>3. ~Crash
  BY DEF Crash
<1> QED BY <1>1, <1>2, <1>3, ThreadsMoveOn

JobsGo == jobs' \subseteq jobs

JobComes ==
  \E t \in Threads :
    /\ alive /\ thread[t] = "job" /\ thread'[t] = "wait"
    /\ jobs' = jobs \cup {BuildJob(t)}

JobStops ==
  \E j \in jobs, s \in {"succeeded", "failed"} : j.status = "active" /\ JobEnds(j, s)

\* Who writes the jobs.
LEMMA JobWriters == ASSUME LimitedInv, [Next]_vars PROVE JobsGo \/ JobComes \/ JobStops
<1>1. ASSUME NEW u \in Threads, ThreadStep(u) PROVE JobsGo \/ JobComes
  <2>1. CASE CreateJob(u)
    BY <2>1 DEF CreateJob, At, Proceed, Goto, LimitedInv, JobsGo, JobComes
  <2>2. CASE DeleteJob(u)
    BY <2>2 DEF DeleteJob, JobsGo
  <2>3. CASE ~CreateJob(u) /\ ~DeleteJob(u)
    BY <1>1, <2>3, Zenon DEF ThreadStep, ReadNamespace, CreateNamespace, CreateInput, CreateScript, CreateMap,
       SeeJobEnd, WaitTimesOut, ReadLogs, ReadState, DeleteInput, DeleteScript, DeleteMap, cluster, JobsGo
  <2> QED BY <2>1, <2>2, <2>3
<1>2. ASSUME NEW u \in Threads, Mishap(u) \/ RunnerStep(u) PROVE JobsGo
  BY <1>2 DEF Mishap, NoClient, CallFails, ReadFails, DeletionFails, Fault, RunnerStep, Submit,
     StepReturns, StepTimesOut, Record, cluster, JobsGo
<1>3. ASSUME NEW j \in jobs, StartPod(j) \/ DeadlineHits(j) \/ Expire(j) PROVE JobsGo \/ JobStops
  <2>1. StartPod(j) \/ Expire(j) => JobsGo
    BY DEF StartPod, Expire, JobsGo
  <2>2. DeadlineHits(j) => j.status = "active" /\ JobEnds(j, "failed")
    BY DEF DeadlineHits
  <2> QED BY <1>3, <2>1, <2>2 DEF JobStops
<1>4. ASSUME NEW p \in pods, NEW c \in Ends, EndPod(p, c) PROVE JobsGo \/ JobStops
  <2>1. CASE jobs' = jobs
    BY <2>1 DEF JobsGo
  <2>2. CASE jobs' # jobs
    <3>1. \E j \in jobs : /\ j.status = "active"
                         /\ JobEnds(j, IF c.code = 0 THEN "succeeded" ELSE "failed")
      BY <1>4, <2>2, Zenon DEF EndPod
    <3>2. (IF c.code = 0 THEN "succeeded" ELSE "failed") \in {"succeeded", "failed"}
      OBVIOUS
    <3> QED BY <3>1, <3>2, Zenon DEF JobStops
  <2> QED BY <2>1, <2>2
<1>5. CASE Crash \/ UNCHANGED vars
  BY <1>5 DEF Crash, vars, cluster, JobsGo
<1>6. (\E p \in pods : CollectPod(p)) => JobsGo
  BY DEF CollectPod, JobsGo
<1> QED BY <1>1, <1>2, <1>3, <1>4, <1>5, <1>6 DEF Next, ClusterStep, Housekeeping

\* k is the job j, ended.
Ended(j, k) ==
  /\ j.status = "active" /\ k.status # "active"
  /\ k.owner = j.owner /\ k.limited = j.limited

LEMMA EndedJob ==
  ASSUME NEW j \in Job, NEW s \in {"succeeded", "failed"}, j.status = "active", JobEnds(j, s)
  PROVE  \E k \in Job : Ended(j, k) /\ jobs' = (jobs \ {j}) \cup {k}
<1>1. PICK k : k = [j EXCEPT !.status = s]
  OBVIOUS
<1>2. k \in Job /\ k.status = s /\ k.owner = j.owner /\ k.limited = j.limited
  BY <1>1 DEF Job
<1>3. jobs' = (jobs \ {j}) \cup {k}
  BY <1>1 DEF JobEnds
<1> QED BY <1>2, <1>3 DEF Ended

LEMMA JobStopsOnce ==
  ASSUME LimitedInv, JobStops
  PROVE  \E j \in jobs, k \in Job : Ended(j, k) /\ jobs' = (jobs \ {j}) \cup {k}
<1>1. PICK j \in jobs, s \in {"succeeded", "failed"} : j.status = "active" /\ JobEnds(j, s)
  BY DEF JobStops
<1> QED BY <1>1, EndedJob DEF LimitedInv

LEMMA LimitedStep == LimitedInv /\ [Next]_vars => LimitedInv'
<1> SUFFICES ASSUME LimitedInv, [Next]_vars PROVE LimitedInv'
  OBVIOUS
<1>1. thread' \in [Threads -> ThreadPhase]
  <2>1. CASE Crash
    BY <2>1 DEF Crash, ThreadPhase
  <2>2. CASE ~Crash
    BY <2>2, ThreadsMoveOn DEF LimitedInv, Goto
  <2> QED BY <2>1, <2>2
<1>2. \A t \in Threads : alive' /\ thread'[t] \in BeforeJob => alive /\ thread[t] \in BeforeJob
  BY NoThreadReturns
<1>3. CASE JobsGo
  BY <1>1, <1>2, <1>3 DEF LimitedInv, JobsLimited, JobsGo
<1>4. CASE JobComes
  <2>1. PICK t \in Threads : /\ alive /\ thread[t] = "job" /\ thread'[t] = "wait"
                             /\ jobs' = jobs \cup {BuildJob(t)}
    BY <1>4 DEF JobComes
  <2>2. PICK b : b = BuildJob(t)
    OBVIOUS
  <2>3. b \in Job /\ b.owner = t /\ b.limited
    BY <2>2 DEF BuildJob, Job
  <2>4. \A j \in jobs : j.owner # t
    BY <2>1 DEF LimitedInv, JobsLimited, BeforeJob
  <2>5. thread'[t] \notin BeforeJob
    BY <2>1 DEF BeforeJob, Early
  <2>6. jobs' = jobs \cup {b}
    BY <2>1, <2>2
  <2> HIDE DEF Job
  <2> QED BY <1>1, <1>2, <2>3, <2>4, <2>5, <2>6 DEF LimitedInv, JobsLimited
<1>5. CASE JobStops
  <2>1. PICK j \in jobs, k \in Job : Ended(j, k) /\ jobs' = (jobs \ {j}) \cup {k}
    BY <1>5, JobStopsOnce
  <2> HIDE DEF Job
  <2> QED BY <1>1, <1>2, <2>1 DEF LimitedInv, JobsLimited, Ended
<1> QED BY <1>3, <1>4, <1>5, JobWriters

LEMMA LimitedHolds == Spec => []LimitedInv
<1>1. Init => LimitedInv
  BY DEF Init, LimitedInv, JobsLimited, ThreadPhase
<1> QED BY <1>1, LimitedStep, PTL DEF Spec

LEMMA StageType == ASSUME NEW t \in Threads PROVE Stage(t) \in 0..3 /\ Stage(t)' \in 0..3
BY DEF Stage

\* No job comes back, and none comes twice.
LEMMA StageFalls ==
  ASSUME LimitedInv, [Next]_vars, NEW t \in Threads
  PROVE  Stage(t)' <= Stage(t)
<1>0. LimitedInv'
  BY LimitedStep
<1>1. alive' /\ thread'[t] \in BeforeJob => alive /\ thread[t] \in BeforeJob
  BY NoThreadReturns
<1>2. CASE alive /\ thread[t] \in BeforeJob
  BY <1>2, StageType DEF Stage
<1>3. CASE ~(alive /\ thread[t] \in BeforeJob)
  <2>1. CASE JobsGo
    BY <1>1, <1>3, <2>1 DEF JobsGo, Stage, Jobs
  <2>2. CASE JobComes
    <3>1. PICK u \in Threads : /\ alive /\ thread[u] = "job"
                               /\ jobs' = jobs \cup {BuildJob(u)}
      BY <2>2 DEF JobComes
    <3>2. u # t
      BY <1>3, <3>1 DEF BeforeJob
    <3>3. Jobs(t)' = Jobs(t)
      BY <3>1, <3>2 DEF Jobs, BuildJob
    <3> QED BY <1>1, <1>3, <3>3 DEF Stage
  <2>3. CASE JobStops
    <3>1. PICK j \in jobs, k \in Job : Ended(j, k) /\ jobs' = (jobs \ {j}) \cup {k}
      BY <2>3, JobStopsOnce
    <3>2. CASE j.owner # t
      <4>1. Jobs(t)' = Jobs(t)
        BY <3>1, <3>2 DEF Jobs, Ended
      <4> QED BY <1>1, <1>3, <4>1 DEF Stage
    <3>3. CASE j.owner = t
      <4>1. Jobs(t) = {j} /\ Jobs(t)' = {k}
        BY <3>1, <3>3 DEF Jobs, Ended, LimitedInv, JobsLimited
      <4> QED BY <1>1, <1>3, <3>1, <4>1 DEF Stage, Ended
    <3> QED BY <3>2, <3>3
  <2> QED BY <2>1, <2>2, <2>3, JobWriters
<1> QED BY <1>2, <1>3

\* A limit that strikes brings its job one stage on.
LEMMA LimitsCount ==
  ASSUME LimitedInv, NEW j \in jobs, DeadlineHits(j) \/ Expire(j)
  PROVE  Stage(j.owner)' < Stage(j.owner)
<1> DEFINE t == j.owner
<1>1. /\ t \in Threads /\ Jobs(t) = {j} /\ ~(alive /\ thread[t] \in BeforeJob)
      /\ UNCHANGED <<alive, thread>>
  BY DEF LimitedInv, JobsLimited, Jobs, DeadlineHits, Expire, memory, mishaps
<1>2. CASE DeadlineHits(j)
  <2>1. j.status = "active" /\ JobEnds(j, "failed")
    BY <1>2 DEF DeadlineHits
  <2>2. PICK k \in Job : Ended(j, k) /\ jobs' = (jobs \ {j}) \cup {k}
    BY <2>1, EndedJob DEF LimitedInv
  <2>3. Jobs(t)' = {k}
    BY <1>1, <2>2 DEF Jobs, Ended
  <2> QED BY <1>1, <2>1, <2>2, <2>3 DEF Stage, Ended
<1>3. CASE Expire(j)
  <2>1. j.status # "active" /\ jobs' = jobs \ {j}
    BY <1>3 DEF Expire
  <2>2. Jobs(t)' = {}
    BY <1>1, <2>1 DEF Jobs
  <2> QED BY <1>1, <2>1, <2>2 DEF Stage
<1> QED BY <1>2, <1>3

\* For every plan, whatever the names of its steps, with failing calls and a stop:
\* each job in the cluster has its limits in time, no thread makes a second one,
\* and no step of anyone takes a job back to a stage it has left, while each limit
\* that strikes takes it on.  So a job that stays is one for which the cluster does
\* not do what its manifest says (build_job_manifest's activeDeadlineSeconds and
\* ttlSecondsAfterFinished).
THEOREM JobsGoForward ==
  Spec => /\ []JobsLimited
          /\ [][/\ \A t \in Threads : Stage(t)' <= Stage(t)
                /\ \A j \in jobs :
                     DeadlineHits(j) \/ Expire(j) => Stage(j.owner)' < Stage(j.owner)]_vars
<1>1. LimitedInv /\ [Next]_vars =>
        [/\ \A t \in Threads : Stage(t)' <= Stage(t)
         /\ \A j \in jobs :
              DeadlineHits(j) \/ Expire(j) => Stage(j.owner)' < Stage(j.owner)]_vars
  BY StageFalls, LimitsCount
<1>2. LimitedInv => JobsLimited
  BY DEF LimitedInv
<1> QED BY <1>1, <1>2, LimitedHolds, PTL DEF Spec
=============================================================================
