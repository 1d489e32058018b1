---------------------------- MODULE Aggregation ----------------------------
(***************************************************************************)
(* How the step results of a validation run roll up into the run's status  *)
(* and its approval impact (backend/app/validation/types.py).  A rolled-up *)
(* step is a record [status, policy]; a verdict is a record                *)
(* [status, impact].                                                       *)
(***************************************************************************)
EXTENDS Naturals, Sequences

StepStatus == {"queued", "running", "passed", "warning", "failed", "error", "skipped"}

FailurePolicy == {"ignore", "warn", "block"}

ApprovalImpact == {"none", "warning", "blocked"}

\* `cancelled` is declared by the enum and assigned nowhere.
RunStatus == {"queued", "running", "passed", "warning", "failed", "error", "cancelled"}

\* The statuses of a run whose steps were all rolled up.
CompletedStatus == {"passed", "warning", "failed"}

RollupInput == [status : StepStatus, policy : FailurePolicy]

Verdict == [status : CompletedStatus, impact : ApprovalImpact]

Clean   == [status |-> "passed",  impact |-> "none"]
Warned  == [status |-> "warning", impact |-> "warning"]
Blocked == [status |-> "failed",  impact |-> "blocked"]

\* aggregate_run's `continue` statements: the steps that count for nothing.
NeverCounts(s) ==
  \/ s.status \in {"passed", "skipped", "queued", "running"}
  \/ s.policy = "ignore"

Blocks(s) == ~NeverCounts(s) /\ s.status \in {"failed", "error"} /\ s.policy = "block"

Warns(s) == ~NeverCounts(s) /\ ~Blocks(s)

\* The verdict of a run: the worst its steps give.
AggregateRun(steps) ==
  CASE \E i \in DOMAIN steps : Blocks(steps[i]) -> Blocked
    [] /\ \A i \in DOMAIN steps : ~Blocks(steps[i])
       /\ \E i \in DOMAIN steps : Warns(steps[i]) -> Warned
    [] OTHER -> Clean

-----------------------------------------------------------------------------
(* The loop of the source, which keeps a status and an impact and takes    *)
(* the worse of the old and the new value of each.                         *)

RunOrder == <<"passed", "warning", "failed">>
ImpactOrder == <<"none", "warning", "blocked">>

Rank(order, x) == CHOOSE i \in DOMAIN order : order[i] = x

Worse(order, a, b) == IF Rank(order, b) > Rank(order, a) THEN b ELSE a

\* Mistaken: the impact is forgotten.
AfterStepForgetsImpact(v, s) ==
  CASE NeverCounts(s) -> v
    [] Blocks(s) -> [v EXCEPT !.status = "failed"]
    [] OTHER -> [v EXCEPT !.status = Worse(RunOrder, @, "warning")]

\* One iteration of the loop, from the verdict so far.
AfterStep(v, s) ==
  CASE NeverCounts(s) -> v
    [] Blocks(s) -> [status |-> Worse(RunOrder, v.status, "failed"),
                     impact |-> Worse(ImpactOrder, v.impact, "blocked")]
    [] OTHER -> [status |-> Worse(RunOrder, v.status, "warning"),
                 impact |-> Worse(ImpactOrder, v.impact, "warning")]

AggregateLoop(steps) ==
  LET after[i \in 0..Len(steps)] ==
        IF i = 0 THEN Clean ELSE AfterStep(after[i - 1], steps[i])
  IN after[Len(steps)]
=============================================================================
