------------------------- MODULE PipelineDefinition -------------------------
(***************************************************************************)
(* A pipeline definition on its way from an admin's document to the order  *)
(* in which a run executes its steps: parse_and_validate of                *)
(* services/validation_pipeline_service.py reads the header, normalises    *)
(* the steps and checks their dependencies with Kahn's algorithm;          *)
(* topo_order of validation/runner.py orders the steps of what was saved.  *)
(*                                                                         *)
(* A field of the document is "absent" (or null), a value, or "other": one *)
(* of the wrong shape.                                                     *)
(***************************************************************************)
EXTENDS Integers, Sequences, FiniteSets, Aggregation

CONSTANTS
  Headers,    \* headers of a document: [valid, policy]
  RawSteps,   \* steps of a document, a subset of RawStep
  MaxSteps    \* how many steps a document has

NoTimeout == -1   \* no timeoutSeconds

SlugNames == STRING \ {"other"}

ScriptTypes == {"custom.script"}
JobTypes == {"custom.kubernetes_job"}
SupportedStepTypes ==
  ScriptTypes \cup JobTypes \cup
  {"builtin.workload_inventory", "builtin.kubernetes_security", "builtin.image_scan",
   "builtin.policy"}

Text == {"absent", "blank", "text"}

Scanners == {"trivy"}

\* `shaped`: every field that the parser looks at has the type it should have;
\* `options`: what else the step's executor reads of the config has.
RawStep == [shaped : BOOLEAN, name : STRING, type : STRING, dependsOn : SUBSET STRING,
            timeout : Int, policy : STRING, image : Text, script : Text, interpreter : STRING,
            scanner : STRING, options : {"sound", "misshapen"}]

\* The settings of the site that executors look at when the step runs.
Sites == [inlineScripts : BOOLEAN, runnerImage : BOOLEAN]

ASSUME DefinitionAssumption ==
  /\ RawSteps \subseteq RawStep
  /\ Headers \subseteq [valid : BOOLEAN, policy : STRING]
  /\ MaxSteps \in Nat

VARIABLES
  phase,      \* what is being done with the definition
  default,    \* the pipeline's failure policy
  list,       \* the names of its steps, in the document's order
  step,       \* the normalised step of each name
  ready,      \* Kahn: the steps without unresolved dependencies
  work,       \* Kahn: the unresolved dependencies of each step
  resolved,   \* Kahn: the resolved steps
  visit,      \* topo_order: the step this pass looks at next, by its place in the list
  order,      \* topo_order: the result so far
  progressed  \* topo_order: has this pass placed a step?

reading == <<default, list, step>>
kahn == <<ready, work, resolved>>
ordering == <<visit, order, progressed>>
vars == <<phase, default, list, step, ready, work, resolved, visit, order, progressed>>

Named == {list[i] : i \in DOMAIN list}
Deps(n) == step[n].dependsOn
Placed == {order[i] : i \in DOMAIN order}
Remaining == Named \ Placed

Init ==
  /\ phase = "header"
  /\ default = "warn"
  /\ list = <<>> /\ step = [n \in {} |-> {}]
  /\ ready = {} /\ work = [n \in {} |-> {}] /\ resolved = {}
  /\ visit = 1 /\ order = <<>> /\ progressed = TRUE

Goto(from, to) == phase = from /\ phase' = to

-----------------------------------------------------------------------------
(* parse_and_validate. *)

PolicyOr(policy, otherwise) == IF policy = "absent" THEN otherwise ELSE policy

\* apiVersion, kind, metadata and the pipeline's failurePolicy.
ReadHeader(h) ==
  /\ phase = "header"
  /\ IF h.valid /\ PolicyOr(h.policy, "warn") \in FailurePolicy
     THEN phase' = "steps" /\ default' = PolicyOr(h.policy, "warn")
     ELSE phase' = "refused" /\ UNCHANGED default
  /\ UNCHANGED <<list, step, kahn, ordering>>

TimeoutBounds == 1..3600
DefaultTimeout == 300

NormalizeTimeout(t) == IF t = NoTimeout THEN DefaultTimeout ELSE t

\* Mistaken: an image is asked of every custom step, a script of none.
ConfigAcceptedImageOnly(s) ==
  s.type \in JobTypes \cup ScriptTypes => s.image = "text"

\* The keys that a step of a custom type cannot do without.
ConfigAccepted(s) ==
  /\ s.type \in JobTypes => s.image = "text"
  /\ s.type \in ScriptTypes =>
       s.script = "text" /\ s.interpreter \in {"absent", "bash", "python"}

StepAccepted(s) ==
  /\ s.shaped /\ s.name \in SlugNames
  /\ s.type \in SupportedStepTypes
  /\ ConfigAccepted(s)
  /\ NormalizeTimeout(s.timeout) \in TimeoutBounds
  /\ PolicyOr(s.policy, default) \in FailurePolicy

NormalizeStep(s) ==
  [s EXCEPT !.timeout = NormalizeTimeout(@), !.policy = PolicyOr(@, default)]

ReadStep(s) ==
  /\ phase = "steps" /\ Len(list) < MaxSteps
  /\ IF StepAccepted(s) /\ s.name \notin Named
     THEN /\ list' = Append(list, s.name)
          /\ step' = [n \in Named \cup {s.name} |->
                        IF n = s.name THEN NormalizeStep(s) ELSE step[n]]
          /\ UNCHANGED phase
     ELSE phase' = "refused" /\ UNCHANGED <<list, step>>
  /\ UNCHANGED <<default, kahn, ordering>>

\* An empty list is refused.
EndSteps ==
  /\ Goto("steps", IF list = <<>> THEN "refused" ELSE "references")
  /\ UNCHANGED <<reading, kahn, ordering>>

-----------------------------------------------------------------------------
(* _assert_no_dependency_cycles. *)

CheckReferences ==
  /\ phase = "references"
  /\ IF \A n \in Named : Deps(n) \subseteq Named \ {n}
     THEN /\ phase' = "kahn"
          /\ work' = [n \in Named |-> Deps(n)]
          /\ ready' = {n \in Named : Deps(n) = {}}
     ELSE phase' = "refused" /\ UNCHANGED <<work, ready>>
  /\ UNCHANGED <<reading, resolved, ordering>>

\* Mistaken: a step is ready as soon as one of its dependencies is resolved.
ResolveEarly(n) ==
  /\ phase = "kahn" /\ n \in ready
  /\ resolved' = resolved \cup {n}
  /\ work' = [o \in Named |-> work[o] \ {n}]
  /\ ready' = (ready \ {n}) \cup {o \in Named \ (resolved' \cup ready) : n \in work[o]}
  /\ UNCHANGED <<phase, reading, ordering>>

\* The step that `pop` takes hangs on the order of a set of strings.
Resolve(n) ==
  /\ phase = "kahn" /\ n \in ready
  /\ resolved' = resolved \cup {n}
  /\ work' = [o \in Named |-> work[o] \ {n}]
  /\ ready' = (ready \ {n}) \cup
       {o \in Named \ (resolved' \cup ready) : n \in work[o] /\ work'[o] = {}}
  /\ UNCHANGED <<phase, reading, ordering>>

Conclude ==
  /\ ready = {}
  /\ Goto("kahn", IF Cardinality(resolved) = Cardinality(Named)
                  THEN "accepted" ELSE "cyclic")
  /\ UNCHANGED <<reading, kahn, ordering>>

-----------------------------------------------------------------------------
(* topo_order, when a run starts. *)

StartOrdering ==
  /\ Goto("accepted", "pass")
  /\ visit' = 1 /\ progressed' = FALSE
  /\ UNCHANGED <<reading, kahn, order>>

\* Mistaken: a step is placed when its dependencies are known.
SatisfiedIfKnown(n) == Deps(n) \subseteq Named

Satisfied(n) == Deps(n) \cap Named \subseteq Placed

\* A pass goes over what remained when it began; what is placed is passed over.
VisitStep ==
  /\ phase = "pass" /\ visit <= Len(list)
  /\ visit' = visit + 1
  /\ IF list[visit] \in Remaining /\ Satisfied(list[visit])
     THEN order' = Append(order, list[visit]) /\ progressed' = TRUE
     ELSE UNCHANGED <<order, progressed>>
  /\ UNCHANGED <<phase, reading, kahn>>

PassOver == phase = "pass" /\ visit > Len(list)

NextPass ==
  /\ PassOver /\ Remaining # {} /\ progressed
  /\ visit' = 1 /\ progressed' = FALSE
  /\ UNCHANGED <<phase, order, reading, kahn>>

Left == SelectSeq(list, LAMBDA n : n \notin Placed)

\* When no pass would help, the rest is taken as it is.
EndOrdering ==
  /\ PassOver /\ (Remaining = {} \/ ~progressed)
  /\ phase' = "ordered"
  /\ order' = IF Remaining = {} THEN order ELSE order \o Left
  /\ UNCHANGED <<visit, progressed, reading, kahn>>

-----------------------------------------------------------------------------
Next ==
  \/ \E h \in Headers : ReadHeader(h)
  \/ \E s \in RawSteps : ReadStep(s)
  \/ EndSteps \/ CheckReferences
  \/ \E n \in ready : Resolve(n)
  \/ Conclude \/ StartOrdering \/ VisitStep \/ NextPass \/ EndOrdering

Spec == Init /\ [][Next]_vars

-----------------------------------------------------------------------------
(* Properties. *)

Checked == {"accepted", "pass", "ordered"}

\* A set of steps each of which waits for another of them.
Knot(U) == U # {} /\ \A n \in U : Deps(n) \cap U # {}

\* Kahn's algorithm (_assert_no_dependency_cycles) accepts exactly the
\* definitions whose dependencies are known and free of cycles, whatever the
\* order in which it takes the steps.
AcceptedIffAcyclic ==
  /\ phase \in Checked =>
       /\ \A n \in Named : Deps(n) \subseteq Named
       /\ \A U \in SUBSET Named : ~Knot(U)
  /\ phase = "cyclic" => \E U \in SUBSET Named : Knot(U)

\* No step is ordered before a step it depends on, none twice, and the fallback
\* that appends the rest is never needed for what the parser accepted
\* (topo_order's "every step follows its dependencies" and, at runner.py:90,
\* "Shouldn't happen post-validation").
DependenciesFirst ==
  /\ \A i \in DOMAIN order :
       /\ Deps(order[i]) \subseteq {order[j] : j \in 1..(i - 1)}
       /\ \A j \in DOMAIN order : order[i] = order[j] => i = j
  /\ PassOver /\ ~progressed => Remaining = {}

\* What an executor answers "error" to before it has done anything: script.py's and
\* kubernetes_job.py's own look at their config and the site's, image_scan.py's
\* search for the scanner, and what raises where a mapping is expected, such as
\* policy.py's `checks` and a job's `env`.
ExecutorRefuses(s, site) ==
  \/ s.type \in JobTypes /\ s.image = "absent"
  \/ /\ s.type \in ScriptTypes
     /\ \/ ~site.inlineScripts
        \/ ~site.runnerImage
        \/ s.script # "text"
        \/ s.interpreter \notin {"absent", "bash", "python"}
  \/ s.type = "builtin.image_scan" /\ s.scanner \notin {"absent"} \cup Scanners
  \/ s.options = "misshapen"

\* What the parser knows nothing of, or does not look at.
LeftToTheRun(s, site) ==
  \/ s.type \in ScriptTypes /\ site # [inlineScripts |-> TRUE, runnerImage |-> TRUE]
  \/ s.type = "builtin.image_scan" /\ s.scanner \notin {"absent"} \cup Scanners
  \/ s.options = "misshapen"

\* A saved step is refused by its executor exactly for what the parser leaves to the
\* run: the site's settings, the name of the scanner (once there is an image to
\* scan), the shape of the options.  So what validation_pipeline_service.py:6 says ("a saved
\* pipeline is always runnable") is true of the keys the parser checks, its
\* timeout and its policy, which no executor finds missing, and of no more.
AcceptedIsRunnable ==
  phase \in Checked =>
    \A n \in Named :
      /\ \A site \in Sites : ExecutorRefuses(step[n], site) <=> LeftToTheRun(step[n], site)
      /\ step[n].timeout \in TimeoutBounds
      /\ step[n].policy \in FailurePolicy
=============================================================================
