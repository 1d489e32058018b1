--------------------------- MODULE MCAggregation ---------------------------
(***************************************************************************)
(* What lies between a pipeline's definition and its verdict and needs no  *)
(* thread: the definition and its order, the built-in checks, the text a   *)
(* container prints, the limits of what it uploads, the rollup; and the    *)
(* intake form with its risk rules.  They share no state, so a behaviour   *)
(* of this run is about one of them.                                       *)
(***************************************************************************)
EXTENDS PipelineDefinition, Checks, Results, Uploads, Forms

CONSTANTS
  MaxTokens,   \* how long a printed text is
  MaxFields    \* how many fields a form has

ASSUME BoundsAssumption == MaxTokens \in Nat /\ MaxFields \in Nat

VARIABLES
  topic,
  rollup,      \* a run's step results, one after the other
  printed,     \* what a container prints, token by token
  form,        \* a schema in the making
  answers      \* what a requester says

growing == <<rollup, printed, form, answers>>
mcVars == <<topic, growing, vars, checksVars, uploadVars>>

Answers == [flags : {{}}, classification : {"public", "confidential", "regulated"},
            sensitive : {"yes", "no", "unknown"}]

\* A machine that rests in a behaviour starts in one state.
Rests(t, value, S) == topic # t => value = CHOOSE x \in S : TRUE

MCInit ==
  /\ topic \in {"rollup", "printed", "form", "answers", "definition", "checks", "uploads"}
  /\ Init /\ ChecksInit /\ UploadsInit
  /\ Rests("checks", plan, Orders)
  /\ rollup = <<>> /\ printed = <<>> /\ form = <<>>
  /\ answers \in Answers /\ Rests("answers", answers, Answers)

AddStepResult(s) ==
  /\ topic = "rollup" /\ Len(rollup) < MaxSteps
  /\ rollup' = Append(rollup, s)
  /\ UNCHANGED <<printed, form, answers>>

PrintToken(token) ==
  /\ topic = "printed" /\ Len(printed) < MaxTokens
  /\ printed' = Append(printed, token)
  /\ UNCHANGED <<rollup, form, answers>>

AddSection(id, title) ==
  /\ topic = "form" /\ Len(form) < 2
  /\ form' = Append(form, [id |-> id, title |-> title, fields |-> <<>>])
  /\ UNCHANGED <<rollup, printed, answers>>

AddField(f) ==
  /\ topic = "form" /\ form # <<>> /\ Len(Fields(form)) < MaxFields
  /\ form' = [form EXCEPT ![Len(form)].fields = Append(@, f)]
  /\ UNCHANGED <<rollup, printed, answers>>

AddFlag(flag) ==
  /\ topic = "answers"
  /\ answers' = [answers EXCEPT !.flags = @ \cup {flag}]
  /\ UNCHANGED <<rollup, printed, form>>

-----------------------------------------------------------------------------
(* Values. *)

\* A step of a document, without a custom type.
Plain(name, deps) ==
  [shaped |-> TRUE, name |-> name, type |-> "builtin.policy", dependsOn |-> deps,
   timeout |-> NoTimeout, policy |-> "absent", image |-> "absent", script |-> "absent",
   interpreter |-> "absent", scanner |-> "absent", options |-> "sound"]

OddSteps ==
  LET p == Plain("a", {})
      job == [p EXCEPT !.type = "custom.kubernetes_job"]
      inline == [p EXCEPT !.type = "custom.script"]
      scan == [p EXCEPT !.type = "builtin.image_scan"]
  IN {[p EXCEPT !.shaped = FALSE], [p EXCEPT !.name = "other"], [p EXCEPT !.type = "other"],
      [p EXCEPT !.policy = "block"], [p EXCEPT !.policy = "other"],
      [p EXCEPT !.dependsOn = {"z"}], [p EXCEPT !.dependsOn = {"a"}],
      [p EXCEPT !.options = "misshapen"], [job EXCEPT !.image = "text", !.options = "misshapen"]}
     \cup {[scan EXCEPT !.scanner = s] : s \in {"absent", "trivy", "other"}}
     \cup {[p EXCEPT !.timeout = t] : t \in {0, 1, 3600, 3601}}
     \cup {[job EXCEPT !.image = i] : i \in Text}
     \cup {[inline EXCEPT !.script = s, !.interpreter = "bash"] : s \in Text}
     \cup {[inline EXCEPT !.script = "text", !.image = "text", !.interpreter = i] :
             i \in {"absent", "other"}}

\* Three steps with all dependencies among them, and steps that are odd.
SomeSteps ==
  OddSteps \cup
  UNION {{Plain(n, deps) : deps \in SUBSET ({"a", "b", "c"} \ {n})} : n \in {"a", "b", "c"}}

SomeHeaders ==
  {[valid |-> TRUE, policy |-> p] : p \in {"absent", "ignore", "other"}}
  \cup {[valid |-> FALSE, policy |-> "absent"]}

App == [path |-> <<"registry.io", "team", "app">>, tag |-> "v1"]
Nginx == [path |-> <<"nginx">>, tag |-> "none"]

Plainly == [image |-> App, privileged |-> FALSE, limited |-> TRUE, escalates |-> FALSE,
            caps |-> {}, user |-> "unset", nonRoot |-> "unset"]

CleanPod ==
  [name |-> "clean", namespace |-> "apps", hostNetwork |-> FALSE, hostPID |-> FALSE,
   volumes |-> {"emptyDir"}, labels |-> {"team"}, user |-> "unset", nonRoot |-> "unset",
   containers |-> {Plainly}, initContainers |-> {}]

\* A clean pod, one with a risky init container, and one whose pod says "root",
\* with a privileged container and a path of the host's.
SomePods ==
  {CleanPod,
   [CleanPod EXCEPT !.name = "init", !.initContainers =
      {[Plainly EXCEPT !.image = Nginx, !.caps = {"SYS_ADMIN"}]}],
   [CleanPod EXCEPT !.name = "root", !.namespace = "system", !.labels = {}, !.user = "root",
      !.volumes = {"hostPath"}, !.containers = {[Plainly EXCEPT !.privileged = TRUE]}]}

\* As it comes, with a restriction and without the toggles that can hide most, with
\* a misspelt severity, and with a misspelt scanner and `checks` of a wrong shape.
Default == [on |-> Toggles, scannerKnown |-> TRUE, mapping |-> TRUE, checks |-> DefaultChecks]

SomeConfigs ==
  {Default,
   [Default EXCEPT !.on = {"warnIfRunAsRoot", "warnOnHigh"},
      !.checks = [k \in {"allowed_registries", "misspelt"} |->
                    [severity |-> "low", values |-> {<<"registry.io", "team">>}]]],
   [Default EXCEPT !.on = {"warnIfHostPathMounts", "failOnCritical"},
      !.checks = [k \in {"required_labels"} |-> [severity |-> "worst", values |-> {"team"}]]],
   [Default EXCEPT !.scannerKnown = FALSE, !.mapping = FALSE]}

Step(kind, deps) == [kind |-> kind, dependsOn |-> deps]

\* One inventory, none, and two of which the steps after them take different ones.
SomeSequences ==
  {<<Step("inventory", <<>>), Step("security", <<1>>), Step("policy", <<>>), Step("scan", <<1>>)>>,
   <<Step("policy", <<>>), Step("security", <<>>), Step("scan", <<>>)>>,
   <<Step("inventory", <<>>), Step("inventory", <<1>>), Step("policy", <<>>),
     Step("security", <<3, 2>>)>>}

\* The steps of a pipeline read different keys, so one config does for all of them.
SomeOrders ==
  {[i \in DOMAIN steps |-> [kind |-> steps[i].kind, dependsOn |-> steps[i].dependsOn,
                            config |-> config]] : steps \in SomeSequences, config \in SomeConfigs}

SomeVulnerabilities == [i \in {App, Nginx} |-> IF i = App THEN {"low", "critical"} ELSE {"high"}]

\* Files of 0 (no content) to 3 (too large) units, of which a run may hold 4.
SomePosts == << <<1, 2, 2>>, <<0, 3, 1>> >>

TwoCoreFields ==
  [n \in {"purpose", "model"} |->
     [type |-> "text", required |-> n = "purpose", options |-> <<>>]]

Field(name, type, options) ==
  [name |-> name, label |-> "label", type |-> type, required |-> FALSE, options |-> options]

SomeFields ==
  {Field("purpose", "select", <<"x">>), Field("model", "text", <<>>),
   Field("team", "text", <<"x">>), Field("stage", "select", <<"x", "y">>),
   Field("stage", "select", <<"x", "x">>), Field("stage", "select", <<>>),
   Field("status", "text", <<>>), Field("Not A Name", "text", <<>>),
   [Field("team", "text", <<>>) EXCEPT !.label = "blank"]}

MCNext ==
  \/ /\ \/ \E s \in RollupInput : AddStepResult(s)
        \/ \E token \in Tokens : PrintToken(token)
        \/ \E id \in {"s1", "s2"}, title \in {"title", "blank"} : AddSection(id, title)
        \/ \E f \in SomeFields : AddField(f)
        \/ \E flag \in Flags : AddFlag(flag)
     /\ UNCHANGED <<topic, vars, checksVars, uploadVars>>
  \/ topic = "definition" /\ Next /\ UNCHANGED <<topic, growing, checksVars, uploadVars>>
  \/ topic = "checks" /\ ChecksNext /\ UNCHANGED <<topic, growing, vars, uploadVars>>
  \/ topic = "uploads" /\ UploadsNext /\ UNCHANGED <<topic, growing, vars, checksVars>>

MCSpec == MCInit /\ [][MCNext]_mcVars

-----------------------------------------------------------------------------
\* The loop with its two independent maxima (types.py aggregate_run) computes
\* the closed form the runner's model uses: the worst verdict of any step,
\* whatever the order of the steps, status and impact always in step.
LoopIsWorstOf == AggregateLoop(rollup) = AggregateRun(rollup)

\* The result object of whatever a container prints is the last one at the top
\* level (results.py extract_json_object and its tests).
LastObjectFound == FindsLastObject(printed)

\* No schema that an admin saves loses a built-in field or its meaning, and
\* saving what was saved changes nothing (form_schema_service.py
\* validate_and_canonicalize).
SavedFormKeepsCore == KeepsCore(form)

\* One more risky answer never lowers the risk (risk_service.py:8 "Rules only
\* escalate level; they never lower it.").
MoreFlagsNeverLowerRisk ==
  [][LET before == DeriveRisk(answers)
         after == DeriveRisk(answers')
     IN IF before = "unknown" THEN after = "unknown"
        ELSE RiskRank(before) <= RiskRank(after)]_answers
=============================================================================
