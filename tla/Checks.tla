------------------------------- MODULE Checks -------------------------------
(***************************************************************************)
(* The built-in steps of one run: the inventory of what is deployed in the *)
(* environment (validation/inventory.py) and the three executors that      *)
(* judge it (executors/kubernetes_security.py, policy.py, image_scan.py).  *)
(* The environment is live: pods come and go between the steps.            *)
(***************************************************************************)
EXTENDS Naturals, Sequences, FiniteSets, Aggregation

CONSTANTS
  Pods,        \* what a user may deploy
  Configs,     \* what a step may be configured with: [on, scannerKnown, mapping,
               \* checks], the toggles that are on, whether its scanner is registered,
               \* whether `checks` is a mapping, and [severity, values] by check
  Orders,      \* the built-in steps of pipelines in the order they run: [kind,
               \* dependsOn, config], the second a sequence of places
  Included,    \* the namespaces that the inventory step selects
  Vulnerable   \* the severities of each image's vulnerabilities

\* All of them are on unless the config says otherwise.
Toggles == {"denyPrivilegedContainers", "warnIfRunAsRoot", "warnIfMissingResourceLimits",
            "warnIfHostPathMounts", "warnIfHostNetwork", "failOnCritical", "warnOnHigh"}

ASSUME ChecksAssumption ==
  /\ Orders \subseteq Seq([kind : STRING, dependsOn : Seq(Nat), config : Configs])
  /\ \A config \in Configs : config.on \subseteq Toggles

VARIABLES
  cluster,     \* the pods deployed now
  plan,        \* the run's steps
  judged,      \* the inventory each step has taken or judged
  unscanned,   \* the images each step could not scan
  results      \* the statuses of the steps that are done

checksVars == <<cluster, plan, judged, unscanned, results>>

-----------------------------------------------------------------------------
(* collect_inventory. *)

\* A container's own setting wins over its pod's.
Inherit(own, pods) == IF own # "unset" THEN own ELSE pods

ContainerInfo(c, pod) ==
  [image |-> c.image, privileged |-> c.privileged, limited |-> c.limited,
   escalates |-> c.escalates, caps |-> c.caps,
   user |-> Inherit(c.user, pod.user), nonRoot |-> Inherit(c.nonRoot, pod.nonRoot)]

\* Mistaken: init containers are overlooked.
AllContainersMain(pod) == pod.containers

AllContainers(pod) == pod.containers \cup pod.initContainers

Workload(pod) ==
  [podName |-> pod.name, hostNetwork |-> pod.hostNetwork, hostPID |-> pod.hostPID,
   hostPath |-> "hostPath" \in pod.volumes, labels |-> pod.labels,
   containers |-> {ContainerInfo(c, pod) : c \in AllContainers(pod)}]

Inventory(pods) ==
  LET workloads == {Workload(p) : p \in pods}
  IN [workloads |-> workloads,
      images |-> {c.image : c \in UNION {w.containers : w \in workloads}}]

-----------------------------------------------------------------------------
(* Findings, as the set of their severities. *)

SevOrder == <<"none", "low", "medium", "high", "critical">>

Containers(workloads) == UNION {w.containers : w \in workloads}

Finding(found, severity) == IF found THEN {severity} ELSE {}

\* Both executors' mapping of the worst severity; another word raises.
StatusOf(severities) ==
  IF \E s \in severities : \A i \in DOMAIN SevOrder : SevOrder[i] # s THEN "error"
  ELSE IF severities \cap {"high", "critical"} # {} THEN "failed"
  ELSE IF severities \cap {"medium", "low"} # {} THEN "warning" ELSE "passed"

RiskyCaps == {"SYS_ADMIN", "NET_ADMIN", "ALL", "NET_RAW", "SYS_PTRACE"}

\* Detectably root; nothing is said of a container without any setting.
IsRoot(c) ==
  /\ c.nonRoot # "true"
  /\ c.user = "root" \/ (c.user = "unset" /\ c.nonRoot = "false")

\* analyze_workloads: without its toggle a check finds nothing, but a privileged
\* container is then still of medium severity.
AnalyzeWorkloads(workloads, on) ==
  (UNION {Finding(\/ w.hostPID
                  \/ w.hostNetwork /\ "warnIfHostNetwork" \in on
                  \/ w.hostPath /\ "warnIfHostPathMounts" \in on, "high") : w \in workloads})
  \cup (UNION {Finding(c.caps \cap RiskyCaps # {}, "high")
               \cup Finding(c.privileged,
                            IF "denyPrivilegedContainers" \in on THEN "high" ELSE "medium")
               \cup Finding(c.escalates \/ (IsRoot(c) /\ "warnIfRunAsRoot" \in on), "medium")
               \cup Finding(~c.limited /\ "warnIfMissingResourceLimits" \in on, "low")
               : c \in Containers(workloads)})

-----------------------------------------------------------------------------
(* The policy step.  An image is [path, tag]; the path's first part is a   *)
(* registry if it is in Registries.                                        *)

Registries == {"localhost", "registry.io"}

RegistryHost(image) == IF Head(image.path) \in Registries THEN Head(image.path) ELSE "docker.io"

RegistryAllowed(image, allowed) ==
  \E a \in allowed :
    \/ a = <<RegistryHost(image)>>
    \/ Len(a) <= Len(image.path) /\ SubSeq(image.path, 1, Len(a)) = a

DefaultSeverity ==
  [no_privileged_containers |-> "high", require_resource_limits |-> "low",
   deny_latest_tag |-> "medium", allowed_registries |-> "high", required_labels |-> "low",
   banned_capabilities |-> "high", host_path_mounts |-> "high"]

\* The configuration that stands for an omitted `checks`.
DefaultChecks ==
  [check \in {"no_privileged_containers", "require_resource_limits", "deny_latest_tag",
              "host_path_mounts", "banned_capabilities"} |->
     [severity |-> "unset", values |-> {}]]

DefaultBannedCaps == RiskyCaps

Fires(check, values, workloads) ==
  CASE check = "no_privileged_containers" -> \E c \in Containers(workloads) : c.privileged
    [] check = "require_resource_limits" -> \E c \in Containers(workloads) : ~c.limited
    [] check = "deny_latest_tag" ->
         \E c \in Containers(workloads) : c.image.tag \in {"none", "latest"}
    [] check = "allowed_registries" ->
         \E c \in Containers(workloads) : ~RegistryAllowed(c.image, values)
    [] check = "required_labels" -> \E w \in workloads : ~(values \subseteq w.labels)
    [] check = "banned_capabilities" ->
         \E c \in Containers(workloads) :
           c.caps \cap (IF values = {} THEN DefaultBannedCaps ELSE values) # {}
    [] check = "host_path_mounts" -> \E w \in workloads : w.hostPath

\* evaluate_policy; a check it does not know is skipped.
EvaluatePolicy(workloads, checks) ==
  UNION {Finding(Fires(k, checks[k].values, workloads),
                 IF checks[k].severity = "unset" THEN DefaultSeverity[k]
                 ELSE checks[k].severity)
         : k \in DOMAIN checks \cap DOMAIN DefaultSeverity}

\* `checks.items()` of what is no mapping raises, and so the step fails.
PolicyStatus(workloads, config) ==
  IF config.mapping THEN StatusOf(EvaluatePolicy(workloads, config.checks)) ELSE "error"

-----------------------------------------------------------------------------
(* The image scan; `failed`: the images whose scan failed. *)

\* A scanner that is not registered scans none.
MayFail(images, config) == IF config.scannerKnown THEN SUBSET images ELSE {images}

\* What is found weighs only with its toggle; the failures count after that.
ScanStatus(images, failed, on) ==
  LET found == UNION {Vulnerable[image] : image \in images \ failed}
  IN IF "critical" \in found /\ "failOnCritical" \in on THEN "failed"
     ELSE IF "high" \in found /\ "warnOnHigh" \in on THEN "warning"
     ELSE IF failed # {} THEN "error" ELSE "passed"

-----------------------------------------------------------------------------
ChecksInit ==
  /\ cluster = {}
  /\ plan \in Orders
  /\ judged = <<>> /\ unscanned = <<>> /\ results = <<>>

Deploy(p) ==
  /\ p \notin cluster
  /\ cluster' = cluster \cup {p}
  /\ UNCHANGED <<plan, judged, unscanned, results>>

Remove(p) ==
  /\ cluster' = cluster \ {p}
  /\ UNCHANGED <<plan, judged, unscanned, results>>

Kind(i) == plan[i].kind

Current == Len(results) + 1

Config == plan[Current].config

Runs(kind) == Current <= Len(plan) /\ Kind(Current) = kind

\* The step that runs ends, with a status for what it saw.
Ends(inventory, failed, status) ==
  /\ judged' = Append(judged, inventory)
  /\ unscanned' = Append(unscanned, failed)
  /\ results' = Append(results, status)
  /\ UNCHANGED <<cluster, plan>>

\* What listing the pods of some namespaces gives: a refused call counts as
\* an empty answer.
Listed(namespaces) ==
  {Inventory({p \in cluster : p.namespace \in namespaces}), Inventory({})}

AnyNamespace == {p.namespace : p \in Pods}

TakeInventory ==
  /\ Runs("inventory")
  /\ \E seen \in Listed(Included) : Ends(seen, {}, "passed")

\* No connection: the exception ends the step, and leaves no inventory.
InventoryRaises == Runs("inventory") /\ Ends(Inventory({}), {}, "error")

Inventories == {i \in DOMAIN results : Kind(i) = "inventory"}

Earliest(S) == CHOOSE i \in S : \A j \in S : i <= j

\* upstream_of_type: the first inventory among those the step depends on, or
\* without such a dependency the first of all, be it one that failed.
Upstream ==
  LET declared == plan[Current].dependsOn
      own == {k \in DOMAIN declared : declared[k] \in Inventories}
  IN IF own # {} THEN {declared[Earliest(own)]}
     ELSE IF Inventories # {} THEN {Earliest(Inventories)} ELSE {}

\* The inventory that this step took, if it passed.
FromUpstream == {judged[i] : i \in {j \in Upstream : results[j] = "passed"}}

\* Mistaken: each step takes an inventory of its own.
EvidenceFresh == Listed(AnyNamespace)

\* What the other steps judge: the inventory, or without one their own, of
\* every namespace.
Evidence == IF FromUpstream # {} THEN FromUpstream ELSE Listed(AnyNamespace)

\* Without a connection they do not get one of their own.
EvidenceRaises ==
  /\ \E kind \in {"security", "policy", "scan"} : Runs(kind)
  /\ FromUpstream = {}
  /\ Ends(Inventory({}), {}, "error")

Secure ==
  /\ Runs("security")
  /\ \E seen \in Evidence : Ends(seen, {}, StatusOf(AnalyzeWorkloads(seen.workloads, Config.on)))

Police ==
  /\ Runs("policy")
  /\ \E seen \in Evidence : Ends(seen, {}, PolicyStatus(seen.workloads, Config))

Scan ==
  /\ Runs("scan")
  /\ \E seen \in Evidence : \E failed \in MayFail(seen.images, Config) :
       Ends(seen, failed, ScanStatus(seen.images, failed, Config.on))

ChecksNext ==
  \/ \E p \in Pods : Deploy(p) \/ Remove(p)
  \/ TakeInventory \/ InventoryRaises \/ EvidenceRaises \/ Secure \/ Police \/ Scan

ChecksSpec == ChecksInit /\ [][ChecksNext]_checksVars

-----------------------------------------------------------------------------
(* Properties. *)

\* Step i is the inventory that step j is meant to judge: j depends on no other
\* one, and on i unless i comes before any other.
IsFor(i, j) ==
  /\ i < j /\ Kind(i) = "inventory" /\ Kind(j) # "inventory"
  /\ LET declared == {plan[j].dependsOn[k] : k \in DOMAIN plan[j].dependsOn}
     IN \A k \in 1..(j - 1) \ {i} :
          Kind(k) = "inventory" => k \notin declared /\ (i \in declared \/ i < k)

\* The steps that are meant to judge an inventory judge that one, one and the
\* same, although pods come and go while the run goes on
\* (_load_upstream_workloads and _images_from_upstream read different copies).
JudgedTogether ==
  \A i, j \in DOMAIN results :
    IsFor(i, j) /\ results[i] = "passed" => judged[j] = judged[i]

\* The user Kubernetes starts a container as, when its pod says so.
RunsAsRoot(c, pod) ==
  /\ Inherit(c.user, pod.user) = "root"
  /\ Inherit(c.nonRoot, pod.nonRoot) # "true"

Privileged(c) == c.privileged \/ c.caps \cap RiskyCaps # {}

\* A pod that a passed security step has seen.  Its toggles can silence what it
\* says of root, of limits, of host paths and of the host's network, but not of
\* privileges, of escalation and of the host's processes.
Harmless(pod, on) ==
  /\ ~pod.hostPID
  /\ "warnIfHostNetwork" \in on => ~pod.hostNetwork
  /\ "warnIfHostPathMounts" \in on => "hostPath" \notin pod.volumes
  /\ \A c \in pod.containers \cup pod.initContainers :
       /\ ~Privileged(c) /\ ~c.escalates
       /\ "warnIfRunAsRoot" \in on => ~RunsAsRoot(c, pod)
       /\ "warnIfMissingResourceLimits" \in on => c.limited

\* A step that passed hides nothing that it is configured to tell of the pods in
\* its inventory, init containers included.  The security step: what its toggles
\* leave on, and privileges in any case.  The policy step with its default checks:
\* no privileged container, none without limits.  The scan: every image was
\* scanned, and none has vulnerabilities that failOnCritical or warnOnHigh, if they
\* are on, make a matter of (off, a critical one passes: image_scan.py:124).
PassHidesNothing ==
  \A i \in DOMAIN results : results[i] = "passed" =>
    \A pod \in {p \in Pods : Workload(p) \in judged[i].workloads} :
      /\ Kind(i) = "security" => Harmless(pod, plan[i].config.on)
      /\ \A c \in pod.containers \cup pod.initContainers :
           /\ Kind(i) = "policy" /\ plan[i].config.checks = DefaultChecks
                => ~Privileged(c) /\ c.limited
           /\ Kind(i) = "scan" =>
                /\ c.image \notin unscanned[i]
                /\ "failOnCritical" \in plan[i].config.on => "critical" \notin Vulnerable[c.image]
                /\ "warnOnHigh" \in plan[i].config.on => "high" \notin Vulnerable[c.image]
=============================================================================
